----------------------------- MODULE LandProofs -----------------------------
(***************************************************************************)
(* Proofs about the parts of Land, each for every behaviour of the whole:   *)
(* its other parts leave its state alone.  Chase: what waits for a client   *)
(* is about monsters it shows, and a monster keeps its distance.  Travel:   *)
(* places, waystones, gates and scrolls.  Content: what the server saved    *)
(* stays on disk, and what a build is sure to leave.  Dungeon: the maze's   *)
(* openings meet, its packs fit, and its generator comes to an end.  Mobs:  *)
(* client and server read the same stats, and bosses stand in their arenas.*)
(***************************************************************************)
EXTENDS Land, FiniteSetTheorems, SequenceTheorems, WellFoundedInduction, TLAPS
-----------------------------------------------------------------------------
(* Numbers, and what is computed along them *)

LEMMA BelowIsWellFounded ==
    \E R : IsWellFoundedOn(R, Nat) /\ \A x, y \in Nat : x < y => <<x, y>> \in R
<1>1. IsWellFoundedOn(OpToRel(<, Nat), Nat)
  BY NatLessThanWellFounded
<1>2. ASSUME NEW x \in Nat, NEW y \in Nat, x < y PROVE <<x, y>> \in OpToRel(<, Nat)
  BY <1>2, Zenon DEF OpToRel
<1>3. QED
  BY <1>1, <1>2, Zenon

(* A set of numbers has a least one.                                       *)
LEMMA HasLeast ==
    ASSUME NEW I \in SUBSET Nat, I # {}
    PROVE  \E k \in I : \A j \in I : k <= j
<1>1. PICK R : IsWellFoundedOn(R, Nat) /\ \A x, y \in Nat : x < y => <<x, y>> \in R
  BY BelowIsWellFounded
<1>2. IsWellFoundedOn(R, Nat) /\ I \subseteq Nat /\ I # {}
  BY <1>1
<1>3. PICK k \in I : \A j \in I : ~ (<<j, k>> \in R)
  BY <1>2, WFMin, Zenon
<1>4. ASSUME NEW j \in I PROVE k <= j
  <2>1. j \in Nat /\ k \in Nat
    OBVIOUS
  <2>2. ~(j < k)
    BY <1>1, <1>3, <2>1, Zenon
  <2>3. QED
    BY <2>1, <2>2
<1>5. QED
  BY <1>4

(* A set of numbers that goes on from 0 holds them all.                    *)
LEMMA Induct ==
    ASSUME NEW P \in SUBSET Nat, 0 \in P, \A k \in P : k + 1 \in P
    PROVE  P = Nat
<1> SUFFICES ASSUME NEW m \in Nat \ P
             PROVE  FALSE
  OBVIOUS
<1>1. Nat \ P \in SUBSET Nat /\ Nat \ P # {}
  OBVIOUS
<1>2. PICK k \in Nat \ P : \A j \in Nat \ P : k <= j
  BY <1>1, HasLeast
<1>3. k # 0 /\ k - 1 \in Nat
  BY <1>2
<1>4. k - 1 \in P
  BY <1>2, <1>3
<1>5. (k - 1) + 1 \in P /\ (k - 1) + 1 = k
  BY <1>3, <1>4
<1>6. QED
  BY <1>5

(* What a step never leads out of S is in S after any number of steps.     *)
LEMMA Stays ==
    ASSUME NEW S, NEW n \in Nat, NEW f, f[0] \in S,
           \A k \in 1..n : f[k - 1] \in S => f[k] \in S
    PROVE  \A k \in 0..n : f[k] \in S
<1> DEFINE P == {k \in Nat : k <= n => f[k] \in S}
<1>1. P \in SUBSET Nat /\ 0 \in P
  OBVIOUS
<1>2. ASSUME NEW k \in P PROVE k + 1 \in P
  <2> SUFFICES ASSUME k + 1 <= n PROVE f[k + 1] \in S
    OBVIOUS
  <2>1. k \in Nat /\ k <= n /\ f[k] \in S
    OBVIOUS
  <2>2. k + 1 \in 1..n /\ (k + 1) - 1 = k
    BY <2>1
  <2>3. f[(k + 1) - 1] \in S
    BY <2>1, <2>2
  <2>4. QED
    BY <2>2, <2>3
<1> HIDE DEF P
<1>3. P = Nat
  BY <1>1, <1>2, Induct
<1>4. QED
  BY <1>3 DEF P

(* A recursion over 0..n has a solution.                                   *)
Goes(f, a, n, g) == f[0] = a /\ \A k \in 1..n : f[k] = g[<<f[k - 1], k>>]

LEMMA Recurs ==
    ASSUME NEW S, NEW a \in S, NEW n \in Nat, NEW g \in [S \X (1..n) -> S]
    PROVE  \E f \in [0..n -> S] : Goes(f, a, n, g)
<1> USE DEF Goes
<1> DEFINE P == {m \in Nat : m <= n =>
                    \E f \in [0..m -> S] : f[0] = a /\ \A k \in 1..m : f[k] = g[<<f[k - 1], k>>]}
<1>1. P \in SUBSET Nat
  OBVIOUS
<1>2. 0 \in P
  <2> DEFINE f == [k \in 0..0 |-> a]
  <2>1. f \in [0..0 -> S] /\ f[0] = a /\ \A k \in 1..0 : f[k] = g[<<f[k - 1], k>>]
    OBVIOUS
  <2>2. QED
    BY <2>1
<1>3. ASSUME NEW m \in P PROVE m + 1 \in P
  <2> SUFFICES ASSUME m + 1 <= n
               PROVE  \E f \in [0..(m + 1) -> S] :
                        f[0] = a /\ \A k \in 1..(m + 1) : f[k] = g[<<f[k - 1], k>>]
    OBVIOUS
  <2>1. m \in Nat /\ m <= n
    OBVIOUS
  <2>2. PICK f \in [0..m -> S] : f[0] = a /\ \A k \in 1..m : f[k] = g[<<f[k - 1], k>>]
    BY <2>1
  <2> DEFINE h == [k \in 0..(m + 1) |-> IF k \in 0..m THEN f[k] ELSE g[<<f[m], m + 1>>]]
  <2>3. <<f[m], m + 1>> \in S \X (1..n)
    BY <2>1, <2>2
  <2>4. g[<<f[m], m + 1>>] \in S
    BY <2>3
  <2>5. h \in [0..(m + 1) -> S]
    BY <2>2, <2>4
  <2>6. h[0] = a
    BY <2>1, <2>2
  <2>7. ASSUME NEW k \in 1..(m + 1) PROVE h[k] = g[<<h[k - 1], k>>]
    <3>1. k - 1 \in 0..m /\ k - 1 \in 0..(m + 1) /\ k \in 0..(m + 1)
      BY <2>1
    <3>2. h[k - 1] = f[k - 1]
      BY <3>1
    <3>3. CASE k \in 1..m
      <4>1. k \in 0..m
        BY <2>1, <3>3
      <4>2. h[k] = f[k]
        BY <3>1, <4>1
      <4>3. QED
        BY <2>2, <3>2, <3>3, <4>2
    <3>4. CASE k = m + 1
      <4>1. k \notin 0..m /\ k - 1 = m
        BY <2>1, <3>4
      <4>2. h[k] = g[<<f[m], m + 1>>]
        BY <3>1, <4>1
      <4>3. QED
        BY <3>2, <3>4, <4>1, <4>2
    <3>5. QED
      BY <2>1, <3>3, <3>4
  <2> HIDE DEF h
  <2>8. QED
    BY <2>5, <2>6, <2>7
<1> HIDE DEF P
<1>4. n \in P
  BY <1>1, <1>2, <1>3, Induct
<1>5. QED
  BY <1>4 DEF P


RankIn(I, k) == Cardinality({j \in I : j <= k})

(* A finite set of numbers has one number of each rank.                    *)
LEMMA RankOnto ==
    ASSUME NEW I \in SUBSET Nat, IsFiniteSet(I)
    PROVE  /\ Cardinality(I) \in Nat
           /\ \A k \in I : RankIn(I, k) \in 1..Cardinality(I)
           /\ \A k, l \in I : RankIn(I, k) = RankIn(I, l) => k = l
           /\ \A n \in 1..Cardinality(I) : \E k \in I : RankIn(I, k) = n
<1> DEFINE c == Cardinality(I)
           r == [k \in I |-> RankIn(I, k)]
           Below(k) == {j \in I : j <= k}
<1>1. c \in Nat
  BY FS_CardinalityType
<1>2. \A k \in I : /\ IsFiniteSet(Below(k))
                   /\ Cardinality(Below(k)) \in 1..c
  <2> SUFFICES ASSUME NEW k \in I
               PROVE  IsFiniteSet(Below(k)) /\ Cardinality(Below(k)) \in 1..c
    OBVIOUS
  <2>1. Below(k) \in SUBSET I
    OBVIOUS
  <2>2. IsFiniteSet(Below(k)) /\ Cardinality(Below(k)) <= c
    BY <2>1, FS_Subset
  <2>3. Cardinality(Below(k)) \in Nat
    BY <2>2, FS_CardinalityType
  <2>4. Below(k) # {}
    <3>1. k \in Below(k)
      OBVIOUS
    <3>2. QED
      BY <3>1
  <2>5. Cardinality(Below(k)) # 0
    BY <2>2, <2>4, FS_EmptySet
  <2> HIDE DEF Below, c
  <2>6. QED
    BY <1>1, <2>2, <2>3, <2>5
<1>3. ASSUME NEW k \in I, NEW l \in I, k < l
      PROVE  Cardinality(Below(k)) # Cardinality(Below(l))
  <2>1. Below(k) \in SUBSET Below(l)
    <3>1. k \in Nat /\ l \in Nat /\ \A j \in I : j \in Nat
      OBVIOUS
    <3>2. \A j \in I : j <= k => j <= l
      BY <1>3, <3>1
    <3>3. QED
      BY <3>2
  <2>2. l \in Below(l) /\ l \notin Below(k)
    BY <1>3
  <2>3. IsFiniteSet(Below(l))
    BY <1>2
  <2> HIDE DEF Below
  <2>4. QED
    BY <2>1, <2>2, <2>3, FS_Subset
<1>4. \A k, l \in I : RankIn(I, k) = RankIn(I, l) => k = l
  BY <1>3 DEF RankIn
<1>5. r \in Injection(I, 1..c)
  <2>1. r \in [I -> 1..c]
    BY <1>2 DEF RankIn
  <2>2. IsInjective(r)
    BY <1>4 DEF IsInjective
  <2> HIDE DEF r, c
  <2>3. QED
    BY <2>1, <2>2 DEF Injection
<1>6. IsFiniteSet(1..c) /\ Cardinality(1..c) = c
  <2> HIDE DEF c
  <2>1. QED
    BY <1>1, FS_Interval
<1>7. r \in Surjection(I, 1..c)
  <2> HIDE DEF r
  <2>1. QED
    BY <1>5, <1>6, FS_Injection
<1>8. \A n \in 1..c : \E k \in I : r[k] = n
  <2> HIDE DEF r, c
  <2>1. QED
    BY <1>7 DEF Surjection
<1>9. QED
  BY <1>1, <1>2, <1>4, <1>8 DEF RankIn

-----------------------------------------------------------------------------
(* Chase: monsters and what clients are sent of them.  A queued update is   *)
(* about a monster the client shows because updates are only made for       *)
(* tracked monsters, a client shows every tracked monster, and the kill     *)
(* that takes a monster from the screens takes its updates from the queues. *)

Life == {"unborn", "up", "dying", "gone"}
Chaser ==
    [at : Pursuit!Point, target : 0 .. MaxId, life : Life,
     move : 0 .. MoveEvery, follow : 0 .. FollowEvery,
     swing : 0 .. SwingEvery, clamp : 0 .. ClampEvery, sim : SUBSET Fighter]
Waiting == [mob : Mob, kind : {"follow", "attack", "move"}, dest : Int]

ChaseTypes ==
    /\ model \in Models /\ avatar \in [Fighter -> 0 .. MaxId] /\ pos \in [Fighter -> Pursuit!Point]
    /\ mob \in [Mob -> Chaser]
    /\ latch \in [Fighter -> BOOLEAN] /\ shown \in [Fighter -> SUBSET Mob]
    /\ queue \in [Fighter -> SUBSET Waiting]
    /\ nextId \in 1 .. MaxId + 1 /\ steps \in 0 .. MaxSteps

Shows == \A p \in Pursuit!Here : Pursuit!Tracked \subseteq shown[p]
Queued == \A p \in Pursuit!Here : \A u \in queue[p] : u.mob \in shown[p]

(* The inductive invariant.                                                *)
Chasing == ChaseTypes /\ Shows /\ Queued

-----------------------------------------------------------------------------
(* The nearest player *)

LEMMA Seniors ==
    IsFiniteSet(Fighter) /\ Seniority \in [Fighter -> 1 .. Cardinality(Fighter)]
BY PursuitAssumption DEF Pursuit!SeniorityAssumption,
   Pursuit!IsFiniteSet, IsFiniteSet, Pursuit!Cardinality, Cardinality

(* Some player in the radius is nearer than all others, or as near and the *)
(* latest of those.                                                        *)
LEMMA NearestInRadius ==
    ASSUME ChaseTypes, NEW m \in Mob, Pursuit!InRadius(m) # {}
    PROVE  Pursuit!Nearest(m) \in Pursuit!InRadius(m)
<1> DEFINE S == Pursuit!InRadius(m)
           far(p) == Pursuit!Distance(pos[p], mob[m].at)
           rank(p) == Cardinality(Fighter) - Seniority[p]
<1>1. \A p \in Fighter : far(p) \in Nat
  <2>1. mob[m].at \in Pursuit!Point /\ pos \in [Fighter -> Pursuit!Point]
    BY DEF ChaseTypes, Chaser
  <2>2. QED
    BY <2>1, PursuitAssumption DEF Pursuit!Point, Pursuit!Distance, Pursuit!RangeAssumption
<1>2. Cardinality(Fighter) \in Nat
  BY Seniors, FS_CardinalityType
<1>3. \A p \in Fighter : Seniority[p] \in 1 .. Cardinality(Fighter)
  BY Seniors
<1>4. \A p \in Fighter : rank(p) \in Nat /\ Seniority[p] \in Nat
  BY <1>2, <1>3
<1>5. S \subseteq Fighter /\ S # {}
  BY DEF Pursuit!InRadius, Pursuit!Here
<1>6. PICK d \in {far(p) : p \in S} : \A e \in {far(p) : p \in S} : d <= e
  <2>1. {far(p) : p \in S} \subseteq Nat /\ {far(p) : p \in S} # {}
    BY <1>1, <1>5
  <2>2. QED
    BY <2>1, HasLeast
<1> DEFINE K == {p \in S : far(p) = d}
<1>7. PICK r \in {rank(p) : p \in K} : \A s \in {rank(p) : p \in K} : r <= s
  <2>1. {rank(p) : p \in K} \subseteq Nat /\ {rank(p) : p \in K} # {}
    BY <1>4, <1>5, <1>6
  <2>2. QED
    BY <2>1, HasLeast
<1>8. PICK p \in K : rank(p) = r
  BY <1>7
<1>9. ASSUME NEW q \in S
      PROVE  far(p) < far(q) \/ (far(p) = far(q) /\ Seniority[p] >= Seniority[q])
  <2>1. far(p) \in Nat /\ far(q) \in Nat /\ far(p) <= far(q)
    BY <1>1, <1>5, <1>6, <1>8
  <2>2. CASE far(p) = far(q)
    <3>1. rank(p) <= rank(q)
      BY <1>7, <1>8, <2>2
    <3>2. QED
      BY <1>2, <1>4, <1>5, <1>8, <2>2, <3>1
  <2>3. QED
    BY <2>1, <2>2
<1>10. p \in S
  BY <1>8
<1> HIDE DEF K
<1>11. QED
  BY <1>9, <1>10 DEF Pursuit!Nearest

-----------------------------------------------------------------------------
(* Pursuit!Aim and step *)

LEMMA AimType ==
    ASSUME ChaseTypes, NEW m \in Mob
    PROVE  /\ Pursuit!Aim(m) \in 0 .. MaxId
           /\ Pursuit!Aim(m) # 0 => Pursuit!Quarry(m) \in Pursuit!Here /\ avatar[Pursuit!Quarry(m)] = Pursuit!Aim(m)
<1>1. /\ avatar \in [Fighter -> 0 .. MaxId] /\ mob[m].target \in 0 .. MaxId
      /\ 0 \in 0 .. MaxId
  BY PursuitAssumption DEF ChaseTypes, Chaser, Pursuit!BoundAssumption
<1>2. Pursuit!Aim(m) \in 0 .. MaxId /\ (Pursuit!Aim(m) # 0 => \E p \in Pursuit!Here : avatar[p] = Pursuit!Aim(m))
  <2>1. CASE mob[m].target = 0
    <3>1. CASE Pursuit!InRadius(m) = {}
      BY <1>1, <2>1, <3>1 DEF Pursuit!Aim
    <3>2. CASE Pursuit!InRadius(m) # {}
      <4>1. Pursuit!Nearest(m) \in Pursuit!Here /\ Pursuit!Nearest(m) \in Fighter
        BY <3>2, NearestInRadius DEF Pursuit!InRadius, Pursuit!Here
      <4>2. Pursuit!Aim(m) = avatar[Pursuit!Nearest(m)]
        BY <2>1, <3>2 DEF Pursuit!Aim
      <4>3. QED
        BY <1>1, <4>1, <4>2
    <3>3. QED
      BY <3>1, <3>2
  <2>2. CASE mob[m].target # 0
    BY <1>1, <2>2 DEF Pursuit!Aim
  <2>3. QED
    BY <2>1, <2>2
<1>3. QED
  BY <1>2 DEF Pursuit!Quarry

(* A step toward a target outside the ring ends on the line, between the   *)
(* monster and the ring, and so does the spot the client is sent to.       *)
LEMMA StepKeepsDistance ==
    ASSUME ChaseTypes, NEW m \in Mob, Pursuit!Aim(m) # 0
    PROVE  /\ Pursuit!Stepped(m) \in Pursuit!Point /\ Pursuit!Destination(m) \in Int
           /\ ~Pursuit!Contact(m) => /\ Pursuit!Distance(pos[Pursuit!Quarry(m)], Pursuit!Stepped(m)) >= Ring
                             /\ Pursuit!Distance(pos[Pursuit!Quarry(m)], Pursuit!Destination(m)) >= Ring
           /\ Pursuit!Contact(m) => Pursuit!Stepped(m) = mob[m].at /\ Pursuit!Destination(m) = mob[m].at
<1> DEFINE x == mob[m].at
           y == pos[Pursuit!Quarry(m)]
<1>1. x \in 0 .. Length /\ y \in 0 .. Length
  <2>1. Pursuit!Quarry(m) \in Fighter
    BY AimType DEF Pursuit!Here
  <2>2. QED
    BY <2>1 DEF ChaseTypes, Chaser, Pursuit!Point
<1>2. Ring \in Nat /\ Speed \in Nat /\ Length \in Nat /\ Ring >= 1
  BY PursuitAssumption DEF Pursuit!RangeAssumption
<1>3. CASE Pursuit!Contact(m)
  BY <1>1, <1>3 DEF Pursuit!Stepped, Pursuit!Destination, Pursuit!Point
<1>4. CASE ~Pursuit!Contact(m)
  <2>1. /\ Pursuit!Stepped(m) = x + Pursuit!Toward(m) * Pursuit!StepLength(m)
        /\ Pursuit!Destination(m) = y - Pursuit!Toward(m) * Ring
        /\ Pursuit!Gap(m) = Pursuit!Distance(y, x) /\ ~(Pursuit!Gap(m) <= Ring)
        /\ Pursuit!Toward(m) = (IF y > x THEN 1 ELSE -1)
        /\ Pursuit!StepLength(m) = Pursuit!Less(Speed, Pursuit!Gap(m) - Ring)
    BY <1>4 DEF Pursuit!Stepped, Pursuit!Destination, Pursuit!Gap, Pursuit!Contact, Pursuit!Toward, Pursuit!StepLength
  <2>2. CASE y > x
    <3>1. Pursuit!Gap(m) = y - x /\ Pursuit!Toward(m) = 1
      BY <1>1, <2>1, <2>2 DEF Pursuit!Distance
    <3>2. Pursuit!StepLength(m) \in 0 .. (y - x - Ring)
      BY <1>1, <1>2, <2>1, <3>1 DEF Pursuit!Less
    <3>3. Pursuit!Stepped(m) = x + Pursuit!StepLength(m) /\ Pursuit!Destination(m) = y - Ring
      BY <1>1, <1>2, <2>1, <3>1, <3>2
    <3>4. QED
      BY <1>1, <1>2, <1>4, <3>2, <3>3 DEF Pursuit!Distance, Pursuit!Point
  <2>3. CASE ~(y > x)
    <3>1. Pursuit!Gap(m) = x - y /\ Pursuit!Toward(m) = -1
      BY <1>1, <2>1, <2>3 DEF Pursuit!Distance
    <3>2. Pursuit!StepLength(m) \in 0 .. (x - y - Ring)
      BY <1>1, <1>2, <2>1, <3>1 DEF Pursuit!Less
    <3>3. Pursuit!Stepped(m) = x - Pursuit!StepLength(m) /\ Pursuit!Destination(m) = y + Ring
      BY <1>1, <1>2, <2>1, <3>1, <3>2
    <3>4. QED
      BY <1>1, <1>2, <1>4, <3>2, <3>3 DEF Pursuit!Distance, Pursuit!Point
  <2>4. QED
    BY <2>2, <2>3
<1>5. QED
  BY <1>3, <1>4

LEMMA OlderType ==
    ASSUME NEW r \in Chaser
    PROVE  Pursuit!Older(r) \in Chaser /\ Pursuit!Older(r).life = r.life /\ Pursuit!Older(r).at = r.at
<1>1. \A n, e \in Nat : n <= e => Pursuit!Age(n, e) \in 0 .. e
  BY DEF Pursuit!Age, Pursuit!Less
<1>2. /\ Pursuit!Age(r.move, MoveEvery) \in 0 .. MoveEvery
      /\ Pursuit!Age(r.follow, FollowEvery) \in 0 .. FollowEvery
      /\ Pursuit!Age(r.swing, SwingEvery) \in 0 .. SwingEvery
      /\ Pursuit!Age(r.clamp, ClampEvery) \in 0 .. ClampEvery
  BY <1>1, PursuitAssumption DEF Chaser, Pursuit!IntervalAssumption
<1>3. QED
  BY <1>2 DEF Pursuit!Older, Chaser

LEMMA DrivenType ==
    ASSUME ChaseTypes, NEW m \in Mob
    PROVE  /\ Pursuit!Driven(m) \in Chaser /\ Pursuit!Driven(m).life = mob[m].life
           /\ Pursuit!Driven(m).at # mob[m].at =>
                 /\ Pursuit!Aim(m) # 0 /\ Pursuit!Driven(m).target = Pursuit!Aim(m)
                 /\ Pursuit!Driven(m).at = Pursuit!Stepped(m)
           /\ Pursuit!Sends(m) => Pursuit!Driven(m).target = Pursuit!Aim(m)
<1> DEFINE r == Pursuit!Older(mob[m])
<1>1. r \in Chaser /\ r.life = mob[m].life /\ r.at = mob[m].at
  BY OlderType DEF ChaseTypes
<1>2. /\ 0 \in 0 .. MaxId /\ 0 \in 0 .. MoveEvery /\ 0 \in 0 .. FollowEvery
      /\ 0 \in 0 .. SwingEvery /\ 0 \in 0 .. ClampEvery
  BY PursuitAssumption DEF Pursuit!BoundAssumption, Pursuit!IntervalAssumption
<1>3. CASE m \notin Pursuit!Tracked
  <2>1. Pursuit!Driven(m) = r /\ ~Pursuit!Sends(m)
    BY <1>3 DEF Pursuit!Driven, Pursuit!Sends, Pursuit!Tracked, Pursuit!IsDead
  <2>2. QED
    BY <1>1, <2>1
<1>4. CASE m \in Pursuit!Tracked /\ (Pursuit!IsDead(m) \/ Pursuit!Aim(m) = 0)
  <2>1. Pursuit!Driven(m) = [r EXCEPT !.target = 0] /\ ~Pursuit!Sends(m)
    BY <1>4 DEF Pursuit!Driven, Pursuit!Sends
  <2> HIDE DEF r
  <2>2. QED
    BY <1>1, <1>2, <2>1 DEF Chaser
<1>5. CASE m \in Pursuit!Tracked /\ ~Pursuit!IsDead(m) /\ Pursuit!Aim(m) # 0
  <2>1. Pursuit!Driven(m) =
            [r EXCEPT !.target = Pursuit!Aim(m), !.at = Pursuit!Stepped(m),
                      !.follow = IF Pursuit!Acquires(m) \/ Pursuit!Reasserts(m) THEN 0 ELSE @,
                      !.swing = IF Pursuit!Swings(m) THEN 0 ELSE @,
                      !.clamp = IF Pursuit!Clamps(m, Pursuit!Quarry(m)) THEN 0 ELSE @,
                      !.move = IF Pursuit!Corrects(m) THEN 0 ELSE @]
    BY <1>5 DEF Pursuit!Driven
  <2>2. Pursuit!Aim(m) \in 0 .. MaxId /\ Pursuit!Stepped(m) \in Pursuit!Point
    BY <1>5, AimType, StepKeepsDistance
  <2> HIDE DEF r
  <2>3. QED
    BY <1>1, <1>2, <1>5, <2>1, <2>2 DEF Chaser
<1>6. QED
  BY <1>3, <1>4, <1>5

LEMMA UpdatesType ==
    ASSUME ChaseTypes, NEW m \in Mob, Pursuit!Sends(m)
    PROVE  /\ Pursuit!Updates(m) \subseteq Waiting
           /\ \A u \in Pursuit!Updates(m) : u.mob = m /\ (u.kind = "move" => u.dest = Pursuit!Destination(m))
<1>1. Pursuit!Destination(m) \in Int /\ 0 \in Int
  BY StepKeepsDistance DEF Pursuit!Sends
<1>2. /\ Pursuit!Update(m, "follow", 0) \in Waiting /\ Pursuit!Update(m, "attack", 0) \in Waiting
      /\ Pursuit!Update(m, "move", Pursuit!Destination(m)) \in Waiting
  BY <1>1 DEF Pursuit!Update, Waiting
<1>3. QED
  BY <1>2 DEF Pursuit!Updates, Pursuit!Update

-----------------------------------------------------------------------------
(* Players *)

LEMMA ChasingInit == Init => Chasing
<1> SUFFICES ASSUME Init PROVE Chasing
  OBVIOUS
<1>1. mob \in [Mob -> Chaser]
  <2>1. /\ MoveEvery \in 0 .. MoveEvery /\ FollowEvery \in 0 .. FollowEvery
        /\ SwingEvery \in 0 .. SwingEvery /\ ClampEvery \in 0 .. ClampEvery
        /\ 0 \in 0 .. MaxId
    BY PursuitAssumption DEF Pursuit!IntervalAssumption, Pursuit!BoundAssumption
  <2>2. \A m \in Mob : Pursuit!Spawned(m, model.late) \in Chaser
    BY <2>1, PursuitAssumption DEF Pursuit!Spawned, Chaser, Life, Pursuit!Point, Pursuit!PlaceAssumption
  <2>3. QED
    BY <2>2 DEF Init, Pursuit!Init, Pursuit!Populated
<1>2. 0 \in Pursuit!Point /\ 0 \in 0 .. MaxId /\ 0 \in 0 .. MaxSteps /\ 1 \in 1 .. MaxId + 1
  BY PursuitAssumption DEF Pursuit!Point, Pursuit!RangeAssumption, Pursuit!BoundAssumption
<1>3. ChaseTypes
  BY <1>1, <1>2 DEF Init, Pursuit!Init, ChaseTypes
<1>4. Pursuit!Here = {}
  BY DEF Init, Pursuit!Init, Pursuit!Here
<1>5. QED
  BY <1>3, <1>4 DEF Chasing, Shows, Queued

LEMMA EnterSound ==
    ASSUME Chasing, NEW p \in Fighter, NEW x \in Door, Pursuit!Enter(p, x)
    PROVE  Chasing'
<1>1. nextId \in 1 .. MaxId /\ x \in Pursuit!Point
  BY PursuitAssumption DEF Pursuit!Enter, Chasing, ChaseTypes, Pursuit!Point, Pursuit!BoundAssumption, Pursuit!PlaceAssumption
<1>2. ChaseTypes'
  <2>1. avatar' \in [Fighter -> 0 .. MaxId] /\ nextId' \in 1 .. MaxId + 1
    <3>1. nextId \in 0 .. MaxId /\ nextId + 1 \in 1 .. MaxId + 1
      BY <1>1, PursuitAssumption DEF Pursuit!BoundAssumption
    <3>2. QED
      BY <3>1 DEF Pursuit!Enter, Chasing, ChaseTypes
  <2>2. pos' \in [Fighter -> Pursuit!Point] /\ latch' \in [Fighter -> BOOLEAN]
    BY <1>1 DEF Pursuit!Enter, Chasing, ChaseTypes
  <2>3. shown' \in [Fighter -> SUBSET Mob] /\ queue' \in [Fighter -> SUBSET Waiting]
    BY DEF Pursuit!Enter, Chasing, ChaseTypes
  <2>4. QED
    BY <2>1, <2>2, <2>3 DEF Pursuit!Enter, Chasing, ChaseTypes
<1>3. Pursuit!Here' = Pursuit!Here \cup {p} /\ Pursuit!Tracked' = Pursuit!Tracked
  BY <1>1 DEF Pursuit!Enter, Chasing, ChaseTypes, Pursuit!Here, Pursuit!Tracked
<1>4. Shows'
  BY <1>3 DEF Pursuit!Enter, Chasing, ChaseTypes, Shows, Pursuit!Tracked
<1>5. Queued'
  BY <1>3 DEF Pursuit!Enter, Chasing, ChaseTypes, Queued
<1>6. QED
  BY <1>2, <1>4, <1>5 DEF Chasing

LEMMA LeaveSound ==
    ASSUME Chasing, NEW p \in Fighter, Pursuit!Leave(p)
    PROVE  Chasing'
<1>1. mob' \in [Mob -> Chaser]
  <2>1. /\ MoveEvery \in 0 .. MoveEvery /\ FollowEvery \in 0 .. FollowEvery
        /\ SwingEvery \in 0 .. SwingEvery /\ ClampEvery \in 0 .. ClampEvery
        /\ 0 \in 0 .. MaxId
    BY PursuitAssumption DEF Pursuit!IntervalAssumption, Pursuit!BoundAssumption
  <2>2. \A m \in Mob : Pursuit!Spawned(m, model.late) \in Chaser
    BY <2>1, PursuitAssumption DEF Pursuit!Spawned, Chaser, Life, Pursuit!Point, Pursuit!PlaceAssumption
  <2>3. QED
    BY <2>2 DEF Pursuit!Leave, Pursuit!Populated, Chasing, ChaseTypes
<1>2. ChaseTypes'
  <2>1. 0 \in Pursuit!Point /\ 0 \in 0 .. MaxId
    BY PursuitAssumption DEF Pursuit!Point, Pursuit!RangeAssumption, Pursuit!BoundAssumption
  <2>2. QED
    BY <1>1, <2>1 DEF Pursuit!Leave, Chasing, ChaseTypes
<1>3. /\ Pursuit!Here' = Pursuit!Here \ {p}
      /\ \A q \in Pursuit!Here' : mob' = mob /\ shown'[q] = shown[q] /\ queue'[q] = queue[q]
  BY DEF Pursuit!Leave, Chasing, ChaseTypes, Pursuit!Here
<1>4. Shows' /\ Queued'
  BY <1>3 DEF Chasing, Shows, Queued, Pursuit!Tracked
<1>5. QED
  BY <1>2, <1>4 DEF Chasing

LEMMA WalkSound ==
    ASSUME Chasing, NEW p \in Fighter, NEW x \in Pursuit!Point, Pursuit!Walk(p, x)
    PROVE  Chasing'
<1>1. steps' \in 0 .. MaxSteps /\ pos' \in [Fighter -> Pursuit!Point]
  BY PursuitAssumption DEF Pursuit!Walk, Chasing, ChaseTypes, Pursuit!BoundAssumption
<1>2. QED
  BY <1>1 DEF Pursuit!Walk, Chasing, ChaseTypes, Shows, Queued, Pursuit!Here, Pursuit!Tracked

(* What is queued about shown monsters keeps the queues about shown ones.  *)
LEMMA EnqueuedSound ==
    ASSUME Chasing, NEW us \in SUBSET Waiting, \A u \in us : u.mob \in Pursuit!Tracked
    PROVE  /\ Pursuit!Enqueued(us) \in [Fighter -> SUBSET Waiting]
           /\ \A p \in Pursuit!Here : \A u \in Pursuit!Enqueued(us)[p] : u.mob \in shown[p]
<1>1. \A p \in Pursuit!Here : p \in Fighter
  BY DEF Pursuit!Here
<1>2. \A p \in Pursuit!Here : Pursuit!Tracked \subseteq shown[p]
  BY DEF Chasing, Shows
<1>3. QED
  BY <1>1, <1>2 DEF Pursuit!Enqueued, Chasing, ChaseTypes, Queued

LEMMA ProvokeSound ==
    ASSUME Chasing, NEW p \in Fighter, NEW m \in Mob, Pursuit!Provoke(p, m)
    PROVE  Chasing'
<1>1. /\ mob' = [mob EXCEPT ![m].target = avatar[p], ![m].follow = 0]
      /\ queue' = Pursuit!Enqueued({Pursuit!Update(m, "follow", 0)})
      /\ m \in Pursuit!Tracked
      /\ UNCHANGED <<model, avatar, pos, latch, shown, nextId, steps>>
  BY DEF Pursuit!Provoke
<1>2. avatar[p] \in 0 .. MaxId /\ 0 \in 0 .. FollowEvery /\ mob[m] \in Chaser
  BY PursuitAssumption DEF Chasing, ChaseTypes, Pursuit!IntervalAssumption
<1> DEFINE r == [mob[m] EXCEPT !.target = avatar[p], !.follow = 0]
<1>3. r \in Chaser /\ r.life = mob[m].life
  BY <1>2 DEF Chaser
<1>4. mob' = [mob EXCEPT ![m] = r]
  BY <1>1
<1> HIDE DEF r
<1>5. mob' \in [Mob -> Chaser] /\ Pursuit!Tracked' = Pursuit!Tracked
  BY <1>3, <1>4 DEF Chasing, ChaseTypes, Pursuit!Tracked
<1>6. {Pursuit!Update(m, "follow", 0)} \subseteq Waiting
      /\ \A u \in {Pursuit!Update(m, "follow", 0)} : u.mob \in Pursuit!Tracked
  BY <1>1 DEF Pursuit!Update, Waiting
<1>7. /\ queue' \in [Fighter -> SUBSET Waiting]
      /\ \A q \in Pursuit!Here : \A u \in queue'[q] : u.mob \in shown[q]
  <2> DEFINE us == {Pursuit!Update(m, "follow", 0)}
  <2>1. us \in SUBSET Waiting /\ \A u \in us : u.mob \in Pursuit!Tracked
    BY <1>6
  <2>2. queue' = Pursuit!Enqueued(us)
    BY <1>1
  <2> HIDE DEF us
  <2>3. QED
    BY <2>1, <2>2, EnqueuedSound
<1>8. ChaseTypes'
  BY <1>1, <1>5, <1>7 DEF Chasing, ChaseTypes
<1>9. QED
  BY <1>1, <1>5, <1>7, <1>8 DEF Chasing, Shows, Queued, Pursuit!Here

LEMMA EnrollSound ==
    ASSUME Chasing, NEW p \in Fighter, Pursuit!Enroll(p)
    PROVE  Chasing'
<1>1. mob' \in [Mob -> Chaser] /\ \A m \in Mob : mob'[m].life = mob[m].life
  <2>1. \A m \in Mob : LET r == [mob[m] EXCEPT !.sim = @ \cup {p}]
                       IN r \in Chaser /\ r.life = mob[m].life
    BY DEF Chasing, ChaseTypes, Chaser
  <2>2. QED
    BY <2>1 DEF Pursuit!Enroll, Chasing, ChaseTypes
<1>2. ChaseTypes'
  BY <1>1 DEF Pursuit!Enroll, Chasing, ChaseTypes
<1>3. QED
  BY <1>1, <1>2 DEF Pursuit!Enroll, Chasing, Shows, Queued, Pursuit!Here, Pursuit!Tracked

LEMMA DrainSound ==
    ASSUME Chasing, NEW p \in Fighter, Pursuit!Drain(p)
    PROVE  Chasing'
<1>1. ChaseTypes'
  BY DEF Pursuit!Drain, Chasing, ChaseTypes
<1>2. QED
  BY <1>1 DEF Pursuit!Drain, Chasing, ChaseTypes, Shows, Queued, Pursuit!Here, Pursuit!Tracked

-----------------------------------------------------------------------------
(* Monsters *)

LEMMA LifeSound ==
    ASSUME Chasing, NEW m \in Mob, Pursuit!Fell(m) \/ Pursuit!SpawnLive(m)
    PROVE  Chasing'
<1>1. /\ mob' = [mob EXCEPT ![m].life = IF Pursuit!Fell(m) THEN "dying" ELSE "up"]
      /\ UNCHANGED <<model, avatar, pos, latch, queue, nextId, steps>>
  BY DEF Pursuit!Fell, Pursuit!SpawnLive
<1>2. mob' \in [Mob -> Chaser]
  BY <1>1 DEF Chasing, ChaseTypes, Chaser, Life
<1>3. ChaseTypes'
  BY <1>1, <1>2 DEF Pursuit!Fell, Pursuit!SpawnLive, Chasing, ChaseTypes
<1>4. CASE Pursuit!Fell(m)
  <2>1. Pursuit!Tracked' = Pursuit!Tracked /\ UNCHANGED shown
    BY <1>1, <1>4 DEF Pursuit!Fell, Chasing, ChaseTypes, Pursuit!Tracked
  <2>2. QED
    BY <1>1, <1>3, <2>1 DEF Chasing, Shows, Queued, Pursuit!Here
<1>5. CASE Pursuit!SpawnLive(m)
  <2>1. Pursuit!Tracked' \subseteq Pursuit!Tracked \cup {m}
    BY <1>5 DEF Pursuit!SpawnLive, Chasing, ChaseTypes, Pursuit!Tracked
  <2>2. \A q \in Pursuit!Here : shown'[q] = shown[q] \cup {m}
    BY <1>5 DEF Pursuit!SpawnLive, Pursuit!Here
  <2>3. QED
    BY <1>1, <1>3, <2>1, <2>2 DEF Chasing, Shows, Queued, Pursuit!Here
<1>6. QED
  BY <1>4, <1>5

LEMMA KillSound ==
    ASSUME Chasing, NEW m \in Mob, Pursuit!Kill(m)
    PROVE  Chasing'
<1>1. /\ mob' = [mob EXCEPT ![m].life = "gone"]
      /\ queue' = Pursuit!Purged(m)
      /\ shown' = [p \in Fighter |-> shown[p] \ {m}]
      /\ UNCHANGED <<model, avatar, pos, latch, nextId, steps>>
  BY DEF Pursuit!Kill
<1>2. mob' \in [Mob -> Chaser] /\ Pursuit!Tracked' = Pursuit!Tracked \ {m}
  <2> DEFINE r == [mob[m] EXCEPT !.life = "gone"]
  <2>1. r \in Chaser /\ r.life = "gone"
    BY DEF Chasing, ChaseTypes, Chaser, Life
  <2>2. mob' = [mob EXCEPT ![m] = r]
    BY <1>1
  <2> HIDE DEF r
  <2>3. mob' \in [Mob -> Chaser]
    BY <2>1, <2>2 DEF Chasing, ChaseTypes
  <2>4. \A n \in Mob : mob'[n].life = IF n = m THEN "gone" ELSE mob[n].life
    BY <2>1, <2>2 DEF Chasing, ChaseTypes
  <2>5. QED
    BY <2>3, <2>4 DEF Pursuit!Tracked
<1>3. ChaseTypes'
  BY <1>1, <1>2 DEF Chasing, ChaseTypes, Pursuit!Purged
<1>4. Pursuit!Here' = Pursuit!Here /\ Pursuit!Here \subseteq Fighter
  BY <1>1 DEF Pursuit!Here
<1>5. Shows'
  BY <1>1, <1>2, <1>4 DEF Chasing, Shows
<1>6. Queued'
  <2> SUFFICES ASSUME NEW p \in Pursuit!Here, NEW u \in queue'[p] PROVE u.mob \in shown'[p]
    BY <1>4 DEF Queued
  <2>1. u \in queue[p] /\ u.mob # m
    BY <1>1, <1>4 DEF Pursuit!Purged
  <2>2. QED
    BY <1>1, <1>4, <2>1 DEF Chasing, Queued
<1>7. QED
  BY <1>3, <1>5, <1>6 DEF Chasing

-----------------------------------------------------------------------------
(* Ticks *)

LEMMA TickEnrollSound ==
    ASSUME Chasing, Pursuit!TickEnroll
    PROVE  Chasing'
<1>1. \A m \in Mob : /\ mob'[m] \in Chaser
                     /\ mob'[m].life = mob[m].life
  <2>1. 0 \in 0 .. ClampEvery
    BY PursuitAssumption DEF Pursuit!IntervalAssumption
  <2> SUFFICES ASSUME NEW m \in Mob
               PROVE  mob'[m] \in Chaser /\ mob'[m].life = mob[m].life
    OBVIOUS
  <2> DEFINE r == Pursuit!Older(mob[m])
  <2>2. r \in Chaser /\ r.life = mob[m].life
    BY OlderType DEF Chasing, ChaseTypes
  <2>3. mob'[m] \in {r, [r EXCEPT !.clamp = 0]}
    BY DEF Pursuit!TickEnroll
  <2> HIDE DEF r
  <2>4. QED
    BY <2>1, <2>2, <2>3 DEF Chaser
<1>2. mob' \in [Mob -> Chaser]
  BY <1>1 DEF Pursuit!TickEnroll
<1>3. ChaseTypes'
  BY <1>2 DEF Pursuit!TickEnroll, Chasing, ChaseTypes
<1>4. QED
  BY <1>1, <1>3 DEF Pursuit!TickEnroll, Chasing, Shows, Queued, Pursuit!Here, Pursuit!Tracked

LEMMA TickFollowSound ==
    ASSUME Chasing, Pursuit!TickFollow
    PROVE  Chasing'
<1> DEFINE us == UNION {Pursuit!Updates(m) : m \in {n \in Mob : Pursuit!Sends(n)}}
<1>1. /\ mob' = [m \in Mob |-> Pursuit!Driven(m)]
      /\ queue' = Pursuit!Enqueued(us)
      /\ UNCHANGED <<model, avatar, pos, latch, shown, nextId, steps>>
  BY DEF Pursuit!TickFollow
<1>2. us \in SUBSET Waiting /\ \A u \in us : u.mob \in Pursuit!Tracked
  BY UpdatesType DEF Chasing, Pursuit!Sends
<1> HIDE DEF us
<1>3. mob' \in [Mob -> Chaser] /\ Pursuit!Tracked' = Pursuit!Tracked
  BY <1>1, DrivenType DEF Chasing, Pursuit!Tracked
<1>4. /\ queue' \in [Fighter -> SUBSET Waiting]
      /\ \A q \in Pursuit!Here : \A u \in queue'[q] : u.mob \in shown[q]
  BY <1>1, <1>2, EnqueuedSound
<1>5. ChaseTypes'
  BY <1>1, <1>3, <1>4 DEF Chasing, ChaseTypes
<1>6. QED
  BY <1>1, <1>3, <1>4, <1>5 DEF Chasing, Shows, Queued, Pursuit!Here

-----------------------------------------------------------------------------
LEMMA ChasingNext ==
    ASSUME Chasing, [Next]_vars
    PROVE  Chasing'
<1>1. CASE Pursuit!Next
  BY <1>1, EnterSound, LeaveSound, WalkSound, ProvokeSound, EnrollSound, DrainSound,
     LifeSound, KillSound, TickFollowSound, TickEnrollSound DEF Pursuit!Next
<1>2. CASE UNCHANGED chaseVars
  BY <1>2 DEF chaseVars, Chasing, ChaseTypes, Shows, Queued, Pursuit!Here, Pursuit!Tracked
<1>3. QED
  BY <1>1, <1>2 DEF Next, vars

LEMMA ChasingIsLive == Chasing => UpdatesLive
<1> SUFFICES ASSUME Chasing PROVE Pursuit!UpdatesLive
  BY DEF UpdatesLive
<1>1. \A p \in Fighter : \A u \in queue[p] :
          u.mob \in Mob /\ u.kind \in {"follow", "attack", "move"}
  BY DEF Chasing, ChaseTypes, Waiting
<1>2. Pursuit!TypeOK
  BY <1>1 DEF Chasing, ChaseTypes, Pursuit!TypeOK, Chaser, Life
<1>3. QED
  BY <1>2 DEF Chasing, Queued, Pursuit!UpdatesLive

(* Nothing waits for the next frame of a client about a monster that the   *)
(* client does not show, over any entries, departures, provocations,       *)
(* ticks, deaths and late spawns.                                          *)
THEOREM UpdatesCorrect == Spec => []UpdatesLive
<1>1. QED
  BY ChasingInit, ChasingNext, ChasingIsLive, PTL DEF Spec

LEMMA TickKeepsDistance ==
    ASSUME Chasing, Pursuit!TickFollow, NEW m \in Mob
    PROVE  /\ mob'[m].at # mob[m].at =>
                \E p \in Pursuit!Here : avatar[p] = mob'[m].target
                                /\ Pursuit!Distance(pos[p], mob'[m].at) >= Ring
           /\ \A p \in Pursuit!Here : \A u \in queue'[p] \ queue[p] :
                u.mob = m /\ u.kind = "move" /\ u.dest # mob[m].at =>
                    \E q \in Pursuit!Here : avatar[q] = mob'[m].target
                                    /\ Pursuit!Distance(pos[q], u.dest) >= Ring
<1>1. mob'[m] = Pursuit!Driven(m)
  BY DEF Pursuit!TickFollow
<1>2. ChaseTypes
  BY DEF Chasing
<1>3. ASSUME mob'[m].at # mob[m].at
      PROVE  \E p \in Pursuit!Here : avatar[p] = mob'[m].target
                             /\ Pursuit!Distance(pos[p], mob'[m].at) >= Ring
  <2>1. Pursuit!Aim(m) # 0 /\ mob'[m].target = Pursuit!Aim(m) /\ mob'[m].at = Pursuit!Stepped(m)
    BY <1>1, <1>2, <1>3, DrivenType
  <2>2. Pursuit!Quarry(m) \in Pursuit!Here /\ avatar[Pursuit!Quarry(m)] = Pursuit!Aim(m)
    BY <1>2, <2>1, AimType
  <2>3. Pursuit!Distance(pos[Pursuit!Quarry(m)], Pursuit!Stepped(m)) >= Ring
    BY <1>2, <1>3, <2>1, StepKeepsDistance
  <2>4. QED
    BY <2>1, <2>2, <2>3
<1>4. ASSUME NEW p \in Pursuit!Here, NEW u \in queue'[p] \ queue[p],
             u.mob = m, u.kind = "move", u.dest # mob[m].at
      PROVE  \E q \in Pursuit!Here : avatar[q] = mob'[m].target /\ Pursuit!Distance(pos[q], u.dest) >= Ring
  <2>1. PICK n \in Mob : Pursuit!Sends(n) /\ u \in Pursuit!Updates(n)
    BY <1>4 DEF Pursuit!TickFollow, Pursuit!Enqueued, Pursuit!Here
  <2>2. n = m /\ u.dest = Pursuit!Destination(m) /\ Pursuit!Sends(m)
    BY <1>2, <1>4, <2>1, UpdatesType
  <2>3. Pursuit!Aim(m) # 0 /\ mob'[m].target = Pursuit!Aim(m)
    BY <1>1, <1>2, <2>2, DrivenType DEF Pursuit!Sends
  <2>4. Pursuit!Quarry(m) \in Pursuit!Here /\ avatar[Pursuit!Quarry(m)] = Pursuit!Aim(m)
    BY <1>2, <2>3, AimType
  <2>5. Pursuit!Distance(pos[Pursuit!Quarry(m)], u.dest) >= Ring
    BY <1>2, <1>4, <2>2, <2>3, StepKeepsDistance
  <2>6. QED
    BY <2>3, <2>4, <2>5
<1>5. QED
  BY <1>3, <1>4

(* A tick never steps a monster inside the ring of its target, nor sends   *)
(* its client there.                                                       *)
THEOREM DistanceCorrect == Spec => Pursuit!KeepsDistance
<1> DEFINE A == \A m \in Mob : Pursuit!TickFollow =>
        /\ mob'[m].at # mob[m].at =>
            \E p \in Pursuit!Here : avatar[p] = mob'[m].target
                            /\ Pursuit!Distance(pos[p], mob'[m].at) >= Ring
        /\ \A p \in Pursuit!Here : \A u \in queue'[p] \ queue[p] :
            u.mob = m /\ u.kind = "move" /\ u.dest # mob[m].at =>
                \E q \in Pursuit!Here :
                    avatar[q] = mob'[m].target /\ Pursuit!Distance(pos[q], u.dest) >= Ring
<1>1. Chasing => A
  BY TickKeepsDistance
<1> HIDE DEF A
<1>2. Chasing /\ [Next]_vars => [A]_chaseVars
  BY <1>1
<1>3. Spec => [][A]_chaseVars
  BY <1>2, ChasingInit, ChasingNext, PTL DEF Spec
<1>4. QED
  BY <1>3 DEF Pursuit!KeepsDistance, Pursuit!vars, A, chaseVars
-----------------------------------------------------------------------------
(* Travel: return places, waystones, gates and scrolls.  A place that a     *)
(* connection holds is that of the character it plays, since a character is *)
(* played by its owner only, and nobody deletes one that is played.  Who    *)
(* stands in a zone keeps its copy alive, so a copy that is gone has its    *)
(* gate closed for whoever comes next.                                      *)

Roles ==
    \A p \in Player :
        /\ Journey!Playing(p) => role[p] \in Char /\ row[role[p]].owner = p
        /\ stage[p] # "off" =>
             \A c \in roster[p] : c = Journey!Entry(c.id) /\ row[c.id].owner = p
        /\ stage[p] = "select" => saved[p] = Journey!NoPlace

Inhabited ==
    /\ \A p \in Player : stage[p] = "in" => copy[zone[p]].live
    /\ \A z \in Zone : ~copy[z].live => ~copy[z].open

(* The portal that is still to come counts as a trip.                      *)
Credit ==
    \A k \in Char : trips[k] + (IF row[k].tp = Journey!NoPlace THEN 0 ELSE 1) <= casts[k]

Traveling ==
    /\ Journey!TypeOK /\ Roles /\ Inhabited /\ Credit
    /\ Journey!SavedPlaceOffered /\ Journey!WaystonesKept /\ Journey!GateShown

LEMMA Names ==
    /\ Journey!NoPlace \notin Zone /\ Journey!Nobody \notin Player
    /\ Town \in Zone /\ StartZone \in Zone
    /\ Journey!DefaultCheckpoints \subseteq Journey!Waystones
    /\ Journey!Waystones \subseteq Zone /\ IsFiniteSet(Journey!Waystones)
    /\ MaxMoves \in Nat /\ MaxScrolls \in Nat
BY JourneyAssumption DEF Journey!ZoneAssumption, Journey!NameAssumption,
   Journey!BoundAssumption, Journey!DefaultCheckpoints, Journey!IsFiniteSet, IsFiniteSet

LEMMA SameCount == \A S : Journey!Cardinality(S) = Cardinality(S)
BY DEF Journey!Cardinality, Cardinality

LEMMA TravelInit == Init => Traveling
<1> SUFFICES ASSUME Init PROVE Traveling
  OBVIOUS
<1>1. Journey!Init
  BY DEF Init
<1>2. Cardinality(Journey!Waystones) \in Nat
  BY Names, FS_CardinalityType
<1>3. Journey!TypeOK
  <2>1. /\ row \in [Char -> [owner : Player \cup {Journey!Nobody}, tp : Journey!Place,
                            cps : SUBSET Journey!Waystones]]
        /\ roster \in [Player -> SUBSET [id : Char, tp : Journey!Place]]
        /\ saved \in [Player -> Journey!Place] /\ source \in [Player -> Journey!Place]
        /\ menu \in [Player -> Journey!Place]
    BY <1>1 DEF Journey!Init, Journey!Absent, Journey!Place
  <2>2. copy \in [Zone -> [live : BOOLEAN, open : BOOLEAN, looted : BOOLEAN, boss : BOOLEAN]]
    BY <1>1 DEF Journey!Init, Journey!TornDown, Journey!Fresh
  <2>3. /\ stage \in [Player -> {"off", "select", "loading", "in"}]
        /\ role \in [Player -> Char \cup {Journey!Nobody}]
        /\ zone \in [Player -> Zone]
        /\ spot \in [Player -> {"default", "waypoint", "waystone", "cast", "entrance"}]
        /\ unlocked \in [Player -> SUBSET Journey!Waystones]
        /\ passable \in [Player -> BOOLEAN]
    BY <1>1, Names DEF Journey!Init
  <2>4. /\ turn \in [Player -> 0 .. Journey!Cardinality(Journey!Waystones)]
        /\ trips \in [Char -> Nat] /\ casts \in [Char -> 0 .. MaxScrolls]
        /\ moves \in 0 .. MaxMoves
    BY <1>1, <1>2, Names, SameCount DEF Journey!Init
  <2>5. QED
    BY <2>1, <2>2, <2>3, <2>4 DEF Journey!TypeOK
<1>4. Roles /\ Inhabited
  BY <1>1, Names DEF Journey!Init, Roles, Inhabited, Journey!Playing, Journey!TornDown, Journey!Fresh
<1>5. Credit
  BY <1>1, Names DEF Journey!Init, Credit, Journey!Absent
<1>6. Journey!SavedPlaceOffered /\ Journey!WaystonesKept /\ Journey!GateShown
  BY <1>1 DEF Journey!Init, Journey!SavedPlaceOffered, Journey!WaystonesKept,
     Journey!GateShown, Journey!Playing
<1>7. QED
  BY <1>3, <1>4, <1>5, <1>6 DEF Traveling

-----------------------------------------------------------------------------
(* The character screen *)

LEMMA LoginKeeps ==
    ASSUME Traveling, NEW p \in Player, Journey!Login(p)
    PROVE  Traveling'
<1>1. /\ stage[p] = "off" /\ stage' = [stage EXCEPT ![p] = "select"]
      /\ roster' = [roster EXCEPT ![p] = Journey!Flow(p)]
      /\ saved' = [saved EXCEPT ![p] = Journey!NoPlace]
      /\ source' = [source EXCEPT ![p] = Journey!NoPlace]
      /\ unlocked' = [unlocked EXCEPT ![p] = {}] /\ turn' = [turn EXCEPT ![p] = 0]
      /\ UNCHANGED <<row, role, zone, spot, menu, copy, passable, trips, casts, moves>>
  BY DEF Journey!Login
<1>2. \A c \in Journey!Flow(p) :
         /\ c = Journey!Entry(c.id) /\ c.id \in Char /\ row[c.id].owner = p
         /\ c \in [id : Char, tp : Journey!Place]
  BY DEF Journey!Flow, Journey!Entry, Journey!Place
<1>3. Cardinality(Journey!Waystones) \in Nat
  BY Names, FS_CardinalityType
<1>4. Journey!TypeOK'
  BY <1>1, <1>2, <1>3, SameCount DEF Traveling, Journey!TypeOK, Journey!Place
<1>5. /\ \A q \in Player : q # p => stage'[q] = stage[q] /\ saved'[q] = saved[q]
                                    /\ unlocked'[q] = unlocked[q] /\ roster'[q] = roster[q]
      /\ stage'[p] = "select" /\ saved'[p] = Journey!NoPlace /\ roster'[p] = Journey!Flow(p)
  BY <1>1 DEF Traveling, Journey!TypeOK
<1>6. Roles'
  BY <1>1, <1>2, <1>5 DEF Traveling, Roles, Journey!Playing
<1>7. Inhabited' /\ Journey!GateShown' /\ Credit'
  BY <1>1, <1>5 DEF Traveling, Inhabited, Journey!GateShown, Credit
<1>8. Journey!SavedPlaceOffered' /\ Journey!WaystonesKept'
  BY <1>1, <1>5 DEF Traveling, Journey!SavedPlaceOffered, Journey!WaystonesKept, Journey!Playing
<1>9. QED
  BY <1>4, <1>6, <1>7, <1>8 DEF Traveling

LEMMA CreateKeeps ==
    ASSUME Traveling, NEW p \in Player, NEW k \in Char, Journey!Create(p, k)
    PROVE  Traveling'
<1> DEFINE new == [Journey!Absent EXCEPT !.owner = p]
<1>1. /\ stage[p] = "select" /\ row[k] = Journey!Absent
      /\ row' = [row EXCEPT ![k] = new]
      /\ roster' = [roster EXCEPT ![p] = @ \cup {Journey!Entry(k)}]
      /\ UNCHANGED <<stage, role, saved, unlocked, menu, copy, trips, casts, moves>>
      /\ UNCHANGED <<zone, spot, source, turn, passable>>
  BY DEF Journey!Create, Journey!journey
<1>2. /\ new \in [owner : Player \cup {Journey!Nobody}, tp : Journey!Place,
                  cps : SUBSET Journey!Waystones]
      /\ new.owner = p /\ new.tp = Journey!NoPlace
  BY DEF Journey!Absent, Journey!Place
<1> HIDE DEF new
<1>3. Journey!Entry(k) \in [id : Char, tp : Journey!Place] /\ Journey!Entry(k).id = k
  BY DEF Journey!Entry, Journey!Place
<1>4. Journey!TypeOK'
  BY <1>1, <1>2, <1>3 DEF Traveling, Journey!TypeOK
<1>5. row[k].owner = Journey!Nobody /\ row[k].tp = Journey!NoPlace
  BY <1>1 DEF Journey!Absent
<1>6. \A q \in Player : Journey!Playing(q) => role[q] \in Char /\ role[q] # k
  BY <1>5, Names DEF Traveling, Roles
<1>7. /\ \A j \in Char : j # k => row'[j] = row[j]
      /\ row'[k] = new
      /\ \A q \in Player : q # p => roster'[q] = roster[q]
      /\ roster'[p] = roster[p] \cup {Journey!Entry(k)}
  BY <1>1 DEF Traveling, Journey!TypeOK
<1>8. Roles'
  <2> SUFFICES ASSUME NEW q \in Player
               PROVE  /\ Journey!Playing(q)' => role'[q] \in Char /\ row'[role'[q]].owner = q
                      /\ stage'[q] # "off" =>
                           \A c \in roster'[q] : c = Journey!Entry(c.id) /\ row'[c.id].owner = q
                      /\ stage'[q] = "select" => saved'[q] = Journey!NoPlace
    BY DEF Roles
  <2>1. Journey!Playing(q)' => role'[q] \in Char /\ row'[role'[q]].owner = q
    BY <1>1, <1>6, <1>7 DEF Traveling, Roles, Journey!Playing
  <2>2. ASSUME stage[q] # "off", NEW c \in roster[q]
        PROVE  c = Journey!Entry(c.id) /\ row'[c.id].owner = q
    <3>1. c = Journey!Entry(c.id) /\ row[c.id].owner = q /\ c.id \in Char
      BY <2>2 DEF Traveling, Roles, Journey!TypeOK
    <3>2. c.id # k
      BY <1>5, <3>1, Names
    <3>3. QED
      BY <1>7, <3>1, <3>2
  <2>3. QED
    BY <1>1, <1>2, <1>3, <1>7, <2>1, <2>2 DEF Traveling, Roles
<1>9. Inhabited' /\ Journey!GateShown'
  BY <1>1 DEF Traveling, Inhabited, Journey!GateShown
<1>10. Credit'
  BY <1>1, <1>2, <1>5, <1>7 DEF Traveling, Credit
<1>11. Journey!SavedPlaceOffered' /\ Journey!WaystonesKept'
  BY <1>1, <1>6, <1>7 DEF Traveling, Journey!SavedPlaceOffered, Journey!WaystonesKept,
     Journey!Playing
<1>12. QED
  BY <1>4, <1>8, <1>9, <1>10, <1>11 DEF Traveling

LEMMA DeleteKeeps ==
    ASSUME Traveling, NEW p \in Player, NEW k \in Char, Journey!Delete(p, k)
    PROVE  Traveling'
<1>1. /\ stage[p] = "select" /\ \E c \in roster[p] : c.id = k
      /\ row' = [row EXCEPT ![k] = Journey!Absent]
      /\ roster' = [roster EXCEPT ![p] = {c \in @ : c.id # k}]
      /\ trips' = [trips EXCEPT ![k] = 0] /\ casts' = [casts EXCEPT ![k] = 0]
      /\ UNCHANGED <<stage, role, saved, unlocked, menu, copy, moves>>
      /\ UNCHANGED <<zone, spot, source, turn, passable>>
  BY DEF Journey!Delete, Journey!journey
<1>2. row[k].owner = p
  BY <1>1 DEF Traveling, Roles
<1>3. Journey!TypeOK'
  BY <1>1, Names DEF Traveling, Journey!TypeOK, Journey!Absent, Journey!Place
<1>4. \A q \in Player : Journey!Playing(q) => role[q] \in Char /\ role[q] # k
  BY <1>1, <1>2 DEF Traveling, Roles, Journey!Playing
<1>5. /\ \A j \in Char : j # k => row'[j] = row[j] /\ trips'[j] = trips[j] /\ casts'[j] = casts[j]
      /\ row'[k] = Journey!Absent /\ trips'[k] = 0 /\ casts'[k] = 0
      /\ \A q \in Player : q # p => roster'[q] = roster[q]
      /\ roster'[p] = {c \in roster[p] : c.id # k}
  BY <1>1 DEF Traveling, Journey!TypeOK
<1>6. Roles'
  <2> SUFFICES ASSUME NEW q \in Player
               PROVE  /\ Journey!Playing(q)' => role'[q] \in Char /\ row'[role'[q]].owner = q
                      /\ stage'[q] # "off" =>
                           \A c \in roster'[q] : c = Journey!Entry(c.id) /\ row'[c.id].owner = q
                      /\ stage'[q] = "select" => saved'[q] = Journey!NoPlace
    BY DEF Roles
  <2>1. Journey!Playing(q)' => role'[q] \in Char /\ row'[role'[q]].owner = q
    BY <1>1, <1>4, <1>5 DEF Traveling, Roles, Journey!Playing
  <2>2. ASSUME stage[q] # "off", NEW c \in roster'[q]
        PROVE  c = Journey!Entry(c.id) /\ row'[c.id].owner = q
    <3>1. c \in roster[q] /\ (q = p => c.id # k)
      BY <1>5
    <3>2. c = Journey!Entry(c.id) /\ row[c.id].owner = q /\ c.id \in Char
      BY <2>2, <3>1 DEF Traveling, Roles, Journey!TypeOK
    <3>3. c.id # k
      BY <1>2, <3>1, <3>2
    <3>4. QED
      BY <1>5, <3>2, <3>3
  <2>3. QED
    BY <1>1, <2>1, <2>2 DEF Traveling, Roles
<1>7. Inhabited' /\ Journey!GateShown'
  BY <1>1 DEF Traveling, Inhabited, Journey!GateShown
<1>8. Credit'
  BY <1>5 DEF Traveling, Credit, Journey!Absent
<1>9. Journey!SavedPlaceOffered' /\ Journey!WaystonesKept'
  BY <1>1, <1>4, <1>5 DEF Traveling, Journey!SavedPlaceOffered, Journey!WaystonesKept,
     Journey!Playing
<1>10. QED
  BY <1>3, <1>6, <1>7, <1>8, <1>9 DEF Traveling

LEMMA PlayKeeps ==
    ASSUME Traveling, NEW p \in Player, NEW c \in roster[p], Journey!Play(p, c)
    PROVE  Traveling'
<1>1. /\ stage[p] = "select"
      /\ role' = [role EXCEPT ![p] = c.id]
      /\ unlocked' = [unlocked EXCEPT ![p] = Journey!Checkpoints(c.id)]
      /\ row' = [row EXCEPT ![c.id].cps = Journey!Checkpoints(c.id)]
      /\ saved' = [saved EXCEPT ![p] = IF c.tp = Journey!NoPlace THEN @ ELSE c.tp]
      /\ stage' = [stage EXCEPT ![p] = "loading"]
      /\ zone' = [zone EXCEPT ![p] = StartZone] /\ spot' = [spot EXCEPT ![p] = "default"]
      /\ UNCHANGED <<roster, source, turn, menu, copy, passable, trips, casts, moves>>
  BY DEF Journey!Play, Journey!LoadTpState, Journey!StartJoin
<1> DEFINE k == c.id
           new == [row[k] EXCEPT !.cps = Journey!Checkpoints(k)]
           T == [owner : Player \cup {Journey!Nobody}, tp : Journey!Place,
                 cps : SUBSET Journey!Waystones]
<1>2. k \in Char /\ c = Journey!Entry(k) /\ row[k].owner = p
  <2>1. c \in [id : Char, tp : Journey!Place]
    BY DEF Traveling, Journey!TypeOK
  <2>2. c = Journey!Entry(c.id) /\ row[c.id].owner = p
    BY <1>1 DEF Traveling, Roles
  <2>3. QED
    BY <2>1, <2>2
<1>3. c.tp = Journey!NoPlace /\ saved[p] = Journey!NoPlace
  BY <1>1, <1>2 DEF Journey!Entry, Traveling, Roles
<1>4. saved' = saved
  BY <1>1, <1>3 DEF Traveling, Journey!TypeOK
<1>5. Journey!Checkpoints(k) \in SUBSET Journey!Waystones /\ row[k] \in T
  BY <1>2, Names DEF Journey!Checkpoints, Traveling, Journey!TypeOK
<1>6. new \in T /\ new.owner = row[k].owner /\ new.tp = row[k].tp /\ new.cps = Journey!Checkpoints(k)
  BY <1>5
<1>7. row' = [row EXCEPT ![k] = new]
  BY <1>1
<1> HIDE DEF new, k
<1>8. /\ row \in [Char -> T] /\ row' \in [Char -> T]
      /\ role' \in [Player -> Char \cup {Journey!Nobody}]
      /\ unlocked' \in [Player -> SUBSET Journey!Waystones]
      /\ stage' \in [Player -> {"off", "select", "loading", "in"}]
      /\ zone' \in [Player -> Zone]
      /\ spot' \in [Player -> {"default", "waypoint", "waystone", "cast", "entrance"}]
  BY <1>1, <1>2, <1>5, <1>6, <1>7, Names DEF Traveling, Journey!TypeOK, k
<1>9. Journey!TypeOK'
  BY <1>1, <1>4, <1>8 DEF Traveling, Journey!TypeOK
<1>10. /\ \A q \in Player : q # p => /\ stage'[q] = stage[q] /\ zone'[q] = zone[q]
                                     /\ role'[q] = role[q] /\ unlocked'[q] = unlocked[q]
       /\ stage'[p] = "loading" /\ role'[p] = k /\ unlocked'[p] = Journey!Checkpoints(k)
       /\ \A j \in Char : /\ row'[j].owner = row[j].owner /\ row'[j].tp = row[j].tp
                          /\ j # k => row'[j] = row[j]
       /\ row'[k] = new
  BY <1>1, <1>2, <1>6, <1>7, <1>8 DEF Traveling, Journey!TypeOK, k
<1>11. \A q \in Player : q # p /\ Journey!Playing(q) => role[q] \in Char /\ role[q] # k
  BY <1>2 DEF Traveling, Roles
<1>12. Roles'
  <2> SUFFICES ASSUME NEW q \in Player
               PROVE  /\ Journey!Playing(q)' => role'[q] \in Char /\ row'[role'[q]].owner = q
                      /\ stage'[q] # "off" =>
                           \A d \in roster'[q] : d = Journey!Entry(d.id) /\ row'[d.id].owner = q
                      /\ stage'[q] = "select" => saved'[q] = Journey!NoPlace
    BY DEF Roles
  <2>1. Journey!Playing(q)' => role'[q] \in Char /\ row'[role'[q]].owner = q
    BY <1>2, <1>10 DEF Traveling, Roles, Journey!Playing
  <2>2. stage[q] # "off" =>
            \A d \in roster[q] : d = Journey!Entry(d.id) /\ row[d.id].owner = q /\ d.id \in Char
    BY DEF Traveling, Roles, Journey!TypeOK
  <2>3. stage'[q] # "off" => stage[q] # "off"
    BY <1>1, <1>10
  <2>4. QED
    BY <1>1, <1>4, <1>10, <2>1, <2>2, <2>3 DEF Traveling, Roles
<1>13. Inhabited' /\ Journey!GateShown'
  BY <1>1, <1>10 DEF Traveling, Inhabited, Journey!GateShown
<1>14. Credit'
  BY <1>1, <1>10 DEF Traveling, Credit
<1>15. Journey!SavedPlaceOffered'
  BY <1>1, <1>3, <1>4, <1>10, <1>11 DEF Traveling, Journey!SavedPlaceOffered, Journey!Playing
<1>16. Journey!WaystonesKept'
  <2>1. /\ unlocked'[p] = row'[role'[p]].cps
        /\ Journey!DefaultCheckpoints \subseteq unlocked'[p]
    BY <1>6, <1>10 DEF Journey!Checkpoints
  <2>2. ASSUME NEW q \in Player, q # p, Journey!Playing(q)'
        PROVE  /\ unlocked'[q] = row'[role'[q]].cps
               /\ Journey!DefaultCheckpoints \subseteq unlocked'[q]
    <3>1. Journey!Playing(q) /\ role'[q] = role[q] /\ unlocked'[q] = unlocked[q]
      BY <1>10, <2>2 DEF Journey!Playing
    <3>2. row'[role[q]] = row[role[q]]
      BY <1>10, <1>11, <2>2, <3>1
    <3>3. QED
      BY <3>1, <3>2 DEF Traveling, Journey!WaystonesKept
  <2>3. QED
    BY <2>1, <2>2 DEF Journey!WaystonesKept
<1>17. QED
  BY <1>9, <1>12, <1>13, <1>14, <1>15, <1>16 DEF Traveling

-----------------------------------------------------------------------------
(* Ways to travel *)

(* Who is alone in a zone takes its copy along.                            *)
LEMMA LeftCopies ==
    ASSUME Traveling, NEW p \in Player
    PROVE  /\ Journey!Left(p) \in [Zone -> [live : BOOLEAN, open : BOOLEAN,
                                            looted : BOOLEAN, boss : BOOLEAN]]
           /\ \A q \in Player : q # p /\ stage[q] = "in" =>
                 Journey!Left(p)[zone[q]] = copy[zone[q]]
           /\ \A z \in Zone : ~Journey!Left(p)[z].live => ~Journey!Left(p)[z].open
<1>1. /\ copy \in [Zone -> [live : BOOLEAN, open : BOOLEAN, looted : BOOLEAN, boss : BOOLEAN]]
      /\ zone[p] \in Zone /\ \A q \in Player : zone[q] \in Zone
      /\ \A z \in Zone : ~copy[z].live => ~copy[z].open
  BY DEF Traveling, Journey!TypeOK, Inhabited
<1>2. /\ Journey!TornDown \in [live : BOOLEAN, open : BOOLEAN, looted : BOOLEAN, boss : BOOLEAN]
      /\ ~Journey!TornDown.open
  BY DEF Journey!TornDown, Journey!Fresh
<1>3. CASE stage[p] = "in" /\ Journey!In(zone[p]) = {p}
  <2>1. Journey!Left(p) = [copy EXCEPT ![zone[p]] = Journey!TornDown]
    BY <1>3 DEF Journey!Left
  <2>2. ASSUME NEW q \in Player, q # p, stage[q] = "in" PROVE zone[q] # zone[p]
    BY <1>3, <2>2 DEF Journey!In
  <2>3. QED
    BY <1>1, <1>2, <2>1, <2>2
<1>4. CASE ~(stage[p] = "in" /\ Journey!In(zone[p]) = {p})
  <2>1. Journey!Left(p) = copy
    BY <1>4 DEF Journey!Left
  <2>2. QED
    BY <1>1, <2>1
<1>5. QED
  BY <1>3, <1>4

LEMMA ArrivalSpot ==
    ASSUME NEW z, NEW way, NEW where \in {"", "waystone", "cast"}
    PROVE  Journey!Arrival(z, way, where)
              \in {"default", "waypoint", "waystone", "cast", "entrance"}
BY DEF Journey!Arrival

LEMMA OneMore == ASSUME NEW n, NEW m \in Nat, n \in 0 .. m, n < m PROVE n + 1 \in 0 .. m
OBVIOUS

LEMMA SentKeeps ==
    ASSUME Traveling, NEW p \in Player, NEW z, NEW way, NEW where \in {"", "waystone", "cast"},
           Journey!Sent(p, z, way, where),
           source' \in [Player -> Journey!Place],
           turn' \in [Player -> 0 .. Journey!Cardinality(Journey!Waystones)]
    PROVE  Traveling'
<1>1. /\ stage[p] = "in" /\ moves < MaxMoves /\ moves' = moves + 1
      /\ UNCHANGED <<row, roster, role, saved, unlocked, menu, trips, casts>>
  BY DEF Journey!Sent, Journey!Transfer
<1>2. moves' \in 0 .. MaxMoves
  <2>1. moves \in 0 .. MaxMoves
    BY DEF Traveling, Journey!TypeOK
  <2>2. MaxMoves \in Nat /\ moves < MaxMoves /\ moves' = moves + 1
    BY <1>1, Names
  <2>3. moves + 1 \in 0 .. MaxMoves
    BY <2>1, <2>2, OneMore
  <2>4. QED
    BY <2>2, <2>3
<1>3. CASE z \notin Zone \/ z = zone[p]
  <2>1. /\ UNCHANGED <<stage, zone, copy, passable>>
        /\ spot' = spot \/ spot' = [spot EXCEPT ![p] = Journey!Arrival(z, way, where)]
    BY <1>3 DEF Journey!Sent, Journey!Transfer
  <2>2. spot' \in [Player -> {"default", "waypoint", "waystone", "cast", "entrance"}]
    <3>1. spot \in [Player -> {"default", "waypoint", "waystone", "cast", "entrance"}]
      BY DEF Traveling, Journey!TypeOK
    <3>2. Journey!Arrival(z, way, where)
             \in {"default", "waypoint", "waystone", "cast", "entrance"}
      BY ArrivalSpot
    <3>3. QED
      BY <2>1, <3>1, <3>2
  <2>4. Journey!TypeOK'
    BY <1>1, <1>2, <2>1, <2>2 DEF Traveling, Journey!TypeOK
  <2>5. QED
    BY <1>1, <2>1, <2>4 DEF Traveling, Roles, Inhabited, Credit, Journey!SavedPlaceOffered,
       Journey!WaystonesKept, Journey!GateShown, Journey!Playing
<1>4. CASE z \in Zone /\ z # zone[p]
  <2>1. /\ spot' = [spot EXCEPT ![p] = Journey!Arrival(z, way, where)]
        /\ stage' = [stage EXCEPT ![p] = "loading"]
        /\ copy' = Journey!Left(p)
        /\ zone' = [zone EXCEPT ![p] = z]
        /\ passable' = [passable EXCEPT ![p] = FALSE]
    BY <1>4 DEF Journey!Sent, Journey!Transfer
  <2>2. /\ copy' \in [Zone -> [live : BOOLEAN, open : BOOLEAN, looted : BOOLEAN, boss : BOOLEAN]]
        /\ \A q \in Player : q # p /\ stage[q] = "in" => copy'[zone[q]] = copy[zone[q]]
        /\ \A y \in Zone : ~copy'[y].live => ~copy'[y].open
    BY <2>1, LeftCopies
  <2>3. Journey!TypeOK'
    BY <1>1, <1>2, <1>4, <2>1, <2>2, ArrivalSpot DEF Traveling, Journey!TypeOK
  <2>4. /\ \A q \in Player : q # p => /\ stage'[q] = stage[q] /\ zone'[q] = zone[q]
                                      /\ passable'[q] = passable[q]
        /\ stage'[p] = "loading"
    BY <2>1 DEF Traveling, Journey!TypeOK
  <2>5. \A q \in Player : Journey!Playing(q)' => Journey!Playing(q)
    BY <1>1, <2>4 DEF Journey!Playing
  <2>6. Roles' /\ Credit'
    BY <1>1, <2>4, <2>5 DEF Traveling, Roles, Credit
  <2>7. Inhabited' /\ Journey!GateShown'
    <3>1. \A q \in Player : stage'[q] = "in" =>
             /\ q # p /\ stage[q] = "in" /\ zone'[q] = zone[q]
             /\ passable'[q] = passable[q] /\ copy'[zone[q]] = copy[zone[q]]
      BY <2>2, <2>4
    <3>2. Inhabited'
      BY <2>2, <3>1 DEF Traveling, Inhabited
    <3>3. ASSUME NEW q \in Player, stage'[q] = "in"
          PROVE  passable'[q] = copy'[zone'[q]].open
      <4>1. passable[q] = copy[zone[q]].open
        BY <3>1, <3>3 DEF Traveling, Journey!GateShown
      <4>2. copy'[zone'[q]] = copy[zone[q]] /\ passable'[q] = passable[q]
        BY <3>1, <3>3
      <4>3. QED
        BY <4>1, <4>2
    <3>4. QED
      BY <3>2, <3>3 DEF Journey!GateShown
  <2>8. Journey!SavedPlaceOffered' /\ Journey!WaystonesKept'
    BY <1>1, <2>4, <2>5 DEF Traveling, Journey!SavedPlaceOffered, Journey!WaystonesKept
  <2>9. QED
    BY <2>3, <2>6, <2>7, <2>8 DEF Traveling
<1>5. QED
  BY <1>3, <1>4

(* The obelisk counts through the unlocked waystones.                      *)
LEMMA CycleKeeps ==
    ASSUME Traveling, NEW p \in Player, Journey!CycleObelisk(p)
    PROVE  Traveling'
<1> DEFINE available == unlocked[p] \ {zone[p]}
           idx == turn[p] % Journey!Cardinality(available)
           dest == CHOOSE w \in available :
              Journey!Cardinality({v \in available : Order[v] < Order[w]}) = idx
<1>1. /\ available # {} /\ Journey!Sent(p, dest, "", "")
      /\ turn' = [turn EXCEPT ![p] = idx + 1] /\ source' = source
  BY DEF Journey!CycleObelisk
<1>2. available \subseteq Journey!Waystones /\ turn[p] \in Nat
  BY Names, FS_CardinalityType, SameCount DEF Traveling, Journey!TypeOK
<1>3. /\ IsFiniteSet(available) /\ Cardinality(available) <= Cardinality(Journey!Waystones)
      /\ Cardinality(Journey!Waystones) \in Nat /\ Cardinality(available) \in Nat
  BY <1>2, Names, FS_Subset, FS_CardinalityType
<1>4. Cardinality(available) # 0
  BY <1>1, <1>3, FS_EmptySet
<1>5. idx = turn[p] % Cardinality(available)
  BY SameCount
<1> HIDE DEF dest, idx, available
<1>6. idx + 1 \in 0 .. Cardinality(Journey!Waystones)
  BY <1>2, <1>3, <1>4, <1>5
<1>7. turn' \in [Player -> 0 .. Journey!Cardinality(Journey!Waystones)]
  BY <1>1, <1>6, SameCount DEF Traveling, Journey!TypeOK
<1>8. source' \in [Player -> Journey!Place]
  BY <1>1 DEF Traveling, Journey!TypeOK
<1>9. "" \in {"", "waystone", "cast"}
  OBVIOUS
<1>10. QED
  BY <1>1, <1>7, <1>8, <1>9, SentKeeps

LEMMA OtherWays ==
    ASSUME Traveling, NEW p \in Player,
           \/ Journey!UsePortal(p) \/ Journey!UseTownPortal(p) \/ Journey!UseTeleporter(p)
           \/ Journey!RecallUse(p) \/ Journey!RecallMenu(p) \/ Journey!SavedPlace(p)
           \/ Journey!TownPortalReturn(p) \/ Journey!RecentPortal(p) \/ Journey!Respawn(p)
    PROVE  Traveling'
<1>1. PICK z, way, where : /\ Journey!Sent(p, z, way, where)
                           /\ where \in {"", "waystone", "cast"}
  <2>1. CASE Journey!UsePortal(p)
    BY <2>1 DEF Journey!UsePortal
  <2>2. CASE Journey!UseTownPortal(p)
    BY <2>2 DEF Journey!UseTownPortal
  <2>3. CASE Journey!UseTeleporter(p)
    BY <2>3 DEF Journey!UseTeleporter
  <2>4. CASE Journey!RecallUse(p)
    BY <2>4 DEF Journey!RecallUse
  <2>5. CASE Journey!RecallMenu(p)
    BY <2>5 DEF Journey!RecallMenu
  <2>6. CASE Journey!SavedPlace(p)
    BY <2>6 DEF Journey!SavedPlace
  <2>7. CASE Journey!TownPortalReturn(p)
    BY <2>7 DEF Journey!TownPortalReturn
  <2>8. CASE Journey!RecentPortal(p)
    BY <2>8 DEF Journey!RecentPortal
  <2>9. CASE Journey!Respawn(p)
    BY <2>9 DEF Journey!Respawn
  <2>10. QED
    BY <2>1, <2>2, <2>3, <2>4, <2>5, <2>6, <2>7, <2>8, <2>9
<1>2. turn' = turn /\ (source' = source \/ source' = [source EXCEPT ![p] = zone[p]])
  BY DEF Journey!UsePortal, Journey!UseTownPortal, Journey!UseTeleporter, Journey!RecallUse,
     Journey!RecallMenu, Journey!SavedPlace, Journey!TownPortalReturn, Journey!RecentPortal,
     Journey!Respawn
<1>3. /\ source' \in [Player -> Journey!Place]
      /\ turn' \in [Player -> 0 .. Journey!Cardinality(Journey!Waystones)]
  BY <1>2 DEF Traveling, Journey!TypeOK, Journey!Place
<1>4. QED
  BY <1>1, <1>3, SentKeeps

-----------------------------------------------------------------------------
(* Arrivals and departures *)

LEMMA DisconnectKeeps ==
    ASSUME Traveling, NEW p \in Player, Journey!Disconnect(p)
    PROVE  Traveling'
<1>1. /\ stage' = [stage EXCEPT ![p] = "off"] /\ copy' = Journey!Left(p)
      /\ role' = [role EXCEPT ![p] = Journey!Nobody]
      /\ menu' = [menu EXCEPT ![p] = Journey!NoPlace]
      /\ UNCHANGED <<row, roster, saved, unlocked, trips, casts, moves>>
      /\ UNCHANGED <<zone, spot, source, turn, passable>>
  BY DEF Journey!Disconnect, Journey!journey
<1>2. /\ copy' \in [Zone -> [live : BOOLEAN, open : BOOLEAN, looted : BOOLEAN, boss : BOOLEAN]]
      /\ \A q \in Player : q # p /\ stage[q] = "in" => copy'[zone[q]] = copy[zone[q]]
      /\ \A y \in Zone : ~copy'[y].live => ~copy'[y].open
  BY <1>1, LeftCopies
<1>3. Journey!TypeOK'
  BY <1>1, <1>2 DEF Traveling, Journey!TypeOK, Journey!Place
<1>4. /\ \A q \in Player : q # p => /\ stage'[q] = stage[q] /\ role'[q] = role[q]
                                    /\ menu'[q] = menu[q]
      /\ stage'[p] = "off"
  BY <1>1 DEF Traveling, Journey!TypeOK
<1>5. Roles' /\ Credit'
  BY <1>1, <1>4 DEF Traveling, Roles, Credit, Journey!Playing
<1>6. Inhabited' /\ Journey!GateShown'
  BY <1>1, <1>2, <1>4 DEF Traveling, Inhabited, Journey!GateShown
<1>7. Journey!SavedPlaceOffered' /\ Journey!WaystonesKept'
  BY <1>1, <1>4 DEF Traveling, Journey!SavedPlaceOffered, Journey!WaystonesKept, Journey!Playing
<1>8. QED
  BY <1>3, <1>5, <1>6, <1>7 DEF Traveling

(* An arrival shows the gate as it is in a copy that lives, and a new copy  *)
(* has its gate closed like the one that is gone.                          *)
LEMMA ArrivalOpens ==
    ASSUME Traveling, NEW p \in Player, Journey!Arrive(p)
    PROVE  /\ copy' \in [Zone -> [live : BOOLEAN, open : BOOLEAN,
                                  looted : BOOLEAN, boss : BOOLEAN]]
           /\ \A z \in Zone : copy'[z].open = copy[z].open
           /\ \A z \in Zone : (copy[z].live => copy'[z].live)
           /\ copy'[zone[p]].live
<1>1. /\ copy \in [Zone -> [live : BOOLEAN, open : BOOLEAN, looted : BOOLEAN, boss : BOOLEAN]]
      /\ zone[p] \in Zone /\ \A z \in Zone : ~copy[z].live => ~copy[z].open
  BY DEF Traveling, Journey!TypeOK, Inhabited
<1>2. copy' = [copy EXCEPT ![zone[p]] = IF @.live THEN @ ELSE Journey!Fresh]
  BY DEF Journey!Arrive
<1>3. /\ Journey!Fresh \in [live : BOOLEAN, open : BOOLEAN, looted : BOOLEAN, boss : BOOLEAN]
      /\ ~Journey!Fresh.open /\ Journey!Fresh.open \in BOOLEAN /\ Journey!Fresh.live
  BY DEF Journey!Fresh
<1>4. CASE copy[zone[p]].live
  BY <1>1, <1>2, <1>4
<1>5. CASE ~copy[zone[p]].live
  <2>1. copy' = [copy EXCEPT ![zone[p]] = Journey!Fresh]
    BY <1>1, <1>2, <1>5
  <2>2. copy[zone[p]].open = Journey!Fresh.open
    BY <1>1, <1>3, <1>5
  <2>3. QED
    BY <1>1, <1>3, <2>1, <2>2
<1>6. QED
  BY <1>4, <1>5

LEMMA ArriveKeeps ==
    ASSUME Traveling, NEW p \in Player, Journey!Arrive(p)
    PROVE  Traveling'
<1>1. /\ stage[p] = "loading"
      /\ stage' = [stage EXCEPT ![p] = "in"]
      /\ menu' = [menu EXCEPT ![p] = saved[p]]
      /\ passable' = [passable EXCEPT ![p] = copy[zone[p]].open]
      /\ Journey!SpawnReturn(p)
      /\ UNCHANGED <<roster, role, zone, spot, source, unlocked, turn, casts, moves>>
  BY DEF Journey!Arrive, Journey!Reopen
<1> DEFINE k == role[p]
           T == [owner : Player \cup {Journey!Nobody}, tp : Journey!Place,
                 cps : SUBSET Journey!Waystones]
<1>2. k \in Char /\ row[k].owner = p
  BY <1>1 DEF Traveling, Roles, Journey!Playing
<1>3. row \in [Char -> T] /\ saved \in [Player -> Journey!Place] /\ trips \in [Char -> Nat]
  BY DEF Traveling, Journey!TypeOK
<1>4. \/ UNCHANGED <<saved, row, trips>>
      \/ /\ saved[p] # Journey!NoPlace
         /\ trips' = [trips EXCEPT ![k] = @ + 1]
         /\ saved' = [saved EXCEPT ![p] = Journey!NoPlace]
         /\ row' = [row EXCEPT ![k].tp = Journey!NoPlace]
  BY <1>1 DEF Journey!SpawnReturn, Journey!Cleared
<1> HIDE DEF k
<1>5. /\ row' \in [Char -> T] /\ saved' \in [Player -> Journey!Place] /\ trips' \in [Char -> Nat]
      /\ \A j \in Char : row'[j].owner = row[j].owner /\ row'[j].cps = row[j].cps
      /\ \A j \in Char : j # k => row'[j] = row[j] /\ trips'[j] = trips[j]
      /\ \A q \in Player : q # p => saved'[q] = saved[q]
  <2>1. CASE UNCHANGED <<saved, row, trips>>
    BY <1>3, <2>1
  <2>2. CASE ~UNCHANGED <<saved, row, trips>>
    <3> DEFINE new == [row[k] EXCEPT !.tp = Journey!NoPlace]
    <3>1. new \in T /\ new.owner = row[k].owner /\ new.cps = row[k].cps
      BY <1>2, <1>3 DEF Journey!Place
    <3>2. row' = [row EXCEPT ![k] = new]
      BY <1>4, <2>2
    <3> HIDE DEF new
    <3>3. QED
      BY <1>2, <1>3, <1>4, <2>2, <3>1, <3>2 DEF Journey!Place
  <2>3. QED
    BY <2>1, <2>2
<1>6. Journey!TypeOK'
  BY <1>1, <1>5, ArrivalOpens DEF Traveling, Journey!TypeOK
<1>7. /\ \A q \in Player : q # p => /\ stage'[q] = stage[q] /\ menu'[q] = menu[q]
                                    /\ passable'[q] = passable[q]
      /\ stage'[p] = "in" /\ menu'[p] = saved[p] /\ passable'[p] = copy[zone[p]].open
  BY <1>1 DEF Traveling, Journey!TypeOK
<1>8. \A q \in Player : Journey!Playing(q)' <=> Journey!Playing(q)
  BY <1>1, <1>7 DEF Journey!Playing
<1>9. \A q \in Player : q # p /\ Journey!Playing(q) => role[q] \in Char /\ role[q] # k
  BY <1>2 DEF Traveling, Roles
<1>10. Roles'
  <2>1. \A q \in Player : \A c \in roster[q] : c.id \in Char
    BY DEF Traveling, Journey!TypeOK
  <2>2. QED
    BY <1>1, <1>5, <1>7, <1>8, <2>1 DEF Traveling, Roles
<1>11. Inhabited' /\ Journey!GateShown'
  <2>1. \A q \in Player : zone[q] \in Zone /\ zone'[q] = zone[q]
    BY <1>1 DEF Traveling, Journey!TypeOK
  <2>2. Inhabited'
    BY <1>7, <2>1, ArrivalOpens DEF Traveling, Inhabited
  <2>3. Journey!GateShown'
    BY <1>7, <2>1, ArrivalOpens DEF Traveling, Journey!GateShown
  <2>4. QED
    BY <2>2, <2>3
<1>12. Credit'
  <2>1. CASE UNCHANGED <<saved, row, trips>>
    BY <1>1, <2>1 DEF Traveling, Credit
  <2>2. CASE ~UNCHANGED <<saved, row, trips>>
    <3>1. row[k].tp # Journey!NoPlace
      BY <1>1, <1>4, <2>2 DEF k, Traveling, Journey!SavedPlaceOffered, Journey!Playing
    <3>2. trips'[k] = trips[k] + 1 /\ row'[k].tp = Journey!NoPlace
      BY <1>2, <1>3, <1>4, <2>2
    <3>3. trips[k] \in Nat /\ casts[k] \in Nat /\ trips[k] + 1 <= casts[k]
      BY <1>2, <1>3, <3>1 DEF Traveling, Credit, Journey!TypeOK
    <3>4. QED
      BY <1>1, <1>5, <3>2, <3>3 DEF Traveling, Credit
  <2>3. QED
    BY <2>1, <2>2
<1>13. Journey!SavedPlaceOffered'
  <2>1. ASSUME saved'[p] # Journey!NoPlace
        PROVE  row'[k].tp = saved'[p] /\ menu'[p] = saved'[p]
    <3>1. UNCHANGED <<saved, row, trips>>
      BY <1>3, <1>4, <2>1
    <3>2. row[k].tp = saved[p]
      BY <1>1, <2>1, <3>1 DEF k, Traveling, Journey!SavedPlaceOffered, Journey!Playing
    <3>3. QED
      BY <1>7, <3>1, <3>2
  <2>2. ASSUME NEW q \in Player, q # p, Journey!Playing(q), saved'[q] # Journey!NoPlace
        PROVE  /\ row'[role'[q]].tp = saved'[q]
               /\ stage'[q] = "in" => menu'[q] = saved'[q]
    <3>1. /\ row[role[q]].tp = saved[q] /\ (stage[q] = "in" => menu[q] = saved[q])
      BY <1>5, <2>2 DEF Traveling, Journey!SavedPlaceOffered
    <3>2. row'[role[q]] = row[role[q]] /\ role' = role
      BY <1>1, <1>5, <1>9, <2>2
    <3>3. QED
      BY <1>5, <1>7, <2>2, <3>1, <3>2
  <2>3. QED
    BY <1>1, <1>8, <2>1, <2>2 DEF k, Journey!SavedPlaceOffered
<1>14. Journey!WaystonesKept'
  <2>1. \A q \in Player : Journey!Playing(q) => role[q] \in Char
    BY DEF Traveling, Roles
  <2>2. QED
    BY <1>1, <1>5, <1>8, <2>1 DEF Traveling, Journey!WaystonesKept
<1>15. QED
  BY <1>6, <1>10, <1>11, <1>12, <1>13, <1>14 DEF Traveling

-----------------------------------------------------------------------------
(* In a zone *)

LEMMA UnlockKeeps ==
    ASSUME Traveling, NEW p \in Player, Journey!Unlock(p)
    PROVE  Traveling'
<1> DEFINE k == role[p]
           T == [owner : Player \cup {Journey!Nobody}, tp : Journey!Place,
                 cps : SUBSET Journey!Waystones]
           new == [row[k] EXCEPT !.cps = @ \cup {zone[p]}]
<1>1. /\ stage[p] = "in" /\ zone[p] \in Journey!Waystones
      /\ unlocked' = [unlocked EXCEPT ![p] = @ \cup {zone[p]}]
      /\ row' = [row EXCEPT ![k].cps = @ \cup {zone[p]}]
      /\ UNCHANGED <<roster, stage, role, saved, menu, copy, trips, casts, moves>>
      /\ UNCHANGED <<zone, spot, source, turn, passable>>
  BY DEF Journey!Unlock, Journey!journey
<1>2. k \in Char /\ row[k].owner = p
  BY <1>1 DEF Traveling, Roles, Journey!Playing
<1>3. row \in [Char -> T] /\ unlocked \in [Player -> SUBSET Journey!Waystones]
  BY DEF Traveling, Journey!TypeOK
<1>4. /\ new \in T /\ new.owner = row[k].owner /\ new.tp = row[k].tp
      /\ new.cps = row[k].cps \cup {zone[p]}
  BY <1>1, <1>2, <1>3
<1>5. row' = [row EXCEPT ![k] = new]
  BY <1>1
<1> HIDE DEF new, k
<1>6. /\ row' \in [Char -> T] /\ unlocked' \in [Player -> SUBSET Journey!Waystones]
      /\ \A j \in Char : row'[j].owner = row[j].owner /\ row'[j].tp = row[j].tp
      /\ \A j \in Char : j # k => row'[j] = row[j]
      /\ row'[k].cps = row[k].cps \cup {zone[p]}
      /\ \A q \in Player : q # p => unlocked'[q] = unlocked[q]
      /\ unlocked'[p] = unlocked[p] \cup {zone[p]}
  BY <1>1, <1>2, <1>3, <1>4, <1>5
<1>7. Journey!TypeOK'
  BY <1>1, <1>6 DEF Traveling, Journey!TypeOK
<1>8. \A q \in Player : \A c \in roster[q] : c.id \in Char
  BY DEF Traveling, Journey!TypeOK
<1>9. \A q \in Player : /\ Journey!Playing(q)' <=> Journey!Playing(q)
                        /\ Journey!Playing(q) => role[q] \in Char
                        /\ q # p /\ Journey!Playing(q) => role[q] # k
  BY <1>1, <1>2 DEF Traveling, Roles, Journey!Playing
<1>10. Roles' /\ Credit'
  BY <1>1, <1>6, <1>8, <1>9 DEF Traveling, Roles, Credit
<1>11. Inhabited' /\ Journey!GateShown'
  BY <1>1 DEF Traveling, Inhabited, Journey!GateShown
<1>12. Journey!SavedPlaceOffered'
  BY <1>1, <1>6, <1>9 DEF Traveling, Journey!SavedPlaceOffered
<1>13. Journey!WaystonesKept'
  <2>1. Journey!Playing(p) /\ unlocked[p] = row[k].cps
        /\ Journey!DefaultCheckpoints \subseteq unlocked[p]
    BY <1>1 DEF k, Traveling, Journey!WaystonesKept, Journey!Playing
  <2>2. ASSUME NEW q \in Player, q # p, Journey!Playing(q)
        PROVE  /\ unlocked'[q] = row'[role'[q]].cps
               /\ Journey!DefaultCheckpoints \subseteq unlocked'[q]
    BY <1>1, <1>6, <1>9, <2>2 DEF Traveling, Journey!WaystonesKept
  <2>3. unlocked'[p] = row'[role'[p]].cps /\ Journey!DefaultCheckpoints \subseteq unlocked'[p]
    <3>1. role'[p] = k
      BY <1>1 DEF k
    <3>2. QED
      BY <1>6, <2>1, <3>1
  <2>4. Journey!DefaultCheckpoints' = Journey!DefaultCheckpoints
    OBVIOUS
  <2>5. QED
    BY <1>9, <2>2, <2>3 DEF Journey!WaystonesKept
<1>14. QED
  BY <1>7, <1>10, <1>11, <1>12, <1>13 DEF Traveling

LEMMA UseScrollKeeps ==
    ASSUME Traveling, NEW p \in Player, Journey!UseScroll(p)
    PROVE  Traveling'
<1> DEFINE k == role[p]
           T == [owner : Player \cup {Journey!Nobody}, tp : Journey!Place,
                 cps : SUBSET Journey!Waystones]
           new == [row[k] EXCEPT !.tp = zone[p]]
<1>1. /\ stage[p] = "in" /\ casts[k] < MaxScrolls
      /\ casts' = [casts EXCEPT ![k] = @ + 1]
      /\ saved' = [saved EXCEPT ![p] = zone[p]]
      /\ row' = [row EXCEPT ![k].tp = zone[p]]
      /\ menu' = [menu EXCEPT ![p] = zone[p]]
      /\ UNCHANGED <<roster, stage, role, unlocked, copy, trips, moves>>
      /\ UNCHANGED <<zone, spot, source, turn, passable>>
  BY DEF Journey!UseScroll, Journey!TellPlace, Journey!journey
<1>2. k \in Char /\ row[k].owner = p
  BY <1>1 DEF Traveling, Roles, Journey!Playing
<1>3. /\ row \in [Char -> T] /\ saved \in [Player -> Journey!Place]
      /\ menu \in [Player -> Journey!Place] /\ casts \in [Char -> 0 .. MaxScrolls]
      /\ zone[p] \in Zone /\ zone[p] \in Journey!Place /\ trips \in [Char -> Nat]
  BY DEF Traveling, Journey!TypeOK, Journey!Place
<1>4. /\ new \in T /\ new.owner = row[k].owner /\ new.cps = row[k].cps
      /\ new.tp = zone[p]
  BY <1>2, <1>3
<1>5. row' = [row EXCEPT ![k] = new]
  BY <1>1
<1> HIDE DEF new, k
<1>6. /\ row' \in [Char -> T]
      /\ \A j \in Char : row'[j].owner = row[j].owner /\ row'[j].cps = row[j].cps
      /\ \A j \in Char : j # k => row'[j] = row[j]
      /\ row'[k].tp = zone[p]
  BY <1>2, <1>3, <1>4, <1>5
<1>7. /\ saved' \in [Player -> Journey!Place] /\ menu' \in [Player -> Journey!Place]
      /\ \A q \in Player : q # p => saved'[q] = saved[q] /\ menu'[q] = menu[q]
      /\ saved'[p] = zone[p] /\ menu'[p] = zone[p]
  BY <1>1, <1>3
<1>8. /\ casts' \in [Char -> 0 .. MaxScrolls]
      /\ \A j \in Char : j # k => casts'[j] = casts[j]
      /\ casts'[k] = casts[k] + 1
  <2>1. casts[k] + 1 \in 0 .. MaxScrolls
    BY <1>1, <1>2, <1>3, Names
  <2>2. QED
    BY <1>1, <1>2, <1>3, <2>1
<1>9. Journey!TypeOK'
  BY <1>1, <1>6, <1>7, <1>8 DEF Traveling, Journey!TypeOK
<1>10. \A q \in Player : \A c \in roster[q] : c.id \in Char
  BY DEF Traveling, Journey!TypeOK
<1>11. \A q \in Player : /\ Journey!Playing(q)' <=> Journey!Playing(q)
                         /\ Journey!Playing(q) => role[q] \in Char
                         /\ q # p /\ Journey!Playing(q) => role[q] # k
  BY <1>1, <1>2 DEF Traveling, Roles, Journey!Playing
<1>12. Roles'
  <2>1. stage[p] # "select"
    BY <1>1
  <2>2. QED
    BY <1>1, <1>6, <1>7, <1>10, <1>11, <2>1 DEF Traveling, Roles
<1>13. Credit'
  <2>1. ASSUME NEW j \in Char, j # k
        PROVE  trips'[j] + (IF row'[j].tp = Journey!NoPlace THEN 0 ELSE 1) <= casts'[j]
    BY <1>1, <1>6, <1>8, <2>1 DEF Traveling, Credit
  <2>2. trips'[k] + (IF row'[k].tp = Journey!NoPlace THEN 0 ELSE 1) <= casts'[k]
    <3>1. trips[k] <= casts[k]
      BY <1>2, <1>3, Names DEF Traveling, Credit
    <3>2. trips'[k] = trips[k] /\ trips[k] \in Nat /\ casts[k] \in Int
      BY <1>1, <1>2, <1>3, Names
    <3>3. QED
      BY <1>8, <3>1, <3>2
  <2>3. QED
    BY <2>1, <2>2 DEF Credit
<1>14. Inhabited' /\ Journey!GateShown'
  BY <1>1 DEF Traveling, Inhabited, Journey!GateShown
<1>15. Journey!SavedPlaceOffered'
  <2>1. ASSUME NEW q \in Player, q # p, Journey!Playing(q), saved'[q] # Journey!NoPlace
        PROVE  /\ row'[role'[q]].tp = saved'[q]
               /\ stage'[q] = "in" => menu'[q] = saved'[q]
    <3>1. row[role[q]].tp = saved[q] /\ (stage[q] = "in" => menu[q] = saved[q])
      BY <1>7, <2>1 DEF Traveling, Journey!SavedPlaceOffered
    <3>2. row'[role'[q]] = row[role[q]]
      BY <1>1, <1>6, <1>11, <2>1
    <3>3. QED
      BY <1>1, <1>7, <2>1, <3>1, <3>2
  <2>2. row'[role'[p]].tp = saved'[p] /\ menu'[p] = saved'[p]
    <3>1. role'[p] = k
      BY <1>1 DEF k
    <3>2. QED
      BY <1>6, <1>7, <3>1
  <2>3. QED
    BY <1>11, <2>1, <2>2 DEF Journey!SavedPlaceOffered
<1>16. Journey!WaystonesKept'
  BY <1>1, <1>6, <1>11 DEF Traveling, Journey!WaystonesKept
<1>17. QED
  BY <1>9, <1>12, <1>13, <1>14, <1>15, <1>16 DEF Traveling

LEMMA OpenChestKeeps ==
    ASSUME Traveling, NEW p \in Player, Journey!OpenChest(p)
    PROVE  Traveling'
<1> DEFINE R == [live : BOOLEAN, open : BOOLEAN, looted : BOOLEAN, boss : BOOLEAN]
           new == [copy[zone[p]] EXCEPT !.looted = TRUE]
<1>1. /\ copy' = [copy EXCEPT ![zone[p]] = new]
      /\ UNCHANGED <<row, roster, stage, role, saved, unlocked, menu, trips, casts, moves>>
      /\ UNCHANGED <<zone, spot, source, turn, passable>>
  BY DEF Journey!OpenChest, Journey!journey
<1>2. copy \in [Zone -> R] /\ zone \in [Player -> Zone]
  BY DEF Traveling, Journey!TypeOK
<1>3. new \in R /\ new.live = copy[zone[p]].live /\ new.open = copy[zone[p]].open
  <2>1. copy[zone[p]] \in R
    BY <1>2
  <2>2. QED
    BY <2>1
<1> HIDE DEF new
<1>4. /\ copy' \in [Zone -> R]
      /\ \A z \in Zone : copy'[z].live = copy[z].live /\ copy'[z].open = copy[z].open
  BY <1>1, <1>2, <1>3
<1>5. Journey!TypeOK'
  BY <1>1, <1>4 DEF Traveling, Journey!TypeOK
<1>6. Inhabited' /\ Journey!GateShown'
  BY <1>1, <1>2, <1>4 DEF Traveling, Inhabited, Journey!GateShown
<1>7. Roles' /\ Credit' /\ Journey!SavedPlaceOffered' /\ Journey!WaystonesKept'
  BY <1>1 DEF Traveling, Roles, Credit, Journey!SavedPlaceOffered, Journey!WaystonesKept,
     Journey!Playing
<1>8. QED
  BY <1>5, <1>6, <1>7 DEF Traveling

LEMMA BossFallsKeeps ==
    ASSUME Traveling, NEW z \in Zone, Journey!BossFalls(z)
    PROVE  Traveling'
<1> DEFINE R == [live : BOOLEAN, open : BOOLEAN, looted : BOOLEAN, boss : BOOLEAN]
           new == [copy[z] EXCEPT !.boss = FALSE, !.open = TRUE]
<1>1. /\ Journey!In(z) # {}
      /\ copy' = [copy EXCEPT ![z].boss = FALSE, ![z].open = TRUE]
      /\ passable' = [q \in Player |-> passable[q] \/ q \in Journey!In(z)]
      /\ UNCHANGED <<row, roster, stage, role, zone, spot, saved, source, unlocked, turn,
                     menu, trips, casts, moves>>
  BY DEF Journey!BossFalls
<1>2. /\ copy \in [Zone -> R] /\ zone \in [Player -> Zone] /\ passable \in [Player -> BOOLEAN]
  BY DEF Traveling, Journey!TypeOK
<1>3. new \in R /\ new.live = copy[z].live /\ new.open
  BY <1>2
<1>4. copy' = [copy EXCEPT ![z] = new]
  BY <1>1, <1>2
<1> HIDE DEF new
<1>5. /\ copy' \in [Zone -> R]
      /\ \A y \in Zone : copy'[y].live = copy[y].live
      /\ \A y \in Zone : y # z => copy'[y] = copy[y]
      /\ copy'[z].open
  BY <1>2, <1>3, <1>4
<1>6. copy[z].live
  BY <1>1 DEF Traveling, Inhabited, Journey!In
<1>7. Journey!TypeOK'
  BY <1>1, <1>5 DEF Traveling, Journey!TypeOK
<1>8. Inhabited'
  BY <1>1, <1>2, <1>5, <1>6 DEF Traveling, Inhabited
<1>9. Journey!GateShown'
  <2>1. ASSUME NEW q \in Player, stage[q] = "in"
        PROVE  passable'[q] = copy'[zone[q]].open
    <3>1. passable[q] = copy[zone[q]].open /\ zone[q] \in Zone /\ copy[zone[q]].open \in BOOLEAN
      BY <1>2, <2>1 DEF Traveling, Journey!GateShown
    <3>2. q \in Journey!In(z) <=> zone[q] = z
      BY <2>1 DEF Journey!In
    <3>3. passable'[q] = (passable[q] \/ q \in Journey!In(z))
      BY <1>1
    <3>4. copy'[z].open = TRUE
      BY <1>5
    <3>5. CASE zone[q] = z
      BY <3>2, <3>3, <3>4, <3>5
    <3>6. CASE zone[q] # z
      BY <1>5, <3>1, <3>2, <3>3, <3>6
    <3>7. QED
      BY <3>5, <3>6
  <2>2. QED
    BY <1>1, <2>1 DEF Journey!GateShown
<1>10. Roles' /\ Credit' /\ Journey!SavedPlaceOffered' /\ Journey!WaystonesKept'
  BY <1>1 DEF Traveling, Roles, Credit, Journey!SavedPlaceOffered, Journey!WaystonesKept,
     Journey!Playing
<1>11. QED
  BY <1>7, <1>8, <1>9, <1>10 DEF Traveling

-----------------------------------------------------------------------------
LEMMA TravelNext ==
    ASSUME Traveling, [Next]_vars
    PROVE  Traveling'
<1>1. CASE Journey!Next
  BY <1>1, LoginKeeps, CreateKeeps, DeleteKeeps, PlayKeeps, ArriveKeeps, DisconnectKeeps,
     OtherWays, UnlockKeeps, CycleKeeps, UseScrollKeeps, OpenChestKeeps, BossFallsKeeps
     DEF Journey!Next
<1>2. CASE UNCHANGED travelVars
  BY <1>2 DEF travelVars, Traveling, Journey!TypeOK, Roles, Inhabited, Credit,
     Journey!SavedPlaceOffered, Journey!WaystonesKept, Journey!GateShown, Journey!Playing
<1>3. QED
  BY <1>1, <1>2 DEF Next, vars

(* Wherever transfers, logins, deaths and scrolls lead: a place that a      *)
(* connection holds for the way back is in its character's row and in the   *)
(* menu of its client, waystones are those of the row, a gate is shown as it *)
(* is in the copy, and a scroll is worth one way back.                      *)
THEOREM PlacesCorrect == Spec => []PlacesKept
<1>1. Traveling => PlacesKept
  <2> SUFFICES ASSUME Traveling PROVE Journey!OneTripPerScroll
    BY DEF Traveling, PlacesKept
  <2>1. \A k \in Char : trips[k] \in Nat /\ casts[k] \in Int
    BY Names DEF Traveling, Journey!TypeOK
  <2>2. QED
    BY <2>1 DEF Traveling, Credit, Journey!OneTripPerScroll
<1>2. QED
  BY <1>1, TravelInit, TravelNext, PTL DEF Spec

-----------------------------------------------------------------------------
(* Content: the database file, its log and the tools.  A tool at work has   *)
(* the server down, so what it took a copy of stays as it was; tools that   *)
(* wait for a clean exit find no log.                                       *)

DbTools ==
    /\ Database!TypeOK
    /\ tool.at # "idle" => server = "down"
    /\ server = "up" => live # Database!NoFile
    /\ tool.at = "ready" /\ tool.job = "restore" => live # Database!NoFile
    /\ tool.at = "import" => live # Database!NoFile
    /\ tool.at = "moved" => live = Database!NoFile
    /\ tool.at = "idle" => tool.job = "none"
    /\ tool.at = "rebuilt" => tool.job \in Database!Tables
    /\ tool.at = "ready" => tool.job \in Database!Tables \cup {"build", "subset", "restore"}
    /\ tool.at = "moved" => tool.job = "restore"
    /\ tool.at = "import" => tool.job = "npcs"
    /\ tool.at \in {"rebuilt", "ready", "moved"} => tool.work \in Database!Db
    /\ tool.job \in Database!Tables =>
         live \in Database!Db /\ tool.work = Database!Rebuilt(tool.job, live)
    /\ tool.job = "build" => tool.work = Database!FromZero(Database!Range(Database!BuildSteps))

DbLogs ==
    /\ live = Database!NoFile \/ live.sound
    /\ tool.at \in {"ready", "moved"} => tool.work.sound
    /\ journal.foreign = FALSE
    /\ tool.at # "idle" \/ live = Database!NoFile => journal = Database!NoJournal
    /\ committed \subseteq (IF live = Database!NoFile THEN {} ELSE live.players)
                            \cup journal.saves \cup kept

LEMMA NoHole == \A d \in Database!Db : d # Database!NoFile
<1> SUFFICES ASSUME NEW d \in Database!Db PROVE d # Database!NoFile
  OBVIOUS
<1>1. "shops" \in DOMAIN d
  BY DEF Database!Db
<1>2. "shops" \notin DOMAIN Database!NoFile
  BY DEF Database!NoFile
<1>3. QED
  BY <1>1, <1>2

(* A database with one of its tables changed.                              *)
LEMMA ItemsChanged ==
    ASSUME NEW d \in Database!Db, NEW x \in SUBSET Database!Keys
    PROVE  LET e == [d EXCEPT !.items = x] IN
           /\ e \in Database!Db /\ e.items = x
           /\ e.shops = d.shops /\ e.creatures = d.creatures /\ e.armed = d.armed
           /\ e.client = d.client /\ e.players = d.players /\ e.sound = d.sound
BY DEF Database!Db

LEMMA ShopsChanged ==
    ASSUME NEW d \in Database!Db, NEW x \in SUBSET Database!Vendors
    PROVE  LET e == [d EXCEPT !.shops = x] IN
           /\ e \in Database!Db /\ e.shops = x
           /\ e.items = d.items /\ e.creatures = d.creatures /\ e.armed = d.armed
           /\ e.client = d.client /\ e.players = d.players /\ e.sound = d.sound
BY DEF Database!Db

LEMMA CreaturesChanged ==
    ASSUME NEW d \in Database!Db, NEW x \in SUBSET Database!Beasts
    PROVE  LET e == [d EXCEPT !.creatures = x] IN
           /\ e \in Database!Db /\ e.creatures = x
           /\ e.items = d.items /\ e.shops = d.shops /\ e.armed = d.armed
           /\ e.client = d.client /\ e.players = d.players /\ e.sound = d.sound
BY DEF Database!Db

LEMMA ArmedChanged ==
    ASSUME NEW d \in Database!Db, NEW x \in SUBSET Database!Beasts
    PROVE  LET e == [d EXCEPT !.armed = x] IN
           /\ e \in Database!Db /\ e.armed = x
           /\ e.items = d.items /\ e.shops = d.shops /\ e.creatures = d.creatures
           /\ e.client = d.client /\ e.players = d.players /\ e.sound = d.sound
BY DEF Database!Db

LEMMA ClientChanged ==
    ASSUME NEW d \in Database!Db, NEW x \in SUBSET Database!Plain
    PROVE  LET e == [d EXCEPT !.client = x] IN
           /\ e \in Database!Db /\ e.client = x
           /\ e.items = d.items /\ e.shops = d.shops /\ e.creatures = d.creatures
           /\ e.armed = d.armed /\ e.players = d.players /\ e.sound = d.sound
BY DEF Database!Db

LEMMA PlayersChanged ==
    ASSUME NEW d \in Database!Db, NEW x \in SUBSET Database!Rows
    PROVE  LET e == [d EXCEPT !.players = x] IN
           /\ e \in Database!Db /\ e.players = x
           /\ e.items = d.items /\ e.shops = d.shops /\ e.creatures = d.creatures
           /\ e.armed = d.armed /\ e.client = d.client /\ e.sound = d.sound
BY DEF Database!Db

-----------------------------------------------------------------------------
(* The importers *)

(* An importer neither touches the rows of players nor breaks the file.    *)
Harmless(d, e) == e \in Database!Db /\ e.players = d.players /\ e.sound = d.sound

(* What a plain importer adds.                                             *)
LEMMA PlainAdds ==
    ASSUME NEW d \in Database!Db, NEW t \in Database!Plain
    PROVE  LET e == [d EXCEPT !.client = @ \cup {t}] IN
           /\ Harmless(d, e) /\ e.client = d.client \cup {t} /\ e.shops = d.shops
           /\ e.creatures = d.creatures /\ e.armed = d.armed
<1>1. d.client \cup {t} \in SUBSET Database!Plain
  BY DEF Database!Db
<1>2. [d EXCEPT !.client = @ \cup {t}] = [d EXCEPT !.client = d.client \cup {t}]
  OBVIOUS
<1>3. QED
  BY <1>1, <1>2, ClientChanged DEF Harmless

LEMMA ItemsRebuilt ==
    ASSUME NEW d \in Database!Db
    PROVE  LET e == Database!RebuildItems(d) IN
           /\ Harmless(d, e) /\ e.client = d.client /\ e.shops = d.shops
           /\ e.items = Tree \cup (d.items \cap Database!Referenced(d))
<1> DEFINE x == Tree \cup (d.items \cap Database!Referenced(d))
<1>1. x \in SUBSET Database!Keys
  BY DEF Database!Db, Database!Keys
<1>2. Database!RebuildItems(d) = [d EXCEPT !.items = x]
  BY DEF Database!RebuildItems
<1> HIDE DEF x
<1>3. QED
  BY <1>1, <1>2, ItemsChanged DEF Harmless, x

LEMMA ItemsRekeyed ==
    ASSUME NEW d \in Database!Db
    PROVE  Harmless(d, Database!Rekey(d))
<1> DEFINE m == {k \in d.items \cap DOMAIN Prefixed : Prefixed[k] \notin d.items}
           x == (d.items \ m) \cup {Prefixed[k] : k \in m}
<1>1. x \in SUBSET Database!Keys
  <2>1. d.items \subseteq Database!Keys
    BY DEF Database!Db
  <2>2. \A k \in m : Prefixed[k] \in Database!Keys
    BY DEF Database!Keys, Database!Range
  <2>3. QED
    BY <2>1, <2>2
<1>2. Database!Rekey(d) = [d EXCEPT !.items = x]
  BY DEF Database!Rekey
<1> HIDE DEF x, m
<1>3. QED
  BY <1>1, <1>2, ItemsChanged DEF Harmless

LEMMA SeedLoaded ==
    ASSUME NEW d \in Database!Db
    PROVE  LET e == Database!LoadSeed(d) IN
           /\ Harmless(d, e) /\ e.client = d.client /\ e.shops = d.shops
           /\ e.creatures = d.creatures /\ e.armed = d.armed
<1>1. Seed \in SUBSET Database!Keys
  BY DEF Database!Keys
<1>2. QED
  BY <1>1, ItemsChanged DEF Database!LoadSeed, Harmless

LEMMA ArmedAll ==
    ASSUME NEW d \in Database!Db
    PROVE  LET e == Database!Arm(d) IN
           /\ Harmless(d, e) /\ e.client = d.client /\ e.shops = d.shops
           /\ e.creatures = d.creatures /\ e.armed = d.armed \cup d.creatures
<1>1. d.armed \cup d.creatures \in SUBSET Database!Beasts
  BY DEF Database!Db
<1>2. [d EXCEPT !.armed = @ \cup d.creatures] = [d EXCEPT !.armed = d.armed \cup d.creatures]
  OBVIOUS
<1>3. QED
  BY <1>1, <1>2, ArmedChanged DEF Database!Arm, Harmless

LEMMA CreaturesRebuilt ==
    ASSUME NEW d \in Database!Db
    PROVE  LET e == Database!RebuildCreatures(d) IN
           /\ Harmless(d, e) /\ e.client = d.client /\ e.shops = d.shops
           /\ e.creatures \subseteq e.armed
<1> DEFINE c == [d EXCEPT !.creatures = Bestiary]
<1>1. Bestiary \in SUBSET Database!Beasts
  BY DEF Database!Beasts
<1>2. /\ c \in Database!Db /\ c.client = d.client /\ c.shops = d.shops
      /\ c.players = d.players /\ c.sound = d.sound
  BY <1>1, CreaturesChanged
<1>3. Database!RebuildCreatures(d) = Database!Arm(c)
  BY DEF Database!RebuildCreatures
<1> HIDE DEF c
<1>4. QED
  BY <1>2, <1>3, ArmedAll DEF Harmless

LEMMA MerchantsRebuilt ==
    ASSUME NEW d \in Database!Db
    PROVE  LET e == Database!RebuildMerchants(d) IN
           /\ Harmless(d, e) /\ e.client = d.client /\ ZoneShops \subseteq e.shops
           /\ e.creatures = d.creatures /\ e.armed = d.armed
<1> DEFINE x == ZoneShops \cup (d.shops \cap AdminShops)
<1>1. x \in SUBSET Database!Vendors
  BY DEF Database!Vendors
<1>2. Database!RebuildMerchants(d) = [d EXCEPT !.shops = x]
  BY DEF Database!RebuildMerchants
<1>3. ZoneShops \subseteq x
  OBVIOUS
<1> HIDE DEF x
<1>4. QED
  BY <1>1, <1>2, <1>3, ShopsChanged DEF Harmless

LEMMA NpcsImported ==
    ASSUME NEW d \in Database!Db
    PROVE  LET e == Database!ImportNpcs(d) IN
           /\ Harmless(d, e) /\ d.client \subseteq e.client /\ e.shops = d.shops \cup HubShops
           /\ e.creatures = d.creatures /\ e.armed = d.armed
<1> DEFINE x == d.shops \cup HubShops
           c == [d EXCEPT !.shops = x]
<1>1. x \in SUBSET Database!Vendors
  BY DEF Database!Vendors, Database!Db
<1> HIDE DEF x
<1>2. /\ Harmless(d, c) /\ c.client = d.client /\ c.shops = x
      /\ c.creatures = d.creatures /\ c.armed = d.armed
  BY <1>1, ShopsChanged DEF Harmless
<1>3. Database!ImportNpcs(d) = [c EXCEPT !.client = @ \cup {"teleporters"}]
  BY DEF Database!ImportNpcs, Database!ImportTeleporters, x
<1> HIDE DEF c
<1>4. "teleporters" \in Database!Plain /\ c \in Database!Db
  BY <1>2 DEF Database!Plain, Harmless
<1>5. QED
  BY <1>2, <1>3, <1>4, PlainAdds DEF Harmless, x

LEMMA RebuiltKeeps ==
    ASSUME NEW d \in Database!Db, NEW t \in Database!Tables
    PROVE  Harmless(d, Database!Rebuilt(t, d))
<1>1. \/ Database!Rebuilt(t, d) = Database!RebuildItems(d)
      \/ Database!Rebuilt(t, d) = Database!Rekey(d)
      \/ Database!Rebuilt(t, d) = Database!RebuildCreatures(d)
      \/ Database!Rebuilt(t, d) = Database!RebuildMerchants(d)
      \/ \E c \in Database!Plain : Database!Rebuilt(t, d) = [d EXCEPT !.client = @ \cup {c}]
      \/ Database!Rebuilt(t, d) = d
  <2>1. Database!Rebuilt("skills", d) = [d EXCEPT !.client = @ \cup {"skills"}]
    BY DEF Database!Rebuilt, Database!RebuildSkills
  <2>2. Database!Rebuilt("quests", d) = [d EXCEPT !.client = @ \cup {"quests"}]
    BY DEF Database!Rebuilt, Database!RebuildQuests
  <2>3. Database!Rebuilt("item_wire_mods", d) = [d EXCEPT !.client = @ \cup {"wiremods"}]
    BY DEF Database!Rebuilt, Database!RebuildWireMods
  <2>4. /\ Database!Rebuilt("items", d) = Database!RebuildItems(d)
        /\ Database!Rebuilt("items_keys", d) = Database!Rekey(d)
        /\ Database!Rebuilt("creatures", d) = Database!RebuildCreatures(d)
        /\ Database!Rebuilt("merchants", d) = Database!RebuildMerchants(d)
        /\ Database!Rebuilt("zones", d) = d /\ Database!Rebuilt("class_equipment", d) = d
    BY DEF Database!Rebuilt, Database!AugmentZones, Database!DressClasses
  <2>5. {"skills", "quests", "wiremods"} \subseteq Database!Plain
    BY DEF Database!Plain
  <2>6. QED
    BY <2>1, <2>2, <2>3, <2>4, <2>5 DEF Database!Tables
<1>2. Harmless(d, d)
  BY DEF Harmless
<1>3. QED
  BY <1>1, <1>2, PlainAdds, ItemsRebuilt, ItemsRekeyed, CreaturesRebuilt, MerchantsRebuilt

-----------------------------------------------------------------------------
(* A build from zero *)

(* Which step adds what.                                                   *)
Adds(step, t) ==
    \/ step = t /\ t \in {"skills", "quests", "zones", "classes"}
    \/ step = "item_wire_mods" /\ t = "wiremods"
    \/ step = "world_markers" /\ t = "markers"
    \/ step = "dungeon_worlds" /\ t = "dungeons"
    \/ step = "npc_teleporters" /\ t = "teleporters"

(* What a step leaves behind, whichever it is.                             *)
Advances(step, d, e) ==
    /\ Harmless(d, e) /\ d.client \subseteq e.client
    /\ \A t : Adds(step, t) => t \in e.client
    /\ d.creatures \subseteq d.armed => e.creatures \subseteq e.armed
    /\ step # "merchants" => d.shops \subseteq e.shops
    /\ step = "merchants" => ZoneShops \subseteq e.shops
    /\ step = "npcs" => HubShops \subseteq e.shops

LEMMA StepBuilds ==
    ASSUME NEW d \in Database!Db, NEW k \in 1..13
    PROVE  Advances(Database!BuildSteps[k], d, Database!Built(Database!BuildSteps[k], d))
<1>1. Advances("creatures", d, Database!Built("creatures", d))
  <2>1. Database!Built("creatures", d) = Database!RebuildCreatures(d)
    BY DEF Database!Built, Database!Rebuilt
  <2>2. QED
    BY <2>1, CreaturesRebuilt DEF Advances, Adds
<1>2. Advances("creature_manipulators", d, Database!Built("creature_manipulators", d))
  <2>1. Database!Built("creature_manipulators", d) = Database!Arm(d)
    BY DEF Database!Built
  <2>2. QED
    BY <2>1, ArmedAll DEF Advances, Adds
<1>3. Advances("items", d, Database!Built("items", d))
  <2>1. Database!Built("items", d) = Database!LoadSeed(d)
    BY DEF Database!Built
  <2>2. QED
    BY <2>1, SeedLoaded DEF Advances, Adds
<1>4. Advances("merchants", d, Database!Built("merchants", d))
  <2>1. Database!Built("merchants", d) = Database!RebuildMerchants(d)
    BY DEF Database!Built, Database!Rebuilt
  <2>2. QED
    BY <2>1, MerchantsRebuilt DEF Advances, Adds
<1>5. Advances("npcs", d, Database!Built("npcs", d))
  <2>1. Database!Built("npcs", d) = Database!ImportNpcs(d)
    BY DEF Database!Built
  <2>2. QED
    BY <2>1, NpcsImported DEF Advances, Adds
<1>6. ASSUME NEW step, NEW t \in Database!Plain,
             Database!Built(step, d) = [d EXCEPT !.client = @ \cup {t}],
             \A u : Adds(step, u) => u = t, step # "merchants", step # "npcs"
      PROVE  Advances(step, d, Database!Built(step, d))
  <2> DEFINE e == [d EXCEPT !.client = @ \cup {t}]
  <2>1. /\ Harmless(d, e) /\ e.client = d.client \cup {t} /\ e.shops = d.shops
        /\ e.creatures = d.creatures /\ e.armed = d.armed
    BY PlainAdds
  <2> HIDE DEF e
  <2>2. Advances(step, d, e)
    BY <1>6, <2>1 DEF Advances
  <2>3. QED
    BY <1>6, <2>2 DEF e
<1>7. /\ Database!Built("skills", d) = [d EXCEPT !.client = @ \cup {"skills"}]
      /\ Database!Built("classes", d) = [d EXCEPT !.client = @ \cup {"classes"}]
      /\ Database!Built("quests", d) = [d EXCEPT !.client = @ \cup {"quests"}]
      /\ Database!Built("item_wire_mods", d) = [d EXCEPT !.client = @ \cup {"wiremods"}]
      /\ Database!Built("dungeon_worlds", d) = [d EXCEPT !.client = @ \cup {"dungeons"}]
      /\ Database!Built("zones", d) = [d EXCEPT !.client = @ \cup {"zones"}]
      /\ Database!Built("world_markers", d) = [d EXCEPT !.client = @ \cup {"markers"}]
      /\ Database!Built("npc_teleporters", d) = [d EXCEPT !.client = @ \cup {"teleporters"}]
  BY DEF Database!Built, Database!Rebuilt, Database!RebuildSkills, Database!SeedClasses,
     Database!RebuildQuests, Database!RebuildWireMods, Database!ImportDungeons,
     Database!SeedZones, Database!ImportMarkers, Database!ImportTeleporters
<1>8. /\ {"skills", "classes", "quests", "wiremods", "dungeons", "zones", "markers",
          "teleporters"} \subseteq Database!Plain
  BY DEF Database!Plain
<1>9. /\ \A u : Adds("skills", u) => u = "skills"
      /\ \A u : Adds("classes", u) => u = "classes"
      /\ \A u : Adds("quests", u) => u = "quests"
      /\ \A u : Adds("item_wire_mods", u) => u = "wiremods"
      /\ \A u : Adds("dungeon_worlds", u) => u = "dungeons"
      /\ \A u : Adds("zones", u) => u = "zones"
      /\ \A u : Adds("world_markers", u) => u = "markers"
      /\ \A u : Adds("npc_teleporters", u) => u = "teleporters"
  BY DEF Adds
<1>10. \A step \in {"skills", "classes", "quests", "item_wire_mods", "dungeon_worlds", "zones",
                    "world_markers", "npc_teleporters"} :
          Advances(step, d, Database!Built(step, d))
  BY <1>6, <1>7, <1>8, <1>9
<1>11. Database!BuildSteps[k] \in {"creatures", "creature_manipulators", "skills", "classes",
          "items", "quests", "item_wire_mods", "merchants", "dungeon_worlds", "zones",
          "world_markers", "npcs", "npc_teleporters"}
  BY DEF Database!BuildSteps
<1>12. QED
  BY <1>1, <1>2, <1>3, <1>4, <1>5, <1>10, <1>11

(* The order of the build: what the importers of the NPCs add comes after   *)
(* the merchants have been rebuilt.                                        *)
LEMMA Steps ==
    /\ Len(Database!BuildSteps) = 13
    /\ Database!BuildSteps[3] = "skills" /\ Database!BuildSteps[4] = "classes"
    /\ Database!BuildSteps[6] = "quests" /\ Database!BuildSteps[7] = "item_wire_mods"
    /\ Database!BuildSteps[8] = "merchants" /\ Database!BuildSteps[9] = "dungeon_worlds"
    /\ Database!BuildSteps[10] = "zones" /\ Database!BuildSteps[11] = "world_markers"
    /\ Database!BuildSteps[12] = "npcs" /\ Database!BuildSteps[13] = "npc_teleporters"
    /\ DOMAIN Database!BuildSteps = 1..13
    /\ \A k \in 9..13 : Database!BuildSteps[k] # "merchants"
BY DEF Database!BuildSteps

LEMMA BuildGoes ==
    ASSUME NEW only
    PROVE  \E f : /\ \A n \in 0..13 : f[n] \in Database!Db
                  /\ f[0] = Database!EmptyDb /\ Database!FromZero(only) = f[13]
                  /\ \A n \in 1..13 : f[n] = IF Database!BuildSteps[n] \in only
                                             THEN Database!Built(Database!BuildSteps[n], f[n - 1])
                                             ELSE f[n - 1]
<1> DEFINE S == Database!Db
           a == Database!EmptyDb
           N(d, k) == IF Database!BuildSteps[k] \in only
                      THEN Database!Built(Database!BuildSteps[k], d) ELSE d
           g == [x \in S \X (1..13) |-> N(x[1], x[2])]
           L(f) == [n \in 0..13 |-> IF n = 0 THEN a
                                    ELSE IF Database!BuildSteps[n] \in only
                                    THEN Database!Built(Database!BuildSteps[n], f[n - 1])
                                    ELSE f[n - 1]]
           made == CHOOSE f : f = L(f)
<1>1. a \in S
  BY DEF Database!EmptyDb, Database!Db
<1>2. ASSUME NEW d \in S, NEW k \in 1..13 PROVE N(d, k) \in S
  BY StepBuilds DEF Advances, Harmless
<1>3. Database!FromZero(only) = made[13]
  BY Steps DEF Database!FromZero
<1> HIDE DEF S, a, N
<1>4. g \in [S \X (1..13) -> S] /\ \A d \in S, k \in 1..13 : g[<<d, k>>] = N(d, k)
  BY <1>2
<1> HIDE DEF g
<1>5. PICK h \in [0..13 -> S] : Goes(h, a, 13, g)
  <2>1. 13 \in Nat
    OBVIOUS
  <2>2. QED
    BY <1>1, <1>4, <2>1, Recurs
<1>6. \A n \in 1..13 : h[n] = N(h[n - 1], n)
  <2>1. \A n \in 1..13 : h[n - 1] \in S
    BY <1>5
  <2>2. QED
    BY <1>4, <1>5, <2>1 DEF Goes
<1>7. h = L(h)
  <2>1. \A n \in 0..13 : h[n] = L(h)[n]
    BY <1>5, <1>6 DEF Goes, N
  <2>2. QED
    BY <1>5, <2>1
<1> HIDE DEF L
<1>8. made = L(made)
  BY <1>7
<1> HIDE DEF made
<1>9. made[0] = a /\ \A n \in 1..13 : made[n] = N(made[n - 1], n)
  BY <1>8 DEF L, N
<1>10. \A n \in 0..13 : made[n] \in S
  <2>1. \A n \in 1..13 : made[n - 1] \in S => made[n] \in S
    BY <1>2, <1>9
  <2>2. 13 \in Nat /\ made[0] \in S
    BY <1>1, <1>9
  <2>3. QED
    BY <2>1, <2>2, Stays
<1>11. QED
  BY <1>3, <1>9, <1>10 DEF N, S, a

LEMMA AnyBuild ==
    ASSUME NEW only
    PROVE  LET e == Database!FromZero(only) IN e \in Database!Db /\ e.sound
<1>1. PICK f : /\ \A n \in 0..13 : f[n] \in Database!Db
               /\ f[0] = Database!EmptyDb /\ Database!FromZero(only) = f[13]
               /\ \A n \in 1..13 : f[n] = IF Database!BuildSteps[n] \in only
                                          THEN Database!Built(Database!BuildSteps[n], f[n - 1])
                                          ELSE f[n - 1]
  BY BuildGoes
<1> DEFINE S == {d \in Database!Db : d.sound}
<1>2. f[0] \in S
  BY <1>1 DEF Database!EmptyDb
<1>3. ASSUME NEW k \in 1..13, f[k - 1] \in S PROVE f[k] \in S
  <2>1. Advances(Database!BuildSteps[k], f[k - 1], Database!Built(Database!BuildSteps[k], f[k - 1]))
    BY <1>3, StepBuilds
  <2>2. QED
    BY <1>1, <1>3, <2>1 DEF Advances, Harmless
<1>4. 13 \in Nat /\ 13 \in 0..13
  OBVIOUS
<1> HIDE DEF S
<1>5. \A k \in 0..13 : f[k] \in S
  BY <1>2, <1>3, <1>4, Stays
<1>6. QED
  BY <1>1, <1>4, <1>5 DEF S

LEMMA FullBuild ==
    LET e == Database!FromZero(Database!Range(Database!BuildSteps)) IN
    /\ ZoneShops \cup HubShops \subseteq e.shops
    /\ e.creatures \subseteq e.armed
    /\ e.client = Database!Plain
<1> DEFINE all == Database!Range(Database!BuildSteps)
<1>1. PICK f : /\ \A n \in 0..13 : f[n] \in Database!Db
               /\ f[0] = Database!EmptyDb /\ Database!FromZero(all) = f[13]
               /\ \A n \in 1..13 : f[n] = IF Database!BuildSteps[n] \in all
                                          THEN Database!Built(Database!BuildSteps[n], f[n - 1])
                                          ELSE f[n - 1]
  BY BuildGoes
<1>2. \A n \in 1..13 : Advances(Database!BuildSteps[n], f[n - 1], f[n])
  <2>1. ASSUME NEW n \in 1..13 PROVE Advances(Database!BuildSteps[n], f[n - 1], f[n])
    <3>1. Database!BuildSteps[n] \in all
      BY Steps DEF Database!Range
    <3>2. f[n] = Database!Built(Database!BuildSteps[n], f[n - 1])
      BY <1>1, <3>1
    <3>3. f[n - 1] \in Database!Db
      BY <1>1
    <3>4. QED
      BY <3>2, <3>3, StepBuilds
  <2>2. QED
    BY <2>1
<1> HIDE DEF all
<1>3. \A n \in 1..13 : f[n - 1].client \subseteq f[n].client
  BY <1>2 DEF Advances
<1>4. Database!Plain \subseteq f[13].client
  <2>1. /\ f[3].client \subseteq f[13].client /\ f[4].client \subseteq f[13].client
        /\ f[6].client \subseteq f[13].client /\ f[7].client \subseteq f[13].client
        /\ f[9].client \subseteq f[13].client /\ f[10].client \subseteq f[13].client
        /\ f[11].client \subseteq f[13].client
    <3>1. \A n \in 4..13 : f[n - 1].client \subseteq f[n].client
      BY <1>3
    <3>2. /\ 4 - 1 = 3 /\ 5 - 1 = 4 /\ 6 - 1 = 5 /\ 7 - 1 = 6 /\ 8 - 1 = 7 /\ 9 - 1 = 8
          /\ 10 - 1 = 9 /\ 11 - 1 = 10 /\ 12 - 1 = 11 /\ 13 - 1 = 12
      OBVIOUS
    <3>3. /\ f[3].client \subseteq f[4].client /\ f[4].client \subseteq f[5].client
          /\ f[5].client \subseteq f[6].client /\ f[6].client \subseteq f[7].client
          /\ f[7].client \subseteq f[8].client /\ f[8].client \subseteq f[9].client
          /\ f[9].client \subseteq f[10].client /\ f[10].client \subseteq f[11].client
          /\ f[11].client \subseteq f[12].client /\ f[12].client \subseteq f[13].client
      BY <3>1, <3>2
    <3>4. QED
      BY <3>3
  <2>2. /\ "skills" \in f[3].client /\ "classes" \in f[4].client /\ "quests" \in f[6].client
        /\ "wiremods" \in f[7].client /\ "dungeons" \in f[9].client /\ "zones" \in f[10].client
        /\ "markers" \in f[11].client /\ "teleporters" \in f[13].client
    <3>1. /\ Adds("skills", "skills") /\ Adds("classes", "classes") /\ Adds("quests", "quests")
          /\ Adds("item_wire_mods", "wiremods") /\ Adds("dungeon_worlds", "dungeons")
          /\ Adds("zones", "zones") /\ Adds("world_markers", "markers")
          /\ Adds("npc_teleporters", "teleporters")
      BY DEF Adds
    <3>2. \A n \in 1..13 : \A t : Adds(Database!BuildSteps[n], t) => t \in f[n].client
      BY <1>2 DEF Advances
    <3>3. QED
      BY <3>1, <3>2, Steps
  <2>3. QED
    BY <2>1, <2>2 DEF Database!Plain
<1>5. f[13].client \subseteq Database!Plain
  BY <1>1 DEF Database!Db
<1>6. f[13].creatures \subseteq f[13].armed
  <2> DEFINE S == {d \in Database!Db : d.creatures \subseteq d.armed}
  <2>1. f[0] \in S
    BY <1>1 DEF Database!EmptyDb
  <2>2. ASSUME NEW k \in 1..13, f[k - 1] \in S PROVE f[k] \in S
    BY <1>1, <1>2, <2>2 DEF Advances
  <2>3. 13 \in Nat /\ 13 \in 0..13
    OBVIOUS
  <2> HIDE DEF S
  <2>4. \A k \in 0..13 : f[k] \in S
    BY <2>1, <2>2, <2>3, Stays
  <2>5. QED
    BY <2>3, <2>4 DEF S
<1>7. ZoneShops \cup HubShops \subseteq f[13].shops
  <2>1. ZoneShops \subseteq f[8].shops /\ HubShops \subseteq f[12].shops
    BY <1>2, Steps DEF Advances
  <2>2. \A n \in 9..13 : f[n - 1].shops \subseteq f[n].shops
    BY <1>2, Steps DEF Advances
  <2>3. /\ f[8].shops \subseteq f[9].shops /\ f[9].shops \subseteq f[10].shops
        /\ f[10].shops \subseteq f[11].shops /\ f[11].shops \subseteq f[12].shops
        /\ f[12].shops \subseteq f[13].shops
    <3>1. 9 - 1 = 8 /\ 10 - 1 = 9 /\ 11 - 1 = 10 /\ 12 - 1 = 11 /\ 13 - 1 = 12
      OBVIOUS
    <3>2. QED
      BY <2>2, <3>1
  <2>4. QED
    BY <2>1, <2>3
<1>8. QED
  BY <1>1, <1>4, <1>5, <1>6, <1>7 DEF all

-----------------------------------------------------------------------------
(* The server and the tools *)

LEMMA DbInit == Init => DbTools /\ DbLogs
<1> SUFFICES ASSUME Init PROVE DbTools /\ DbLogs
  OBVIOUS
<1>1. /\ live = Legacy /\ journal = Database!NoJournal /\ server = "down"
      /\ tool = Database!Idle /\ kept = {} /\ committed = {}
  BY DEF Init, Database!Init
<1>2. Legacy \in Database!Db /\ Legacy.sound
  BY DatabaseAssumption DEF Database!TableAssumption
<1>3. IsFiniteSet(committed)
  BY <1>1, FS_EmptySet
<1>4. /\ tool = [at |-> "idle", job |-> "none", work |-> Database!NoFile]
      /\ tool.at = "idle" /\ tool.job = "none"
  BY <1>1 DEF Database!Idle
<1>5. tool \in Database!Tools
  BY <1>4 DEF Database!Tools
<1>6. journal \in [saves : SUBSET Database!Rows, foreign : BOOLEAN] /\ journal.foreign = FALSE
  BY <1>1 DEF Database!NoJournal
<1>7. Database!TypeOK
  BY <1>1, <1>2, <1>3, <1>5, <1>6 DEF Database!TypeOK, IsFiniteSet, Database!IsFiniteSet
<1>8. "none" \notin Database!Tables
  BY DEF Database!Tables
<1>9. DbTools
  BY <1>1, <1>4, <1>7, <1>8 DEF DbTools
<1>10. DbLogs
  BY <1>1, <1>2, <1>4, <1>6, NoHole DEF DbLogs
<1>11. QED
  BY <1>9, <1>10

(* What opening the file makes of it.                                      *)
LEMMA RecoveredFile ==
    ASSUME DbTools, live \in Database!Db
    PROVE  /\ Database!Recovered \in Database!Db
           /\ ~journal.foreign => /\ Database!Recovered.players = live.players \cup journal.saves
                                  /\ Database!Recovered.sound = live.sound
<1>1. /\ live.players \in SUBSET Database!Rows /\ journal.saves \in SUBSET Database!Rows
      /\ journal.foreign \in BOOLEAN
  BY DEF DbTools, Database!TypeOK, Database!Db
<1>2. CASE journal.foreign
  <2>1. Database!Recovered = [live EXCEPT !.sound = FALSE]
    BY <1>2 DEF Database!Recovered
  <2>2. [live EXCEPT !.sound = FALSE] \in Database!Db
    BY DEF Database!Db
  <2>3. QED
    BY <1>2, <2>1, <2>2
<1>3. CASE ~journal.foreign
  <2> DEFINE x == live.players \cup journal.saves
  <2>1. Database!Recovered = [live EXCEPT !.players = x]
    BY <1>3 DEF Database!Recovered
  <2>2. x \in SUBSET Database!Rows
    BY <1>1
  <2> HIDE DEF x
  <2>3. QED
    BY <2>1, <2>2, PlayersChanged DEF x
<1>4. QED
  BY <1>1, <1>2, <1>3

LEMMA Kinds ==
    /\ "none" \notin Database!Tables /\ "build" \notin Database!Tables
    /\ "subset" \notin Database!Tables /\ "restore" \notin Database!Tables
    /\ "npcs" \notin Database!Tables
BY DEF Database!Tables

LEMMA SameFinite == \A S : Database!IsFiniteSet(S) <=> IsFiniteSet(S)
BY DEF Database!IsFiniteSet, IsFiniteSet

LEMMA StartKeeps ==
    ASSUME DbTools, Database!Start
    PROVE  DbTools' /\ (DbLogs => DbLogs')
<1>1. /\ server = "down" /\ tool.at = "idle" /\ server' = "up"
      /\ live' = IF live = Database!NoFile THEN Database!EmptyDb ELSE Database!Recovered
      /\ journal' = Database!NoJournal /\ UNCHANGED <<tool, kept, committed>>
  BY DEF Database!Start
<1>2. Database!EmptyDb \in Database!Db /\ Database!EmptyDb.sound /\ Database!EmptyDb.players = {}
  BY DEF Database!EmptyDb, Database!Db
<1>3. live' \in Database!Db
  BY <1>1, <1>2, RecoveredFile DEF DbTools, Database!TypeOK
<1>4. journal' \in [saves : SUBSET Database!Rows, foreign : BOOLEAN] /\ journal'.foreign = FALSE
  BY <1>1 DEF Database!NoJournal
<1>5. DbTools'
  BY <1>1, <1>3, <1>4, Kinds, NoHole DEF DbTools, Database!TypeOK
<1>6. ASSUME DbLogs PROVE DbLogs'
  <2>1. CASE live = Database!NoFile
    <3>1. journal = Database!NoJournal /\ Database!NoJournal.saves = {}
      BY <1>6, <2>1 DEF DbLogs, Database!NoJournal
    <3>2. committed \subseteq kept
      BY <1>6, <2>1, <3>1 DEF DbLogs
    <3>3. QED
      BY <1>1, <1>2, <1>3, <1>4, <2>1, <3>2, NoHole DEF DbLogs
  <2>2. CASE live # Database!NoFile
    <3>1. live \in Database!Db /\ live.sound /\ ~journal.foreign
          /\ committed \subseteq live.players \cup journal.saves \cup kept
      BY <1>6, <2>2 DEF DbLogs, DbTools, Database!TypeOK
    <3>2. live'.players = live.players \cup journal.saves /\ live'.sound
      BY <1>1, <2>2, <3>1, RecoveredFile
    <3>3. QED
      BY <1>1, <1>3, <1>4, <3>1, <3>2, NoHole DEF DbLogs
  <2>3. QED
    BY <2>1, <2>2
<1>7. QED
  BY <1>5, <1>6

LEMMA StopKeeps ==
    ASSUME DbTools, Database!Stop
    PROVE  DbTools' /\ (DbLogs => DbLogs')
<1>1. /\ server = "up" /\ server' = "down" /\ live' = Database!Recovered
      /\ journal' = Database!NoJournal /\ UNCHANGED <<tool, kept, committed>>
  BY DEF Database!Stop
<1>2. live \in Database!Db
  BY <1>1 DEF DbTools, Database!TypeOK
<1>3. live' \in Database!Db
  BY <1>1, <1>2, RecoveredFile
<1>4. journal' \in [saves : SUBSET Database!Rows, foreign : BOOLEAN] /\ journal'.foreign = FALSE
  BY <1>1 DEF Database!NoJournal
<1>5. tool.at = "idle" /\ tool.job = "none"
  BY <1>1 DEF DbTools
<1>6. DbTools'
  BY <1>1, <1>3, <1>4, <1>5, Kinds DEF DbTools, Database!TypeOK
<1>7. ASSUME DbLogs PROVE DbLogs'
  <2>1. /\ live.sound /\ ~journal.foreign
        /\ committed \subseteq live.players \cup journal.saves \cup kept
    BY <1>2, <1>7, NoHole DEF DbLogs
  <2>2. live'.players = live.players \cup journal.saves /\ live'.sound
    BY <1>1, <1>2, <2>1, RecoveredFile
  <2>3. QED
    BY <1>1, <1>3, <1>4, <1>5, <2>1, <2>2, NoHole DEF DbLogs
<1>8. QED
  BY <1>6, <1>7

LEMMA SaveKeeps ==
    ASSUME DbTools, Database!Save
    PROVE  DbTools' /\ (DbLogs => DbLogs')
<1>1. PICK k \in live.items :
         /\ journal' = [journal EXCEPT !.saves = @ \cup {<<Database!Cardinality(committed) + 1, k>>}]
         /\ committed' = committed \cup {<<Database!Cardinality(committed) + 1, k>>}
  BY DEF Database!Save
<1> DEFINE n == <<Database!Cardinality(committed) + 1, k>>
<1>2. server = "up" /\ UNCHANGED <<live, server, tool, kept>>
  BY DEF Database!Save
<1>3. live \in Database!Db /\ tool.at = "idle" /\ tool.job = "none"
  BY <1>2 DEF DbTools, Database!TypeOK
<1>4. IsFiniteSet(committed) /\ Database!Cardinality(committed) = Cardinality(committed)
  BY SameFinite DEF DbTools, Database!TypeOK, Database!Cardinality, Cardinality
<1>5. Cardinality(committed) \in Nat /\ IsFiniteSet(committed')
  BY <1>1, <1>4, FS_CardinalityType, FS_AddElement
<1>6. n \in Database!Rows
  BY <1>3, <1>4, <1>5 DEF Database!Rows, Database!Db
<1>7. /\ journal' = [journal EXCEPT !.saves = @ \cup {n}]
      /\ committed' = committed \cup {n}
  BY <1>1
<1> HIDE DEF n
<1>8. /\ journal' \in [saves : SUBSET Database!Rows, foreign : BOOLEAN]
      /\ journal'.foreign = journal.foreign /\ journal'.saves = journal.saves \cup {n}
  <2>1. journal \in [saves : SUBSET Database!Rows, foreign : BOOLEAN]
    BY DEF DbTools, Database!TypeOK
  <2>2. QED
    BY <1>6, <1>7, <2>1
<1>9. DbTools'
  <2>1. Database!TypeOK'
    BY <1>2, <1>5, <1>6, <1>7, <1>8, SameFinite DEF DbTools, Database!TypeOK
  <2>2. QED
    BY <1>2, <1>3, <2>1, Kinds DEF DbTools
<1>10. ASSUME DbLogs PROVE DbLogs'
  BY <1>2, <1>3, <1>7, <1>8, <1>10, NoHole DEF DbLogs
<1>11. QED
  BY <1>9, <1>10

LEMMA DieKeeps ==
    ASSUME DbTools, Database!Die
    PROVE  DbTools' /\ (DbLogs => DbLogs')
<1>1. server = "up" /\ server' = "down" /\ UNCHANGED <<live, journal, tool, kept, committed>>
  BY DEF Database!Die
<1>2. DbTools'
  BY <1>1 DEF DbTools, Database!TypeOK
<1>3. ASSUME DbLogs PROVE DbLogs'
  BY <1>1, <1>3 DEF DbLogs
<1>4. QED
  BY <1>2, <1>3

(* A tool is set to work on something.                                     *)
LEMMA ToolSet ==
    ASSUME NEW t, NEW w, NEW step \in {"idle", "rebuilt", "ready", "moved", "import"},
           NEW job \in Database!Tables \cup {"none", "build", "subset", "restore", "npcs"},
           w \in Database!Db \/ w = Database!NoFile,
           t = [at |-> step, job |-> job, work |-> w]
    PROVE  t \in Database!Tools /\ t.at = step /\ t.job = job /\ t.work = w
BY DEF Database!Tools

LEMMA CopyKeeps ==
    ASSUME DbTools, Database!CopyAndRebuild
    PROVE  DbTools' /\ (Careful /\ DbLogs => DbLogs')
<1>1. PICK t \in Database!Tables : Database!At("rebuilt", t, Database!Rebuilt(t, live))
  BY DEF Database!CopyAndRebuild
<1>2. /\ server = "down" /\ tool.at = "idle" /\ live # Database!NoFile
      /\ Careful => journal = Database!NoJournal
      /\ UNCHANGED <<live, journal, server, kept, committed>>
  BY DEF Database!CopyAndRebuild, Database!MayRun
<1> DEFINE w == Database!Rebuilt(t, live)
<1>3. live \in Database!Db /\ Harmless(live, w)
  BY <1>2, RebuiltKeeps DEF DbTools, Database!TypeOK
<1>4. tool' = [at |-> "rebuilt", job |-> t, work |-> w]
  BY <1>1 DEF Database!At
<1>5. w \in Database!Db
  BY <1>3 DEF Harmless
<1> HIDE DEF w
<1>6. /\ tool' \in Database!Tools
      /\ tool'.at = "rebuilt" /\ tool'.job = t /\ tool'.work = w
  BY <1>4, <1>5, ToolSet
<1>7. Database!TypeOK'
  BY <1>2, <1>6 DEF DbTools, Database!TypeOK
<1>8. DbTools'
  BY <1>2, <1>3, <1>5, <1>6, <1>7, Kinds DEF DbTools, w
<1>9. ASSUME Careful, DbLogs PROVE DbLogs'
  BY <1>2, <1>6, <1>9 DEF DbLogs
<1>10. QED
  BY <1>8, <1>9

LEMMA BackUpKeeps ==
    ASSUME DbTools, Database!BackUp
    PROVE  DbTools' /\ (DbLogs => DbLogs')
<1>1. /\ tool.at = "rebuilt" /\ kept' = kept \cup live.players
      /\ tool' = [tool EXCEPT !.at = "ready"]
      /\ UNCHANGED <<live, journal, server, committed>>
  BY DEF Database!BackUp
<1>2. tool \in Database!Tools
  BY DEF DbTools, Database!TypeOK
<1>3. /\ tool' \in Database!Tools
      /\ tool'.at = "ready" /\ tool'.job = tool.job /\ tool'.work = tool.work
  BY <1>1, <1>2 DEF Database!Tools
<1>4. /\ tool.job \in Database!Tables /\ live \in Database!Db
      /\ tool.work = Database!Rebuilt(tool.job, live)
  BY <1>1 DEF DbTools
<1>5. Database!TypeOK'
  <2>1. kept' \in SUBSET Database!Rows
    BY <1>1, <1>4 DEF DbTools, Database!TypeOK, Database!Db
  <2>2. QED
    BY <1>1, <1>3, <2>1 DEF DbTools, Database!TypeOK
<1>6. DbTools'
  BY <1>1, <1>3, <1>4, <1>5, Kinds DEF DbTools
<1>7. ASSUME DbLogs PROVE DbLogs'
  <2>1. tool.work.sound = live.sound
    BY <1>4, RebuiltKeeps DEF Harmless
  <2>2. live.sound
    BY <1>4, <1>7, NoHole DEF DbLogs
  <2>3. QED
    BY <1>1, <1>3, <1>4, <1>7, <2>1, <2>2, Kinds, NoHole DEF DbLogs
<1>8. QED
  BY <1>6, <1>7

LEMMA BuildKeeps ==
    ASSUME DbTools, Database!BuildFromZero
    PROVE  DbTools' /\ (Careful /\ DbLogs => DbLogs')
<1>1. PICK only : Database!At("ready", IF only = Database!Range(Database!BuildSteps)
                                       THEN "build" ELSE "subset", Database!FromZero(only))
  BY DEF Database!BuildFromZero
<1>2. /\ server = "down" /\ tool.at = "idle"
      /\ Careful => journal = Database!NoJournal
      /\ UNCHANGED <<live, journal, server, kept, committed>>
  BY DEF Database!BuildFromZero, Database!MayRun
<1> DEFINE w == Database!FromZero(only)
           job == IF only = Database!Range(Database!BuildSteps) THEN "build" ELSE "subset"
<1>3. w \in Database!Db /\ w.sound
  BY AnyBuild
<1>4. tool' = [at |-> "ready", job |-> job, work |-> w]
  BY <1>1 DEF Database!At
<1>5. /\ job \in {"build", "subset"}
      /\ job = "build" => w = Database!FromZero(Database!Range(Database!BuildSteps))
  OBVIOUS
<1> HIDE DEF w, job
<1>6. tool' \in Database!Tools /\ tool'.at = "ready" /\ tool'.job = job /\ tool'.work = w
  BY <1>3, <1>4, <1>5, ToolSet
<1>7. Database!TypeOK'
  BY <1>2, <1>6 DEF DbTools, Database!TypeOK
<1>8. DbTools'
  BY <1>2, <1>3, <1>5, <1>6, <1>7, Kinds DEF DbTools
<1>9. ASSUME Careful, DbLogs PROVE DbLogs'
  BY <1>2, <1>3, <1>5, <1>6, <1>9 DEF DbLogs
<1>10. QED
  BY <1>8, <1>9

(* A tool is done, or interrupted.                                         *)
LEMMA ToolIdle ==
    ASSUME tool' = Database!Idle
    PROVE  tool' \in Database!Tools /\ tool'.at = "idle" /\ tool'.job = "none"
BY DEF Database!Idle, Database!Tools

LEMMA SwapKeeps ==
    ASSUME DbTools, Database!Swap
    PROVE  DbTools' /\ (DbLogs => DbLogs')
<1>1. /\ tool.at = "ready" /\ tool.job # "restore"
      /\ live' = tool.work /\ tool' = Database!Idle
      /\ journal' = [journal EXCEPT !.foreign = journal.saves # {}]
      /\ committed' = IF tool.job \in {"build", "subset"} THEN {} ELSE committed
      /\ kept' = IF tool.job \in {"build", "subset"} THEN {} ELSE kept
      /\ server' = server
  BY DEF Database!Swap
<1>2. server = "down" /\ tool.work \in Database!Db /\ live' \in Database!Db
  BY <1>1 DEF DbTools
<1>3. /\ journal' \in [saves : SUBSET Database!Rows, foreign : BOOLEAN]
      /\ journal'.foreign = (journal.saves # {}) /\ journal'.saves = journal.saves
  <2>1. journal \in [saves : SUBSET Database!Rows, foreign : BOOLEAN]
    BY DEF DbTools, Database!TypeOK
  <2>2. (journal.saves # {}) \in BOOLEAN
    OBVIOUS
  <2>3. QED
    BY <1>1, <2>1, <2>2
<1>4. Database!TypeOK'
  <2>1. kept' \in SUBSET Database!Rows /\ committed' \in SUBSET Database!Rows
    BY <1>1 DEF DbTools, Database!TypeOK
  <2>2. Database!IsFiniteSet(committed')
    BY <1>1, SameFinite, FS_EmptySet DEF DbTools, Database!TypeOK
  <2>3. QED
    BY <1>1, <1>2, <1>3, <2>1, <2>2, ToolIdle DEF DbTools, Database!TypeOK
<1>5. DbTools'
  BY <1>1, <1>2, <1>4, ToolIdle, Kinds, NoHole DEF DbTools
<1>6. ASSUME DbLogs PROVE DbLogs'
  <2>1. journal = Database!NoJournal /\ journal.saves = {} /\ tool.work.sound
    BY <1>1, <1>6 DEF DbLogs, Database!NoJournal
  <2>2. journal'.foreign = FALSE
    BY <1>3, <2>1
  <2>3. committed' \subseteq live'.players \cup journal'.saves \cup kept'
    <3>1. CASE tool.job \in {"build", "subset"}
      BY <1>1, <3>1
    <3>2. CASE tool.job \notin {"build", "subset"}
      <4>1. tool.job \in Database!Tables
        BY <1>1, <3>2 DEF DbTools
      <4>2. live \in Database!Db /\ tool.work = Database!Rebuilt(tool.job, live)
        BY <4>1 DEF DbTools
      <4>3. live'.players = live.players
        BY <1>1, <4>1, <4>2, RebuiltKeeps DEF Harmless
      <4>4. committed \subseteq live.players \cup kept
        BY <1>6, <2>1, <4>2, NoHole DEF DbLogs
      <4>5. QED
        BY <1>1, <3>2, <4>3, <4>4
    <3>3. QED
      BY <3>1, <3>2
  <2>4. live' # Database!NoFile /\ live'.sound
    BY <1>1, <1>2, <2>1, NoHole
  <2>5. QED
    BY <1>1, <2>2, <2>3, <2>4, ToolIdle DEF DbLogs
<1>7. QED
  BY <1>5, <1>6

LEMMA MergeKeeps ==
    ASSUME DbTools, Database!Merge
    PROVE  DbTools' /\ (Careful /\ DbLogs => DbLogs')
<1>1. /\ server = "down" /\ tool.at = "idle"
      /\ Careful => journal = Database!NoJournal
      /\ UNCHANGED <<server, kept, committed>>
  BY DEF Database!Merge, Database!MayRun
<1>2. Snapshot \in Database!Db /\ Snapshot.sound
  BY DatabaseAssumption DEF Database!TableAssumption
<1>3. CASE live = Database!NoFile
  <2>1. /\ tool' = [at |-> "moved", job |-> "restore", work |-> Snapshot]
        /\ UNCHANGED <<live, journal>>
    BY <1>3 DEF Database!Merge, Database!At
  <2>2. /\ tool' \in Database!Tools /\ tool'.at = "moved" /\ tool'.job = "restore"
        /\ tool'.work = Snapshot
    BY <1>2, <2>1, ToolSet
  <2>3. DbTools'
    BY <1>1, <1>2, <1>3, <2>1, <2>2, Kinds DEF DbTools, Database!TypeOK
  <2>4. ASSUME DbLogs PROVE DbLogs'
    BY <1>1, <1>2, <1>3, <2>1, <2>2, <2>4 DEF DbLogs
  <2>5. QED
    BY <2>3, <2>4
<1>4. CASE live # Database!NoFile
  <2> DEFINE d == Database!Recovered
             w == Database!Merged(d)
  <2>1. /\ tool' = [at |-> "ready", job |-> "restore", work |-> w]
        /\ live' = d /\ journal' = Database!NoJournal
    BY <1>4 DEF Database!Merge, Database!At
  <2>2. /\ live \in Database!Db /\ d \in Database!Db
        /\ ~journal.foreign => /\ d.players = live.players \cup journal.saves
                               /\ d.sound = live.sound
    BY <1>4, RecoveredFile DEF DbTools, Database!TypeOK
  <2> HIDE DEF d
  <2>3. w \in Database!Db /\ w.sound
    <3>1. CASE d.players = {}
      BY <1>2, <3>1 DEF Database!Merged
    <3>2. CASE d.players # {}
      <4>1. w = [Snapshot EXCEPT !.players = d.players]
        BY <3>2 DEF Database!Merged
      <4>2. d.players \in SUBSET Database!Rows
        BY <2>2 DEF Database!Db
      <4>3. QED
        BY <1>2, <4>1, <4>2, PlayersChanged
    <3>3. QED
      BY <3>1, <3>2
  <2> HIDE DEF w
  <2>4. /\ tool' \in Database!Tools /\ tool'.at = "ready" /\ tool'.job = "restore"
        /\ tool'.work = w
    BY <2>1, <2>3, ToolSet
  <2>5. journal' \in [saves : SUBSET Database!Rows, foreign : BOOLEAN] /\ journal'.foreign = FALSE
    BY <2>1 DEF Database!NoJournal
  <2>6. Database!TypeOK'
    BY <1>1, <2>1, <2>2, <2>4, <2>5 DEF DbTools, Database!TypeOK
  <2>7. DbTools'
    BY <1>1, <2>1, <2>2, <2>3, <2>4, <2>6, Kinds, NoHole DEF DbTools
  <2>8. ASSUME DbLogs PROVE DbLogs'
    <3>1. live.sound /\ ~journal.foreign
          /\ committed \subseteq live.players \cup journal.saves \cup kept
      BY <1>4, <2>8 DEF DbLogs
    <3>2. d.sound /\ committed \subseteq d.players \cup kept
      BY <2>2, <3>1
    <3>3. QED
      BY <1>1, <2>1, <2>2, <2>3, <2>4, <2>5, <3>2, NoHole DEF DbLogs
  <2>9. QED
    BY <2>7, <2>8
<1>5. QED
  BY <1>3, <1>4

LEMMA MoveAsideKeeps ==
    ASSUME DbTools, Database!MoveAside
    PROVE  DbTools' /\ (DbLogs => DbLogs')
<1>1. /\ tool.at = "ready" /\ tool.job = "restore"
      /\ kept' = kept \cup live.players /\ live' = Database!NoFile
      /\ tool' = [tool EXCEPT !.at = "moved"]
      /\ UNCHANGED <<journal, server, committed>>
  BY DEF Database!MoveAside
<1>2. /\ server = "down" /\ live \in Database!Db /\ tool.work \in Database!Db
  BY <1>1 DEF DbTools, Database!TypeOK
<1>3. tool \in Database!Tools
  BY DEF DbTools, Database!TypeOK
<1>4. /\ tool' \in Database!Tools
      /\ tool'.at = "moved" /\ tool'.job = tool.job /\ tool'.work = tool.work
  BY <1>1, <1>3 DEF Database!Tools
<1>5. Database!TypeOK'
  <2>1. kept' \in SUBSET Database!Rows
    BY <1>1, <1>2 DEF DbTools, Database!TypeOK, Database!Db
  <2>2. QED
    BY <1>1, <1>4, <2>1 DEF DbTools, Database!TypeOK
<1>6. DbTools'
  BY <1>1, <1>2, <1>4, <1>5, Kinds DEF DbTools
<1>7. ASSUME DbLogs PROVE DbLogs'
  <2>1. journal = Database!NoJournal /\ journal.saves = {}
    BY <1>1, <1>7 DEF DbLogs, Database!NoJournal
  <2>2. committed \subseteq live.players \cup kept
    BY <1>2, <1>7, <2>1, NoHole DEF DbLogs
  <2>3. QED
    BY <1>1, <1>2, <1>4, <1>7, <2>1, <2>2 DEF DbLogs
<1>8. QED
  BY <1>6, <1>7

LEMMA MoveInKeeps ==
    ASSUME DbTools, Database!MoveIn
    PROVE  DbTools' /\ (DbLogs => DbLogs')
<1>1. /\ tool.at = "moved" /\ live' = tool.work /\ tool' = Database!Idle
      /\ UNCHANGED <<journal, server, kept, committed>>
  BY DEF Database!MoveIn
<1>2. /\ server = "down" /\ live = Database!NoFile /\ live' \in Database!Db
  BY <1>1 DEF DbTools
<1>3. DbTools'
  BY <1>1, <1>2, ToolIdle, Kinds, NoHole DEF DbTools, Database!TypeOK
<1>4. ASSUME DbLogs PROVE DbLogs'
  <2>1. journal = Database!NoJournal /\ journal.saves = {} /\ live'.sound
    BY <1>1, <1>4 DEF DbLogs, Database!NoJournal
  <2>2. committed \subseteq kept
    BY <1>2, <1>4, <2>1 DEF DbLogs
  <2>3. QED
    BY <1>1, <1>2, <1>4, <2>1, <2>2, ToolIdle, NoHole DEF DbLogs
<1>5. QED
  BY <1>3, <1>4

LEMMA ImportBackUpKeeps ==
    ASSUME DbTools, Database!ImportBackUp
    PROVE  DbTools' /\ (Careful /\ DbLogs => DbLogs')
<1>1. /\ server = "down" /\ tool.at = "idle" /\ live # Database!NoFile
      /\ Careful => journal = Database!NoJournal
      /\ kept' = kept \cup live.players
      /\ tool' = [at |-> "import", job |-> "npcs", work |-> Database!NoFile]
      /\ UNCHANGED <<live, journal, server, committed>>
  BY DEF Database!ImportBackUp, Database!MayRun, Database!At
<1>2. tool' \in Database!Tools /\ tool'.at = "import" /\ tool'.job = "npcs"
  BY <1>1, ToolSet
<1>3. live \in Database!Db
  BY <1>1 DEF DbTools, Database!TypeOK
<1>4. Database!TypeOK'
  <2>1. kept' \in SUBSET Database!Rows
    BY <1>1, <1>3 DEF DbTools, Database!TypeOK, Database!Db
  <2>2. QED
    BY <1>1, <1>2, <2>1 DEF DbTools, Database!TypeOK
<1>5. DbTools'
  BY <1>1, <1>2, <1>3, <1>4, Kinds DEF DbTools
<1>6. ASSUME Careful, DbLogs PROVE DbLogs'
  BY <1>1, <1>2, <1>3, <1>6, NoHole DEF DbLogs
<1>7. QED
  BY <1>5, <1>6

LEMMA ImportWriteKeeps ==
    ASSUME DbTools, Database!ImportWrite
    PROVE  DbTools' /\ (DbLogs => DbLogs')
<1>1. /\ tool.at = "import" /\ live' = Database!ImportNpcs(Database!Recovered)
      /\ journal' = Database!NoJournal /\ tool' = Database!Idle
      /\ UNCHANGED <<server, kept, committed>>
  BY DEF Database!ImportWrite
<1>2. server = "down" /\ live \in Database!Db
  BY <1>1 DEF DbTools, Database!TypeOK
<1>3. Database!Recovered \in Database!Db /\ Harmless(Database!Recovered, live')
  BY <1>1, <1>2, RecoveredFile, NpcsImported
<1>4. live' \in Database!Db
  BY <1>3 DEF Harmless
<1>5. journal' \in [saves : SUBSET Database!Rows, foreign : BOOLEAN] /\ journal'.foreign = FALSE
  BY <1>1 DEF Database!NoJournal
<1>6. DbTools'
  BY <1>1, <1>2, <1>4, <1>5, ToolIdle, Kinds, NoHole DEF DbTools, Database!TypeOK
<1>7. ASSUME DbLogs PROVE DbLogs'
  <2>1. /\ live.sound /\ ~journal.foreign
        /\ committed \subseteq live.players \cup journal.saves \cup kept
    BY <1>2, <1>7, NoHole DEF DbLogs
  <2>2. live'.players = live.players \cup journal.saves /\ live'.sound
    BY <1>2, <1>3, <2>1, RecoveredFile DEF Harmless
  <2>3. QED
    BY <1>1, <1>2, <1>4, <1>5, <2>1, <2>2, ToolIdle, NoHole DEF DbLogs
<1>8. QED
  BY <1>6, <1>7

LEMMA InterruptedKeeps ==
    ASSUME DbTools, Database!Interrupted
    PROVE  DbTools' /\ (DbLogs => DbLogs')
<1>1. tool' = Database!Idle /\ UNCHANGED <<live, journal, server, kept, committed>>
  BY DEF Database!Interrupted
<1>2. DbTools'
  BY <1>1, ToolIdle, Kinds DEF DbTools, Database!TypeOK
<1>3. ASSUME DbLogs PROVE DbLogs'
  BY <1>1, <1>3, ToolIdle DEF DbLogs
<1>4. QED
  BY <1>2, <1>3

-----------------------------------------------------------------------------
LEMMA DbStep ==
    ASSUME DbTools, [Next]_vars
    PROVE  DbTools' /\ (Careful /\ DbLogs => DbLogs')
<1>1. CASE Database!Next
  BY <1>1, StartKeeps, SaveKeeps, StopKeeps, DieKeeps, CopyKeeps, BackUpKeeps, BuildKeeps,
     SwapKeeps, MergeKeeps, MoveAsideKeeps, MoveInKeeps, ImportBackUpKeeps, ImportWriteKeeps,
     InterruptedKeeps DEF Database!Next
<1>2. CASE UNCHANGED contentVars
  <2>1. DbTools'
    BY <1>2 DEF contentVars, DbTools, Database!TypeOK
  <2>2. ASSUME DbLogs PROVE DbLogs'
    BY <1>2, <2>2 DEF contentVars, DbLogs
  <2>3. QED
    BY <2>1, <2>2
<1>3. QED
  BY <1>1, <1>2 DEF Next, vars

(* As long as the tools run only after a server that has closed its file,   *)
(* no sequence of rebuilds, imports, restores and restarts, interrupted     *)
(* anywhere, loses a row the server has saved.                             *)
THEOREM SavesStayOnDisk ==
    ASSUME Careful
    PROVE  Spec => []SavesOnDisk
<1>1. DbTools /\ DbLogs => SavesOnDisk
  <2> SUFFICES ASSUME DbTools, DbLogs PROVE Database!TypeOK /\ Database!SavesOnDisk
    BY DEF SavesOnDisk
  <2>1. Database!TypeOK /\ ~journal.foreign
    BY DEF DbTools, DbLogs
  <2>2. live = Database!NoFile \/ live.sound
    BY DEF DbLogs
  <2>3. QED
    BY <2>1, <2>2 DEF DbLogs, Database!SavesOnDisk
<1>2. Init => DbTools /\ DbLogs
  BY DbInit
<1>3. DbTools /\ DbLogs /\ [Next]_vars => DbTools' /\ DbLogs'
  BY DbStep
<1>4. QED
  BY <1>1, <1>2, <1>3, PTL DEF Spec

(* A rebuild of the items keeps what players and shops refer to, and a      *)
(* build of all steps leaves every vendor its shop, every creature its      *)
(* weapons and every plain table what the client's files say.              *)
THEOREM BuildsComplete == Spec => BuildComplete
<1> DEFINE A == tool.at = "ready" /\ tool.job = "items" /\ live' = tool.work
                  => Database!Referenced(live) \cap live.items \subseteq live'.items
           B == tool.job = "build" /\ live' = tool.work
                  => /\ ZoneShops \cup HubShops \subseteq live'.shops
                     /\ live'.creatures \subseteq live'.armed
                     /\ live'.client = Database!Plain
<1>1. DbTools => A
  <2> SUFFICES ASSUME DbTools, tool.at = "ready", tool.job = "items", live' = tool.work
               PROVE  Database!Referenced(live) \cap live.items \subseteq live'.items
    OBVIOUS
  <2>1. "items" \in Database!Tables /\ live \in Database!Db
        /\ live' = Database!Rebuilt("items", live)
    BY DEF DbTools, Database!Tables
  <2>2. live' = Database!RebuildItems(live)
    BY <2>1 DEF Database!Rebuilt
  <2>3. QED
    BY <2>1, <2>2, ItemsRebuilt
<1>2. DbTools => B
  BY FullBuild DEF DbTools
<1>3. Init => DbTools
  BY DbInit
<1>4. DbTools /\ [Next]_vars => DbTools'
  BY DbStep
<1>5. DbTools => [A]_(Database!vars) /\ [B]_(Database!vars)
  BY <1>1, <1>2
<1>6. QED
  BY <1>3, <1>4, <1>5, PTL DEF Spec, BuildComplete, Database!ReferencedKept, Database!BuildComplete

-----------------------------------------------------------------------------
(* Dungeon: the numbers of a grid.                                         *)

LEMMA Parts ==
    ASSUME NEW n \in Nat, NEW w \in Nat \ {0}
    PROVE  n % w \in 0..(w - 1) /\ n = w * (n \div w) + (n % w) /\ n \div w \in Nat
<1>1. n % w \in 0..(w - 1)
  OBVIOUS
<1>2. n = w * (n \div w) + (n % w)
  OBVIOUS
<1>3. n \div w \in Nat
  OBVIOUS
<1>4. QED
  BY <1>1, <1>2, <1>3

LEMMA Product == ASSUME NEW w \in Nat, NEW h \in Nat PROVE w * h \in Nat
OBVIOUS

LEMMA Grows ==
    ASSUME NEW w \in Nat, NEW a \in Nat, NEW b \in Nat, a <= b
    PROVE  w * a <= w * b
<1>1. b - a \in Nat
  OBVIOUS
<1>2. w * (b - a) \in Nat
  BY <1>1, Product
<1>3. w * (b - a) = w * b - w * a
  OBVIOUS
<1>4. w * a \in Nat /\ w * b \in Nat
  BY Product
<1>5. QED
  BY <1>2, <1>3, <1>4

LEMMA NextRow ==
    ASSUME NEW w \in Nat, NEW a \in Nat
    PROVE  w * (a + 1) = w * a + w /\ w * a \in Nat
<1>1. w * (a + 1) = w * a + w
  OBVIOUS
<1>2. QED
  BY <1>1, Product

LEMMA RowBelow ==
    ASSUME NEW w \in Nat \ {0}, NEW h \in Nat, NEW q \in Nat, NEW r \in Nat,
           w * q + r < w * h
    PROVE  q < h
<1> SUFFICES ASSUME h <= q PROVE FALSE
  OBVIOUS
<1>1. w * h <= w * q
  BY Grows
<1>2. w * h \in Nat /\ w * q \in Nat
  BY Product
<1>3. QED
  BY <1>1, <1>2

LEMMA SamePlace ==
    ASSUME NEW w \in Nat \ {0}, NEW a \in Nat, NEW b \in Nat,
           NEW x \in 0..(w - 1), NEW y \in 0..(w - 1), w * a + x = w * b + y
    PROVE  a = b /\ x = y
<1>1. w * a \in Nat /\ w * b \in Nat /\ w * (a + 1) = w * a + w /\ w * (b + 1) = w * b + w
  BY NextRow
<1>2. ~ (a + 1 <= b)
  <2> SUFFICES ASSUME a + 1 <= b PROVE FALSE
    OBVIOUS
  <2>1. w * (a + 1) <= w * b
    BY Grows
  <2>2. QED
    BY <1>1, <2>1
<1>3. ~ (b + 1 <= a)
  <2> SUFFICES ASSUME b + 1 <= a PROVE FALSE
    OBVIOUS
  <2>1. w * (b + 1) <= w * a
    BY Grows
  <2>2. QED
    BY <1>1, <2>1
<1>4. a = b
  BY <1>2, <1>3
<1>5. QED
  BY <1>1, <1>4

LEMMA Grid == /\ Width \in Nat \ {0} /\ Height \in Nat \ {0} /\ Width * Height \in Nat
              /\ Sparseness \in Nat
              /\ \A p \in Plans : p \in Seq([variants : SUBSET SUBSET Level!Dir, x : Int,
                                             y : Int, sure : BOOLEAN])
<1>1. Width \in Nat \ {0} /\ Height \in Nat \ {0}
  BY LevelAssumption DEF Level!GridAssumption
<1>2. QED
  BY <1>1, LevelAssumption, Product DEF Level!PlanAssumption

(* Going through the grid in order meets cells only, and every one.        *)
LEMMA OrderInGrid ==
    ASSUME NEW k \in 1..(Width * Height)
    PROVE  Level!InOrder[k] \in Level!Cell
<1>1. Width \in Nat \ {0} /\ Height \in Nat /\ Width * Height \in Nat
  BY Grid
<1> DEFINE n == k - 1
           q == n \div Width
           r == n % Width
<1>2. n \in Nat /\ n < Width * Height
  BY <1>1
<1>3. r \in 0..(Width - 1) /\ n = Width * q + r /\ q \in Nat
  BY <1>1, <1>2, Parts
<1>4. Level!InOrder[k] = <<r, q>>
  BY DEF Level!InOrder
<1> HIDE DEF n, q, r
<1>5. r \in Nat
  BY <1>1, <1>3
<1>6. q < Height
  BY <1>1, <1>2, <1>3, <1>5, RowBelow
<1>7. q \in 0..(Height - 1)
  BY <1>1, <1>3, <1>6
<1>8. QED
  BY <1>3, <1>4, <1>7 DEF Level!Cell

LEMMA OrderCovers ==
    ASSUME NEW c \in Level!Cell
    PROVE  \E k \in 1..(Width * Height) : Level!InOrder[k] = c
<1>1. Width \in Nat \ {0} /\ Height \in Nat \ {0} /\ Width * Height \in Nat
  BY Grid
<1>2. PICK x \in 0..(Width - 1), y \in 0..(Height - 1) : c = <<x, y>>
  BY DEF Level!Cell
<1>3. x \in Nat /\ y \in Nat /\ x < Width /\ y + 1 <= Height
  BY <1>1
<1> DEFINE n == Width * y + x
           k == n + 1
           q == n \div Width
           r == n % Width
<1>4. Width * y \in Nat /\ Width * (y + 1) = Width * y + Width
  BY <1>1, <1>3, NextRow
<1>5. Width * (y + 1) <= Width * Height
  BY <1>1, <1>3, Grows
<1>6. n \in Nat /\ n + 1 <= Width * Height
  BY <1>1, <1>3, <1>4, <1>5
<1>7. r \in 0..(Width - 1) /\ n = Width * q + r /\ q \in Nat
  BY <1>1, <1>6, Parts
<1>8. k \in 1..(Width * Height) /\ k - 1 = n
  BY <1>1, <1>6
<1>9. Level!InOrder[k] = <<r, q>>
  BY <1>8 DEF Level!InOrder
<1>10. Width * y + x = Width * q + r
  BY <1>7
<1> HIDE DEF q, r, n, k
<1>11. y = q /\ x = r
  BY <1>1, <1>3, <1>7, <1>10, SamePlace
<1>12. QED
  BY <1>2, <1>8, <1>9, <1>11

LEMMA Across ==
    ASSUME NEW c \in Level!Cell, NEW d \in Level!Dir
    PROVE  /\ Level!Opposite(d) \in Level!Dir /\ Level!Opposite(Level!Opposite(d)) = d
           /\ Level!Neighbor(c, d) # c
           /\ Level!Neighbor(Level!Neighbor(c, d), Level!Opposite(d)) = c
<1>1. PICK x \in 0..(Width - 1), y \in 0..(Height - 1) : c = <<x, y>>
  BY DEF Level!Cell
<1>2. x \in Int /\ y \in Int
  BY Grid
<1>3. c[1] = x /\ c[2] = y
  BY <1>1
<1>4. CASE d = "n"
  BY <1>1, <1>2, <1>3, <1>4 DEF Level!Neighbor, Level!Opposite, Level!Dir
<1>5. CASE d = "s"
  BY <1>1, <1>2, <1>3, <1>5 DEF Level!Neighbor, Level!Opposite, Level!Dir
<1>6. CASE d = "e"
  BY <1>1, <1>2, <1>3, <1>6 DEF Level!Neighbor, Level!Opposite, Level!Dir
<1>7. CASE d = "w"
  BY <1>1, <1>2, <1>3, <1>7 DEF Level!Neighbor, Level!Opposite, Level!Dir
<1>8. QED
  BY <1>4, <1>5, <1>6, <1>7 DEF Level!Dir

LEMMA NowhereOut == Level!Nowhere \notin Level!Cell
<1> SUFFICES ASSUME Level!Nowhere \in Level!Cell PROVE FALSE
  OBVIOUS
<1>1. PICK x \in 0..(Width - 1), y \in 0..(Height - 1) : <<-1, -1>> = <<x, y>>
  BY DEF Level!Cell, Level!Nowhere
<1>2. -1 = x
  BY <1>1
<1>3. QED
  BY <1>2, Grid

-----------------------------------------------------------------------------
(* Openings of a grid that meet, before rooms get theirs and after.        *)

Openings == [Level!Cell -> SUBSET Level!Dir]

Meets(g) ==
    \A c \in Level!Cell : \A d \in g[c] :
        /\ Level!Neighbor(c, d) \in Level!Cell
        /\ Level!Opposite(d) \in g[Level!Neighbor(c, d)]

WithinExits(g) == \A c \in Level!Cell : Level!IsRoom(c) => g[c] \subseteq room[c].exits
AsTheirExits(g) == \A c \in Level!Cell : Level!IsRoom(c) => g[c] = room[c].exits

RoomsMeet ==
    \A c \in Level!Cell : Level!IsRoom(c) => \A d \in room[c].exits :
        /\ Level!Neighbor(c, d) \in Level!Cell
        /\ Level!IsRoom(Level!Neighbor(c, d)) =>
                Level!Opposite(d) \in room[Level!Neighbor(c, d)].exits

LEMMA OpenedAt ==
    ASSUME NEW g \in Openings, NEW c \in Level!Cell, NEW d \in Level!Dir,
           NEW n \in Level!Cell, n = Level!Neighbor(c, d), NEW h, h = Level!Opened(g, c, d)
    PROVE  /\ h \in Openings
           /\ h[c] = g[c] \cup {d} /\ h[n] = g[n] \cup {Level!Opposite(d)}
           /\ \A x \in Level!Cell : x # c /\ x # n => h[x] = g[x]
<1>1. n # c /\ Level!Opposite(d) \in Level!Dir
  BY Across
<1>2. h = [g EXCEPT ![c] = g[c] \cup {d}, ![n] = g[n] \cup {Level!Opposite(d)}]
  BY <1>1 DEF Level!Opened
<1>3. DOMAIN g = Level!Cell /\ \A x \in Level!Cell : g[x] \in SUBSET Level!Dir
  BY DEF Openings
<1>4. h[c] = g[c] \cup {d} /\ h[n] = g[n] \cup {Level!Opposite(d)}
  BY <1>1, <1>2, <1>3
<1>5. \A x \in Level!Cell : x # c /\ x # n => h[x] = g[x]
  BY <1>2, <1>3
<1>6. \A x \in Level!Cell : h[x] \in SUBSET Level!Dir
  BY <1>1, <1>3, <1>4, <1>5
<1>7. h \in Openings
  BY <1>2, <1>3, <1>6 DEF Openings
<1>8. QED
  BY <1>4, <1>5, <1>7

LEMMA ClosedAt ==
    ASSUME NEW g \in Openings, NEW c \in Level!Cell, NEW d \in Level!Dir,
           NEW n \in Level!Cell, n = Level!Neighbor(c, d), NEW h, h = Level!Closed(g, c, d)
    PROVE  /\ h \in Openings
           /\ h[c] = g[c] \ {d} /\ h[n] = g[n] \ {Level!Opposite(d)}
           /\ \A x \in Level!Cell : x # c /\ x # n => h[x] = g[x]
<1>1. n # c /\ Level!Opposite(d) \in Level!Dir
  BY Across
<1>2. h = [g EXCEPT ![c] = g[c] \ {d}, ![n] = g[n] \ {Level!Opposite(d)}]
  BY <1>1 DEF Level!Closed
<1>3. DOMAIN g = Level!Cell /\ \A x \in Level!Cell : g[x] \in SUBSET Level!Dir
  BY DEF Openings
<1>4. h[c] = g[c] \ {d} /\ h[n] = g[n] \ {Level!Opposite(d)}
  BY <1>1, <1>2, <1>3
<1>5. \A x \in Level!Cell : x # c /\ x # n => h[x] = g[x]
  BY <1>2, <1>3
<1>6. \A x \in Level!Cell : h[x] \in SUBSET Level!Dir
  BY <1>1, <1>3, <1>4, <1>5
<1>7. h \in Openings
  BY <1>2, <1>3, <1>6 DEF Openings
<1>8. QED
  BY <1>4, <1>5, <1>7

(* A way made between two cells has both its ends, ...                     *)
LEMMA OpenedMeets ==
    ASSUME NEW g \in Openings, Meets(g), NEW c \in Level!Cell, NEW d \in Level!Dir,
           NEW n \in Level!Cell, n = Level!Neighbor(c, d), NEW h, h = Level!Opened(g, c, d)
    PROVE  Meets(h)
<1>1. /\ h[c] = g[c] \cup {d} /\ h[n] = g[n] \cup {Level!Opposite(d)}
      /\ \A x \in Level!Cell : x # c /\ x # n => h[x] = g[x]
  BY OpenedAt
<1>2. /\ Level!Opposite(Level!Opposite(d)) = d
      /\ Level!Neighbor(n, Level!Opposite(d)) = c
  BY Across
<1>3. \A x \in Level!Cell : g[x] \subseteq h[x]
  BY <1>1
<1>4. ASSUME NEW x \in Level!Cell, NEW e \in h[x]
      PROVE  /\ Level!Neighbor(x, e) \in Level!Cell
             /\ Level!Opposite(e) \in h[Level!Neighbor(x, e)]
  <2>1. CASE e \in g[x]
    BY <1>3, <2>1 DEF Meets
  <2>2. CASE x = c /\ e = d
    BY <1>1, <2>2
  <2>3. CASE x = n /\ e = Level!Opposite(d)
    BY <1>1, <1>2, <2>3
  <2>4. QED
    BY <1>1, <2>1, <2>2, <2>3
<1>5. QED
  BY <1>4 DEF Meets

(* ... and one that is cut loses both.                                     *)
LEMMA ClosedMeets ==
    ASSUME NEW g \in Openings, Meets(g), NEW c \in Level!Cell, NEW d \in Level!Dir,
           NEW n \in Level!Cell, n = Level!Neighbor(c, d), NEW h, h = Level!Closed(g, c, d)
    PROVE  Meets(h)
<1>1. /\ h[c] = g[c] \ {d} /\ h[n] = g[n] \ {Level!Opposite(d)}
      /\ \A x \in Level!Cell : x # c /\ x # n => h[x] = g[x]
  BY ClosedAt
<1>2. /\ Level!Opposite(Level!Opposite(d)) = d
      /\ Level!Neighbor(n, Level!Opposite(d)) = c
  BY Across
<1>3. ASSUME NEW x \in Level!Cell, NEW e \in h[x]
      PROVE  /\ Level!Neighbor(x, e) \in Level!Cell
             /\ Level!Opposite(e) \in h[Level!Neighbor(x, e)]
  <2> DEFINE m == Level!Neighbor(x, e)
             o == Level!Opposite(e)
  <2>1. e \in g[x] /\ e \in Level!Dir
    BY <1>1 DEF Openings
  <2>2. m \in Level!Cell /\ o \in g[m]
    BY <2>1 DEF Meets
  <2>3. Level!Opposite(o) = e /\ Level!Neighbor(m, o) = x
    BY <2>1, Across
  <2> HIDE DEF m, o
  <2>4. ~(m = c /\ o = d)
    BY <1>1, <2>3
  <2>5. ~(m = n /\ o = Level!Opposite(d))
    BY <1>1, <1>2, <2>3
  <2>6. o \in h[m]
    BY <1>1, <2>2, <2>4, <2>5
  <2>7. QED
    BY <2>2, <2>6 DEF m, o
<1>4. QED
  BY <1>3 DEF Meets

(* What a sweep does at a room: it adds the exits and their other ends.    *)
LEMMA ForcedOne ==
    ASSUME RoomsMeet, room \in [Level!Cell -> [src : Nat, exits : SUBSET Level!Dir]],
           NEW g \in Openings, Meets(g), WithinExits(g), NEW c \in Level!Cell,
           NEW h, h = Level!ForcedAt(g, c)
    PROVE  /\ h \in Openings /\ Meets(h) /\ WithinExits(h)
           /\ \A x \in Level!Cell : g[x] \subseteq h[x]
           /\ Level!IsRoom(c) => room[c].exits \subseteq h[c]
<1>1. CASE room[c].exits = {}
  BY <1>1 DEF Level!ForcedAt
<1>2. CASE room[c].exits # {}
  <2> DEFINE S == room[c].exits
  <2>1. room[c] # Level!NoRoom /\ Level!IsRoom(c)
    BY <1>2 DEF Level!NoRoom, Level!IsRoom
  <2>2. S \subseteq Level!Dir /\ g[c] \subseteq S
    BY <2>1 DEF WithinExits
  <2>3. \A d \in S : Level!Neighbor(c, d) \in Level!Cell
    BY <2>1 DEF RoomsMeet
  <2>4. S \cap {d \in Level!Dir : Level!Neighbor(c, d) \in Level!Cell} = S
    BY <2>2, <2>3
  <2>5. (g[c] \ S) \cap {d \in Level!Dir : Level!Neighbor(c, d) \in Level!Cell} = {}
    BY <2>2
  <2>6. \A x : Level!Facing(c, {}, x) = {}
    BY DEF Level!Facing
  <2>7. h = [x \in Level!Cell |-> (g[x] \ Level!Facing(c, {}, x)) \cup Level!Facing(c, S, x)]
    BY <1>2, <2>4, <2>5 DEF Level!ForcedAt
  <2>8. \A x \in Level!Cell : h[x] = g[x] \cup Level!Facing(c, S, x)
    BY <2>6, <2>7
  <2>9. \A x \in Level!Cell : \A e : e \in Level!Facing(c, S, x) <=>
            (x = c /\ e \in S) \/ \E d \in S : Level!Neighbor(c, d) = x /\ e = Level!Opposite(d)
    BY DEF Level!Facing
  <2> HIDE DEF S
  <2>10. \A x \in Level!Cell : Level!Facing(c, S, x) \subseteq Level!Dir
    BY <2>2, <2>9, Across
  <2>11. h \in Openings
    <3>1. \A x \in Level!Cell : h[x] \in SUBSET Level!Dir
      BY <2>8, <2>10 DEF Openings
    <3>2. QED
      BY <2>7, <3>1 DEF Openings
  <2>12. Meets(h)
    <3>1. ASSUME NEW x \in Level!Cell, NEW e \in h[x]
          PROVE  /\ Level!Neighbor(x, e) \in Level!Cell
                 /\ Level!Opposite(e) \in h[Level!Neighbor(x, e)]
      <4>1. CASE e \in g[x]
        BY <2>8, <4>1 DEF Meets
      <4>2. CASE x = c /\ e \in S
        BY <2>3, <2>8, <2>9, <4>2
      <4>3. CASE \E d \in S : Level!Neighbor(c, d) = x /\ e = Level!Opposite(d)
        <5>1. PICK d \in S : Level!Neighbor(c, d) = x /\ e = Level!Opposite(d)
          BY <4>3
        <5>2. Level!Neighbor(x, e) = c /\ Level!Opposite(e) = d
          BY <2>2, <5>1, Across
        <5>3. QED
          BY <2>8, <2>9, <5>2
      <4>4. QED
        BY <2>8, <2>9, <4>1, <4>2, <4>3
    <3>2. QED
      BY <3>1 DEF Meets
  <2>13. WithinExits(h)
    <3>1. ASSUME NEW x \in Level!Cell, Level!IsRoom(x), NEW e \in h[x]
          PROVE  e \in room[x].exits
      <4>1. CASE e \in g[x]
        BY <3>1, <4>1 DEF WithinExits
      <4>2. CASE x = c /\ e \in S
        BY <4>2 DEF S
      <4>3. CASE \E d \in S : Level!Neighbor(c, d) = x /\ e = Level!Opposite(d)
        BY <2>1, <3>1, <4>3 DEF RoomsMeet, S
      <4>4. QED
        BY <2>8, <2>9, <4>1, <4>2, <4>3
    <3>2. QED
      BY <3>1 DEF WithinExits
  <2>14. S \subseteq h[c]
    BY <2>8, <2>9
  <2>15. QED
    BY <2>8, <2>11, <2>12, <2>13, <2>14 DEF S
<1>3. QED
  BY <1>1, <1>2

-----------------------------------------------------------------------------
(* The sweep over all rooms.                                               *)

RoomType == room \in [Level!Cell -> [src : Nat, exits : SUBSET Level!Dir]]
BeforeSweep == {g \in Openings : Meets(g) /\ WithinExits(g)}

LEMMA SweepGoes ==
    ASSUME RoomType, RoomsMeet, cells \in BeforeSweep
    PROVE  \E f : /\ \A n \in 0..(Width * Height) : f[n] \in BeforeSweep
                  /\ f[0] = cells /\ Level!Forced = f[Width * Height]
                  /\ \A n \in 1..(Width * Height) :
                        f[n] = Level!ForcedAt(f[n - 1], Level!InOrder[n])
<1> DEFINE S == BeforeSweep
           m == Width * Height
           N(d, k) == Level!ForcedAt(d, Level!InOrder[k])
           g == [x \in S \X (1..m) |-> N(x[1], x[2])]
           L(f) == [n \in 0..m |-> IF n = 0 THEN cells
                                   ELSE Level!ForcedAt(f[n - 1], Level!InOrder[n])]
           swept == CHOOSE f : f = L(f)
<1>1. m \in Nat
  BY Grid
<1>2. ASSUME NEW d \in S, NEW k \in 1..m PROVE N(d, k) \in S
  <2>1. Level!InOrder[k] \in Level!Cell
    BY OrderInGrid
  <2>2. d \in Openings /\ Meets(d) /\ WithinExits(d)
    BY DEF BeforeSweep
  <2>3. QED
    BY <2>1, <2>2, ForcedOne DEF RoomType, BeforeSweep
<1>3. Level!Forced = swept[m]
  BY DEF Level!Forced
<1>4. cells \in S
  OBVIOUS
<1> HIDE DEF S, N, m
<1>5. g \in [S \X (1..m) -> S] /\ \A d \in S, k \in 1..m : g[<<d, k>>] = N(d, k)
  BY <1>2
<1> HIDE DEF g
<1>6. PICK h \in [0..m -> S] : Goes(h, cells, m, g)
  BY <1>1, <1>4, <1>5, Recurs
<1>7. \A n \in 1..m : h[n] = N(h[n - 1], n)
  <2>1. \A n \in 1..m : h[n - 1] \in S
    BY <1>1, <1>6
  <2>2. QED
    BY <1>5, <1>6, <2>1 DEF Goes
<1>8. h = L(h)
  <2>1. \A n \in 0..m : h[n] = L(h)[n]
    BY <1>1, <1>6, <1>7 DEF Goes, N
  <2>2. QED
    BY <1>6, <2>1
<1> HIDE DEF L
<1>9. swept = L(swept)
  BY <1>8
<1> HIDE DEF swept
<1>10. swept[0] = cells /\ \A n \in 1..m : swept[n] = N(swept[n - 1], n)
  BY <1>1, <1>9 DEF L, N
<1>11. \A n \in 0..m : swept[n] \in S
  <2>1. \A n \in 1..m : swept[n - 1] \in S => swept[n] \in S
    BY <1>2, <1>10
  <2>2. swept[0] \in S
    BY <1>4, <1>10
  <2>3. QED
    BY <1>1, <2>1, <2>2, Stays
<1>12. QED
  BY <1>3, <1>10, <1>11 DEF N, S, m

(* After it every room has the openings its tile has, and no way between   *)
(* two cells is lost.                                                      *)
LEMMA SweepDone ==
    ASSUME RoomType, RoomsMeet, cells \in BeforeSweep
    PROVE  /\ Level!Forced \in Openings /\ Meets(Level!Forced) /\ AsTheirExits(Level!Forced)
           /\ \A x \in Level!Cell : cells[x] \subseteq Level!Forced[x]
<1> DEFINE m == Width * Height
<1>1. m \in Nat
  BY Grid
<1>2. PICK f : /\ \A n \in 0..m : f[n] \in BeforeSweep
               /\ f[0] = cells /\ Level!Forced = f[m]
               /\ \A n \in 1..m : f[n] = Level!ForcedAt(f[n - 1], Level!InOrder[n])
  BY SweepGoes
<1> HIDE DEF m
<1>3. f[m] \in BeforeSweep
  BY <1>1, <1>2
<1>4. ASSUME NEW n \in 1..m
      PROVE  /\ \A x \in Level!Cell : f[n - 1][x] \subseteq f[n][x]
             /\ Level!IsRoom(Level!InOrder[n]) =>
                    room[Level!InOrder[n]].exits \subseteq f[n][Level!InOrder[n]]
  <2>1. n - 1 \in 0..m /\ Level!InOrder[n] \in Level!Cell
    BY <1>1, OrderInGrid DEF m
  <2>2. f[n - 1] \in Openings /\ Meets(f[n - 1]) /\ WithinExits(f[n - 1])
    BY <1>2, <2>1 DEF BeforeSweep
  <2>3. f[n] = Level!ForcedAt(f[n - 1], Level!InOrder[n])
    BY <1>2
  <2>4. QED
    BY <2>1, <2>2, <2>3, ForcedOne DEF RoomType
<1>5. ASSUME NEW c \in Level!Cell, Level!IsRoom(c)
      PROVE  room[c].exits \subseteq f[m][c]
  <2>1. PICK k \in 1..m : Level!InOrder[k] = c
    BY OrderCovers DEF m
  <2> DEFINE P == {n \in Nat : n <= m => (k <= n => room[c].exits \subseteq f[n][c])}
  <2>2. P \in SUBSET Nat /\ 0 \in P
    BY <1>1
  <2>3. ASSUME NEW n \in P PROVE n + 1 \in P
    <3> SUFFICES ASSUME n + 1 <= m, k <= n + 1 PROVE room[c].exits \subseteq f[n + 1][c]
      OBVIOUS
    <3>1. n \in Nat /\ n <= m /\ n + 1 \in 1..m /\ (n + 1) - 1 = n
      BY <1>1
    <3>2. CASE k <= n
      <4>1. room[c].exits \subseteq f[n][c]
        BY <3>1, <3>2
      <4>2. f[(n + 1) - 1][c] \subseteq f[n + 1][c]
        BY <1>4, <3>1
      <4>3. QED
        BY <3>1, <4>1, <4>2
    <3>3. CASE k = n + 1
      BY <1>4, <1>5, <2>1, <3>3
    <3>4. QED
      BY <1>1, <3>1, <3>2, <3>3
  <2> HIDE DEF P
  <2>4. P = Nat
    BY <2>2, <2>3, Induct
  <2>5. m \in P /\ k <= m
    BY <1>1, <2>4
  <2>6. QED
    BY <1>1, <2>5 DEF P
<1>6. ASSUME NEW x \in Level!Cell PROVE cells[x] \subseteq f[m][x]
  <2> DEFINE S == {h \in BeforeSweep : cells[x] \subseteq h[x]}
  <2>1. f[0] \in S
    BY <1>2
  <2>2. \A n \in 1..m : f[n - 1] \in S => f[n] \in S
    <3>1. \A n \in 1..m : n \in 0..m
      BY <1>1
    <3>2. QED
      BY <1>2, <1>4, <3>1
  <2> HIDE DEF S
  <2>3. f[m] \in S
    BY <1>1, <2>1, <2>2, Stays
  <2>4. QED
    BY <2>3 DEF S
<1>7. QED
  BY <1>2, <1>3, <1>5, <1>6 DEF BeforeSweep, WithinExits, AsTheirExits

-----------------------------------------------------------------------------
(* The generator.  While rooms are placed nothing is open; corridors enter  *)
(* and leave rooms by their exits; after the sweep a room has just these.   *)
(* The walk out of a dead end stands in one.                               *)

Swept == phase \in {"sparsify", "removal", "done"}

Carving ==
    /\ Level!TypeOK
    /\ Meets(cells) /\ WithinExits(cells) /\ RoomsMeet
    /\ Swept => AsTheirExits(cells)
    /\ phase = "rooms" =>
         i \in 1..(Len(plan) + 1) /\ \A c \in Level!Cell : cells[c] = {}
    /\ phase = "sparsify" => i \in 1..(Sparseness + 1) /\ at = Level!Nowhere
    /\ phase = "removal" =>
         /\ i \in 1..(Width * Height + 1)
         /\ at # Level!Nowhere => ~Level!IsRoom(at) /\ \E d \in Level!Dir : cells[at] = {d}

LEMMA PlanTyped ==
    ASSUME Level!TypeOK
    PROVE  /\ Len(plan) \in Nat
           /\ \A k \in 1..Len(plan) : plan[k] \in [variants : SUBSET SUBSET Level!Dir, x : Int,
                                                   y : Int, sure : BOOLEAN]
<1> DEFINE R == [variants : SUBSET SUBSET Level!Dir, x : Int, y : Int, sure : BOOLEAN]
<1>1. plan \in Seq(R)
  BY Grid DEF Level!TypeOK
<1> HIDE DEF R
<1>2. Len(plan) \in Nat /\ \A k \in 1..Len(plan) : plan[k] \in R
  BY <1>1
<1>3. QED
  BY <1>2 DEF R

LEMMA Rooms == Level!TypeOK => RoomType
<1> SUFFICES ASSUME Level!TypeOK PROVE RoomType
  OBVIOUS
<1>1. 0..Len(plan) \subseteq Nat
  BY PlanTyped
<1>2. QED
  BY <1>1 DEF Level!TypeOK, RoomType

LEMMA CarvingInit == Init => Carving
<1> SUFFICES ASSUME Init PROVE Carving
  OBVIOUS
<1>1. /\ plan \in Plans /\ phase = "rooms" /\ i = 1 /\ left = 0 /\ at = Level!Nowhere
      /\ cells = [c \in Level!Cell |-> {}] /\ room = [c \in Level!Cell |-> Level!NoRoom]
  BY DEF Init, Level!Init, Level!MazeInit
<1>2. Len(plan) \in Nat
  <2>1. plan \in Seq([variants : SUBSET SUBSET Level!Dir, x : Int, y : Int, sure : BOOLEAN])
    BY <1>1, Grid
  <2>2. QED
    BY <2>1
<1>3. Level!NoRoom \in [src : 0..Len(plan), exits : SUBSET Level!Dir]
  BY <1>2 DEF Level!NoRoom
<1>4. Level!TypeOK
  BY <1>1, <1>3 DEF Level!TypeOK
<1>5. \A c \in Level!Cell : cells[c] = {} /\ ~Level!IsRoom(c)
  BY <1>1 DEF Level!IsRoom
<1>6. QED
  BY <1>1, <1>2, <1>4, <1>5 DEF Carving, Swept, Meets, WithinExits, RoomsMeet

(* A room is placed where a flood reaches every cell, and where its exits   *)
(* and those of the rooms about it meet.                                   *)
LEMMA RoomPlaced ==
    ASSUME Carving, Level!PlaceRoom
    PROVE  \/ UNCHANGED room
           \/ \E c \in Level!Cell : \E v \in SUBSET Level!Dir :
                /\ i \in 1..Len(plan) /\ Level!MapFullyConnected(c, v)
                /\ room' = [room EXCEPT ![c] = [src |-> i, exits |-> v]]
                /\ room' \in [Level!Cell -> [src : 0..Len(plan), exits : SUBSET Level!Dir]]
                /\ room'[c] = [src |-> i, exits |-> v]
                /\ \A x \in Level!Cell : x # c => room'[x] = room[x]
<1> DEFINE spec == plan[i]
<1>1. /\ phase = "rooms" /\ i <= Len(plan)
      /\ \/ \E v \in spec.variants : \E c \in Level!RoomCandidates(spec, v) :
                room' = [room EXCEPT ![c] = [src |-> i, exits |-> v]]
         \/ UNCHANGED room
  BY DEF Level!PlaceRoom
<1>2. Len(plan) \in Nat /\ i \in 1..(Len(plan) + 1)
  BY <1>1, PlanTyped DEF Carving
<1>3. i \in 1..Len(plan)
  BY <1>1, <1>2
<1>4. ASSUME NEW v \in spec.variants, NEW c \in Level!RoomCandidates(spec, v),
             room' = [room EXCEPT ![c] = [src |-> i, exits |-> v]]
      PROVE  /\ c \in Level!Cell /\ v \in SUBSET Level!Dir /\ Level!MapFullyConnected(c, v)
             /\ room' \in [Level!Cell -> [src : 0..Len(plan), exits : SUBSET Level!Dir]]
             /\ room'[c] = [src |-> i, exits |-> v]
             /\ \A x \in Level!Cell : x # c => room'[x] = room[x]
  <2>1. spec \in [variants : SUBSET SUBSET Level!Dir, x : Int, y : Int, sure : BOOLEAN]
    BY <1>3, PlanTyped DEF Carving
  <2>2. v \in SUBSET Level!Dir
    BY <2>1
  <2>3. c \in Level!Cell /\ Level!MapFullyConnected(c, v)
    <3>1. \A z \in Level!Wanted(spec.x, Width) : z \in 0..(Width - 1)
      <4>1. Width \in Nat \ {0} /\ spec.x \in Int
        BY <2>1, Grid
      <4>2. QED
        BY <4>1 DEF Level!Wanted, Level!AnyLine
    <3>2. \A z \in Level!Wanted(spec.y, Height) : z \in 0..(Height - 1)
      <4>1. Height \in Nat \ {0} /\ spec.y \in Int
        BY <2>1, Grid
      <4>2. QED
        BY <4>1 DEF Level!Wanted, Level!AnyLine
    <3> HIDE DEF spec
    <3>3. QED
      BY <3>1, <3>2 DEF Level!RoomCandidates, Level!Cell
  <2>4. [src |-> i, exits |-> v] \in [src : 0..Len(plan), exits : SUBSET Level!Dir]
    BY <1>2, <1>3, <2>2
  <2>5. room \in [Level!Cell -> [src : 0..Len(plan), exits : SUBSET Level!Dir]]
    BY DEF Carving, Level!TypeOK
  <2>6. QED
    BY <1>4, <2>2, <2>3, <2>4, <2>5
<1> HIDE DEF spec
<1>5. CASE ~(UNCHANGED room)
  <2>1. PICK v \in spec.variants : \E c \in Level!RoomCandidates(spec, v) :
            room' = [room EXCEPT ![c] = [src |-> i, exits |-> v]]
    BY <1>1, <1>5
  <2>2. PICK c \in Level!RoomCandidates(spec, v) :
            room' = [room EXCEPT ![c] = [src |-> i, exits |-> v]]
    BY <2>1
  <2>3. /\ c \in Level!Cell /\ v \in SUBSET Level!Dir /\ Level!MapFullyConnected(c, v)
        /\ room' \in [Level!Cell -> [src : 0..Len(plan), exits : SUBSET Level!Dir]]
        /\ room'[c] = [src |-> i, exits |-> v]
        /\ \A x \in Level!Cell : x # c => room'[x] = room[x]
    BY <1>4, <2>2
  <2>4. QED
    BY <1>3, <2>2, <2>3
<1>6. QED
  BY <1>5

LEMMA PlaceRoomKeeps == ASSUME Carving, Level!PlaceRoom PROVE Carving'
<1>1. /\ phase = "rooms" /\ i <= Len(plan) /\ i' = i + 1
      /\ UNCHANGED <<plan, phase, cells, left, at>>
  BY DEF Level!PlaceRoom
<1>2. Len(plan) \in Nat /\ i \in 1..(Len(plan) + 1) /\ \A c \in Level!Cell : cells[c] = {}
  BY <1>1, PlanTyped DEF Carving
<1>3. i \in 1..Len(plan) /\ i' \in 1..(Len(plan) + 1) /\ i' \in Nat
  BY <1>1, <1>2
<1>4. Meets(cells') /\ WithinExits(cells)'
  BY <1>1, <1>2 DEF Meets, WithinExits
<1>5. CASE UNCHANGED room
  <2>1. Level!TypeOK'
    BY <1>1, <1>3, <1>5 DEF Carving, Level!TypeOK
  <2>2. RoomsMeet'
    BY <1>5 DEF Carving, RoomsMeet, Level!IsRoom
  <2>3. QED
    BY <1>1, <1>2, <1>3, <1>4, <2>1, <2>2 DEF Carving, Swept, Meets
<1>6. ASSUME NEW c \in Level!Cell, NEW v \in SUBSET Level!Dir, Level!MapFullyConnected(c, v),
             room' \in [Level!Cell -> [src : 0..Len(plan), exits : SUBSET Level!Dir]],
             room'[c] = [src |-> i, exits |-> v],
             \A x \in Level!Cell : x # c => room'[x] = room[x]
      PROVE  Carving'
  <2>1. Level!TypeOK'
    BY <1>1, <1>3, <1>6 DEF Carving, Level!TypeOK
  <2>2. \A x \in Level!Cell : Level!IsRoom(x)' => Level!Solid(x, c)
    BY <1>6 DEF Level!IsRoom, Level!Solid
  <2>3. \A x \in Level!Cell : room'[x].exits = Level!Exits(x, c, v)
    BY <1>6 DEF Level!Exits
  <2>4. \A x \in Level!Cell : Level!Solid(x, c) =>
            \A d \in Level!Exits(x, c, v) : Level!Enters(x, d, c, v)
    BY <1>6 DEF Level!MapFullyConnected
  <2>5. ASSUME NEW x \in Level!Cell, Level!IsRoom(x)', NEW d \in room'[x].exits
        PROVE  /\ Level!Neighbor(x, d) \in Level!Cell
               /\ Level!IsRoom(Level!Neighbor(x, d))' =>
                      Level!Opposite(d) \in room'[Level!Neighbor(x, d)].exits
    <3>1. Level!Enters(x, d, c, v)
      BY <2>2, <2>3, <2>4, <2>5
    <3>2. QED
      BY <2>2, <2>3, <3>1 DEF Level!Enters, Level!IsRoom
  <2>6. RoomsMeet'
    BY <2>5 DEF RoomsMeet, Level!IsRoom
  <2>7. QED
    BY <1>1, <1>2, <1>3, <1>4, <2>1, <2>6 DEF Carving, Swept, Meets
<1>7. QED
  BY <1>5, <1>6, RoomPlaced

LEMMA GridFinite ==
    /\ \A S : Level!Cardinality(S) = Cardinality(S)
    /\ IsFiniteSet(Level!Cell) /\ IsFiniteSet(Level!Dir)
<1>1. \A S : Level!Cardinality(S) = Cardinality(S)
  BY DEF Level!Cardinality, Cardinality
<1>2. IsFiniteSet(0..(Width - 1)) /\ IsFiniteSet(0..(Height - 1))
  <2>1. 0 \in Int /\ Width - 1 \in Int /\ Height - 1 \in Int
    BY Grid
  <2>2. QED
    BY <2>1, FS_Interval
<1>3. IsFiniteSet(Level!Cell)
  BY <1>2, FS_Product DEF Level!Cell
<1>4. IsFiniteSet({}) /\ IsFiniteSet({} \cup {"n"})
  BY FS_EmptySet, FS_AddElement
<1>5. IsFiniteSet({} \cup {"n"} \cup {"e"})
  BY <1>4, FS_AddElement
<1>6. IsFiniteSet({} \cup {"n"} \cup {"e"} \cup {"s"})
  BY <1>5, FS_AddElement
<1>7. IsFiniteSet({} \cup {"n"} \cup {"e"} \cup {"s"} \cup {"w"})
  BY <1>6, FS_AddElement
<1>8. Level!Dir = {} \cup {"n"} \cup {"e"} \cup {"s"} \cup {"w"}
  BY DEF Level!Dir
<1>9. QED
  BY <1>1, <1>3, <1>7, <1>8

LEMMA DeadEnd ==
    ASSUME Level!TypeOK, NEW c \in Level!Cell, Level!IsDeadEnd(c)
    PROVE  ~Level!IsRoom(c) /\ \E d \in Level!Dir : cells[c] = {d}
<1>1. ~Level!IsRoom(c) /\ Cardinality(cells[c]) = 1
  BY GridFinite DEF Level!IsDeadEnd
<1>2. cells[c] \in SUBSET Level!Dir
  BY DEF Level!TypeOK
<1>3. IsFiniteSet(cells[c])
  BY <1>2, GridFinite, FS_Subset
<1>4. PICK d : cells[c] = {d}
  BY <1>1, <1>3, FS_Singleton
<1>5. QED
  BY <1>1, <1>2, <1>4

LEMMA BeginCorridorsKeeps == ASSUME Carving, Level!BeginCorridors PROVE Carving'
<1> DEFINE empty == {c \in Level!Cell : Level!IsEmpty(c)}
           rest == Cardinality(empty) - 1
<1>1. /\ phase' = "corridors" /\ left' = (IF rest < 0 THEN 0 ELSE rest)
      /\ at' \in Level!Cell \cup {Level!Nowhere}
      /\ UNCHANGED <<plan, i, cells, room>>
  BY GridFinite DEF Level!BeginCorridors
<1>2. Cardinality(empty) \in Nat
  <2>1. empty \subseteq Level!Cell
    OBVIOUS
  <2>2. IsFiniteSet(empty)
    BY <2>1, GridFinite, FS_Subset
  <2>3. QED
    BY <2>2, FS_CardinalityType
<1> HIDE DEF empty
<1>3. left' \in Nat
  BY <1>1, <1>2
<1>4. Level!TypeOK'
  BY <1>1, <1>3 DEF Carving, Level!TypeOK
<1>5. QED
  BY <1>1, <1>4 DEF Carving, Swept, Meets, WithinExits, RoomsMeet, Level!IsRoom

(* Where a corridor goes on it comes to an empty cell, and from a room by   *)
(* one of its exits.                                                       *)
LEMMA FreeWays ==
    ASSUME Carving, NEW c \in Level!Cell, NEW d \in Level!Free(c)
    PROVE  /\ d \in Level!Dir /\ Level!Neighbor(c, d) \in Level!Cell
           /\ ~Level!IsRoom(Level!Neighbor(c, d))
           /\ Level!IsRoom(c) => d \in room[c].exits
<1>1. RoomType
  BY Rooms DEF Carving
<1>2. Level!Neighbor(c, d) \in Level!Cell /\ ~Level!IsRoom(Level!Neighbor(c, d))
  BY DEF Level!Free, Level!IsEmpty
<1>3. CASE Level!IsRoom(c)
  <2>1. d \in cells[c] \cup room[c].exits
    BY <1>3 DEF Level!Free, Level!CellByte
  <2>2. cells[c] \subseteq room[c].exits
    BY <1>3 DEF Carving, WithinExits
  <2>3. room[c].exits \in SUBSET Level!Dir
    BY <1>1 DEF RoomType
  <2>4. QED
    BY <1>2, <2>1, <2>2, <2>3
<1>4. CASE ~Level!IsRoom(c)
  BY <1>2, <1>4 DEF Level!Free
<1>5. QED
  BY <1>3, <1>4

LEMMA GrowKeeps == ASSUME Carving, Level!Grow PROVE Carving'
<1>1. /\ phase = "corridors" /\ left > 0 /\ at # Level!Nowhere
      /\ UNCHANGED <<plan, phase, i, room>>
      /\ \/ \E d \in Level!Free(at) :
              /\ cells' = Level!Opened(cells, at, d)
              /\ at' = Level!Neighbor(at, d) /\ left' = left - 1
         \/ at' = Level!Nowhere /\ UNCHANGED <<cells, left>>
  BY DEF Level!Grow
<1>2. at \in Level!Cell /\ cells \in Openings /\ left \in Nat
  BY <1>1 DEF Carving, Level!TypeOK, Openings
<1>3. CASE at' = Level!Nowhere /\ UNCHANGED <<cells, left>>
  <2>1. Level!TypeOK'
    BY <1>1, <1>3 DEF Carving, Level!TypeOK
  <2>2. QED
    BY <1>1, <1>3, <2>1 DEF Carving, Swept, Meets, WithinExits, RoomsMeet, Level!IsRoom
<1>4. ASSUME NEW d \in Level!Free(at), cells' = Level!Opened(cells, at, d),
             at' = Level!Neighbor(at, d), left' = left - 1
      PROVE  Carving'
  <2> DEFINE n == Level!Neighbor(at, d)
  <2>1. /\ d \in Level!Dir /\ n \in Level!Cell /\ ~Level!IsRoom(n)
        /\ Level!IsRoom(at) => d \in room[at].exits
    BY <1>2, FreeWays
  <2> HIDE DEF n
  <2>2. n = Level!Neighbor(at, d)
    BY DEF n
  <2>3. /\ cells' \in Openings
        /\ cells'[at] = cells[at] \cup {d} /\ cells'[n] = cells[n] \cup {Level!Opposite(d)}
        /\ \A x \in Level!Cell : x # at /\ x # n => cells'[x] = cells[x]
    BY <1>2, <1>4, <2>1, <2>2, OpenedAt
  <2>4. Meets(cells')
    <3>1. Meets(cells)
      BY DEF Carving
    <3>2. QED
      BY <1>2, <1>4, <2>1, <2>2, <3>1, OpenedMeets
  <2>5. \A x \in Level!Cell : Level!IsRoom(x) => cells'[x] \subseteq room[x].exits
    BY <1>2, <2>1, <2>3 DEF Carving, WithinExits
  <2>6. left' \in Nat
    BY <1>1, <1>2, <1>4
  <2>7. Level!TypeOK'
    BY <1>1, <1>4, <2>1, <2>2, <2>3, <2>6 DEF Carving, Level!TypeOK, Openings
  <2>8. QED
    BY <1>1, <2>4, <2>5, <2>7 DEF Carving, Swept, Meets, WithinExits, RoomsMeet, Level!IsRoom
<1>5. QED
  BY <1>1, <1>3, <1>4

LEMMA BranchKeeps == ASSUME Carving, Level!Branch PROVE Carving'
<1>1. /\ phase = "corridors" /\ at' \in Level!Cell
      /\ UNCHANGED <<plan, phase, i, cells, room, left>>
  BY DEF Level!Branch, Level!OpenEnds
<1>2. Level!TypeOK'
  BY <1>1 DEF Carving, Level!TypeOK
<1>3. QED
  BY <1>1, <1>2 DEF Carving, Swept, Meets, WithinExits, RoomsMeet, Level!IsRoom

LEMMA ApplyKeeps == ASSUME Carving, Level!ApplyForcedRoomExits PROVE Carving'
<1>1. /\ phase' = "sparsify" /\ i' = 1 /\ at' = Level!Nowhere /\ cells' = Level!Forced
      /\ UNCHANGED <<plan, room, left>>
  BY DEF Level!ApplyForcedRoomExits
<1>2. RoomType /\ RoomsMeet /\ cells \in BeforeSweep
  BY Rooms DEF Carving, BeforeSweep, Level!TypeOK, Openings
<1>3. cells' \in Openings /\ Meets(cells') /\ AsTheirExits(cells')
  BY <1>1, <1>2, SweepDone
<1>4. Level!TypeOK'
  BY <1>1, <1>3 DEF Carving, Level!TypeOK, Openings
<1>5. \A c \in Level!Cell : Level!IsRoom(c) => cells'[c] = room[c].exits
  BY <1>3 DEF AsTheirExits
<1>6. i' \in 1..(Sparseness + 1)
  BY <1>1, Grid
<1>7. QED
  BY <1>1, <1>3, <1>4, <1>5, <1>6
     DEF Carving, Swept, Meets, WithinExits, AsTheirExits, RoomsMeet, Level!IsRoom

LEMMA SparsifyKeeps == ASSUME Carving, Level!Sparsify PROVE Carving'
<1>0. PICK c \in Level!Cell : Level!IsDeadEnd(c) /\ \E d \in cells[c] :
        cells' = IF Level!IsRoom(Level!Neighbor(c, d)) THEN cells ELSE Level!Closed(cells, c, d)
  BY DEF Level!Sparsify
<1>1. PICK d \in cells[c] :
        cells' = IF Level!IsRoom(Level!Neighbor(c, d)) THEN cells ELSE Level!Closed(cells, c, d)
  BY <1>0
<1>2. /\ phase = "sparsify" /\ i <= Sparseness /\ i' = i + 1
      /\ UNCHANGED <<plan, phase, room, left, at>>
  BY DEF Level!Sparsify
<1>3. i \in 1..(Sparseness + 1) /\ i' \in 1..(Sparseness + 1) /\ i' \in Nat
  BY <1>2, Grid DEF Carving
<1> DEFINE n == Level!Neighbor(c, d)
<1>4. /\ cells \in Openings /\ Meets(cells) /\ AsTheirExits(cells)
      /\ ~Level!IsRoom(c) /\ d \in Level!Dir /\ n \in Level!Cell
  BY <1>0, <1>1, <1>2, DeadEnd DEF Carving, Swept, Level!TypeOK, Openings, Meets
<1> HIDE DEF n
<1>5. n = Level!Neighbor(c, d)
  BY DEF n
<1>6. cells' \in Openings /\ Meets(cells') /\ AsTheirExits(cells')
  <2>1. CASE Level!IsRoom(n)
    BY <1>1, <1>4, <1>5, <2>1
  <2>2. CASE ~Level!IsRoom(n)
    <3>1. cells' = Level!Closed(cells, c, d)
      BY <1>1, <1>5, <2>2
    <3>2. /\ cells' \in Openings
          /\ \A x \in Level!Cell : x # c /\ x # n => cells'[x] = cells[x]
      BY <1>4, <1>5, <3>1, ClosedAt
    <3>3. Meets(cells')
      BY <1>4, <1>5, <3>1, ClosedMeets
    <3>4. QED
      BY <1>4, <2>2, <3>2, <3>3 DEF AsTheirExits
  <2>3. QED
    BY <2>1, <2>2
<1>7. Level!TypeOK'
  BY <1>2, <1>3, <1>6 DEF Carving, Level!TypeOK, Openings
<1>8. QED
  BY <1>2, <1>3, <1>6, <1>7
     DEF Carving, Swept, Meets, WithinExits, AsTheirExits, RoomsMeet, Level!IsRoom

LEMMA BeginRemovalKeeps == ASSUME Carving, Level!BeginRemoval PROVE Carving'
<1>1. /\ phase = "sparsify" /\ phase' = "removal" /\ i' = 1 /\ at = Level!Nowhere
      /\ UNCHANGED <<plan, cells, room, left, at>>
  BY DEF Level!BeginRemoval, Carving
<1>2. i' \in 1..(Width * Height + 1) /\ i' \in Nat
  BY <1>1, Grid
<1>3. Level!TypeOK'
  BY <1>1, <1>2 DEF Carving, Level!TypeOK
<1>4. QED
  BY <1>1, <1>2, <1>3
     DEF Carving, Swept, Meets, WithinExits, AsTheirExits, RoomsMeet, Level!IsRoom

LEMMA NextCellKeeps == ASSUME Carving, Level!NextCell PROVE Carving'
<1> DEFINE c == Level!InOrder[i]
<1>1. /\ phase = "removal" /\ at = Level!Nowhere /\ i <= Width * Height /\ i' = i + 1
      /\ \/ Level!IsDeadEnd(c) /\ at' = c
         \/ UNCHANGED at
      /\ UNCHANGED <<plan, phase, cells, room, left>>
  BY DEF Level!NextCell
<1>2. i \in 1..(Width * Height) /\ i' \in 1..(Width * Height + 1) /\ i' \in Nat
  BY <1>1, Grid DEF Carving
<1>3. c \in Level!Cell
  BY <1>2, OrderInGrid
<1> HIDE DEF c
<1>4. Level!TypeOK'
  BY <1>1, <1>2, <1>3 DEF Carving, Level!TypeOK
<1>5. at' # Level!Nowhere => ~Level!IsRoom(at') /\ \E d \in Level!Dir : cells[at'] = {d}
  BY <1>1, <1>3, DeadEnd DEF Carving
<1>6. QED
  BY <1>1, <1>2, <1>4, <1>5
     DEF Carving, Swept, Meets, WithinExits, AsTheirExits, RoomsMeet, Level!IsRoom

LEMMA WalkKeeps == ASSUME Carving, Level!Walk PROVE Carving'
<1>1. /\ phase = "removal" /\ at # Level!Nowhere
      /\ UNCHANGED <<plan, phase, i, room, left>>
      /\ \/ \E d \in Level!Outward(at) :
              /\ cells' = Level!Opened(cells, at, d)
              /\ at' = IF cells'[Level!Neighbor(at, d)] # {Level!Opposite(d)} THEN Level!Nowhere
                       ELSE Level!Neighbor(at, d)
         \/ at' = Level!Nowhere /\ UNCHANGED cells
  BY DEF Level!Walk
<1>2. /\ at \in Level!Cell /\ cells \in Openings /\ Meets(cells) /\ AsTheirExits(cells)
      /\ ~Level!IsRoom(at)
  BY <1>1 DEF Carving, Swept, Level!TypeOK, Openings
<1>3. CASE at' = Level!Nowhere /\ UNCHANGED cells
  <2>1. Level!TypeOK'
    BY <1>1, <1>3 DEF Carving, Level!TypeOK
  <2>2. QED
    BY <1>1, <1>3, <2>1
       DEF Carving, Swept, Meets, WithinExits, AsTheirExits, RoomsMeet, Level!IsRoom
<1>4. ASSUME NEW d \in Level!Outward(at), cells' = Level!Opened(cells, at, d),
             at' = IF cells'[Level!Neighbor(at, d)] # {Level!Opposite(d)} THEN Level!Nowhere
                   ELSE Level!Neighbor(at, d)
      PROVE  Carving'
  <2> DEFINE n == Level!Neighbor(at, d)
  <2>1. d \in Level!Dir /\ n \in Level!Cell /\ ~Level!IsRoom(n)
    BY DEF Level!Outward
  <2>2. at' = IF cells'[n] # {Level!Opposite(d)} THEN Level!Nowhere ELSE n
    BY <1>4
  <2> HIDE DEF n
  <2>3. n = Level!Neighbor(at, d)
    BY DEF n
  <2>4. /\ cells' \in Openings
        /\ \A x \in Level!Cell : x # at /\ x # n => cells'[x] = cells[x]
    BY <1>2, <1>4, <2>1, <2>3, OpenedAt
  <2>5. Meets(cells')
    BY <1>2, <1>4, <2>1, <2>3, OpenedMeets
  <2>6. AsTheirExits(cells')
    BY <1>2, <2>1, <2>4 DEF AsTheirExits
  <2>7. Level!TypeOK'
    BY <1>1, <2>1, <2>2, <2>4 DEF Carving, Level!TypeOK, Openings
  <2>8. at' # Level!Nowhere =>
            ~Level!IsRoom(at') /\ \E e \in Level!Dir : cells'[at'] = {e}
    BY <2>1, <2>2, Across, <1>2
  <2>9. QED
    BY <1>1, <2>5, <2>6, <2>7, <2>8
       DEF Carving, Swept, Meets, WithinExits, AsTheirExits, RoomsMeet, Level!IsRoom
<1>5. QED
  BY <1>1, <1>3, <1>4

LEMMA FinishKeeps == ASSUME Carving, Level!Finish PROVE Carving'
<1>1. phase = "removal" /\ phase' = "done" /\ UNCHANGED <<plan, i, cells, room, left, at>>
  BY DEF Level!Finish
<1>2. Level!TypeOK'
  BY <1>1 DEF Carving, Level!TypeOK
<1>3. QED
  BY <1>1, <1>2 DEF Carving, Swept, Meets, WithinExits, AsTheirExits, RoomsMeet, Level!IsRoom

LEMMA CarvingStays ==
    ASSUME Carving, UNCHANGED <<plan, phase, i, cells, room, left, at>> PROVE Carving'
BY DEF Carving, Level!TypeOK, Swept, Meets, WithinExits, AsTheirExits, RoomsMeet, Level!IsRoom

LEMMA CarvingNext ==
    ASSUME Carving, [Next]_vars
    PROVE  Carving'
<1>1. CASE Level!MazeNext
  BY <1>1, PlaceRoomKeeps, BeginCorridorsKeeps, GrowKeeps, BranchKeeps, ApplyKeeps,
     SparsifyKeeps, BeginRemovalKeeps, NextCellKeeps, WalkKeeps, FinishKeeps
     DEF Level!MazeNext
<1>2. CASE UNCHANGED <<plan, phase, i, cells, room, left, at>>
  BY <1>2, CarvingStays
<1>3. [Next]_vars => Level!MazeNext \/ UNCHANGED <<plan, phase, i, cells, room, left, at>>
  BY DEF Next, vars, dungeonVars, Level!Next, Level!Carve, Level!Enter, Level!Leader,
     Level!FillCell, Level!maze
<1>4. QED
  BY <1>1, <1>2, <1>3

(* Nobody is placed where a player arrives: the packs come after the entry  *)
(* is known, and pass it over.                                             *)
Filled ==
    /\ \E U : packs \in Seq(U)
    /\ entry = Level!Nowhere => packs = <<>>
    /\ \A k \in 1..Len(packs) : packs[k].at # entry

LEMMA EmitKeeps ==
    ASSUME Filled, entry # Level!Nowhere, entry' = entry,
           NEW c, c # entry, NEW n, NEW group, Level!Emit(c, n, group)
    PROVE  Filled'
<1>1. PICK e : packs' = Append(packs, e) /\ e.at = c
  BY DEF Level!Emit
<1>2. PICK U : packs \in Seq(U)
  BY DEF Filled
<1> DEFINE V == U \cup {e}
<1>3. packs \in Seq(V) /\ e \in V
  BY <1>2
<1> HIDE DEF V
<1>4. packs' \in Seq(V) /\ Len(packs) \in Nat /\ Len(packs') = Len(packs) + 1
      /\ \A k \in 1..Len(packs) : packs'[k] = packs[k]
  BY <1>1, <1>3
<1>5. packs'[Len(packs) + 1] = e
  BY <1>1, <1>3
<1>6. ASSUME NEW k \in 1..Len(packs') PROVE packs'[k].at # entry
  <2>1. CASE k \in 1..Len(packs)
    BY <1>4, <2>1 DEF Filled
  <2>2. CASE k = Len(packs) + 1
    BY <1>1, <1>5, <2>2
  <2>3. QED
    BY <1>4, <2>1, <2>2
<1>7. QED
  BY <1>4, <1>6 DEF Filled

LEMMA FilledNext == ASSUME Filled, [Next]_vars PROVE Filled'
<1>1. CASE UNCHANGED <<entry, packs>>
  BY <1>1 DEF Filled
<1>2. CASE Level!Enter
  <2>1. packs = <<>> /\ packs' = packs
    BY <1>2 DEF Level!Enter, Filled
  <2>2. Len(packs') = 0
    BY <2>1
  <2>3. QED
    BY <2>1, <2>2 DEF Filled
<1>3. CASE Level!Leader
  <2>1. entry # Level!Nowhere /\ entry' = entry
    BY <1>3 DEF Level!Leader, Level!maze
  <2>2. \/ UNCHANGED packs
        \/ \E c, n, group : c # entry /\ Level!Emit(c, n, group)
    BY <1>3 DEF Level!Leader, Level!Populated
  <2>3. QED
    BY <1>1, <2>1, <2>2, EmitKeeps
<1>4. CASE Level!FillCell
  <2>1. entry # Level!Nowhere /\ entry' = entry
    BY <1>4 DEF Level!FillCell, Level!maze
  <2>2. \/ UNCHANGED packs
        \/ \E c, n, group : c # entry /\ Level!Emit(c, n, group)
    BY <1>4 DEF Level!FillCell
  <2>3. QED
    BY <1>1, <2>1, <2>2, EmitKeeps
<1>5. [Next]_vars => \/ UNCHANGED <<entry, packs>>
                     \/ Level!Enter \/ Level!Leader \/ Level!FillCell
  BY DEF Next, vars, dungeonVars, Level!Next, Level!Carve, Level!level
<1>6. QED
  BY <1>1, <1>2, <1>3, <1>4, <1>5

-----------------------------------------------------------------------------
(* Dungeon: sums along a sequence                                          *)

(* The sum is computed along the weights.                                  *)
LEMMA SumGoes ==
    ASSUME NEW n \in Nat, NEW w, \A k \in 1..n : w[k] \in Int
    PROVE  \E f : /\ \A k \in 0..n : f[k] \in Int
                  /\ f[0] = 0 /\ \A k \in 1..n : f[k] = f[k - 1] + w[k]
                  /\ Level!SumTo(w, n) = f[n]
<1> DEFINE g == [p \in Int \X (1..n) |-> p[1] + w[p[2]]]
           L(f) == [k \in 0..n |-> IF k = 0 THEN 0 ELSE f[k - 1] + w[k]]
           sum == CHOOSE f : f = L(f)
<1>1. Level!SumTo(w, n) = sum[n]
  BY DEF Level!SumTo
<1>2. g \in [Int \X (1..n) -> Int] /\ \A x \in Int, k \in 1..n : g[<<x, k>>] = x + w[k]
  OBVIOUS
<1> HIDE DEF g
<1>3. PICK h \in [0..n -> Int] : Goes(h, 0, n, g)
  <2>1. 0 \in Int
    OBVIOUS
  <2>2. QED
    BY <1>2, <2>1, Recurs
<1>4. \A k \in 0..n : h[k] = IF k = 0 THEN 0 ELSE h[k - 1] + w[k]
  <2>1. ASSUME NEW k \in 1..n PROVE h[k] = h[k - 1] + w[k]
    <3>1. k - 1 \in 0..n
      OBVIOUS
    <3>2. h[k - 1] \in Int
      BY <3>1
    <3>3. QED
      BY <1>2, <1>3, <3>2 DEF Goes
  <2>2. QED
    BY <1>3, <2>1 DEF Goes
<1>5. h = L(h)
  BY <1>4
<1> HIDE DEF L
<1>6. sum = L(sum)
  BY <1>5
<1> HIDE DEF sum
<1>7. sum[0] = 0 /\ \A k \in 1..n : sum[k] = sum[k - 1] + w[k]
  BY <1>6 DEF L
<1>8. \A k \in 0..n : sum[k] \in Int
  <2>1. ASSUME NEW k \in 1..n, sum[k - 1] \in Int PROVE sum[k] \in Int
    <3>1. sum[k] = sum[k - 1] + w[k] /\ w[k] \in Int
      BY <1>7
    <3>2. QED
      BY <2>1, <3>1
  <2>2. sum[0] \in Int
    BY <1>7
  <2>3. QED
    BY <2>1, <2>2, Stays
<1>9. QED
  BY <1>1, <1>7, <1>8

(* Whatever goes along the weights ends in the sum.                        *)
LEMMA SumIs ==
    ASSUME NEW n \in Nat, NEW w, \A k \in 1..n : w[k] \in Int,
           NEW f, \A k \in 0..n : f[k] \in Int,
           f[0] = 0, \A k \in 1..n : f[k] = f[k - 1] + w[k]
    PROVE  Level!SumTo(w, n) = f[n]
<1>1. PICK h : /\ \A k \in 0..n : h[k] \in Int
               /\ h[0] = 0 /\ \A k \in 1..n : h[k] = h[k - 1] + w[k]
               /\ Level!SumTo(w, n) = h[n]
  BY SumGoes
<1> DEFINE d == [k \in 0..n |-> f[k] - h[k]]
           Nil == {0}
<1>2. d[0] \in Nil
  BY <1>1
<1>3. ASSUME NEW k \in 1..n, d[k - 1] \in Nil PROVE d[k] \in Nil
  <2>1. k - 1 \in 0..n /\ k \in 0..n
    OBVIOUS
  <2>2. f[k - 1] = h[k - 1]
    BY <1>1, <1>3, <2>1
  <2>3. f[k] = h[k] /\ h[k] \in Int
    BY <1>1, <2>1, <2>2
  <2>4. QED
    BY <2>1, <2>3
<1> HIDE DEF d, Nil
<1>4. \A k \in 0..n : d[k] \in Nil
  BY <1>2, <1>3, Stays
<1>5. n \in 0..n
  OBVIOUS
<1>6. f[n] = h[n]
  <2>1. d[n] = 0 /\ f[n] \in Int /\ h[n] \in Int
    BY <1>1, <1>4, <1>5 DEF Nil
  <2>2. d[n] = f[n] - h[n]
    BY <1>5 DEF d
  <2>3. QED
    BY <2>1, <2>2
<1>7. QED
  BY <1>1, <1>6

LEMMA SumInt ==
    ASSUME NEW n \in Nat, NEW w, \A k \in 1..n : w[k] \in Int
    PROVE  Level!SumTo(w, n) \in Int
BY SumGoes

LEMMA SumZero ==
    ASSUME NEW n \in Nat, NEW w, \A k \in 1..n : w[k] = 0
    PROVE  Level!SumTo(w, n) = 0
<1> DEFINE f == [k \in 0..n |-> 0]
<1>1. /\ \A k \in 0..n : f[k] \in Int
      /\ f[0] = 0 /\ \A k \in 1..n : f[k] = f[k - 1] + w[k]
  OBVIOUS
<1>2. f[n] = 0
  OBVIOUS
<1> HIDE DEF f
<1>3. \A k \in 1..n : w[k] \in Int
  OBVIOUS
<1>4. QED
  BY <1>1, <1>2, <1>3, SumIs

LEMMA SumNext ==
    ASSUME NEW n \in Nat, NEW w, \A k \in 1..(n + 1) : w[k] \in Int
    PROVE  Level!SumTo(w, n + 1) = Level!SumTo(w, n) + w[n + 1]
<1>1. PICK f : /\ \A k \in 0..(n + 1) : f[k] \in Int
               /\ f[0] = 0 /\ \A k \in 1..(n + 1) : f[k] = f[k - 1] + w[k]
               /\ Level!SumTo(w, n + 1) = f[n + 1]
  <2>1. n + 1 \in Nat
    OBVIOUS
  <2>2. QED
    BY <2>1, SumGoes
<1>2. Level!SumTo(w, n) = f[n]
  <2>1. /\ \A k \in 1..n : w[k] \in Int
        /\ \A k \in 0..n : f[k] \in Int
        /\ \A k \in 1..n : f[k] = f[k - 1] + w[k]
    BY <1>1
  <2>2. QED
    BY <1>1, <2>1, SumIs
<1>3. f[n + 1] = f[(n + 1) - 1] + w[n + 1] /\ (n + 1) - 1 = n
  BY <1>1
<1>4. QED
  BY <1>1, <1>2, <1>3


(* Smaller weights make a smaller sum, and the same weights the same.      *)
LEMMA SumLess ==
    ASSUME NEW n \in Nat, NEW w, NEW v, \A k \in 1..n : w[k] \in Int /\ v[k] \in Int,
           \A k \in 1..n : v[k] <= w[k]
    PROVE  Level!SumTo(v, n) <= Level!SumTo(w, n)
<1>1. PICK f : /\ \A k \in 0..n : f[k] \in Int
               /\ f[0] = 0 /\ \A k \in 1..n : f[k] = f[k - 1] + w[k]
               /\ Level!SumTo(w, n) = f[n]
  BY SumGoes
<1>2. PICK h : /\ \A k \in 0..n : h[k] \in Int
               /\ h[0] = 0 /\ \A k \in 1..n : h[k] = h[k - 1] + v[k]
               /\ Level!SumTo(v, n) = h[n]
  BY SumGoes
<1> DEFINE d == [k \in 0..n |-> f[k] - h[k]]
<1>3. d[0] \in Nat
  BY <1>1, <1>2
<1>4. ASSUME NEW k \in 1..n, d[k - 1] \in Nat PROVE d[k] \in Nat
  <2>1. k - 1 \in 0..n /\ k \in 0..n
    OBVIOUS
  <2>2. /\ f[k - 1] \in Int /\ h[k - 1] \in Int /\ w[k] \in Int /\ v[k] \in Int /\ v[k] <= w[k]
        /\ f[k] = f[k - 1] + w[k] /\ h[k] = h[k - 1] + v[k]
        /\ d[k - 1] = f[k - 1] - h[k - 1] /\ d[k] = f[k] - h[k]
    BY <1>1, <1>2, <2>1
  <2> HIDE DEF d
  <2>3. QED
    BY <1>4, <2>2
<1>5. n \in 0..n /\ d[n] = f[n] - h[n]
  OBVIOUS
<1> HIDE DEF d
<1>6. \A k \in 0..n : d[k] \in Nat
  BY <1>3, <1>4, Stays
<1>7. d[n] \in Nat /\ f[n] \in Int /\ h[n] \in Int
  BY <1>1, <1>2, <1>5, <1>6
<1>8. QED
  BY <1>1, <1>2, <1>5, <1>7

LEMMA SumSame ==
    ASSUME NEW n \in Nat, NEW w, NEW v, \A k \in 1..n : w[k] \in Int,
           \A k \in 1..n : v[k] = w[k]
    PROVE  Level!SumTo(v, n) = Level!SumTo(w, n)
<1>1. PICK f : /\ \A k \in 0..n : f[k] \in Int
               /\ f[0] = 0 /\ \A k \in 1..n : f[k] = f[k - 1] + w[k]
               /\ Level!SumTo(w, n) = f[n]
  BY SumGoes
<1>2. (\A k \in 1..n : v[k] \in Int) /\ \A k \in 1..n : f[k] = f[k - 1] + v[k]
  BY <1>1
<1>3. Level!SumTo(v, n) = f[n]
  BY <1>1, <1>2, SumIs
<1>4. QED
  BY <1>1, <1>3

(* One more weight is added to the sum.                                    *)
LEMMA SumAppend ==
    ASSUME NEW n \in Nat, NEW w, NEW v, \A k \in 1..n : w[k] \in Int,
           \A k \in 1..n : v[k] = w[k], v[n + 1] \in Int
    PROVE  Level!SumTo(v, n + 1) = Level!SumTo(w, n) + v[n + 1]
<1>1. \A k \in 1..(n + 1) : v[k] \in Int
  <2>1. \A k \in 1..(n + 1) : k \in 1..n \/ k = n + 1
    OBVIOUS
  <2>2. QED
    BY <2>1
<1>2. Level!SumTo(v, n + 1) = Level!SumTo(v, n) + v[n + 1]
  BY <1>1, SumNext
<1>3. Level!SumTo(v, n) = Level!SumTo(w, n)
  BY SumSame
<1>4. QED
  BY <1>2, <1>3

LEMMA AddedOn ==
    ASSUME NEW a \in Int, NEW b \in Int, NEW c \in Int, NEW d \in Nat, b = c + d
    PROVE  a + b = (a + c) + d
OBVIOUS

LEMMA ListOf ==
    ASSUME NEW n \in Nat, NEW S, NEW f \in [1..n -> S]
    PROVE  f \in Seq(S) /\ Len(f) = n
OBVIOUS

(* The sum along one sequence after another.                               *)
LEMMA SumConcat ==
    ASSUME NEW s \in Seq(Nat), NEW t \in Seq(Nat)
    PROVE  Level!SumTo(s \o t, Len(s \o t))
             = Level!SumTo(s, Len(s)) + Level!SumTo(t, Len(t))
<1>1. PICK n \in Nat, m \in Nat :
        /\ n = Len(s) /\ m = Len(t) /\ Len(s \o t) = n + m
        /\ \A k \in 1..n : s[k] \in Nat /\ (s \o t)[k] = s[k]
        /\ \A k \in 1..m : t[k] \in Nat
        /\ \A k \in 1..(n + m) : k > n => (s \o t)[k] = t[k - n]
  <2>1. PICK n \in Nat, m \in Nat : n = Len(s) /\ m = Len(t)
    BY LenProperties
  <2>2. /\ Len(s \o t) = n + m
        /\ \A k \in 1..(n + m) : (s \o t)[k] = IF k <= n THEN s[k] ELSE t[k - n]
    BY <2>1, ConcatProperties
  <2>3. (\A k \in 1..n : s[k] \in Nat) /\ (\A k \in 1..m : t[k] \in Nat)
    BY <2>1, ElementOfSeq
  <2>4. \A k \in 1..n : k \in 1..(n + m) /\ k <= n
    BY <2>1
  <2>5. \A k \in 1..(n + m) : k > n => ~(k <= n)
    BY <2>1
  <2>6. QED
    BY <2>1, <2>2, <2>3, <2>4, <2>5
<1> DEFINE u == s \o t
<1> HIDE DEF u
<1>2. PICK f : /\ \A k \in 0..n : f[k] \in Int
               /\ f[0] = 0 /\ \A k \in 1..n : f[k] = f[k - 1] + s[k]
               /\ Level!SumTo(s, n) = f[n]
  <2>1. \A k \in 1..n : s[k] \in Int
    BY <1>1
  <2>2. QED
    BY <2>1, SumGoes
<1>3. PICK g : /\ \A k \in 0..m : g[k] \in Int
               /\ g[0] = 0 /\ \A k \in 1..m : g[k] = g[k - 1] + t[k]
               /\ Level!SumTo(t, m) = g[m]
  <2>1. \A k \in 1..m : t[k] \in Int
    BY <1>1
  <2>2. QED
    BY <2>1, SumGoes
<1>4. n \in 0..n /\ 0 \in 0..m /\ f[n] \in Int
  BY <1>2
<1> DEFINE h == [k \in 0..(n + m) |-> IF k <= n THEN f[k] ELSE f[n] + g[k - n]]
<1>5. \A k \in 0..(n + m) : h[k] = IF k <= n THEN f[k] ELSE f[n] + g[k - n]
  OBVIOUS
<1>6. n + m \in Nat /\ 0 \in 0..(n + m) /\ n + m \in 0..(n + m)
  OBVIOUS
<1> HIDE DEF h
<1>7. ASSUME NEW k \in 0..(n + m) PROVE h[k] \in Int
  <2>1. CASE k <= n
    <3>1. k \in 0..n
      BY <2>1
    <3>2. QED
      BY <1>2, <1>5, <2>1, <3>1
  <2>2. CASE ~(k <= n)
    <3>1. k - n \in 0..m
      BY <2>2
    <3>2. g[k - n] \in Int
      BY <1>3, <3>1
    <3>3. QED
      BY <1>4, <1>5, <2>2, <3>2
  <2>3. QED
    BY <2>1, <2>2
<1>8. h[0] = 0
  BY <1>2, <1>5, <1>6
<1>9. ASSUME NEW k \in 1..(n + m) PROVE h[k] = h[k - 1] + u[k] /\ u[k] \in Int
  <2>1. k \in 0..(n + m) /\ k - 1 \in 0..(n + m)
    OBVIOUS
  <2>2. CASE k <= n
    <3>1. k \in 1..n /\ k - 1 <= n
      BY <2>2
    <3>2. u[k] = s[k] /\ s[k] \in Nat
      BY <1>1, <3>1 DEF u
    <3>3. QED
      BY <1>2, <1>5, <2>1, <2>2, <3>1, <3>2
  <2>3. CASE ~(k <= n)
    <3>1. k - n \in 1..m /\ (k - 1) - n = (k - n) - 1 /\ k > n
      BY <2>3
    <3>2. u[k] = t[k - n] /\ t[k - n] \in Nat
      BY <1>1, <3>1 DEF u
    <3>3. k - n \in 0..m /\ (k - n) - 1 \in 0..m
      BY <3>1
    <3>4. /\ g[k - n] = g[(k - n) - 1] + t[k - n] /\ g[k - n] \in Int
          /\ g[(k - n) - 1] \in Int
      BY <1>3, <3>1, <3>3
    <3>5. h[k] = f[n] + g[k - n]
      BY <1>5, <2>1, <2>3
    <3>6. h[k - 1] = f[n] + g[(k - n) - 1]
      <4>1. CASE k - 1 <= n
        <5>1. k - 1 = n /\ (k - n) - 1 = 0
          BY <2>3, <4>1
        <5>2. h[k - 1] = f[n]
          BY <1>5, <2>1, <5>1
        <5>3. QED
          BY <1>3, <1>4, <5>1, <5>2
      <4>2. CASE ~(k - 1 <= n)
        BY <1>5, <2>1, <3>1, <4>2
      <4>3. QED
        BY <4>1, <4>2
    <3>7. f[n] + g[k - n] = (f[n] + g[(k - n) - 1]) + t[k - n]
      BY <1>4, <3>2, <3>4, AddedOn
    <3>8. QED
      BY <3>2, <3>5, <3>6, <3>7
  <2>4. QED
    BY <2>2, <2>3
<1>10. Level!SumTo(u, n + m) = h[n + m]
  BY <1>6, <1>7, <1>8, <1>9, SumIs
<1>11. h[n + m] = f[n] + g[m]
  <2>1. CASE m = 0
    BY <1>3, <1>4, <1>5, <1>6, <2>1
  <2>2. CASE m # 0
    <3>1. ~(n + m <= n) /\ (n + m) - n = m
      BY <2>2
    <3>2. QED
      BY <1>5, <1>6, <3>1
  <2>3. QED
    BY <2>1, <2>2
<1>12. QED
  BY <1>1, <1>2, <1>3, <1>10, <1>11 DEF u

-----------------------------------------------------------------------------
(* One pack *)

LEMMA SizeOf == ASSUME NEW S PROVE Level!Cardinality(S) = Cardinality(S)
BY DEF Level!Cardinality, Cardinality

(* A bounded set of numbers has a greatest one.                            *)
LEMMA MaxIs ==
    ASSUME NEW b \in Nat, NEW K \in SUBSET (0..b), K # {}
    PROVE  Level!Max(K) \in K
<1>1. {b - k : k \in K} \in SUBSET Nat /\ {b - k : k \in K} # {}
  <2>1. \A k \in K : b - k \in Nat
    OBVIOUS
  <2>2. PICK k \in K : TRUE
    OBVIOUS
  <2>3. QED
    BY <2>1, <2>2
<1>2. PICK l \in {b - k : k \in K} : \A j \in {b - k : k \in K} : l <= j
  BY <1>1, HasLeast
<1>3. PICK k \in K : l = b - k
  BY <1>2
<1>4. ASSUME NEW j \in K PROVE k >= j
  <2>1. b - k <= b - j
    BY <1>2, <1>3
  <2>2. QED
    BY <2>1
<1>5. \E x \in K : \A y \in K : x >= y
  BY <1>4
<1>6. QED
  BY <1>5 DEF Level!Max

(* The weighted units of a group come in turn.                             *)
LEMMA NthIs ==
    ASSUME NEW group \in Seq(Nat), Level!Weighted(group) # {}, NEW n \in Nat
    PROVE  Level!Nth(group, n) \in Level!Weighted(group)
<1> DEFINE I == Level!Weighted(group)
           c == Cardinality(I)
<1>1. I \in SUBSET Nat /\ IsFiniteSet(I)
  <2>1. /\ Len(group) \in Nat /\ DOMAIN group = 1..Len(group)
        /\ IsFiniteSet(1..Len(group))
    BY FS_Interval
  <2>2. I \in SUBSET (1..Len(group))
    BY <2>1 DEF Level!Weighted
  <2>3. QED
    BY <2>1, <2>2, FS_Subset
<1> HIDE DEF I
<1>2. c \in Nat /\ c # 0
  BY <1>1, FS_CardinalityType, FS_EmptySet DEF I
<1>3. PICK r0 \in 0..(c - 1) : r0 = (n % c)
  BY <1>2
<1>4. r0 + 1 \in 1..c
  BY <1>2, <1>3
<1>5. PICK g \in I : RankIn(I, g) = r0 + 1
  BY <1>1, <1>4, RankOnto
<1> DEFINE B == {h \in I : h < g}
<1>6. B \in SUBSET I /\ g \notin B /\ {h \in I : h <= g} = B \cup {g}
  <2>1. g \in Nat /\ \A h \in I : h \in Nat
    BY <1>1
  <2>2. \A h \in I : h <= g <=> h < g \/ h = g
    BY <2>1
  <2>3. g \notin B
    BY <2>1
  <2>4. QED
    BY <2>2, <2>3
<1>7. IsFiniteSet(B) /\ Cardinality(B) \in Nat
  BY <1>1, <1>6, FS_Subset, FS_CardinalityType
<1> HIDE DEF B
<1>8. Cardinality(B \cup {g}) = Cardinality(B) + 1
  BY <1>6, <1>7, FS_AddElement
<1>9. Cardinality(B) = r0
  <2>1. Cardinality({h \in I : h <= g}) = r0 + 1
    BY <1>5 DEF RankIn
  <2>2. Cardinality(B \cup {g}) = r0 + 1
    BY <1>6, <2>1
  <2>3. r0 \in Nat
    BY <1>2
  <2>4. QED
    BY <1>7, <1>8, <2>2, <2>3
<1>10. Level!Cardinality(B) = (n % Level!Cardinality(I))
  BY <1>3, <1>9, SizeOf
<1>11. \E k \in I : Level!Cardinality({h \in I : h < k}) = (n % Level!Cardinality(I))
  BY <1>10 DEF B
<1>12. QED
  BY <1>11 DEF Level!Nth, I

LEMMA TotalIs == ASSUME NEW group \in Seq(Nat) PROVE Level!Total(group) \in Int
<1>1. Len(group) \in Nat /\ \A k \in 1..Len(group) : group[k] \in Int
  OBVIOUS
<1>2. QED
  BY <1>1, SumInt DEF Level!Total

(* A pack begins with the units of its group, the rest has weight, and it   *)
(* keeps within the budget, or is the group alone.                         *)
LEMMA ExpandIs ==
    ASSUME NEW group \in Seq(Nat), NEW budget \in Nat
    PROVE  LET pack == Level!Expand(group, budget)
           IN  /\ pack \in Seq(Nat) /\ Level!IsPrefix(group, pack)
               /\ Level!Total(pack) <= Level!Larger(budget, Level!Total(group))
               /\ \A k \in (Len(group) + 1)..Len(pack) : pack[k] > 0
<1> DEFINE pack == Level!Expand(group, budget)
           room0 == Level!Larger(budget, Level!Total(group))
<1>1. Level!Total(group) \in Int /\ Level!Total(group) <= room0 /\ Len(group) \in Nat
  BY TotalIs DEF Level!Larger
<1>2. CASE Level!Weighted(group) = {}
  <2>1. pack = group
    BY <1>2 DEF Level!Expand
  <2>2. Level!IsPrefix(group, group)
    BY DEF Level!IsPrefix
  <2>3. \A k \in (Len(group) + 1)..Len(group) : FALSE
    BY <1>1
  <2>4. QED
    BY <1>1, <2>1, <2>2, <2>3
<1>3. CASE Level!Weighted(group) # {}
  <2> DEFINE K == Level!Repeated(group, budget) \cup {0}
             n == Level!Max(K)
             more == Level!Turns(group, n)
  <2>1. n \in K /\ n \in Nat
    <3>1. MaxPack \in Nat
      BY LevelAssumption DEF Level!MobAssumption
    <3>2. K \in SUBSET (0..MaxPack)
      <4>1. \A k \in 1..(MaxPack - Len(group)) : k \in 0..MaxPack
        BY <1>1, <3>1
      <4>2. 0 \in 0..MaxPack
        BY <3>1
      <4>3. QED
        BY <4>1, <4>2 DEF Level!Repeated
    <3>3. K # {}
      OBVIOUS
    <3> HIDE DEF K
    <3>4. n \in K
      BY <3>1, <3>2, <3>3, MaxIs
    <3>5. \A k \in K : k \in Nat
      BY <3>1, <3>2
    <3>6. QED
      BY <3>4, <3>5
  <2>2. pack = group \o more
    BY <1>3 DEF Level!Expand
  <2>3. n \in Level!Repeated(group, budget) \/ n = 0
    BY <2>1
  <2> HIDE DEF K, n
  <2>4. \A j \in 1..n : more[j] \in Nat /\ more[j] > 0
    <3> TAKE j \in 1..n
    <3>1. j - 1 \in Nat
      BY <2>1
    <3>2. Level!Nth(group, j - 1) \in Level!Weighted(group)
      BY <1>3, <3>1, NthIs
    <3>3. group[Level!Nth(group, j - 1)] \in Nat /\ group[Level!Nth(group, j - 1)] > 0
      BY <3>2 DEF Level!Weighted
    <3>4. QED
      BY <3>3 DEF Level!Turns
  <2>5. more = [j \in 1..n |-> more[j]]
    BY DEF Level!Turns
  <2> HIDE DEF more
  <2>6. more \in Seq(Nat) /\ Len(more) = n
    <3>1. more \in [1..n -> Nat]
      BY <2>4, <2>5
    <3>2. QED
      BY <2>1, <3>1, ListOf
  <2>7. Level!Total(more) \in Int /\ Level!Total(pack) = Level!Total(group) + Level!Total(more)
    BY <2>2, <2>6, SumConcat, TotalIs DEF Level!Total
  <2>8. Level!Total(pack) <= room0
    <3>1. CASE n = 0
      <4>1. Level!Total(more) = 0
        BY <2>6, <3>1, SumZero DEF Level!Total
      <4>2. QED
        BY <1>1, <2>7, <4>1
    <3>2. CASE n \in Level!Repeated(group, budget)
      BY <2>7, <3>2 DEF Level!Repeated, more
    <3>3. QED
      BY <2>3, <3>1, <3>2
  <2> HIDE DEF pack
  <2>9. /\ pack \in Seq(Nat) /\ Len(pack) = Len(group) + n
        /\ \A k \in 1..Len(group) : pack[k] = group[k]
        /\ \A k \in (Len(group) + 1)..Len(pack) : pack[k] = more[k - Len(group)]
    <3>1. group \o more \in Seq(Nat) /\ Len(group \o more) = Len(group) + n
      BY <2>6, ConcatProperties
    <3>2. \A k \in 1..(Len(group) + n) :
            (group \o more)[k] = IF k <= Len(group) THEN group[k] ELSE more[k - Len(group)]
      BY <2>6, ConcatProperties
    <3>3. \A k \in 1..Len(group) : k \in 1..(Len(group) + n) /\ k <= Len(group)
      BY <1>1, <2>1
    <3>4. \A k \in (Len(group) + 1)..(Len(group) + n) :
            k \in 1..(Len(group) + n) /\ ~(k <= Len(group))
      BY <1>1, <2>1
    <3>5. QED
      BY <2>2, <3>1, <3>2, <3>3, <3>4
  <2>10. Level!IsPrefix(group, pack)
    BY <1>1, <2>1, <2>9 DEF Level!IsPrefix
  <2>11. ASSUME NEW k \in (Len(group) + 1)..Len(pack) PROVE pack[k] > 0
    <3>1. k - Len(group) \in 1..n
      BY <1>1, <2>1, <2>9
    <3>2. QED
      BY <2>4, <2>9, <3>1
  <2>12. QED
    BY <2>8, <2>9, <2>10, <2>11 DEF pack
<1>4. QED
  BY <1>2, <1>3

-----------------------------------------------------------------------------
(* Filling a level.  As long as only room nodes have been served, no more   *)
(* monsters stand than found floor there.                                  *)

Sized(p) ==
    /\ p.src \in Nat /\ p.group \in Seq(Nat) /\ p.budget \in Nat
    /\ p.pack = Level!Expand(p.group, p.budget)
    /\ p.fit \in Nat /\ p.stood \in Nat /\ p.stood <= p.fit

(* Where the filling has come to.                                          *)
NextTyped == next = [node |-> next.node, cell |-> next.cell, mark |-> next.mark,
                     enc |-> next.enc]

Counted ==
    /\ plan \in Plans /\ next.node \in Nat \ {0} /\ next.enc \in Nat
    /\ \E U : packs \in Seq(U)
    /\ \A k \in 1..Len(packs) : Sized(packs[k])
    /\ Level!Count <= MaxMobs
    /\ next.node <= Len(plan) => \A k \in 1..Len(packs) : packs[k].src # 0
    /\ \A k \in 1..Len(packs) :
          packs[k].src # 0 /\ packs[k].stood < packs[k].fit => Level!InRooms > MaxMobs

LEMMA CountsAre ==
    ASSUME Counted
    PROVE  /\ Level!Count \in Int /\ Level!InRooms \in Int
           /\ (\A k \in 1..Len(packs) : packs[k].src # 0) => Level!Count <= Level!InRooms
<1> DEFINE v == [k \in DOMAIN packs |-> packs[k].stood]
           w == [k \in DOMAIN packs |-> IF packs[k].src # 0 THEN packs[k].fit ELSE 0]
<1>1. /\ Len(packs) \in Nat /\ DOMAIN packs = 1..Len(packs)
      /\ \A k \in 1..Len(packs) : packs[k].stood \in Nat /\ packs[k].fit \in Nat
                                   /\ packs[k].stood <= packs[k].fit
  BY DEF Counted, Sized
<1>2. \A k \in 1..Len(packs) : v[k] \in Int /\ w[k] \in Int
  BY <1>1
<1>3. (\A k \in 1..Len(packs) : packs[k].src # 0) => \A k \in 1..Len(packs) : v[k] <= w[k]
  BY <1>1
<1>4. Level!Count = Level!SumTo(v, Len(packs)) /\ Level!InRooms = Level!SumTo(w, Len(packs))
  BY DEF Level!Count, Level!InRooms
<1> HIDE DEF v, w
<1>5. QED
  BY <1>1, <1>2, <1>3, <1>4, SumInt, SumLess

(* One more pack is counted.                                               *)
LEMMA EmitCounts ==
    ASSUME Counted, NEW e, packs' = Append(packs, e), e.stood \in Int, e.fit \in Int
    PROVE  /\ Level!Count' = Level!Count + e.stood
           /\ Level!InRooms' = Level!InRooms + (IF e.src # 0 THEN e.fit ELSE 0)
           /\ Len(packs') = Len(packs) + 1 /\ packs'[Len(packs) + 1] = e
           /\ \A k \in 1..Len(packs) : packs'[k] = packs[k]
           /\ \E U : packs' \in Seq(U)
<1> DEFINE v == [k \in DOMAIN packs |-> packs[k].stood]
           w == [k \in DOMAIN packs |-> IF packs[k].src # 0 THEN packs[k].fit ELSE 0]
           x == [k \in DOMAIN packs' |-> packs'[k].stood]
           y == [k \in DOMAIN packs' |-> IF packs'[k].src # 0 THEN packs'[k].fit ELSE 0]
<1>1. PICK U : packs \in Seq(U)
  BY DEF Counted
<1> DEFINE V == U \cup {e}
<1>2. packs \in Seq(V) /\ e \in V
  BY <1>1
<1> HIDE DEF V
<1>3. PICK n \in Nat : n = Len(packs)
  BY <1>2
<1>4. /\ packs' \in Seq(V) /\ Len(packs') = n + 1 /\ packs'[n + 1] = e
      /\ \A k \in 1..n : packs'[k] = packs[k]
      /\ DOMAIN packs = 1..n /\ DOMAIN packs' = 1..(n + 1)
  BY <1>2, <1>3
<1>5. \A k \in 1..n : packs[k].stood \in Nat /\ packs[k].fit \in Nat
  BY <1>3 DEF Counted, Sized
<1>6. /\ \A k \in 1..n : v[k] \in Int /\ w[k] \in Int /\ x[k] = v[k] /\ y[k] = w[k]
      /\ x[n + 1] = e.stood /\ y[n + 1] = IF e.src # 0 THEN e.fit ELSE 0
  BY <1>4, <1>5
<1>7. /\ Level!Count = Level!SumTo(v, n) /\ Level!InRooms = Level!SumTo(w, n)
      /\ Level!Count' = Level!SumTo(x, n + 1) /\ Level!InRooms' = Level!SumTo(y, n + 1)
  BY <1>3, <1>4 DEF Level!Count, Level!InRooms
<1> HIDE DEF v, w, x, y
<1>8. x[n + 1] \in Int /\ y[n + 1] \in Int
  BY <1>6
<1>9. Level!SumTo(x, n + 1) = Level!SumTo(v, n) + x[n + 1]
  BY <1>6, <1>8, SumAppend
<1>10. Level!SumTo(y, n + 1) = Level!SumTo(w, n) + y[n + 1]
  BY <1>6, <1>8, SumAppend
<1>11. QED
  BY <1>3, <1>4, <1>6, <1>7, <1>9, <1>10

LEMMA EmitCounted ==
    ASSUME Counted, NEW c, NEW n \in Nat, NEW group \in Seq(Nat), Level!Emit(c, n, group),
           UNCHANGED plan, next'.node \in Nat \ {0}, next'.enc \in Nat,
           n # 0 => next.node <= Len(plan),
           next'.node <= Len(plan) => next.node <= Len(plan) /\ n # 0
    PROVE  Counted'
<1>1. PICK b \in Budgets : \E f \in {0, Len(Level!Expand(group, b))} :
        packs' = Append(packs,
          [at |-> c, src |-> n, group |-> group, budget |-> b, pack |-> Level!Expand(group, b),
           fit |-> f, stood |-> IF f > MaxMobs - Level!Count THEN MaxMobs - Level!Count ELSE f])
  BY DEF Level!Emit
<1>2. PICK f \in {0, Len(Level!Expand(group, b))} :
        packs' = Append(packs,
          [at |-> c, src |-> n, group |-> group, budget |-> b, pack |-> Level!Expand(group, b),
           fit |-> f, stood |-> IF f > MaxMobs - Level!Count THEN MaxMobs - Level!Count ELSE f])
  BY <1>1
<1>3. b \in Nat /\ MaxMobs \in Nat
  BY LevelAssumption DEF Level!MobAssumption
<1>4. f \in Nat
  <2>1. Level!Expand(group, b) \in Seq(Nat)
    BY <1>3, ExpandIs
  <2>2. Len(Level!Expand(group, b)) \in Nat
    BY <2>1
  <2>3. QED
    BY <2>2
<1>5. PICK m, k : m = Level!Count /\ k = Level!InRooms
  OBVIOUS
<1>6. m \in Int /\ k \in Int /\ m <= MaxMobs
  BY <1>5, CountsAre DEF Counted
<1> DEFINE stood == IF f > MaxMobs - m THEN MaxMobs - m ELSE f
           e == [at |-> c, src |-> n, group |-> group, budget |-> b,
                 pack |-> Level!Expand(group, b), fit |-> f, stood |-> stood]
<1>7. /\ stood \in Nat /\ stood <= f /\ m + stood <= MaxMobs
      /\ stood < f => m + f > MaxMobs
  BY <1>3, <1>4, <1>6
<1>8. packs' = Append(packs, e)
  BY <1>2, <1>5
<1>9. e.src = n /\ e.fit = f /\ e.stood = stood /\ e.group = group /\ e.budget = b
      /\ e.pack = Level!Expand(group, b)
  OBVIOUS
<1> HIDE DEF stood, e
<1>10. Sized(e)
  BY <1>3, <1>4, <1>7, <1>9 DEF Sized
<1>11. /\ Level!Count' = m + stood
       /\ Level!InRooms' = k + (IF n # 0 THEN f ELSE 0)
       /\ Len(packs') = Len(packs) + 1 /\ packs'[Len(packs) + 1] = e
       /\ \A j \in 1..Len(packs) : packs'[j] = packs[j]
       /\ \E U : packs' \in Seq(U)
  BY <1>4, <1>5, <1>7, <1>8, <1>9, EmitCounts
<1>12. Len(packs) \in Nat /\ \A j \in 1..Len(packs') : j \in 1..Len(packs) \/ j = Len(packs) + 1
  <2>1. Len(packs) \in Nat
    BY DEF Counted
  <2>2. QED
    BY <1>11, <2>1
<1>13. Level!Count' <= MaxMobs /\ Level!InRooms' >= k
  BY <1>4, <1>6, <1>7, <1>11
<1>14. \A j \in 1..Len(packs') : Sized(packs'[j])
  BY <1>10, <1>11, <1>12 DEF Counted
<1>15. next'.node <= Len(plan) => \A j \in 1..Len(packs') : packs'[j].src # 0
  BY <1>9, <1>11, <1>12 DEF Counted
<1>16. ASSUME NEW j \in 1..Len(packs'), packs'[j].src # 0, packs'[j].stood < packs'[j].fit
       PROVE  Level!InRooms' > MaxMobs
  <2>1. CASE j \in 1..Len(packs)
    <3>1. k > MaxMobs
      BY <1>5, <1>11, <1>16, <2>1 DEF Counted
    <3>2. Level!InRooms' \in Int
      BY <1>4, <1>6, <1>11
    <3>3. QED
      BY <1>3, <1>6, <1>13, <3>1, <3>2
  <2>2. CASE j = Len(packs) + 1
    <3>1. n # 0 /\ stood < f
      BY <1>9, <1>11, <1>16, <2>2
    <3>2. \A l \in 1..Len(packs) : packs[l].src # 0
      BY <3>1 DEF Counted
    <3>3. m <= k
      BY <1>5, <3>2, CountsAre
    <3>4. Level!InRooms' = k + f
      BY <1>11, <3>1
    <3>5. QED
      BY <1>3, <1>4, <1>6, <1>7, <3>1, <3>3, <3>4
  <2>3. QED
    BY <1>12, <2>1, <2>2
<1>17. plan' = plan /\ plan \in Plans
  BY DEF Counted
<1>18. QED
  BY <1>11, <1>13, <1>14, <1>15, <1>16, <1>17 DEF Counted, Sized

LEMMA CountedStays ==
    ASSUME Counted, UNCHANGED <<plan, packs>>, next'.node \in Nat \ {0}, next'.enc \in Nat,
           next'.node <= Len(plan) => next.node <= Len(plan)
    PROVE  Counted'
<1>1. Level!Count' = Level!Count /\ Level!InRooms' = Level!InRooms
  BY DEF Level!Count, Level!InRooms
<1>2. QED
  BY <1>1 DEF Counted, Sized

LEMMA CountedInit == Init => Counted
<1> SUFFICES ASSUME Init PROVE Counted
  OBVIOUS
<1>1. /\ plan \in Plans /\ packs = <<>>
      /\ next = [node |-> 1, cell |-> 1, mark |-> 0, enc |-> 0]
  BY DEF Init, Level!Init, Level!MazeInit
<1>2. packs \in Seq({}) /\ Len(packs) = 0
  BY <1>1
<1>3. MaxMobs \in Nat
  BY LevelAssumption DEF Level!MobAssumption
<1>4. Level!Count = 0
  <2> DEFINE v == [k \in DOMAIN packs |-> packs[k].stood]
  <2>1. \A k \in 1..0 : v[k] = 0
    OBVIOUS
  <2> HIDE DEF v
  <2>2. Level!SumTo(v, 0) = 0
    BY <2>1, SumZero
  <2>3. QED
    BY <1>2, <2>2 DEF Level!Count, v
<1>5. \A k \in 1..Len(packs) : FALSE
  BY <1>2
<1>6. next.node = 1 /\ next.enc = 0 /\ \E U : packs \in Seq(U)
  BY <1>1, <1>2
<1>7. Level!Count <= MaxMobs
  BY <1>3, <1>4
<1>8. QED
  BY <1>1, <1>5, <1>6, <1>7 DEF Counted

LEMMA LeaderCounts == ASSUME Counted, NextTyped, Level!Leader PROVE Counted' /\ NextTyped'
<1>1. /\ next.node <= Len(plan) /\ next' = [next EXCEPT !.node = next.node + 1]
      /\ plan' = plan
      /\ \/ UNCHANGED packs
         \/ \E c : /\ next.node \in Level!Placed
                   /\ Level!Emit(c, next.node, Encounter[plan][next.node])
  BY DEF Level!Leader, Level!maze
<1>2. next'.node = next.node + 1 /\ next'.enc = next.enc /\ NextTyped'
  BY <1>1 DEF NextTyped
<1>3. next.node \in Nat \ {0} /\ next.enc \in Nat /\ plan \in Plans
  BY DEF Counted
<1>4. Len(plan) \in Nat
  <2>1. plan \in Seq([variants : SUBSET SUBSET Level!Dir, x : Int, y : Int, sure : BOOLEAN])
    BY <1>3, Grid
  <2>2. QED
    BY <2>1
<1>5. next'.node \in Nat \ {0} /\ next'.enc \in Nat
  BY <1>2, <1>3
<1>6. CASE UNCHANGED packs
  BY <1>1, <1>2, <1>5, <1>6, CountedStays
<1>7. CASE \E c : /\ next.node \in Level!Placed
                  /\ Level!Emit(c, next.node, Encounter[plan][next.node])
  <2>1. next.node \in 1..Len(plan)
    BY <1>1, <1>3, <1>4
  <2>2. Encounter[plan][next.node] \in Seq(Nat)
    BY <1>3, <2>1, LevelAssumption DEF Level!MobAssumption
  <2>3. next.node \in Nat /\ next.node # 0
    BY <1>3
  <2>4. QED
    BY <1>1, <1>2, <1>5, <1>7, <2>2, <2>3, EmitCounted
<1>8. QED
  BY <1>1, <1>2, <1>6, <1>7

LEMMA FillCellCounts == ASSUME Counted, NextTyped, Level!FillCell PROVE Counted' /\ NextTyped'
<1>1. /\ plan' = plan /\ next.node > Len(plan)
      /\ \/ /\ UNCHANGED packs
            /\ next' = [next EXCEPT !.cell = next.cell + 1, !.mark = 0]
         \/ /\ \E c : Level!Emit(c, 0, PackGroups[(next.enc % Len(PackGroups)) + 1])
            /\ next' = [next EXCEPT !.mark = next.mark + 1, !.enc = next.enc + 1]
  BY DEF Level!FillCell, Level!LeadersDone, Level!maze
<1>2. /\ next'.node = next.node /\ NextTyped'
      /\ next'.enc = next.enc \/ next'.enc = next.enc + 1
  BY <1>1 DEF NextTyped
<1>3. next.node \in Nat \ {0} /\ next.enc \in Nat /\ plan \in Plans
  BY DEF Counted
<1>4. next'.node \in Nat \ {0} /\ next'.enc \in Nat
  BY <1>2, <1>3
<1>5. Len(plan) \in Nat
  <2>1. plan \in Seq([variants : SUBSET SUBSET Level!Dir, x : Int, y : Int, sure : BOOLEAN])
    BY <1>3, Grid
  <2>2. QED
    BY <2>1
<1>6. ~(next.node <= Len(plan)) /\ ~(next'.node <= Len(plan))
  BY <1>1, <1>2, <1>3, <1>5
<1>7. CASE UNCHANGED packs
  BY <1>1, <1>2, <1>4, <1>7, CountedStays
<1>8. CASE \E c : Level!Emit(c, 0, PackGroups[(next.enc % Len(PackGroups)) + 1])
  <2>1. PackGroups \in Seq(Seq(Nat)) \ {<<>>}
    BY LevelAssumption DEF Level!MobAssumption
  <2> DEFINE T == Seq(Nat)
  <2>2. PackGroups \in Seq(T) /\ PackGroups # <<>>
    BY <2>1
  <2> HIDE DEF T
  <2>3. Len(PackGroups) \in Nat \ {0} /\ \A k \in 1..Len(PackGroups) : PackGroups[k] \in T
    BY <2>2
  <2>4. (next.enc % Len(PackGroups)) + 1 \in 1..Len(PackGroups)
    BY <1>3, <2>3
  <2>5. PackGroups[(next.enc % Len(PackGroups)) + 1] \in Seq(Nat)
    BY <2>3, <2>4 DEF T
  <2>6. QED
    BY <1>1, <1>2, <1>4, <1>6, <1>8, <2>5, EmitCounted
<1>9. QED
  BY <1>1, <1>7, <1>8

LEMMA CountedNext == ASSUME Counted, NextTyped, [Next]_vars PROVE Counted' /\ NextTyped'
<1>1. CASE UNCHANGED <<plan, packs, next>>
  BY <1>1, CountedStays DEF Counted, NextTyped
<1>2. [Next]_vars => \/ UNCHANGED <<plan, packs, next>>
                     \/ Level!Leader \/ Level!FillCell
  BY DEF Next, vars, dungeonVars, Level!Next, Level!Carve, Level!level, Level!Enter,
     Level!maze, Level!MazeNext, Level!PlaceRoom, Level!BeginCorridors, Level!Grow,
     Level!Branch, Level!ApplyForcedRoomExits, Level!Sparsify, Level!BeginRemoval,
     Level!NextCell, Level!Walk, Level!Finish
<1>3. QED
  BY <1>1, <1>2, LeaderCounts, FillCellCounts

(* What was counted is what the level promises.                            *)
LEMMA CountedSound == Counted => Level!LeadersStand /\ Level!PacksInBudget
<1> SUFFICES ASSUME Counted PROVE Level!LeadersStand /\ Level!PacksInBudget
  OBVIOUS
<1>1. Level!LeadersStand
  BY DEF Counted, Level!LeadersStand, Level!Range2
<1>2. ASSUME NEW p \in Level!Range2(packs)
      PROVE  /\ Level!IsPrefix(p.group, p.pack)
             /\ Level!Total(p.pack) <= Level!Larger(p.budget, Level!Total(p.group))
             /\ \A k \in (Len(p.group) + 1)..Len(p.pack) : p.pack[k] > 0
  <2>1. Sized(p)
    BY DEF Counted, Level!Range2
  <2>2. p.group \in Seq(Nat) /\ p.budget \in Nat /\ p.pack = Level!Expand(p.group, p.budget)
    BY <2>1 DEF Sized
  <2>3. QED
    BY <2>2, ExpandIs
<1>3. QED
  BY <1>1, <1>2 DEF Level!PacksInBudget

-----------------------------------------------------------------------------
LEMMA Bytes ==
    ASSUME Carving, Swept, NEW c \in Level!Cell PROVE Level!CellByte(c) = cells[c]
<1>1. CASE Level!IsRoom(c)
  BY <1>1 DEF Carving, AsTheirExits, Level!CellByte
<1>2. CASE ~Level!IsRoom(c)
  BY <1>2 DEF Level!IsRoom, Level!CellByte, Level!NoRoom
<1>3. QED
  BY <1>1, <1>2

LEMMA LevelHolds ==
    ASSUME Carving, Filled, Counted
    PROVE  /\ Level!TypeOK /\ Level!OpeningsMeet /\ Level!RoomsKeepExits
           /\ Level!ArrivalSafe /\ Level!LeadersStand /\ Level!PacksInBudget
<1>1. Level!TypeOK /\ Level!ArrivalSafe
  BY DEF Carving, Filled, Level!ArrivalSafe, Level!Range2
<1>2. Level!Ended => AsTheirExits(cells)
  BY DEF Carving, Swept, Level!Ended
<1>3. Level!RoomsKeepExits
  BY <1>2 DEF AsTheirExits, Level!RoomsKeepExits
<1>4. ASSUME Level!Ended, NEW c \in Level!Cell PROVE Level!CellByte(c) = cells[c]
  BY <1>4, Bytes DEF Swept, Level!Ended
<1>5. Level!OpeningsMeet
  BY <1>4 DEF Level!OpeningsMeet, Carving, Meets
<1>6. QED
  BY <1>1, <1>3, <1>5, CountedSound

(* Whatever the rooms, the draws and the encounters: no opening of a level *)
(* faces a wall or leads out of the grid, a room has the openings its tile *)
(* has, and no pack stands where a player arrives.  A leader loses members *)
(* only if the room nodes alone are too much for the level, and a pack is  *)
(* its group and what the budget of its spot allows.                       *)
THEOREM LevelsFit == Spec => []LevelSound
<1>1. Init => Carving /\ Filled /\ Counted /\ NextTyped
  <2> SUFFICES ASSUME Init PROVE Carving /\ Filled /\ NextTyped
    BY CountedInit
  <2>1. packs = <<>> /\ next = [node |-> 1, cell |-> 1, mark |-> 0, enc |-> 0]
    BY DEF Init, Level!Init
  <2>2. packs \in Seq({}) /\ Len(packs) = 0
    BY <2>1
  <2>3. Filled
    BY <2>1, <2>2 DEF Filled
  <2>4. NextTyped
    BY <2>1 DEF NextTyped
  <2>5. QED
    BY <2>3, <2>4, CarvingInit
<1>2. Carving /\ Filled /\ Counted /\ NextTyped /\ [Next]_vars
        => Carving' /\ Filled' /\ Counted' /\ NextTyped'
  BY CarvingNext, FilledNext, CountedNext
<1>3. Carving /\ Filled /\ Counted => LevelSound
  BY LevelHolds DEF LevelSound
<1>4. QED
  BY <1>1, <1>2, <1>3, PTL DEF Spec

-----------------------------------------------------------------------------
(* Dungeon: a level is connected.  Passages are the ways that rooms leave;  *)
(* what a set of cells cannot be left by is a border nobody crosses.       *)

Passes(r, c, d) ==
    /\ r[c] # Level!NoRoom => d \in r[c].exits
    /\ Level!Neighbor(c, d) \in Level!Cell
    /\ r[Level!Neighbor(c, d)] # Level!NoRoom =>
            Level!Opposite(d) \in r[Level!Neighbor(c, d)].exits

Spreads(r, T) ==
    \A c \in T : \A d \in Level!Dir : Passes(r, c, d) => Level!Neighbor(c, d) \in T

(* No part of the grid is without a passage to the rest.                   *)
WellLaid(r) == \A T \in SUBSET Level!Cell : T # {} /\ Spreads(r, T) => T = Level!Cell

LEMMA PassesBack ==
    ASSUME NEW r, NEW c \in Level!Cell, NEW d \in Level!Dir, Passes(r, c, d)
    PROVE  /\ Level!Neighbor(c, d) \in Level!Cell /\ Level!Opposite(d) \in Level!Dir
           /\ Passes(r, Level!Neighbor(c, d), Level!Opposite(d))
           /\ Level!Neighbor(Level!Neighbor(c, d), Level!Opposite(d)) = c
BY Across DEF Passes

(* A border that is not crossed one way is not crossed the other.          *)
LEMMA SpreadsAway ==
    ASSUME NEW r, NEW T \in SUBSET Level!Cell, Spreads(r, T)
    PROVE  Spreads(r, Level!Cell \ T)
<1> SUFFICES ASSUME NEW c \in Level!Cell \ T, NEW d \in Level!Dir, Passes(r, c, d)
             PROVE  Level!Neighbor(c, d) \in Level!Cell \ T
  BY DEF Spreads
<1> DEFINE n == Level!Neighbor(c, d)
           o == Level!Opposite(d)
<1>1. n \in Level!Cell /\ o \in Level!Dir /\ Passes(r, n, o) /\ Level!Neighbor(n, o) = c
  BY PassesBack
<1> HIDE DEF n, o
<1>2. n \in T => c \in T
  BY <1>1 DEF Spreads
<1>3. n \notin T
  BY <1>2
<1>4. QED
  BY <1>1, <1>3 DEF n

(* It is enough that one cell has passages to all others.                  *)
LEMMA LaidFrom ==
    ASSUME NEW r, NEW c \in Level!Cell,
           \A T \in SUBSET Level!Cell : c \in T /\ Spreads(r, T) => T = Level!Cell
    PROVE  WellLaid(r)
<1> SUFFICES ASSUME NEW T \in SUBSET Level!Cell, T # {}, Spreads(r, T)
             PROVE  T = Level!Cell
  BY DEF WellLaid
<1>1. CASE c \in T
  BY <1>1
<1>2. CASE c \notin T
  <2>1. Spreads(r, Level!Cell \ T)
    BY SpreadsAway
  <2>2. Level!Cell \ T \in SUBSET Level!Cell /\ c \in Level!Cell \ T
    BY <1>2
  <2>3. Level!Cell \ T = Level!Cell
    BY <2>1, <2>2
  <2>4. QED
    BY <2>3
<1>3. QED
  BY <1>1, <1>2

(* Without rooms there are passages from everywhere to the first cell, the *)
(* cell with the least sum of column and row.                              *)
LEMMA EmptyGrid ==
    ASSUME NEW r, \A c \in Level!Cell : r[c] = Level!NoRoom
    PROVE  WellLaid(r)
<1> DEFINE zero == <<0, 0>>
<1>1. zero \in Level!Cell
  <2>1. 0 \in 0..(Width - 1) /\ 0 \in 0..(Height - 1)
    BY Grid
  <2>2. QED
    BY <2>1 DEF Level!Cell
<1>2. ASSUME NEW T \in SUBSET Level!Cell, T # {}, Spreads(r, T)
      PROVE  zero \in T
  <2> DEFINE sums == {c[1] + c[2] : c \in T}
  <2>1. \A c \in T : c[1] \in Nat /\ c[2] \in Nat /\ c = <<c[1], c[2]>>
                      /\ c[1] <= Width - 1 /\ c[2] <= Height - 1
    BY Grid DEF Level!Cell
  <2>2. sums \in SUBSET Nat /\ sums # {}
    BY <1>2, <2>1
  <2>3. PICK l \in sums : \A m \in sums : l <= m
    BY <2>2, HasLeast
  <2>4. PICK c \in T : l = c[1] + c[2]
    BY <2>3
  <2>5. \A b \in T : c[1] + c[2] <= b[1] + b[2]
    BY <2>3, <2>4
  <2>6. c[1] \in Nat /\ c[2] \in Nat /\ c = <<c[1], c[2]>>
        /\ c[1] \in 0..(Width - 1) /\ c[2] \in 0..(Height - 1)
    BY <2>1, Grid
  <2>7. "w" \in Level!Dir /\ "n" \in Level!Dir
    BY DEF Level!Dir
  <2>8. c[1] = 0
    <3> SUFFICES ASSUME c[1] # 0 PROVE FALSE
      OBVIOUS
    <3> DEFINE b == <<c[1] - 1, c[2]>>
    <3>1. Level!Neighbor(c, "w") = b
      BY DEF Level!Neighbor
    <3>2. b \in Level!Cell
      <4>1. c[1] - 1 \in 0..(Width - 1)
        BY <2>6, Grid
      <4>2. QED
        BY <2>6, <4>1 DEF Level!Cell
    <3>3. Passes(r, c, "w")
      BY <1>2, <3>1, <3>2 DEF Passes
    <3>4. b \in T
      BY <1>2, <2>7, <3>1, <3>3 DEF Spreads
    <3>5. c[1] + c[2] <= b[1] + b[2] /\ b[1] = c[1] - 1 /\ b[2] = c[2]
      BY <2>5, <3>4
    <3>6. QED
      BY <2>6, <3>5
  <2>9. c[2] = 0
    <3> SUFFICES ASSUME c[2] # 0 PROVE FALSE
      OBVIOUS
    <3> DEFINE b == <<c[1], c[2] - 1>>
    <3>1. Level!Neighbor(c, "n") = b
      BY DEF Level!Neighbor
    <3>2. b \in Level!Cell
      <4>1. c[2] - 1 \in 0..(Height - 1)
        BY <2>6, Grid
      <4>2. QED
        BY <2>6, <4>1 DEF Level!Cell
    <3>3. Passes(r, c, "n")
      BY <1>2, <3>1, <3>2 DEF Passes
    <3>4. b \in T
      BY <1>2, <2>7, <3>1, <3>3 DEF Spreads
    <3>5. c[1] + c[2] <= b[1] + b[2] /\ b[1] = c[1] /\ b[2] = c[2] - 1
      BY <2>5, <3>4
    <3>6. QED
      BY <2>6, <3>5
  <2>10. QED
    BY <2>6, <2>8, <2>9
<1> HIDE DEF zero
<1>3. ASSUME NEW T \in SUBSET Level!Cell, zero \in T, Spreads(r, T)
      PROVE  T = Level!Cell
  <2> SUFFICES ASSUME Level!Cell \ T # {} PROVE FALSE
    OBVIOUS
  <2>1. Spreads(r, Level!Cell \ T) /\ Level!Cell \ T \in SUBSET Level!Cell
    BY <1>3, SpreadsAway
  <2>2. zero \in Level!Cell \ T
    BY <1>2, <2>1
  <2>3. QED
    BY <1>3, <2>2
<1>4. QED
  BY <1>1, <1>3, LaidFrom

(* A flood stays within every border it does not cross.                    *)
LEMMA FloodWithin ==
    ASSUME NEW c, NEW v, NEW T, c \in T,
           \A x \in T : \A d \in Level!Dir :
              d \in Level!Ways(x, c, v) /\ Level!Enters(x, d, c, v)
                  => Level!Neighbor(x, d) \in T
    PROVE  Level!Flood(c, v) \in SUBSET T
<1> DEFINE S == SUBSET T
           m == Width * Height
           N(s) == s \cup {Level!Neighbor(x[1], x[2]) : x \in
                        {y \in s \X Level!Dir : y[2] \in Level!Ways(y[1], c, v)
                                                /\ Level!Enters(y[1], y[2], c, v)}}
           g == [p \in S \X (1..m) |-> N(p[1])]
           L(f) == [n \in 0..m |-> IF n = 0 THEN {c} ELSE N(f[n - 1])]
           reached == CHOOSE f : f = L(f)
<1>1. m \in Nat
  BY Grid
<1>2. ASSUME NEW s \in S PROVE N(s) \in S
  OBVIOUS
<1>3. Level!Flood(c, v) = reached[m]
  BY DEF Level!Flood
<1>4. {c} \in S
  OBVIOUS
<1> HIDE DEF S, N, m
<1>5. g \in [S \X (1..m) -> S] /\ \A s \in S, k \in 1..m : g[<<s, k>>] = N(s)
  BY <1>2
<1> HIDE DEF g
<1>6. PICK h \in [0..m -> S] : Goes(h, {c}, m, g)
  BY <1>1, <1>4, <1>5, Recurs
<1>7. \A n \in 1..m : h[n] = N(h[n - 1])
  <2>1. \A n \in 1..m : h[n - 1] \in S
    BY <1>1, <1>6
  <2>2. QED
    BY <1>5, <1>6, <2>1 DEF Goes
<1>8. h = L(h)
  <2>1. \A n \in 0..m : h[n] = L(h)[n]
    BY <1>1, <1>6, <1>7 DEF Goes
  <2>2. QED
    BY <1>6, <2>1
<1> HIDE DEF L
<1>9. reached = L(reached)
  BY <1>8
<1> HIDE DEF reached
<1>10. reached[0] = {c} /\ \A n \in 1..m : reached[n] = N(reached[n - 1])
  <2>1. \A n \in 0..m : reached[n] = IF n = 0 THEN {c} ELSE N(reached[n - 1])
    BY <1>9 DEF L
  <2>2. 0 \in 0..m /\ \A n \in 1..m : n \in 0..m /\ n # 0
    BY <1>1
  <2>3. QED
    BY <2>1, <2>2
<1>11. \A n \in 0..m : reached[n] \in S
  <2>1. \A n \in 1..m : reached[n - 1] \in S => reached[n] \in S
    BY <1>2, <1>10
  <2>2. reached[0] \in S
    BY <1>4, <1>10
  <2>3. QED
    BY <1>1, <2>1, <2>2, Stays
<1>12. QED
  BY <1>1, <1>3, <1>11 DEF S

(* A room that is placed leaves every part with a passage to the rest.      *)
LEMMA LaidOn == ASSUME Carving, WellLaid(room), Level!PlaceRoom PROVE WellLaid(room')
<1>1. CASE UNCHANGED room
  BY <1>1
<1>2. ASSUME NEW c \in Level!Cell, NEW v \in SUBSET Level!Dir, i \in 1..Len(plan),
             Level!MapFullyConnected(c, v), room'[c] = [src |-> i, exits |-> v],
             \A x \in Level!Cell : x # c => room'[x] = room[x]
      PROVE  WellLaid(room')
  <2> DEFINE q == room'
  <2>1. /\ \A x \in Level!Cell : q[x] # Level!NoRoom => Level!Solid(x, c)
        /\ \A x \in Level!Cell : q[x].exits = Level!Exits(x, c, v)
    BY <1>2 DEF Level!Solid, Level!IsRoom, Level!Exits
  <2>2. Level!Flood(c, v) = Level!Cell
    BY <1>2 DEF Level!MapFullyConnected
  <2> HIDE DEF q
  <2>3. ASSUME NEW T \in SUBSET Level!Cell, c \in T, Spreads(q, T)
        PROVE  T = Level!Cell
    <3>1. ASSUME NEW x \in T, NEW d \in Level!Dir,
                 d \in Level!Ways(x, c, v), Level!Enters(x, d, c, v)
          PROVE  Level!Neighbor(x, d) \in T
      <4> DEFINE n == Level!Neighbor(x, d)
      <4>1. n \in Level!Cell /\ (Level!Solid(n, c) => Level!Opposite(d) \in Level!Exits(n, c, v))
        BY <3>1 DEF Level!Enters
      <4>2. Level!Solid(x, c) => d \in Level!Exits(x, c, v)
        BY <3>1 DEF Level!Ways
      <4> HIDE DEF n
      <4>3. q[n] # Level!NoRoom => Level!Opposite(d) \in q[n].exits
        BY <2>1, <4>1
      <4>4. q[x] # Level!NoRoom => d \in q[x].exits
        BY <2>1, <4>2
      <4>5. Passes(q, x, d)
        BY <4>1, <4>3, <4>4 DEF Passes, n
      <4>6. QED
        BY <2>3, <4>5 DEF Spreads
    <3>2. Level!Flood(c, v) \in SUBSET T
      BY <2>3, <3>1, FloodWithin
    <3>3. QED
      BY <2>2, <3>2
  <2>4. WellLaid(q)
    BY <2>3, LaidFrom
  <2>5. QED
    BY <2>4 DEF q
<1>3. QED
  BY <1>1, <1>2, RoomPlaced

-----------------------------------------------------------------------------
(* Corridors.  The floors that are lit, those about which there is more to  *)
(* light, and the floors that can be walked to from each other.            *)

Floor(c) == ~Level!IsRoom(c)
Empties(g) == {c \in Level!Cell : Floor(c) /\ g[c] = {}}
Lit(g) == {c \in Level!Cell : Floor(c) /\ g[c] # {}}
Ends(g) == {c \in Lit(g) : \E d \in Level!Dir : Level!Neighbor(c, d) \in Empties(g)}

(* A set of cells that no opening between floors leaves.                   *)
Runs(S, g) ==
    \A c \in S : \A d \in g[c] :
        Floor(c) /\ Floor(Level!Neighbor(c, d)) => Level!Neighbor(c, d) \in S

Tied(g, a, b) == \A S \in SUBSET Level!Cell : Runs(S, g) => (a \in S <=> b \in S)

(* Floors side by side can be walked to from each other, ...               *)
Trees(g) ==
    \A c \in Lit(g) : \A d \in Level!Dir :
        Level!Neighbor(c, d) \in Lit(g) => Tied(g, c, Level!Neighbor(c, d))

(* ... and so can all those about which there is more to light: one after   *)
(* the other the parts between the rooms are filled.                        *)
Fronts(g, a) == Ends(g) \cup (Lit(g) \cap {a})
Front(g, a) == \A x, y \in Fronts(g, a) : Tied(g, x, y)

LEMMA TiesKeep ==
    ASSUME NEW g \in Openings, NEW h \in Openings, \A x \in Level!Cell : g[x] \subseteq h[x],
           NEW a, NEW b, Tied(g, a, b)
    PROVE  Tied(h, a, b)
<1> SUFFICES ASSUME NEW S \in SUBSET Level!Cell, Runs(S, h) PROVE a \in S <=> b \in S
  BY DEF Tied
<1>1. Runs(S, g)
  BY DEF Runs
<1>2. QED
  BY <1>1 DEF Tied

LEMMA TiesJoin ==
    ASSUME NEW g, NEW a, NEW b, NEW c, Tied(g, a, b), Tied(g, b, c)
    PROVE  Tied(g, a, c) /\ Tied(g, c, a) /\ Tied(g, a, a)
BY DEF Tied

(* A corridor goes on from a to the empty cell n.                          *)
GrownFrom(g, a, d, n, h) ==
    /\ g \in Openings /\ h \in Openings /\ a \in Level!Cell /\ d \in Level!Dir
    /\ n = Level!Neighbor(a, d) /\ n \in Empties(g)
    /\ h[a] = g[a] \cup {d} /\ h[n] = {Level!Opposite(d)}
    /\ \A x \in Level!Cell : x # a /\ x # n => h[x] = g[x]

LEMMA GrownLit ==
    ASSUME NEW g, NEW a, NEW d, NEW n, NEW h, GrownFrom(g, a, d, n, h)
    PROVE  /\ n # a /\ Level!Neighbor(n, Level!Opposite(d)) = a
           /\ Level!Opposite(d) \in Level!Dir
           /\ \A x \in Level!Cell : g[x] \subseteq h[x]
           /\ Lit(h) = Lit(g) \cup {n} \cup ({a} \cap {x \in Level!Cell : Floor(x)})
           /\ Empties(h) = Empties(g) \ {n, a}
           /\ Floor(a) => Tied(h, a, n)
<1>1. /\ n # a /\ Level!Neighbor(n, Level!Opposite(d)) = a /\ Level!Opposite(d) \in Level!Dir
  BY Across DEF GrownFrom
<1>2. n \in Level!Cell /\ Floor(n) /\ g[n] = {}
  BY DEF GrownFrom, Empties
<1>3. \A x \in Level!Cell : g[x] \subseteq h[x]
  BY <1>2 DEF GrownFrom
<1>4. Lit(h) = Lit(g) \cup {n} \cup ({a} \cap {x \in Level!Cell : Floor(x)})
  BY <1>1, <1>2 DEF GrownFrom, Lit
<1>5. Empties(h) = Empties(g) \ {n, a}
  BY <1>1, <1>2 DEF GrownFrom, Empties
<1>6. ASSUME Floor(a) PROVE Tied(h, a, n)
  <2> SUFFICES ASSUME NEW S \in SUBSET Level!Cell, Runs(S, h) PROVE a \in S <=> n \in S
    BY DEF Tied
  <2>1. d \in h[a] /\ Level!Opposite(d) \in h[n]
    BY DEF GrownFrom
  <2>2. a \in S => n \in S
    BY <1>2, <1>6, <2>1 DEF Runs, GrownFrom
  <2>3. n \in S => a \in S
    BY <1>1, <1>2, <1>6, <2>1 DEF Runs
  <2>4. QED
    BY <2>2, <2>3
<1>7. QED
  BY <1>1, <1>3, <1>4, <1>5, <1>6

LEMMA GrownTies ==
    ASSUME NEW g, NEW a, NEW d, NEW n, NEW h, GrownFrom(g, a, d, n, h),
           Trees(g), Front(g, a), Floor(a) \/ Ends(g) = {},
           Floor(a) => a \in Lit(g) \/ Lit(g) = {}
    PROVE  Trees(h) /\ Front(h, n)
<1>1. /\ n # a /\ Level!Neighbor(n, Level!Opposite(d)) = a
      /\ Level!Opposite(d) \in Level!Dir
      /\ \A x \in Level!Cell : g[x] \subseteq h[x]
      /\ Lit(h) = Lit(g) \cup {n} \cup ({a} \cap {x \in Level!Cell : Floor(x)})
      /\ Empties(h) = Empties(g) \ {n, a}
      /\ Floor(a) => Tied(h, a, n)
  BY GrownLit
<1>2. /\ g \in Openings /\ h \in Openings /\ a \in Level!Cell /\ d \in Level!Dir
      /\ n = Level!Neighbor(a, d) /\ n \in Empties(g) /\ n \in Level!Cell /\ Floor(n)
  BY DEF GrownFrom, Empties
<1> DEFINE A == Ends(g) \cup ({a} \cap {x \in Level!Cell : Floor(x)})
<1>3. ASSUME NEW x \in A PROVE Tied(h, x, n)
  <2>1. CASE x = a
    BY <1>1, <1>3, <2>1, <1>2 DEF Ends, Lit
  <2>2. CASE x # a
    <3>1. x \in Ends(g) /\ Ends(g) # {}
      BY <1>3, <2>2
    <3>2. Floor(a) /\ Lit(g) # {}
      BY <3>1 DEF Ends
    <3>3. a \in Fronts(g, a) /\ x \in Fronts(g, a)
      BY <3>1, <3>2 DEF Fronts
    <3>4. Tied(g, x, a)
      BY <3>3 DEF Front
    <3>5. Tied(h, x, a)
      BY <1>1, <1>2, <3>4, TiesKeep
    <3>6. QED
      BY <1>1, <3>2, <3>5, TiesJoin
  <2>3. QED
    BY <2>1, <2>2
<1>4. Tied(h, n, n)
  BY DEF Tied
<1>5. ASSUME NEW x \in Lit(g), NEW e \in Level!Dir, Level!Neighbor(x, e) \in Empties(g)
      PROVE  x \in A
  BY <1>5 DEF Ends
<1>6. ASSUME NEW x \in Lit(h), NEW e \in Level!Dir, Level!Neighbor(x, e) = n
      PROVE  x \in A
  <2>1. x # n
    BY <1>2, <1>6, Across
  <2>2. CASE x = a
    BY <1>6, <2>2 DEF Lit
  <2>3. CASE x # a
    BY <1>1, <1>2, <1>5, <1>6, <2>1, <2>3
  <2>4. QED
    BY <2>2, <2>3
<1>7. Ends(h) \subseteq A \cup {n}
  <2> SUFFICES ASSUME NEW x \in Ends(h), x # n PROVE x \in A
    OBVIOUS
  <2>1. x \in Lit(h)
    BY DEF Ends
  <2>2. PICK e \in Level!Dir : Level!Neighbor(x, e) \in Empties(g)
    BY <1>1 DEF Ends
  <2>3. CASE x = a
    BY <2>1, <2>3 DEF Lit
  <2>4. CASE x # a
    BY <1>1, <1>5, <2>1, <2>2, <2>4
  <2>5. QED
    BY <2>3, <2>4
<1> HIDE DEF A
<1>8. Front(h, n)
  <2> SUFFICES ASSUME NEW x \in Fronts(h, n), NEW y \in Fronts(h, n) PROVE Tied(h, x, y)
    BY DEF Front
  <2>1. Tied(h, x, n) /\ Tied(h, y, n)
    BY <1>3, <1>4, <1>7 DEF Fronts
  <2>2. QED
    BY <2>1 DEF Tied
<1>9. Trees(h)
  <2> SUFFICES ASSUME NEW x \in Lit(h), NEW e \in Level!Dir, Level!Neighbor(x, e) \in Lit(h)
               PROVE  Tied(h, x, Level!Neighbor(x, e))
    BY DEF Trees
  <2> DEFINE y == Level!Neighbor(x, e)
  <2>1. /\ Level!Opposite(e) \in Level!Dir /\ Level!Neighbor(y, Level!Opposite(e)) = x
        /\ y # x /\ x \in Level!Cell
    BY Across DEF Lit
  <2> HIDE DEF y
  <2>2. y = Level!Neighbor(x, e) /\ y \in Lit(h)
    BY DEF y
  <2>3. CASE x = n
    <3>1. y \in A
      BY <1>6, <2>1, <2>2, <2>3
    <3>2. QED
      BY <1>3, <2>2, <2>3, <3>1 DEF Tied
  <2>4. CASE y = n
    <3>1. x \in A
      BY <1>6, <2>2, <2>4
    <3>2. QED
      BY <1>3, <2>2, <2>4, <3>1
  <2>5. CASE x \in Lit(g) /\ y \in Lit(g)
    <3>1. Tied(g, x, y)
      BY <2>2, <2>5 DEF Trees
    <3>2. QED
      BY <1>1, <1>2, <2>2, <3>1, TiesKeep
  <2>6. CASE x # n /\ y # n /\ Lit(g) = {}
    BY <1>1, <2>1, <2>2, <2>6
  <2>7. CASE a \in Lit(g) \/ ~Floor(a)
    BY <1>1, <2>2, <2>3, <2>4, <2>5, <2>7
  <2>8. QED
    BY <2>3, <2>4, <2>6, <2>7
<1>10. QED
  BY <1>8, <1>9

(* How far the corridors have come: a cell has been picked to begin from,   *)
(* or every cell but those that are left is lit.                           *)
Unbegun(g, a, l) ==
    /\ \A c \in Level!Cell : g[c] = {}
    /\ a \in Empties(g) /\ l + 1 = Cardinality(Empties(g))

Begun(g, a, l) ==
    /\ l = Cardinality(Empties(g)) /\ a \notin Empties(g) /\ Empties(g) # Level!Cell
    /\ Trees(g) /\ Front(g, a)
    /\ a \in Level!Cell => Floor(a) \/ Ends(g) = {}

LEMMA FewerBy ==
    ASSUME NEW S \in SUBSET Level!Cell, NEW x \in S
    PROVE  /\ Cardinality(S) \in Nat /\ Cardinality(S \ {x}) = Cardinality(S) - 1
           /\ Cardinality(S \ {x}) \in Nat
<1>1. IsFiniteSet(S)
  BY GridFinite, FS_Subset
<1>2. QED
  BY <1>1, FS_CardinalityType, FS_RemoveElement

LEMMA CorridorGrows ==
    ASSUME NEW g, NEW a, NEW d, NEW n, NEW h, GrownFrom(g, a, d, n, h), NEW l \in Nat,
           Unbegun(g, a, l) \/ Begun(g, a, l)
    PROVE  Begun(h, n, l - 1)
<1>1. /\ n # a
      /\ Lit(h) = Lit(g) \cup {n} \cup ({a} \cap {x \in Level!Cell : Floor(x)})
      /\ Empties(h) = Empties(g) \ {n, a}
  BY GrownLit
<1>2. n \in Empties(g) /\ n \in Level!Cell /\ Floor(n) /\ a \in Level!Cell
      /\ Empties(g) \in SUBSET Level!Cell
  BY DEF GrownFrom, Empties
<1>3. Trees(h) /\ Front(h, n)
  <2>1. CASE Unbegun(g, a, l)
    <3>1. Lit(g) = {} /\ Ends(g) = {} /\ Floor(a)
      BY <2>1 DEF Unbegun, Lit, Ends, Empties
    <3>2. Trees(g) /\ Front(g, a)
      BY <3>1 DEF Trees, Front, Fronts
    <3>3. QED
      BY <3>1, <3>2, GrownTies
  <2>2. CASE Begun(g, a, l)
    <3>1. Floor(a) => a \in Lit(g)
      BY <1>2, <2>2 DEF Begun, Lit, Empties
    <3>2. QED
      BY <1>2, <2>2, <3>1, GrownTies DEF Begun
  <2>3. QED
    BY <2>1, <2>2
<1>4. l - 1 = Cardinality(Empties(h))
  <2>1. CASE Unbegun(g, a, l)
    <3> DEFINE S == Empties(g)
    <3>1. a \in S /\ n \in S \ {a} /\ l + 1 = Cardinality(S)
          /\ Empties(h) = (S \ {a}) \ {n} /\ S \ {a} \in SUBSET Level!Cell
          /\ S \in SUBSET Level!Cell
      BY <1>1, <1>2, <2>1 DEF Unbegun
    <3> HIDE DEF S
    <3>2. Cardinality(S) \in Nat /\ Cardinality(S \ {a}) = Cardinality(S) - 1
      BY <3>1, FewerBy
    <3>3. Cardinality((S \ {a}) \ {n}) = Cardinality(S \ {a}) - 1
      BY <3>1, FewerBy
    <3>4. QED
      BY <3>1, <3>2, <3>3
  <2>2. CASE Begun(g, a, l)
    <3>1. Empties(h) = Empties(g) \ {n} /\ l = Cardinality(Empties(g))
      BY <1>1, <2>2 DEF Begun
    <3>2. QED
      BY <1>2, <3>1, FewerBy
  <2>3. QED
    BY <2>1, <2>2
<1>5. n \notin Empties(h)
  BY <1>1
<1>6. QED
  BY <1>2, <1>3, <1>4, <1>5 DEF Begun

-----------------------------------------------------------------------------
(* The corridors reach every cell.                                         *)

Tunnels == Unbegun(cells, at, left) \/ Begun(cells, at, left)

LEMMA TunnelsSame ==
    ASSUME UNCHANGED room, Unbegun(cells', at', left') \/ Begun(cells', at', left')
    PROVE  Tunnels'
BY DEF Tunnels, Unbegun, Begun, Empties, Lit, Ends, Trees, Front, Fronts, Tied, Runs, Floor,
       Level!IsRoom

LEMMA NotWalled ==
    ASSUME Level!Walled = {}, NEW c \in Level!Cell, Floor(c)
    PROVE  \E d \in Level!Dir : /\ Level!Neighbor(c, d) \in Level!Cell
                                /\ Floor(Level!Neighbor(c, d))
BY DEF Level!Walled, Floor

LEMMA TunnelsBegin == ASSUME Carving, Level!BeginCorridors PROVE Tunnels'
<1> DEFINE empty == {c \in Level!Cell : Level!IsEmpty(c)}
           rest == Cardinality(empty) - 1
<1>1. /\ left' = (IF rest < 0 THEN 0 ELSE rest)
      /\ at' \in empty \/ (empty = {} /\ at' = Level!Nowhere)
      /\ UNCHANGED <<plan, i, cells, room>> /\ phase = "rooms"
  BY GridFinite DEF Level!BeginCorridors
<1>2. \A c \in Level!Cell : cells[c] = {}
  BY <1>1 DEF Carving
<1>3. empty = Empties(cells)
  BY DEF Empties, Level!IsEmpty, Floor
<1>4. empty \in SUBSET Level!Cell
  OBVIOUS
<1> HIDE DEF empty
<1>5. CASE at' \in empty
  <2>1. Cardinality(empty) \in Nat /\ Cardinality(empty \ {at'}) = Cardinality(empty) - 1
        /\ Cardinality(empty \ {at'}) \in Nat
    BY <1>4, <1>5, FewerBy
  <2>2. left' + 1 = Cardinality(empty)
    BY <1>1, <2>1
  <2>3. Unbegun(cells', at', left')
    BY <1>1, <1>2, <1>3, <1>5, <2>2 DEF Unbegun
  <2>4. QED
    BY <1>1, <2>3, TunnelsSame
<1>6. CASE empty = {} /\ at' = Level!Nowhere
  <2>1. Cardinality(empty) = 0
    BY <1>6, FS_EmptySet
  <2>2. left' = 0
    BY <1>1, <2>1
  <2>3. Lit(cells) = {} /\ Ends(cells) = {}
    BY <1>2 DEF Lit, Ends
  <2>4. Trees(cells) /\ Front(cells, at')
    BY <2>3 DEF Trees, Front, Fronts
  <2>5. Level!Cell # {} /\ at' \notin Level!Cell
    <3>1. 1 \in 1..(Width * Height)
      BY Grid
    <3>2. QED
      BY <1>6, <3>1, OrderInGrid, NowhereOut
  <2>6. Begun(cells', at', left')
    BY <1>1, <1>3, <1>6, <2>1, <2>2, <2>4, <2>5 DEF Begun
  <2>7. QED
    BY <1>1, <2>6, TunnelsSame
<1>7. QED
  BY <1>1, <1>5, <1>6

LEMMA FreeEnds ==
    ASSUME Carving, NEW c \in Level!Cell
    PROVE  /\ \A d \in Level!Free(c) : /\ d \in Level!Dir
                                       /\ Level!Neighbor(c, d) \in Empties(cells)
           /\ c \in Lit(cells) /\ Level!Free(c) # {} => c \in Ends(cells)
           /\ c \in Ends(cells) => Level!Free(c) # {}
<1>1. ASSUME NEW d \in Level!Free(c)
      PROVE  d \in Level!Dir /\ Level!Neighbor(c, d) \in Empties(cells)
  <2>1. d \in Level!Dir /\ Level!Neighbor(c, d) \in Level!Cell
    BY FreeWays
  <2>2. Level!IsEmpty(Level!Neighbor(c, d))
    BY DEF Level!Free
  <2>3. QED
    BY <2>1, <2>2 DEF Level!IsEmpty, Empties, Floor
<1>2. c \in Lit(cells) /\ Level!Free(c) # {} => c \in Ends(cells)
  BY <1>1 DEF Ends
<1>3. ASSUME c \in Ends(cells) PROVE Level!Free(c) # {}
  <2>1. PICK d \in Level!Dir : Level!Neighbor(c, d) \in Empties(cells)
    BY <1>3 DEF Ends
  <2>2. Floor(c) /\ Level!Neighbor(c, d) \in Level!Cell /\ Level!IsEmpty(Level!Neighbor(c, d))
        /\ cells[Level!Neighbor(c, d)] = {}
    BY <1>3, <2>1 DEF Ends, Lit, Empties, Level!IsEmpty, Floor
  <2>3. d \notin cells[c]
    BY <2>2 DEF Carving, Meets
  <2>4. QED
    BY <2>2, <2>3 DEF Level!Free, Floor
<1>4. QED
  BY <1>1, <1>2, <1>3

LEMMA TunnelsGrow ==
    ASSUME Carving, Tunnels, Level!Walled = {}, Level!Grow PROVE Tunnels'
<1>1. /\ phase = "corridors" /\ left > 0 /\ at # Level!Nowhere
      /\ UNCHANGED <<plan, phase, i, room>>
      /\ \/ \E d \in Level!Free(at) :
              /\ cells' = Level!Opened(cells, at, d)
              /\ at' = Level!Neighbor(at, d) /\ left' = left - 1
         \/ Level!Free(at) = {} /\ at' = Level!Nowhere /\ UNCHANGED <<cells, left>>
  BY DEF Level!Grow
<1>2. at \in Level!Cell /\ cells \in Openings /\ left \in Nat
  BY <1>1 DEF Carving, Level!TypeOK, Openings
<1>3. CASE Level!Free(at) = {} /\ at' = Level!Nowhere /\ UNCHANGED <<cells, left>>
  <2>1. CASE Unbegun(cells, at, left)
    <3>1. Floor(at) /\ cells[at] = {} /\ \A c \in Level!Cell : cells[c] = {}
      BY <2>1 DEF Unbegun, Empties
    <3>2. PICK d \in Level!Dir : /\ Level!Neighbor(at, d) \in Level!Cell
                                 /\ Floor(Level!Neighbor(at, d))
      BY <1>2, <3>1, NotWalled
    <3>3. d \in Level!Free(at)
      BY <3>1, <3>2 DEF Level!Free, Level!IsEmpty, Floor
    <3>4. QED
      BY <1>3, <3>3
  <2>2. CASE Begun(cells, at, left)
    <3>1. at' \notin Level!Cell
      BY <1>3, NowhereOut
    <3>2. at' \notin Empties(cells) /\ Fronts(cells, at') \subseteq Fronts(cells, at)
      BY <3>1 DEF Empties, Fronts, Lit
    <3>3. Front(cells, at')
      BY <2>2, <3>2 DEF Begun, Front
    <3>4. Begun(cells', at', left')
      BY <1>3, <2>2, <3>1, <3>2, <3>3 DEF Begun
    <3>5. QED
      BY <1>1, <3>4, TunnelsSame
  <2>3. QED
    BY <2>1, <2>2 DEF Tunnels
<1>4. ASSUME NEW d \in Level!Free(at), cells' = Level!Opened(cells, at, d),
             at' = Level!Neighbor(at, d), left' = left - 1
      PROVE  Tunnels'
  <2> DEFINE n == Level!Neighbor(at, d)
  <2>1. d \in Level!Dir /\ n \in Empties(cells) /\ n \in Level!Cell /\ cells[n] = {}
    BY <1>2, FreeEnds DEF Empties
  <2> HIDE DEF n
  <2>2. n = Level!Neighbor(at, d)
    BY DEF n
  <2>3. /\ cells' \in Openings
        /\ cells'[at] = cells[at] \cup {d} /\ cells'[n] = cells[n] \cup {Level!Opposite(d)}
        /\ \A x \in Level!Cell : x # at /\ x # n => cells'[x] = cells[x]
    BY <1>2, <1>4, <2>1, <2>2, OpenedAt
  <2>4. GrownFrom(cells, at, d, n, cells')
    BY <1>2, <2>1, <2>2, <2>3 DEF GrownFrom
  <2>5. Begun(cells', n, left - 1)
    BY <1>2, <2>4, CorridorGrows DEF Tunnels
  <2>6. QED
    BY <1>1, <1>4, <2>2, <2>5, TunnelsSame
<1>5. QED
  BY <1>1, <1>3, <1>4

LEMMA TunnelsBranch == ASSUME Carving, Tunnels, Level!Branch PROVE Tunnels'
<1> DEFINE normal == {c \in Level!Cell : ~Level!IsRoom(c) /\ cells[c] # {} /\ Level!Free(c) # {}}
           forced == {c \in Level!Cell : Level!IsRoom(c) /\ Level!Free(c) # {}}
<1>1. /\ phase = "corridors" /\ at = Level!Nowhere
      /\ UNCHANGED <<plan, phase, i, cells, room, left>>
      /\ \/ normal # {} /\ at' \in normal
         \/ normal = {} /\ at' \in forced
  BY DEF Level!Branch, Level!OpenEnds
<1>2. at \notin Level!Cell
  BY <1>1, NowhereOut
<1>3. Begun(cells, at, left)
  BY <1>2 DEF Tunnels, Unbegun, Empties
<1>4. \A c \in Ends(cells) : c \in normal
  BY FreeEnds DEF Ends, Lit, Floor
<1>5. \A c \in normal : c \in Ends(cells)
  BY FreeEnds DEF Lit, Floor
<1>6. Fronts(cells, at) = Ends(cells)
  BY <1>2 DEF Fronts, Lit
<1>7. at' \in normal => Floor(at') /\ at' \in Lit(cells) /\ at' \notin Empties(cells)
  BY DEF Floor, Lit, Empties
<1>8. at' \in forced => ~Floor(at') /\ at' \notin Lit(cells) /\ at' \notin Empties(cells)
  BY DEF Floor, Lit, Empties
<1> HIDE DEF normal, forced
<1>9. /\ at' \notin Empties(cells) /\ Fronts(cells, at') \subseteq Fronts(cells, at)
      /\ Floor(at') \/ Ends(cells) = {}
  <2>1. CASE at' \in normal
    BY <1>5, <1>6, <1>7, <2>1 DEF Fronts
  <2>2. CASE normal = {} /\ at' \in forced
    BY <1>4, <1>6, <1>8, <2>2 DEF Fronts
  <2>3. QED
    BY <1>1, <2>1, <2>2
<1>10. Front(cells, at')
  BY <1>3, <1>9 DEF Begun, Front
<1>11. Begun(cells', at', left')
  BY <1>1, <1>3, <1>9, <1>10 DEF Begun
<1>12. QED
  BY <1>1, <1>11, TunnelsSame

LEMMA AllLit ==
    ASSUME Carving, WellLaid(room), Level!Walled = {}, Tunnels,
           left = 0 \/ (at = Level!Nowhere /\ Level!OpenEnds = {})
    PROVE  Empties(cells) = {} /\ Trees(cells)
<1> DEFINE E == Empties(cells)
<1>1. E \in SUBSET Level!Cell /\ \A c \in E : Floor(c) /\ cells[c] = {}
  BY DEF Empties
<1>2. RoomType
  BY Rooms DEF Carving
<1>3. CASE Unbegun(cells, at, left)
  <2>1. at \in E /\ left + 1 = Cardinality(E) /\ \A c \in Level!Cell : cells[c] = {}
    BY <1>3 DEF Unbegun
  <2>2. at # Level!Nowhere /\ left = 0
    BY <1>1, <2>1, NowhereOut
  <2>3. Floor(at) /\ at \in Level!Cell /\ IsFiniteSet(E) /\ Cardinality(E) = 1
    BY <1>1, <2>1, <2>2, GridFinite, FS_Subset
  <2>4. E = {at}
    BY <2>1, <2>3, FS_Singleton
  <2>5. PICK d \in Level!Dir : /\ Level!Neighbor(at, d) \in Level!Cell
                               /\ Floor(Level!Neighbor(at, d))
    BY <2>3, NotWalled
  <2>6. Level!Neighbor(at, d) \in E
    BY <2>1, <2>5 DEF Empties
  <2>7. Level!Neighbor(at, d) # at
    BY <2>3, Across
  <2>8. QED
    BY <2>4, <2>6, <2>7
<1>4. CASE Begun(cells, at, left)
  <2>1. left = Cardinality(E) /\ E # Level!Cell /\ Trees(cells)
    BY <1>4 DEF Begun
  <2>2. CASE left = 0
    <3>1. IsFiniteSet(E)
      BY <1>1, GridFinite, FS_Subset
    <3>2. E = {}
      BY <2>1, <2>2, <3>1, FS_EmptySet
    <3>3. QED
      BY <2>1, <3>2
  <2>3. CASE at = Level!Nowhere /\ Level!OpenEnds = {}
    <3> DEFINE T == Level!Cell \ E
    <3>1. \A c \in Level!Cell : Level!IsRoom(c) \/ cells[c] # {} => Level!Free(c) = {}
      BY <2>3 DEF Level!OpenEnds
    <3>2. ASSUME NEW c \in T, NEW d \in Level!Dir, Passes(room, c, d)
          PROVE  Level!Neighbor(c, d) \in T
      <4> DEFINE n == Level!Neighbor(c, d)
      <4>1. n \in Level!Cell
        BY <3>2 DEF Passes
      <4>2. Level!Free(c) = {} /\ (Level!IsRoom(c) \/ cells[c] # {})
        BY <3>1 DEF Empties, Floor
      <4>3. SUFFICES ASSUME n \in E PROVE FALSE
        BY <4>1
      <4>4. Level!IsEmpty(n) /\ cells[n] = {}
        BY <1>1, <4>3 DEF Level!IsEmpty, Floor
      <4>5. CASE Level!IsRoom(c)
        <5>1. d \in room[c].exits
          BY <3>2, <4>5 DEF Passes, Level!IsRoom
        <5>2. d \in Level!Free(c)
          BY <4>1, <4>4, <4>5, <5>1 DEF Level!Free, Level!CellByte
        <5>3. QED
          BY <4>2, <5>2
      <4>6. CASE ~Level!IsRoom(c)
        <5>1. d \notin cells[c]
          BY <4>4 DEF Carving, Meets
        <5>2. d \in Level!Free(c)
          BY <4>1, <4>4, <4>6, <5>1 DEF Level!Free
        <5>3. QED
          BY <4>2, <5>2
      <4>7. QED
        BY <4>5, <4>6
    <3>3. T \in SUBSET Level!Cell /\ T # {}
      BY <1>1, <2>1
    <3>4. T = Level!Cell
      BY <3>2, <3>3 DEF WellLaid, Spreads
    <3>5. QED
      BY <1>1, <2>1, <3>4
  <2>4. QED
    BY <2>2, <2>3
<1>5. QED
  BY <1>3, <1>4 DEF Tunnels

-----------------------------------------------------------------------------
(* From the sweep on: the cells where somebody can stand, and the sets of   *)
(* cells that no opening leaves.                                           *)

Halls(g) == {c \in Level!Cell : Level!IsRoom(c) \/ g[c] # {}}
Keeps(S, g) == \A c \in S : \A d \in g[c] : Level!Neighbor(c, d) \in S

Linked(g) ==
    \A S \in SUBSET Level!Cell :
        Keeps(S, g) /\ S \cap Halls(g) # {} => Halls(g) \subseteq S

LEMMA LinkedSwept ==
    ASSUME Carving, WellLaid(room), Empties(cells) = {}, Trees(cells)
    PROVE  Linked(Level!Forced)
<1> DEFINE f == Level!Forced
<1>1. cells \in Openings
  BY DEF Carving, Level!TypeOK, Openings
<1>2. /\ Meets(f) /\ AsTheirExits(f)
      /\ \A x \in Level!Cell : cells[x] \subseteq f[x]
  BY <1>1, Rooms, SweepDone DEF Carving, BeforeSweep
<1> HIDE DEF f
<1>3. ASSUME NEW S \in SUBSET Level!Cell, Keeps(S, f), S # {} PROVE S = Level!Cell
  <2>1. ASSUME NEW c \in S, NEW d \in Level!Dir, Passes(room, c, d)
        PROVE  Level!Neighbor(c, d) \in S
    <3> DEFINE n == Level!Neighbor(c, d)
               o == Level!Opposite(d)
    <3>1. n \in Level!Cell /\ o \in Level!Dir /\ Level!Opposite(o) = d /\ Level!Neighbor(n, o) = c
      BY <2>1, Across DEF Passes
    <3>2. /\ Level!IsRoom(c) => d \in room[c].exits
          /\ Level!IsRoom(n) => o \in room[n].exits
      BY <2>1 DEF Passes, Level!IsRoom
    <3> HIDE DEF n, o
    <3>3. CASE Level!IsRoom(c)
      BY <1>2, <1>3, <3>2, <3>3 DEF AsTheirExits, Keeps, n
    <3>4. CASE Level!IsRoom(n)
      <4>1. o \in f[n]
        BY <1>2, <3>1, <3>2, <3>4 DEF AsTheirExits
      <4>2. d \in f[c]
        BY <1>2, <3>1, <4>1 DEF Meets
      <4>3. QED
        BY <1>3, <4>2 DEF Keeps, n
    <3>5. CASE Floor(c) /\ Floor(n)
      <4>1. c \in Lit(cells) /\ n \in Lit(cells)
        BY <1>3, <3>1, <3>5 DEF Empties, Lit
      <4>2. Tied(cells, c, n)
        BY <4>1 DEF Trees, n
      <4>3. Runs(S, cells)
        BY <1>2, <1>3 DEF Runs, Keeps
      <4>4. QED
        BY <4>2, <4>3 DEF Tied, n
    <3>6. QED
      BY <3>3, <3>4, <3>5 DEF Floor
  <2>2. Spreads(room, S)
    BY <2>1 DEF Spreads
  <2>3. QED
    BY <1>3, <2>2 DEF WellLaid
<1>4. Linked(f)
  BY <1>3 DEF Linked, Halls
<1>5. QED
  BY <1>4 DEF f

(* A dead end that is cut off leaves the others together, ...              *)
LEMMA LinkedClosed ==
    ASSUME NEW g \in Openings, Meets(g), Linked(g), NEW c \in Level!Cell, Floor(c),
           NEW d \in Level!Dir, g[c] = {d}, NEW n \in Level!Cell, n = Level!Neighbor(c, d),
           NEW h, h = Level!Closed(g, c, d)
    PROVE  Linked(h)
<1>1. /\ h \in Openings
      /\ h[c] = g[c] \ {d} /\ h[n] = g[n] \ {Level!Opposite(d)}
      /\ \A x \in Level!Cell : x # c /\ x # n => h[x] = g[x]
  BY ClosedAt
<1>2. Meets(h)
  BY ClosedMeets
<1>3. Level!Neighbor(n, Level!Opposite(d)) = c /\ h[c] = {} /\ n # c
  BY <1>1, Across
<1>4. Halls(h) \subseteq Halls(g) /\ c \notin Halls(h)
  BY <1>1, <1>3 DEF Halls, Floor
<1> SUFFICES ASSUME NEW S \in SUBSET Level!Cell, Keeps(S, h), S \cap Halls(h) # {}
             PROVE  Halls(h) \subseteq S
  BY DEF Linked
<1> DEFINE T == IF n \in S THEN S \cup {c} ELSE S \ {c}
<1>5. T \in SUBSET Level!Cell /\ T \cap Halls(g) # {} /\ T \subseteq S \cup {c} /\ S \ {c} \subseteq T
      /\ (c \in T <=> n \in S) /\ (n \in T <=> n \in S)
  BY <1>3, <1>4
<1> HIDE DEF T
<1>6. Keeps(T, g)
  <2> SUFFICES ASSUME NEW x \in T, NEW e \in g[x] PROVE Level!Neighbor(x, e) \in T
    BY DEF Keeps
  <2>1. CASE x = c
    BY <1>5, <2>1
  <2>2. CASE x # c /\ e \in h[x]
    <3>1. x \in S /\ x \in Level!Cell
      BY <1>5, <2>2
    <3>2. Level!Neighbor(x, e) \in S
      BY <2>2, <3>1 DEF Keeps
    <3>3. Level!Neighbor(x, e) # c
      BY <1>2, <1>3, <2>2, <3>1 DEF Meets
    <3>4. QED
      BY <1>5, <3>2, <3>3
  <2>3. CASE x # c /\ e \notin h[x]
    <3>1. x = n /\ e = Level!Opposite(d)
      BY <1>1, <1>5, <2>3
    <3>2. QED
      BY <1>3, <1>5, <3>1
  <2>4. QED
    BY <2>1, <2>2, <2>3
<1>7. Halls(g) \subseteq T
  BY <1>5, <1>6 DEF Linked
<1>8. QED
  BY <1>4, <1>5, <1>7

(* ... and a way that is made brings in what it leads to.                  *)
LEMMA LinkedOpened ==
    ASSUME NEW g \in Openings, Linked(g), NEW c \in Level!Cell, g[c] # {},
           NEW d \in Level!Dir, NEW n \in Level!Cell, n = Level!Neighbor(c, d),
           NEW h, h = Level!Opened(g, c, d)
    PROVE  Linked(h)
<1>1. /\ h[c] = g[c] \cup {d} /\ h[n] = g[n] \cup {Level!Opposite(d)}
      /\ \A x \in Level!Cell : x # c /\ x # n => h[x] = g[x]
  BY OpenedAt
<1>2. Level!Neighbor(n, Level!Opposite(d)) = c
  BY Across
<1>3. Halls(h) \subseteq Halls(g) \cup {n} /\ c \in Halls(g)
  BY <1>1 DEF Halls
<1> SUFFICES ASSUME NEW S \in SUBSET Level!Cell, Keeps(S, h), S \cap Halls(h) # {}
             PROVE  Halls(h) \subseteq S
  BY DEF Linked
<1>4. Keeps(S, g) /\ (c \in S => n \in S) /\ (n \in S => c \in S)
  BY <1>1, <1>2 DEF Keeps
<1>5. S \cap Halls(g) # {}
  BY <1>3, <1>4
<1>6. Halls(g) \subseteq S
  BY <1>4, <1>5 DEF Linked
<1>7. QED
  BY <1>3, <1>4, <1>6

-----------------------------------------------------------------------------
(* Who stands somewhere reaches what no opening leaves: every round of the  *)
(* walk adds a cell or none is left to add.                                *)

LEMMA CellsCounted == Cardinality(Level!Cell) = Width * Height
<1>1. 0 \in Int /\ Width - 1 \in Int /\ Height - 1 \in Int
      /\ ~(0 > Width - 1) /\ ~(0 > Height - 1)
  BY Grid
<1>2. /\ IsFiniteSet(0..(Width - 1)) /\ Cardinality(0..(Width - 1)) = Width
      /\ IsFiniteSet(0..(Height - 1)) /\ Cardinality(0..(Height - 1)) = Height
  <2>1. (Width - 1) - 0 + 1 = Width /\ (Height - 1) - 0 + 1 = Height
    BY Grid
  <2>2. QED
    BY <1>1, <2>1, FS_Interval
<1> DEFINE A == 0..(Width - 1)
           B == 0..(Height - 1)
<1>3. Level!Cell = A \X B
  BY DEF Level!Cell
<1> HIDE DEF A, B
<1>4. Cardinality(A \X B) = Cardinality(A) * Cardinality(B)
  BY <1>2, FS_Product DEF A, B
<1>5. QED
  BY <1>2, <1>3, <1>4 DEF A, B

Ways(S) == {y \in S \X Level!Dir : y[2] \in Level!CellByte(y[1])}
Beyond(S) == {Level!Neighbor(x[1], x[2]) : x \in Ways(S)}

LEMMA ReachGoes ==
    ASSUME NEW c \in Level!Cell,
           \A x \in Level!Cell : \A d \in Level!CellByte(x) : Level!Neighbor(x, d) \in Level!Cell
    PROVE  \E f : /\ f[0] = {c} /\ Level!Reach(c) = f[Width * Height]
                  /\ \A n \in 0..(Width * Height) : f[n] \in SUBSET Level!Cell
                  /\ \A n \in 1..(Width * Height) : f[n] = f[n - 1] \cup Beyond(f[n - 1])
<1> DEFINE S == SUBSET Level!Cell
           m == Width * Height
           N(s) == s \cup Beyond(s)
           g == [p \in S \X (1..m) |-> N(p[1])]
           L(f) == [n \in 0..m |-> IF n = 0 THEN {c} ELSE N(f[n - 1])]
           r == CHOOSE f : f = L(f)
<1>1. m \in Nat
  BY Grid
<1>2. ASSUME NEW s \in S PROVE N(s) \in S
  <2>1. \A y \in Ways(s) : Level!Neighbor(y[1], y[2]) \in Level!Cell
    BY DEF Ways
  <2>2. QED
    BY <2>1 DEF Beyond
<1>3. Level!Reach(c) = r[m]
  BY DEF Level!Reach, Beyond, Ways
<1>4. {c} \in S
  OBVIOUS
<1> HIDE DEF S, N, m
<1>5. g \in [S \X (1..m) -> S] /\ \A s \in S, k \in 1..m : g[<<s, k>>] = N(s)
  BY <1>2
<1> HIDE DEF g
<1>6. PICK h \in [0..m -> S] : Goes(h, {c}, m, g)
  BY <1>1, <1>4, <1>5, Recurs
<1>7. \A n \in 1..m : h[n] = N(h[n - 1])
  <2>1. \A n \in 1..m : h[n - 1] \in S
    BY <1>1, <1>6
  <2>2. QED
    BY <1>5, <1>6, <2>1 DEF Goes
<1>8. h = L(h)
  <2>1. \A n \in 0..m : h[n] = L(h)[n]
    BY <1>1, <1>6, <1>7 DEF Goes
  <2>2. QED
    BY <1>6, <2>1
<1> HIDE DEF L
<1>9. r = L(r)
  BY <1>8
<1> HIDE DEF r
<1>10. r[0] = {c} /\ \A n \in 1..m : r[n] = N(r[n - 1])
  <2>1. \A n \in 0..m : r[n] = IF n = 0 THEN {c} ELSE N(r[n - 1])
    BY <1>9 DEF L
  <2>2. 0 \in 0..m /\ \A n \in 1..m : n \in 0..m /\ n # 0
    BY <1>1
  <2>3. QED
    BY <2>1, <2>2
<1>11. \A n \in 0..m : r[n] \in S
  <2>1. \A n \in 1..m : r[n - 1] \in S => r[n] \in S
    BY <1>2, <1>10
  <2>2. r[0] \in S
    BY <1>4, <1>10
  <2>3. QED
    BY <1>1, <2>1, <2>2, Stays
<1>12. QED
  BY <1>3, <1>10, <1>11 DEF N, S, m

LEMMA ReachAll ==
    ASSUME NEW c \in Level!Cell,
           \A x \in Level!Cell : \A d \in Level!CellByte(x) :
              d \in Level!Dir /\ Level!Neighbor(x, d) \in Level!Cell
    PROVE  /\ c \in Level!Reach(c) /\ Level!Reach(c) \in SUBSET Level!Cell
           /\ \A x \in Level!Reach(c) : \A d \in Level!CellByte(x) :
                 Level!Neighbor(x, d) \in Level!Reach(c)
<1> DEFINE m == Width * Height
<1>1. m \in Nat /\ m = Cardinality(Level!Cell)
  BY Grid, CellsCounted
<1>2. PICK f : /\ f[0] = {c} /\ Level!Reach(c) = f[m]
               /\ \A n \in 0..m : f[n] \in SUBSET Level!Cell
               /\ \A n \in 1..m : f[n] = f[n - 1] \cup Beyond(f[n - 1])
  BY ReachGoes
<1> HIDE DEF m
<1>3. \A S \in SUBSET Level!Cell : /\ IsFiniteSet(S) /\ Cardinality(S) \in Nat
                                   /\ Cardinality(S) <= m
  BY <1>1, GridFinite, FS_Subset, FS_CardinalityType
<1> DEFINE P == {n \in Nat : n <= m =>
                    /\ c \in f[n]
                    /\ Beyond(f[n]) \subseteq f[n] \/ Cardinality(f[n]) >= n + 1}
<1>4. P \in SUBSET Nat /\ 0 \in P
  <2>1. Cardinality({c}) = 1
    BY FS_Singleton
  <2>2. c \in f[0] /\ Cardinality(f[0]) = 1 /\ 1 >= 0 + 1
    BY <1>2, <2>1
  <2>3. QED
    BY <2>2
<1>5. ASSUME NEW n \in P PROVE n + 1 \in P
  <2> SUFFICES ASSUME n + 1 <= m
               PROVE  /\ c \in f[n + 1]
                      /\ \/ Beyond(f[n + 1]) \subseteq f[n + 1]
                         \/ Cardinality(f[n + 1]) >= (n + 1) + 1
    OBVIOUS
  <2>1. n \in Nat /\ n \in 0..m /\ n + 1 \in 1..m /\ n + 1 \in 0..m /\ (n + 1) - 1 = n /\ n <= m
    BY <1>1
  <2>2. c \in f[n] /\ (Beyond(f[n]) \subseteq f[n] \/ Cardinality(f[n]) >= n + 1)
    BY <2>1
  <2>3. f[n + 1] = f[n] \cup Beyond(f[n])
    BY <1>2, <2>1
  <2>4. f[n] \in SUBSET Level!Cell /\ f[n + 1] \in SUBSET Level!Cell
    BY <1>2, <2>1
  <2> DEFINE s == f[n]
             t == f[n + 1]
  <2>5. CASE Beyond(s) \subseteq s
    <3>1. t = s
      BY <2>3, <2>5
    <3>2. QED
      BY <2>2, <2>5, <3>1
  <2>6. CASE ~(Beyond(s) \subseteq s)
    <3>1. s \subseteq t /\ s # t /\ Cardinality(s) >= n + 1
      BY <2>2, <2>3, <2>6
    <3>2. IsFiniteSet(t) /\ Cardinality(t) \in Nat /\ Cardinality(s) \in Nat
      BY <1>3, <2>4
    <3>3. Cardinality(s) <= Cardinality(t) /\ Cardinality(s) # Cardinality(t)
      BY <3>1, <3>2, FS_Subset
    <3> HIDE DEF s, t
    <3>4. Cardinality(t) >= (n + 1) + 1
      BY <2>1, <3>1, <3>2, <3>3
    <3>5. QED
      BY <2>2, <2>3, <3>4 DEF t, s
  <2>7. QED
    BY <2>5, <2>6
<1> HIDE DEF P
<1>6. m \in P
  BY <1>1, <1>4, <1>5, Induct
<1>7. m \in 0..m /\ m <= m
  BY <1>1
<1>8. c \in f[m] /\ (Beyond(f[m]) \subseteq f[m] \/ Cardinality(f[m]) >= m + 1)
      /\ f[m] \in SUBSET Level!Cell
  BY <1>2, <1>6, <1>7 DEF P
<1>9. Beyond(f[m]) \subseteq f[m]
  <2>1. Cardinality(f[m]) \in Nat /\ Cardinality(f[m]) <= m
    BY <1>3, <1>8
  <2>2. QED
    BY <1>1, <1>8, <2>1
<1>10. ASSUME NEW x \in f[m], NEW d \in Level!CellByte(x) PROVE Level!Neighbor(x, d) \in f[m]
  <2>1. <<x, d>> \in Ways(f[m])
    BY <1>8 DEF Ways
  <2>2. Level!Neighbor(x, d) \in Beyond(f[m])
    BY <2>1 DEF Beyond
  <2>3. QED
    BY <1>9, <2>2
<1>11. QED
  BY <1>2, <1>8, <1>10

-----------------------------------------------------------------------------
(* A level is connected.                                                   *)

Joined ==
    /\ WellLaid(room)
    /\ Level!Walled = {} => /\ phase = "corridors" => Tunnels
                            /\ Swept => Linked(cells)
    /\ entry # Level!Nowhere =>
         phase = "done" /\ (Level!Gates # {} => entry \in Level!Cell /\ Level!IsRoom(entry))

LEMMA LinkedSame ==
    ASSUME UNCHANGED room, Linked(cells') PROVE Linked(cells)'
BY DEF Linked, Halls, Keeps, Level!IsRoom

LEMMA JoinedKeep ==
    ASSUME Joined, UNCHANGED <<room, entry>>, phase # "done",
           Level!Walled = {} => /\ phase' = "corridors" => Tunnels'
                                /\ Swept' => Linked(cells')
    PROVE  Joined'
<1>1. entry' = Level!Nowhere
  BY DEF Joined
<1>2. WellLaid(room)' /\ Level!Walled' = Level!Walled
  BY DEF Joined, WellLaid, Spreads, Passes, Level!Walled, Level!IsRoom
<1>3. QED
  BY <1>1, <1>2, LinkedSame DEF Joined

LEMMA JoinedStays ==
    ASSUME Joined, UNCHANGED <<plan, phase, i, cells, room, left, at, entry>> PROVE Joined'
<1>1. WellLaid(room)' /\ Level!Walled' = Level!Walled /\ Level!Gates' = Level!Gates
  BY DEF Joined, WellLaid, Spreads, Passes, Level!Walled, Level!IsRoom, Level!Gates,
     Level!NodeCell, Level!Placed
<1>2. Tunnels => Tunnels'
  BY TunnelsSame DEF Tunnels
<1>3. Linked(cells) => Linked(cells)'
  BY LinkedSame
<1>4. QED
  BY <1>1, <1>2, <1>3 DEF Joined, Swept, Level!IsRoom

LEMMA JoinedInit == Init => Joined
<1> SUFFICES ASSUME Init PROVE Joined
  OBVIOUS
<1>1. phase = "rooms" /\ room = [c \in Level!Cell |-> Level!NoRoom] /\ entry = Level!Nowhere
  BY DEF Init, Level!Init, Level!MazeInit
<1>2. WellLaid(room)
  BY <1>1, EmptyGrid
<1>3. QED
  BY <1>1, <1>2 DEF Joined, Swept

LEMMA PlaceRoomJoins ==
    ASSUME Carving, Joined, Level!PlaceRoom, UNCHANGED entry PROVE Joined'
<1>1. phase = "rooms" /\ phase' = "rooms"
  BY DEF Level!PlaceRoom
<1>2. WellLaid(room')
  BY LaidOn DEF Joined
<1>3. QED
  BY <1>1, <1>2 DEF Joined, Swept

LEMMA CorridorsJoin ==
    ASSUME Carving, Joined, UNCHANGED entry,
           Level!BeginCorridors \/ Level!Grow \/ Level!Branch
    PROVE  Joined'
<1>1. CASE Level!BeginCorridors
  <2>1. phase = "rooms" /\ phase' = "corridors" /\ room' = room
    BY <1>1 DEF Level!BeginCorridors
  <2>2. QED
    BY <1>1, <2>1, TunnelsBegin, JoinedKeep DEF Swept
<1>2. CASE Level!Grow
  <2>1. phase = "corridors" /\ phase' = "corridors" /\ room' = room
    BY <1>2 DEF Level!Grow
  <2>2. QED
    BY <1>2, <2>1, TunnelsGrow, JoinedKeep DEF Joined, Swept
<1>3. CASE Level!Branch
  <2>1. phase = "corridors" /\ phase' = "corridors" /\ room' = room
    BY <1>3 DEF Level!Branch
  <2>2. QED
    BY <1>3, <2>1, TunnelsBranch, JoinedKeep DEF Joined, Swept
<1>4. QED
  BY <1>1, <1>2, <1>3

LEMMA ApplyJoins ==
    ASSUME Carving, Joined, Level!ApplyForcedRoomExits, UNCHANGED entry PROVE Joined'
<1>1. /\ phase = "corridors" /\ phase' = "sparsify" /\ room' = room /\ cells' = Level!Forced
      /\ left = 0 \/ (at = Level!Nowhere /\ Level!OpenEnds = {})
  BY DEF Level!ApplyForcedRoomExits
<1>2. ASSUME Level!Walled = {} PROVE Linked(cells')
  <2>1. Empties(cells) = {} /\ Trees(cells)
    BY <1>1, <1>2, AllLit DEF Joined
  <2>2. QED
    BY <1>1, <2>1, LinkedSwept DEF Joined
<1>3. QED
  BY <1>1, <1>2, JoinedKeep

LEMMA SparsifyJoins ==
    ASSUME Carving, Joined, Level!Sparsify, UNCHANGED entry PROVE Joined'
<1>1. PICK c \in Level!Cell : Level!IsDeadEnd(c) /\ \E d \in cells[c] :
        cells' = IF Level!IsRoom(Level!Neighbor(c, d)) THEN cells ELSE Level!Closed(cells, c, d)
  BY DEF Level!Sparsify
<1>2. PICK d \in cells[c] :
        cells' = IF Level!IsRoom(Level!Neighbor(c, d)) THEN cells ELSE Level!Closed(cells, c, d)
  BY <1>1
<1>3. phase = "sparsify" /\ phase' = "sparsify" /\ room' = room
  BY DEF Level!Sparsify
<1>4. /\ cells \in Openings /\ Meets(cells) /\ Floor(c) /\ d \in Level!Dir /\ cells[c] = {d}
      /\ Level!Neighbor(c, d) \in Level!Cell
  <2>1. Level!TypeOK
    BY DEF Carving
  <2>2. ~Level!IsRoom(c) /\ \E e \in Level!Dir : cells[c] = {e}
    BY <1>1, <2>1, DeadEnd
  <2>3. QED
    BY <1>2, <2>2 DEF Carving, Level!TypeOK, Openings, Meets, Floor
<1>5. ASSUME Level!Walled = {} PROVE Linked(cells')
  <2>1. Linked(cells)
    BY <1>3, <1>5 DEF Joined, Swept
  <2>2. CASE Level!IsRoom(Level!Neighbor(c, d))
    BY <1>2, <2>1, <2>2
  <2>3. CASE ~Level!IsRoom(Level!Neighbor(c, d))
    BY <1>2, <1>4, <2>1, <2>3, LinkedClosed
  <2>4. QED
    BY <2>2, <2>3
<1>6. QED
  BY <1>3, <1>5, JoinedKeep

LEMMA WalkJoins ==
    ASSUME Carving, Joined, Level!Walk, UNCHANGED entry PROVE Joined'
<1>1. /\ phase = "removal" /\ phase' = "removal" /\ room' = room /\ at # Level!Nowhere
      /\ \/ \E d \in Level!Outward(at) : cells' = Level!Opened(cells, at, d)
         \/ UNCHANGED cells
  BY DEF Level!Walk
<1>2. at \in Level!Cell /\ cells \in Openings /\ cells[at] # {}
  BY <1>1 DEF Carving, Level!TypeOK, Openings
<1>3. ASSUME Level!Walled = {} PROVE Linked(cells')
  <2>1. Linked(cells)
    BY <1>1, <1>3 DEF Joined, Swept
  <2>2. ASSUME NEW d \in Level!Outward(at), cells' = Level!Opened(cells, at, d)
        PROVE  Linked(cells')
    <3>1. d \in Level!Dir /\ Level!Neighbor(at, d) \in Level!Cell
      BY DEF Level!Outward
    <3>2. QED
      BY <1>2, <2>1, <2>2, <3>1, LinkedOpened
  <2>3. QED
    BY <1>1, <2>1, <2>2
<1>4. QED
  BY <1>1, <1>3, JoinedKeep

LEMMA RemovalJoins ==
    ASSUME Joined, UNCHANGED entry, Level!BeginRemoval \/ Level!NextCell \/ Level!Finish
    PROVE  Joined'
<1>1. /\ phase \in {"sparsify", "removal"} /\ phase' \in {"removal", "done"}
      /\ UNCHANGED <<room, cells>>
  BY DEF Level!BeginRemoval, Level!NextCell, Level!Finish
<1>2. phase # "done" /\ phase' # "corridors" /\ Swept
  BY <1>1 DEF Swept
<1>3. QED
  BY <1>1, <1>2, JoinedKeep DEF Joined

(* A player arrives in a room if a gate leads anywhere.                    *)
LEMMA GatesAre ==
    ASSUME Carving
    PROVE  /\ \A c \in Level!Gates : c \in Level!Cell /\ Level!IsRoom(c)
           /\ Level!Gates # {} => Level!EntryCell \in Level!Cell /\ Level!IsRoom(Level!EntryCell)
<1>1. Len(plan) \in Nat
  BY PlanTyped DEF Carving
<1>2. \A n \in 1..Len(plan) : \A c \in Level!NodeCell(n) : c \in Level!Cell /\ Level!IsRoom(c)
  <2>1. \A n \in 1..Len(plan) : n # 0
    BY <1>1
  <2>2. QED
    BY <2>1 DEF Level!NodeCell, Level!IsRoom, Level!NoRoom
<1>3. \A n \in Level!Placed : n \in 1..Len(plan) /\ n \in Nat /\ Level!NodeCell(n) # {}
  BY <1>1 DEF Level!Placed
<1>4. \A c \in Level!Gates : c \in Level!Cell /\ Level!IsRoom(c)
  BY <1>2, <1>3 DEF Level!Gates
<1>5. ASSUME Level!Gates # {}
      PROVE  Level!EntryCell \in Level!Cell /\ Level!IsRoom(Level!EntryCell)
  <2> DEFINE starts == {n \in Level!Placed : Kind[plan][n] = "start"}
             links == {n \in Level!Placed : Kind[plan][n] = "link"}
             best == IF starts # {} THEN starts
                     ELSE IF links # {} THEN links ELSE Level!Placed
  <2>1. PICK n \in Level!Placed : TRUE
    BY <1>5 DEF Level!Gates
  <2>2. best \subseteq Level!Placed /\ best # {}
    BY <2>1
  <2>3. Level!EntryCell = CHOOSE c \in Level!NodeCell(Level!Lowest(best)) : TRUE
    BY <2>2 DEF Level!EntryCell
  <2> HIDE DEF best
  <2>4. best \in SUBSET Nat
    BY <1>3, <2>2
  <2>5. \E x \in best : \A y \in best : x <= y
    BY <2>2, <2>4, HasLeast
  <2>6. Level!Lowest(best) \in best
    BY <2>5 DEF Level!Lowest
  <2>7. Level!NodeCell(Level!Lowest(best)) # {} /\ Level!Lowest(best) \in 1..Len(plan)
    BY <1>3, <2>2, <2>6
  <2>8. Level!EntryCell \in Level!NodeCell(Level!Lowest(best))
    BY <2>3, <2>7
  <2>9. QED
    BY <1>2, <2>7, <2>8
<1>6. QED
  BY <1>4, <1>5

LEMMA EnterJoins == ASSUME Carving, Joined, Level!Enter PROVE Joined'
<1>1. /\ phase = "done" /\ entry' = Level!EntryCell
      /\ UNCHANGED <<plan, phase, i, cells, room, left, at>>
  BY DEF Level!Enter, Level!maze
<1>2. WellLaid(room)' /\ Level!Walled' = Level!Walled /\ Level!Gates' = Level!Gates
  BY <1>1 DEF Joined, WellLaid, Spreads, Passes, Level!Walled, Level!IsRoom, Level!Gates,
     Level!NodeCell, Level!Placed
<1>3. Linked(cells) => Linked(cells)'
  BY <1>1, LinkedSame
<1>4. Level!Gates # {} => entry' \in Level!Cell /\ Level!IsRoom(entry)'
  BY <1>1, GatesAre DEF Level!IsRoom
<1>5. QED
  BY <1>1, <1>2, <1>3, <1>4 DEF Joined, Swept

LEMMA JoinedNext == ASSUME Carving, Joined, [Next]_vars PROVE Joined'
<1>1. CASE Level!MazeNext /\ UNCHANGED entry
  BY <1>1, PlaceRoomJoins, CorridorsJoin, ApplyJoins, SparsifyJoins, WalkJoins, RemovalJoins
     DEF Level!MazeNext
<1>2. CASE UNCHANGED <<plan, phase, i, cells, room, left, at, entry>>
  BY <1>2, JoinedStays
<1>3. [Next]_vars => \/ Level!MazeNext /\ UNCHANGED entry
                     \/ UNCHANGED <<plan, phase, i, cells, room, left, at, entry>>
                     \/ Level!Enter
  BY DEF Next, vars, dungeonVars, Level!Next, Level!Carve, Level!Leader, Level!level,
     Level!FillCell, Level!maze
<1>4. QED
  BY <1>1, <1>2, <1>3, EnterJoins

LEMMA HallsReached ==
    ASSUME Carving, Swept, Linked(cells), NEW c \in Halls(cells)
    PROVE  Halls(cells) \subseteq Level!Reach(c)
<1>1. c \in Level!Cell /\ cells \in Openings
  BY DEF Halls, Carving, Level!TypeOK, Openings
<1>2. \A x \in Level!Cell : \A d \in Level!CellByte(x) :
            d \in Level!Dir /\ Level!Neighbor(x, d) \in Level!Cell
  BY <1>1, Bytes DEF Carving, Meets, Openings
<1> DEFINE S == Level!Reach(c)
<1>3. c \in S /\ S \in SUBSET Level!Cell
      /\ \A x \in S : \A d \in Level!CellByte(x) : Level!Neighbor(x, d) \in S
  BY <1>1, <1>2, ReachAll
<1> HIDE DEF S
<1>4. Keeps(S, cells)
  BY <1>3, Bytes DEF Keeps
<1>5. QED
  BY <1>3, <1>4 DEF Linked, S

LEMMA JoinedConnects == Carving /\ Joined => Level!Connected
<1> SUFFICES ASSUME Carving, Joined, Level!Walled = {}
             PROVE  IF entry = Level!Nowhere THEN Level!OneMaze
                    ELSE Level!Gates \subseteq Level!Reach(entry)
  BY DEF Level!Connected
<1>1. CASE entry = Level!Nowhere
  <2> SUFFICES ASSUME phase = "done" PROVE Level!OneMaze
    BY <1>1 DEF Level!OneMaze, Level!Ended
  <2>1. Swept /\ Linked(cells)
    BY DEF Joined, Swept
  <2>2. {c \in Level!Cell : Level!CellByte(c) # {}} \subseteq Halls(cells)
    BY <2>1, Bytes DEF Halls
  <2>3. QED
    BY <2>1, <2>2, HallsReached DEF Level!OneMaze
<1>2. CASE entry # Level!Nowhere
  <2>1. Swept /\ Linked(cells)
    BY <1>2 DEF Joined, Swept
  <2>2. ASSUME NEW c \in Level!Gates PROVE c \in Level!Reach(entry)
    <3>1. c \in Halls(cells)
      BY GatesAre DEF Halls
    <3>2. entry \in Halls(cells)
      BY <1>2, <2>2 DEF Joined, Halls
    <3>3. QED
      BY <2>1, <3>1, <3>2, HallsReached
  <2>3. QED
    BY <1>2, <2>2
<1>3. QED
  BY <1>1, <1>2

(* Whatever the rooms and the draws: unless rooms wall in a cell, whoever   *)
(* stands in a level can walk to all of it, and who arrives there to every  *)
(* gate.                                                                   *)
THEOREM LevelsConnect == Spec => []LevelConnected
<1>1. Init => Carving /\ Joined
  BY CarvingInit, JoinedInit
<1>2. Carving /\ Joined /\ [Next]_vars => Carving' /\ Joined'
  BY CarvingNext, JoinedNext
<1>3. Carving /\ Joined => LevelConnected
  BY JoinedConnects DEF LevelConnected
<1>4. QED
  BY <1>1, <1>2, <1>3, PTL DEF Spec

-----------------------------------------------------------------------------
(* What is left to do.                                                     *)

LEMMA IdleIs ==
    /\ at = Level!Nowhere => Level!Idle = 1
    /\ at # Level!Nowhere /\ Level!Free(at) = {} => Level!Idle = 2
    /\ at # Level!Nowhere /\ Level!Free(at) # {} => Level!Idle = 0
BY Zenon DEF Level!Idle

LEMMA IdleNext ==
    /\ at' = Level!Nowhere => Level!Idle' = 1
    /\ at' # Level!Nowhere /\ Level!Free(at)' = {} => Level!Idle' = 2
    /\ at' # Level!Nowhere /\ Level!Free(at)' # {} => Level!Idle' = 0
BY Zenon DEF Level!Idle

LEMMA Phases ==
    /\ "rooms" # "corridors" /\ "rooms" # "sparsify" /\ "rooms" # "removal" /\ "rooms" # "done"
    /\ "corridors" # "sparsify" /\ "corridors" # "removal" /\ "corridors" # "done"
    /\ "sparsify" # "removal" /\ "sparsify" # "done" /\ "removal" # "done"
OBVIOUS

LEMMA WorkIs ==
    /\ phase = "rooms" => Level!Work = <<4, Len(plan) + 1 - i>>
    /\ phase = "corridors" => Level!Work = <<3, 3 * left + Level!Idle>>
    /\ phase = "sparsify" => Level!Work = <<2, Sparseness + 1 - i>>
    /\ phase = "removal" =>
         Level!Work = <<1, 2 * (Level!Area + 1 - i) + Level!Shut
                           + (IF at = Level!Nowhere THEN 0 ELSE 1)>>
    /\ phase = "done" => Level!Work = <<0, 0>>
<1>1. phase = "rooms" => Level!Work = <<4, Len(plan) + 1 - i>>
  BY Phases, Zenon DEF Level!Work
<1>2. phase = "corridors" => Level!Work = <<3, 3 * left + Level!Idle>>
  BY Phases, Zenon DEF Level!Work
<1>3. phase = "sparsify" => Level!Work = <<2, Sparseness + 1 - i>>
  BY Phases, Zenon DEF Level!Work
<1>4. phase = "removal" =>
         Level!Work = <<1, 2 * (Level!Area + 1 - i) + Level!Shut
                           + (IF at = Level!Nowhere THEN 0 ELSE 1)>>
  BY Phases, Zenon DEF Level!Work
<1>5. phase = "done" => Level!Work = <<0, 0>>
  BY Phases, Zenon DEF Level!Work
<1>6. QED
  BY <1>1, <1>2, <1>3, <1>4, <1>5

LEMMA WorkNext ==
    /\ phase' = "rooms" => Level!Work' = <<4, Len(plan') + 1 - i'>>
    /\ phase' = "corridors" => Level!Work' = <<3, 3 * left' + Level!Idle'>>
    /\ phase' = "sparsify" => Level!Work' = <<2, Sparseness + 1 - i'>>
    /\ phase' = "removal" =>
         Level!Work' = <<1, 2 * (Level!Area + 1 - i') + Level!Shut'
                            + (IF at' = Level!Nowhere THEN 0 ELSE 1)>>
    /\ phase' = "done" => Level!Work' = <<0, 0>>
<1>1. phase' = "rooms" => Level!Work' = <<4, Len(plan') + 1 - i'>>
  BY Phases, Zenon DEF Level!Work
<1>2. phase' = "corridors" => Level!Work' = <<3, 3 * left' + Level!Idle'>>
  BY Phases, Zenon DEF Level!Work
<1>3. phase' = "sparsify" => Level!Work' = <<2, Sparseness + 1 - i'>>
  BY Phases, Zenon DEF Level!Work
<1>4. phase' = "removal" =>
         Level!Work' = <<1, 2 * (Level!Area + 1 - i') + Level!Shut'
                            + (IF at' = Level!Nowhere THEN 0 ELSE 1)>>
  BY Phases, Zenon DEF Level!Work, Level!Area
<1>5. phase' = "done" => Level!Work' = <<0, 0>>
  BY Phases, Zenon DEF Level!Work
<1>6. QED
  BY <1>1, <1>2, <1>3, <1>4, <1>5

Less ==
    /\ Level!Work'[2] >= 0
    /\ \/ Level!Work'[1] < Level!Work[1]
       \/ Level!Work'[1] = Level!Work[1] /\ Level!Work'[2] < Level!Work[2]

LEMMA Falls ==
    ASSUME NEW a \in Int, NEW b \in Int, NEW c \in Int, NEW d \in Int,
           Level!Work = <<a, b>>, Level!Work' = <<c, d>>, d >= 0,
           c < a \/ (c = a /\ d < b)
    PROVE  Less
BY DEF Less

(* The ways that are shut can be counted.                                  *)
ShutWays(g) == {x \in Level!Cell \X Level!Dir : x[2] \notin g[x[1]]}

LEMMA ShutCounted ==
    ASSUME NEW g PROVE IsFiniteSet(ShutWays(g)) /\ Cardinality(ShutWays(g)) \in Nat
<1>1. IsFiniteSet(Level!Cell \X Level!Dir)
  BY GridFinite, FS_Product
<1>2. ShutWays(g) \in SUBSET (Level!Cell \X Level!Dir)
  BY DEF ShutWays
<1>3. QED
  BY <1>1, <1>2, FS_Subset, FS_CardinalityType

LEMMA ShutIs ==
    /\ Level!Shut = Cardinality(ShutWays(cells)) /\ Level!Shut' = Cardinality(ShutWays(cells'))
    /\ Level!Shut \in Nat /\ Level!Shut' \in Nat /\ Level!Area \in Nat
    /\ Level!Area = Width * Height
<1>1. Level!Shut = Cardinality(ShutWays(cells))
  BY GridFinite DEF Level!Shut, ShutWays
<1>2. Level!Shut' = Cardinality(ShutWays(cells'))
  BY GridFinite DEF Level!Shut, ShutWays
<1>3. QED
  BY <1>1, <1>2, ShutCounted, Grid DEF Level!Area

LEMMA PlaceRoomLess == ASSUME Carving, Level!PlaceRoom PROVE Less
<1>1. /\ phase = "rooms" /\ phase' = "rooms" /\ i <= Len(plan) /\ i' = i + 1 /\ plan' = plan
  BY DEF Level!PlaceRoom
<1>2. Len(plan) \in Nat /\ i \in Nat
  BY PlanTyped DEF Carving, Level!TypeOK
<1>3. /\ Level!Work = <<4, Len(plan) + 1 - i>> /\ Level!Work' = <<4, Len(plan) + 1 - (i + 1)>>
  BY <1>1, WorkIs, WorkNext
<1> DEFINE b == Len(plan) + 1 - i
           d == Len(plan) + 1 - (i + 1)
<1>4. b \in Int /\ d \in Int /\ d >= 0 /\ d < b /\ 4 \in Int
  BY <1>1, <1>2
<1> HIDE DEF b, d
<1>5. Level!Work = <<4, b>> /\ Level!Work' = <<4, d>>
  BY <1>3 DEF b, d
<1>6. QED
  BY <1>4, <1>5, Falls

LEMMA BeginCorridorsLess == ASSUME Carving, Level!BeginCorridors PROVE Less
<1>1. phase = "rooms" /\ phase' = "corridors"
  BY DEF Level!BeginCorridors
<1>2. Len(plan) \in Nat /\ i \in Nat /\ left' \in Nat
  BY PlanTyped, BeginCorridorsKeeps DEF Carving, Level!TypeOK
<1>3. PICK e \in 0..2 : Level!Idle' = e
  BY IdleNext
<1> DEFINE b == Len(plan) + 1 - i
           d == 3 * left' + e
<1>4. b \in Int
  BY <1>2
<1>7. d \in Int /\ d >= 0
  <2>1. left' \in Nat
    BY <1>2
  <2>2. \A k \in Nat : 3 * k + e \in Int /\ 3 * k + e >= 0
    BY <1>3
  <2>3. QED
    BY <2>1, <2>2
<1>8. 4 \in Int /\ 3 \in Int /\ 3 < 4
  OBVIOUS
<1>5. Level!Work = <<4, b>> /\ Level!Work' = <<3, d>>
  BY <1>1, <1>3, WorkIs, WorkNext
<1> HIDE DEF b, d
<1>6. QED
  BY <1>4, <1>5, <1>7, <1>8, Falls

LEMMA GrowLess == ASSUME Carving, Level!Grow PROVE Less
<1>1. /\ phase = "corridors" /\ phase' = "corridors" /\ left > 0 /\ at # Level!Nowhere
      /\ \/ Level!Free(at) # {} /\ left' = left - 1
         \/ Level!Free(at) = {} /\ at' = Level!Nowhere /\ left' = left
  BY DEF Level!Grow
<1>2. left \in Nat
  BY DEF Carving, Level!TypeOK
<1>3. PICK e \in 0..2 : Level!Idle' = e
  BY IdleNext
<1>4. PICK o \in 0..2 : Level!Idle = o
  BY IdleIs
<1> DEFINE b == 3 * left + o
           d == 3 * left' + e
<1>5. b \in Int /\ d \in Int /\ d >= 0 /\ d < b /\ 3 \in Int
  <2>1. CASE Level!Free(at) # {} /\ left' = left - 1
    <3>1. o = 0
      BY <1>1, <1>4, <2>1, IdleIs
    <3>2. QED
      BY <1>1, <1>2, <1>3, <2>1, <3>1
  <2>2. CASE Level!Free(at) = {} /\ at' = Level!Nowhere /\ left' = left
    <3>1. o = 2 /\ e = 1
      BY <1>1, <1>3, <1>4, <2>2, IdleIs, IdleNext
    <3>2. QED
      BY <1>1, <1>2, <2>2, <3>1
  <2>3. QED
    BY <1>1, <2>1, <2>2
<1>6. Level!Work = <<3, b>> /\ Level!Work' = <<3, d>>
  BY <1>1, <1>3, <1>4, WorkIs, WorkNext
<1> HIDE DEF b, d
<1>7. QED
  BY <1>5, <1>6, Falls

LEMMA BranchLess == ASSUME Carving, Level!Branch PROVE Less
<1>1. /\ phase = "corridors" /\ phase' = "corridors" /\ at = Level!Nowhere /\ left' = left
      /\ UNCHANGED <<cells, room>>
  BY DEF Level!Branch
<1>2. left \in Nat
  BY DEF Carving, Level!TypeOK
<1>3. at' \in Level!Cell /\ Level!Free(at') # {}
  BY DEF Level!Branch, Level!OpenEnds
<1>4. Level!Free(at)' = Level!Free(at')
  BY <1>1 DEF Level!Free, Level!IsRoom, Level!CellByte, Level!IsEmpty
<1>5. Level!Idle = 1 /\ Level!Idle' = 0
  BY <1>1, <1>3, <1>4, IdleIs, IdleNext, NowhereOut
<1> DEFINE b == 3 * left + Level!Idle
           d == 3 * left' + Level!Idle'
<1>6. b \in Int /\ d \in Int /\ d >= 0 /\ d < b /\ 3 \in Int
  BY <1>1, <1>2, <1>5
<1>7. Level!Work = <<3, b>> /\ Level!Work' = <<3, d>>
  BY <1>1, WorkIs, WorkNext
<1> HIDE DEF b, d
<1>8. QED
  BY <1>6, <1>7, Falls

LEMMA ApplyLess == ASSUME Carving, Level!ApplyForcedRoomExits PROVE Less
<1>1. phase = "corridors" /\ phase' = "sparsify" /\ i' = 1
  BY DEF Level!ApplyForcedRoomExits
<1>2. left \in Nat /\ Sparseness \in Nat
  BY Grid DEF Carving, Level!TypeOK
<1>3. Level!Idle \in 0..2
  BY IdleIs
<1> DEFINE b == 3 * left + Level!Idle
           d == Sparseness + 1 - i'
<1>4. b \in Int /\ d \in Int /\ d >= 0 /\ 3 \in Int /\ 2 \in Int /\ 2 < 3
  BY <1>1, <1>2, <1>3
<1>5. Level!Work = <<3, b>> /\ Level!Work' = <<2, d>>
  BY <1>1, WorkIs, WorkNext
<1> HIDE DEF b, d
<1>6. QED
  BY <1>4, <1>5, Falls

LEMMA SparsifyLess == ASSUME Carving, Level!Sparsify PROVE Less
<1>1. phase = "sparsify" /\ phase' = "sparsify" /\ i <= Sparseness /\ i' = i + 1
  BY DEF Level!Sparsify
<1>2. i \in Nat /\ Sparseness \in Nat
  BY Grid DEF Carving, Level!TypeOK
<1> DEFINE b == Sparseness + 1 - i
           d == Sparseness + 1 - i'
<1>3. b \in Int /\ d \in Int /\ d >= 0 /\ d < b /\ 2 \in Int
  BY <1>1, <1>2
<1>4. Level!Work = <<2, b>> /\ Level!Work' = <<2, d>>
  BY <1>1, WorkIs, WorkNext
<1> HIDE DEF b, d
<1>5. QED
  BY <1>3, <1>4, Falls

LEMMA BeginRemovalLess == ASSUME Carving, Level!BeginRemoval PROVE Less
<1>1. /\ phase = "sparsify" /\ phase' = "removal" /\ i' = 1 /\ at' = Level!Nowhere
      /\ cells' = cells
  BY DEF Level!BeginRemoval, Carving
<1>2. i \in Nat /\ Sparseness \in Nat /\ Level!Area \in Nat
  BY Grid, ShutIs DEF Carving, Level!TypeOK
<1>3. PICK s \in Nat : Level!Shut' = s
  BY ShutIs
<1> DEFINE b == Sparseness + 1 - i
           d == 2 * (Level!Area + 1 - 1) + s + 0
<1>4. b \in Int /\ d \in Int /\ d >= 0 /\ 2 \in Int /\ 1 \in Int /\ 1 < 2
  BY <1>2, <1>3
<1>5. Level!Work = <<2, b>> /\ Level!Work' = <<1, d>>
  BY <1>1, <1>3, WorkIs, WorkNext
<1> HIDE DEF b, d
<1>6. QED
  BY <1>4, <1>5, Falls

LEMMA NextCellLess == ASSUME Carving, Level!NextCell PROVE Less
<1>1. /\ phase = "removal" /\ phase' = "removal" /\ at = Level!Nowhere
      /\ i <= Width * Height /\ i' = i + 1 /\ cells' = cells
  BY DEF Level!NextCell
<1>2. i \in Nat /\ Level!Area \in Nat /\ i <= Level!Area
  BY <1>1, ShutIs DEF Carving, Level!TypeOK
<1>3. PICK s \in Nat : Level!Shut = s /\ Level!Shut' = s
  BY <1>1, ShutIs
<1>4. PICK e \in 0..1 : e = IF at' = Level!Nowhere THEN 0 ELSE 1
  OBVIOUS
<1> DEFINE b == 2 * (Level!Area + 1 - i) + s + 0
           d == 2 * (Level!Area + 1 - (i + 1)) + s + e
<1>5. b \in Int /\ d \in Int /\ d >= 0 /\ d < b /\ 1 \in Int
  BY <1>2, <1>3, <1>4
<1>6. Level!Work = <<1, b>>
  BY <1>1, <1>3, WorkIs
<1>7. Level!Work' = <<1, d>>
  BY <1>1, <1>3, <1>4, WorkNext
<1> HIDE DEF b, d
<1>8. QED
  BY <1>5, <1>6, <1>7, Falls

LEMMA WalkLess == ASSUME Carving, Level!Walk PROVE Less
<1>1. /\ phase = "removal" /\ phase' = "removal" /\ at # Level!Nowhere /\ i' = i
      /\ \/ \E d \in Level!Outward(at) : cells' = Level!Opened(cells, at, d)
         \/ at' = Level!Nowhere /\ cells' = cells
  BY DEF Level!Walk
<1>2. /\ at \in Level!Cell /\ cells \in Openings /\ i \in Nat /\ i <= Level!Area + 1
      /\ Level!Area \in Nat
  BY <1>1, ShutIs DEF Carving, Level!TypeOK, Openings
<1>3. PICK s \in Nat : Level!Shut = s /\ s = Cardinality(ShutWays(cells))
  BY ShutIs
<1>4. PICK t \in Nat : Level!Shut' = t /\ t = Cardinality(ShutWays(cells'))
  BY ShutIs
<1>5. PICK e \in 0..1 : e = IF at' = Level!Nowhere THEN 0 ELSE 1
  OBVIOUS
<1>6. t + e < s + 1
  <2>1. CASE at' = Level!Nowhere /\ cells' = cells
    BY <1>3, <1>4, <1>5, <2>1
  <2>2. ASSUME NEW d \in Level!Outward(at), cells' = Level!Opened(cells, at, d)
        PROVE  t + e < s + 1
    <3> DEFINE n == Level!Neighbor(at, d)
    <3>1. d \in Level!Dir /\ n \in Level!Cell /\ cells[at] # {d}
      BY DEF Level!Outward
    <3>2. d \notin cells[at]
      BY <1>1, <3>1 DEF Carving
    <3> HIDE DEF n
    <3>3. n = Level!Neighbor(at, d)
      BY DEF n
    <3>4. /\ cells'[at] = cells[at] \cup {d}
          /\ cells'[n] = cells[n] \cup {Level!Opposite(d)}
          /\ \A x \in Level!Cell : x # at /\ x # n => cells'[x] = cells[x]
      BY <1>2, <2>2, <3>1, <3>3, OpenedAt
    <3>5. \A x \in Level!Cell : cells[x] \subseteq cells'[x]
      BY <3>4
    <3>6. ShutWays(cells') \in SUBSET ShutWays(cells)
      BY <3>5 DEF ShutWays
    <3>7. <<at, d>> \in ShutWays(cells) /\ <<at, d>> \notin ShutWays(cells')
      BY <1>2, <3>1, <3>2, <3>4 DEF ShutWays
    <3>8. t <= s /\ t # s
      BY <1>3, <1>4, <3>6, <3>7, FS_Subset, ShutCounted
    <3>9. QED
      BY <1>3, <1>4, <1>5, <3>8
  <2>3. QED
    BY <1>1, <2>1, <2>2
<1> DEFINE b == 2 * (Level!Area + 1 - i) + s + 1
           d == 2 * (Level!Area + 1 - i) + t + e
<1>7. b \in Int /\ d \in Int /\ d >= 0 /\ d < b /\ 1 \in Int
  <2>1. PICK a \in Nat : a = Level!Area + 1 - i
    BY <1>2
  <2>2. b = 2 * a + s + 1 /\ d = 2 * a + t + e
    BY <2>1
  <2>3. QED
    BY <1>3, <1>4, <1>5, <1>6, <2>1, <2>2
<1>8. Level!Work = <<1, b>>
  BY <1>1, <1>3, WorkIs
<1>9. Level!Work' = <<1, d>>
  BY <1>1, <1>4, <1>5, WorkNext
<1> HIDE DEF b, d
<1>10. QED
  BY <1>7, <1>8, <1>9, Falls

LEMMA FinishLess == ASSUME Carving, Level!Finish PROVE Less
<1>1. phase = "removal" /\ phase' = "done"
  BY DEF Level!Finish
<1>2. i \in Nat /\ Level!Area \in Nat
  BY ShutIs DEF Carving, Level!TypeOK
<1>3. PICK s \in Nat : Level!Shut = s
  BY ShutIs
<1>4. PICK e \in 0..1 : e = IF at = Level!Nowhere THEN 0 ELSE 1
  OBVIOUS
<1> DEFINE b == 2 * (Level!Area + 1 - i) + s + e
<1>5. b \in Int /\ 1 \in Int /\ 0 \in Int /\ 0 < 1 /\ 0 >= 0
  BY <1>2, <1>3, <1>4
<1>6. Level!Work = <<1, b>>
  BY <1>1, <1>3, <1>4, WorkIs
<1>7. Level!Work' = <<0, 0>>
  BY <1>1, WorkNext
<1> HIDE DEF b
<1>8. QED
  BY <1>5, <1>6, <1>7, Falls

(* Drawing again and again comes to an end, whatever is drawn: every step   *)
(* of the generator leaves less to do than there was.                      *)
THEOREM MazeTerminates == Spec => Terminates
<1>1. Init => Carving
  BY CarvingInit
<1>2. Carving /\ [Next]_vars => Carving'
  BY CarvingNext
<1>3. Carving /\ [Next]_vars => [Less]_(Level!maze)
  <2>1. Carving /\ Level!MazeNext => Less
    BY PlaceRoomLess, BeginCorridorsLess, GrowLess, BranchLess, ApplyLess, SparsifyLess,
       BeginRemovalLess, NextCellLess, WalkLess, FinishLess DEF Level!MazeNext
  <2>2. [Next]_vars => Level!MazeNext \/ UNCHANGED Level!maze
    BY DEF Next, vars, dungeonVars, Level!Next, Level!Carve, Level!Enter, Level!Leader,
       Level!FillCell, Level!maze
  <2>3. QED
    BY <2>1, <2>2
<1>4. QED
  BY <1>1, <1>2, <1>3, PTL DEF Spec, Terminates, Level!Terminates, Less

-----------------------------------------------------------------------------
(* Mobs: which stats a monster is streamed with.  The chain of a node is a  *)
(* path that goes up one node at a time; a database follows it as far as    *)
(* it holds the nodes, and where a node repeats nothing new comes.          *)

Listed == Population!Nodes \cup Chassis
Up(x) == IF x \in Listed THEN Population!Extends(x) ELSE x
Climbs(p, x, n) == p[0] = x /\ \A k \in 1..n : p[k] = Up(p[k - 1])

(* A node with stats, and the stats met first along a path.                *)
Says(x) == x \in Population!Nodes /\ own[x] # 0
Tells(p, n, v) ==
    \/ v = 0 /\ \A k \in 0..n : ~Says(p[k])
    \/ \E k \in 0..n : /\ Says(p[k]) /\ v = own[p[k]]
                       /\ \A j \in 0..(k - 1) : ~Says(p[j])

(* No creature extends a world's mob.                                      *)
Apart == \A c \in Population!Creatures : extends[c] \notin Mobs

LEMMA NodeNames ==
    /\ IsFiniteSet(Listed) /\ Cardinality(Listed) \in Nat
    /\ Population!Nodes = Mobs \cup Population!Creatures
    /\ Mobs \cap Population!Creatures = {} /\ Chassis \cap Population!Nodes = {}
    /\ "StockUnit" \notin Listed /\ MaxHops \in Nat \ {0}
    /\ Population!CreatureDb \subseteq Listed /\ Population!ChassisDb \subseteq Listed
    /\ Population!Creatures = Abstract \cup Species \cup Concrete
<1>1. IsFiniteSet(Listed)
  BY PopulationAssumption
     DEF Population!ContentAssumption, Listed, Population!IsFiniteSet, IsFiniteSet
<1>2. Cardinality(Listed) \in Nat
  BY <1>1, FS_CardinalityType
<1>3. QED
  BY <1>1, <1>2, PopulationAssumption
     DEF Population!ContentAssumption, Listed, Population!Nodes, Population!Creatures,
         Population!CreatureDb, Population!ChassisDb

LEMMA SizeIs == ASSUME NEW S PROVE Population!Cardinality(S) = Cardinality(S)
BY DEF Population!Cardinality, Cardinality

(* There is a path of any length from any node.                            *)
LEMMA PathExists == ASSUME NEW x, NEW n \in Nat PROVE \E p : Climbs(p, x, n)
<1> DEFINE S == Listed \cup {x} \cup {Up(y) : y \in Listed}
           g == [q \in S \X (1..n) |-> Up(q[1])]
<1>1. \A y \in S : Up(y) \in S
  BY DEF Up
<1>2. x \in S
  OBVIOUS
<1>3. g \in [S \X (1..n) -> S] /\ \A y \in S : \A k \in 1..n : g[<<y, k>>] = Up(y)
  BY <1>1
<1> HIDE DEF S, g
<1>4. PICK p \in [0..n -> S] : Goes(p, x, n, g)
  BY <1>2, <1>3, Recurs
<1>5. p[0] = x /\ \A k \in 1..n : p[k] = g[<<p[k - 1], k>>]
  BY <1>4 DEF Goes
<1>6. ASSUME NEW k \in 1..n PROVE p[k] = Up(p[k - 1])
  <2>1. k - 1 \in 0..n
    OBVIOUS
  <2>2. p[k - 1] \in S
    BY <2>1
  <2>3. QED
    BY <1>3, <1>5, <2>2
<1>7. QED
  BY <1>5, <1>6 DEF Climbs

(* Two paths that meet go on together.                                     *)
LEMMA GoTogether ==
    ASSUME NEW p, NEW q, NEW x, NEW y, NEW n \in Nat, NEW m \in Nat,
           Climbs(p, x, n), Climbs(q, y, m),
           NEW a \in Nat, NEW b \in Nat, p[a] = q[b],
           NEW l \in Nat, a + l <= n, b + l <= m
    PROVE  p[a + l] = q[b + l]
<1> DEFINE P == {k \in Nat : a + k <= n /\ b + k <= m => p[a + k] = q[b + k]}
<1>1. P \in SUBSET Nat /\ 0 \in P
  OBVIOUS
<1>2. ASSUME NEW k \in P PROVE k + 1 \in P
  <2> SUFFICES ASSUME a + (k + 1) <= n, b + (k + 1) <= m
               PROVE  p[a + (k + 1)] = q[b + (k + 1)]
    OBVIOUS
  <2>1. k \in Nat /\ p[a + k] = q[b + k]
    OBVIOUS
  <2>2. /\ a + (k + 1) \in 1..n /\ b + (k + 1) \in 1..m
        /\ (a + (k + 1)) - 1 = a + k /\ (b + (k + 1)) - 1 = b + k
    BY <2>1
  <2>3. p[a + (k + 1)] = Up(p[a + k]) /\ q[b + (k + 1)] = Up(q[b + k])
    BY <2>2 DEF Climbs
  <2>4. QED
    BY <2>1, <2>3
<1> HIDE DEF P
<1>3. l \in P
  BY <1>1, <1>2, Induct
<1>4. QED
  BY <1>3 DEF P

LEMMA OnePath ==
    ASSUME NEW p, NEW q, NEW x, NEW n \in Nat, Climbs(p, x, n), Climbs(q, x, n)
    PROVE  p[n] = q[n]
<1> DEFINE P == {k \in Nat : k <= n => p[k] = q[k]}
<1>1. P \in SUBSET Nat /\ 0 \in P
  BY DEF Climbs
<1>2. ASSUME NEW k \in P PROVE k + 1 \in P
  <2> SUFFICES ASSUME k + 1 <= n PROVE p[k + 1] = q[k + 1]
    OBVIOUS
  <2>1. k \in Nat /\ p[k] = q[k] /\ k + 1 \in 1..n /\ (k + 1) - 1 = k
    OBVIOUS
  <2>2. QED
    BY <2>1 DEF Climbs
<1> HIDE DEF P
<1>3. n \in P
  BY <1>1, <1>2, Induct
<1>4. QED
  BY <1>3 DEF P

(* A node that was not on the path before comes no later than there are    *)
(* nodes on the path before it.                                            *)
LEMMA ComesEarly ==
    ASSUME NEW p, NEW x, NEW n \in Nat, Climbs(p, x, n), NEW f \in 0..n,
           NEW D, IsFiniteSet(D), \A j \in 0..(f - 1) : p[j] \in D /\ p[j] # p[f]
    PROVE  f <= Cardinality(D)
<1> DEFINE before == 0..(f - 1)
           place == [j \in before |-> p[j]]
<1>1. ASSUME NEW a \in before, NEW b \in before, a < b, p[a] = p[b] PROVE FALSE
  <2>1. PICK l \in Nat : l = f - b
    BY <1>1
  <2>2. /\ a \in Nat /\ b \in Nat /\ a + l <= n /\ b + l <= n
        /\ a + l \in before /\ b + l = f
    BY <1>1, <2>1
  <2>3. p[a + l] = p[b + l]
    BY <1>1, <2>2, GoTogether
  <2>4. QED
    BY <2>2, <2>3
<1>2. \A a, b \in before : a # b => p[a] # p[b]
  <2> TAKE a, b \in before
  <2>1. a < b \/ b < a \/ a = b
    OBVIOUS
  <2>2. QED
    BY <1>1, <2>1
<1>3. place \in [before -> D] /\ \A a, b \in before : a # b => place[a] # place[b]
  BY <1>2
<1>4. IsFiniteSet(before) /\ Cardinality(before) = f
  <2>1. /\ IsFiniteSet(0..(f - 1))
        /\ Cardinality(0..(f - 1)) = IF 0 > f - 1 THEN 0 ELSE (f - 1) - 0 + 1
    BY FS_Interval
  <2>2. QED
    BY <2>1
<1>5. Cardinality(D) \in Nat
  BY FS_CardinalityType
<1> HIDE DEF before, place
<1>6. ~(Cardinality(D) < Cardinality(before))
  BY <1>3, <1>4, FS_PigeonHole
<1>7. QED
  BY <1>4, <1>5, <1>6

(* The first number of a kind.                                             *)
LEMMA First ==
    ASSUME NEW n \in Nat, NEW I \in SUBSET (0..n), I # {}
    PROVE  \E k \in I : \A j \in 0..(k - 1) : j \notin I
<1>1. I \in SUBSET Nat
  OBVIOUS
<1>2. PICK k \in I : \A j \in I : k <= j
  BY <1>1, HasLeast
<1>3. \A j \in 0..(k - 1) : j < k
  BY <1>1
<1>4. QED
  BY <1>1, <1>2, <1>3

(* A path tells one thing.                                                 *)
LEMMA TellsOne ==
    ASSUME NEW p, NEW n \in Nat, NEW v, NEW u, Tells(p, n, v), Tells(p, n, u)
    PROVE  v = u
<1> USE DEF Tells
<1> HIDE DEF Says
<1>1. CASE \A k \in 0..n : ~Says(p[k])
  BY <1>1
<1>2. CASE ~\A k \in 0..n : ~Says(p[k])
  <2>1. PICK k \in 0..n : /\ Says(p[k]) /\ v = own[p[k]]
                          /\ \A j \in 0..(k - 1) : ~Says(p[j])
    BY <1>2
  <2>2. PICK l \in 0..n : /\ Says(p[l]) /\ u = own[p[l]]
                          /\ \A j \in 0..(l - 1) : ~Says(p[j])
    BY <1>2
  <2>3. ~(k < l) /\ ~(l < k)
    BY <2>1, <2>2
  <2>4. QED
    BY <2>1, <2>2, <2>3
<1>3. QED
  BY <1>1, <1>2

-----------------------------------------------------------------------------
(* What a database makes of a path *)

LEMMA WalkIs ==
    ASSUME NEW db \in SUBSET Listed, NEW x \in Listed
    PROVE  LET w == Population!Walk(db, x)
               c == Cardinality(db)
           IN  /\ c \in Nat /\ DOMAIN w = 0..(c + 1) /\ w[0] = x
               /\ \A k \in 1..(c + 1) :
                    w[k] = IF k = 1 \/ w[k - 1] \in db THEN Population!Extends(w[k - 1])
                           ELSE w[k - 1]
<1> DEFINE c == Cardinality(db)
           S == Listed \cup {Population!Extends(y) : y \in Listed}
           L(f) == [k \in 0..c + 1 |->
                      IF k = 0 THEN x
                      ELSE IF k = 1 \/ f[k - 1] \in db THEN Population!Extends(f[k - 1])
                      ELSE f[k - 1]]
           made == CHOOSE f : f = L(f)
           g == [q \in S \X (1..(c + 1)) |->
                   IF q[1] \in Listed /\ (q[2] = 1 \/ q[1] \in db)
                   THEN Population!Extends(q[1]) ELSE q[1]]
<1>1. c \in Nat /\ c + 1 \in Nat
  BY NodeNames, FS_Subset, FS_CardinalityType
<1>2. g \in [S \X (1..(c + 1)) -> S] /\ x \in S
  OBVIOUS
<1>3. \A y \in S : \A k \in 1..(c + 1) :
        g[<<y, k>>] = IF y \in Listed /\ (k = 1 \/ y \in db) THEN Population!Extends(y) ELSE y
  OBVIOUS
<1> HIDE DEF g, S
<1>4. PICK p \in [0..(c + 1) -> S] : Goes(p, x, c + 1, g)
  BY <1>1, <1>2, Recurs
<1>5. p[0] = x /\ \A k \in 1..(c + 1) : p[k] = g[<<p[k - 1], k>>]
  BY <1>4 DEF Goes
<1> HIDE DEF c
<1>6. ASSUME NEW k \in 1..(c + 1)
      PROVE  p[k] = IF k = 1 \/ p[k - 1] \in db THEN Population!Extends(p[k - 1]) ELSE p[k - 1]
  <2>1. k - 1 \in 0..(c + 1) /\ (k = 1 => k - 1 = 0)
    BY <1>1
  <2>2. p[k - 1] \in S /\ (k = 1 => p[k - 1] \in Listed)
    BY <1>5, <2>1
  <2>3. QED
    BY <1>3, <1>5, <2>2
<1>7. p = L(p)
  <2>1. DOMAIN p = 0..c + 1
    BY <1>1
  <2>2. ASSUME NEW k \in 0..c + 1
        PROVE  p[k] = IF k = 0 THEN x
                      ELSE IF k = 1 \/ p[k - 1] \in db THEN Population!Extends(p[k - 1])
                      ELSE p[k - 1]
    BY <1>1, <1>5, <1>6, <2>2
  <2>3. QED
    BY <2>1, <2>2
<1>8. made = L(made)
  BY <1>7
<1>9. Population!Walk(db, x) = made
  BY SizeIs DEF Population!Walk, c
<1> HIDE DEF made
<1>10. /\ DOMAIN made = 0..(c + 1) /\ made[0] = x
       /\ \A k \in 1..(c + 1) :
            made[k] = IF k = 1 \/ made[k - 1] \in db THEN Population!Extends(made[k - 1])
                      ELSE made[k - 1]
  BY <1>1, <1>8
<1>11. QED
  BY <1>1, <1>9, <1>10 DEF c

(* It is the path, as long as the nodes are in the database, and then it    *)
(* stands still outside.                                                   *)
LEMMA WalkFollows ==
    ASSUME NEW db \in SUBSET Listed, NEW x \in Listed, NEW p, NEW n \in Nat, Climbs(p, x, n)
    PROVE  LET w == Population!Walk(db, x)
               c == Cardinality(db)
           IN  /\ \A k \in 0..(c + 1) : k <= n =>
                    w[k] = p[k] \/ (k # 0 /\ w[k] \notin db)
               /\ \A f \in 0..(c + 1) : (f <= n /\ \A j \in 1..(f - 1) : p[j] \in db) =>
                    \A k \in 0..f : w[k] = p[k]
               /\ \A a, b \in 1..(c + 1) : a <= b /\ w[a] \notin db => w[b] = w[a]
<1> DEFINE w == Population!Walk(db, x)
           c == Cardinality(db)
<1>1. /\ c \in Nat /\ w[0] = x
      /\ \A k \in 1..(c + 1) :
           w[k] = IF k = 1 \/ w[k - 1] \in db THEN Population!Extends(w[k - 1]) ELSE w[k - 1]
  BY WalkIs
<1>2. p[0] = x /\ \A k \in 1..n : p[k] = Up(p[k - 1])
  BY DEF Climbs
<1> HIDE DEF w, c
<1>3. ASSUME NEW k \in 1..(c + 1), k <= n, w[k - 1] = p[k - 1], k = 1 \/ p[k - 1] \in db
      PROVE  w[k] = p[k]
  <2>1. k \in 1..n /\ p[k - 1] \in Listed
    BY <1>2, <1>3
  <2>2. QED
    BY <1>1, <1>2, <1>3, <2>1 DEF Up
<1>4. \A k \in 0..(c + 1) : k <= n => w[k] = p[k] \/ (k # 0 /\ w[k] \notin db)
  <2> DEFINE P == {k \in Nat : k <= n /\ k <= c + 1 => w[k] = p[k] \/ (k # 0 /\ w[k] \notin db)}
  <2>1. P \in SUBSET Nat /\ 0 \in P
    BY <1>1, <1>2
  <2>2. ASSUME NEW k \in P PROVE k + 1 \in P
    <3> SUFFICES ASSUME k + 1 <= n, k + 1 <= c + 1
                 PROVE  w[k + 1] = p[k + 1] \/ w[k + 1] \notin db
      BY <1>1
    <3>1. k \in Nat /\ (w[k] = p[k] \/ (k # 0 /\ w[k] \notin db))
      BY <1>1
    <3>2. k + 1 \in 1..(c + 1) /\ (k + 1) - 1 = k /\ (k + 1 = 1 <=> k = 0)
      BY <1>1, <3>1
    <3>3. CASE k # 0 /\ w[k] \notin db
      <4>1. w[k + 1] = w[k]
        BY <1>1, <3>2, <3>3
      <4>2. QED
        BY <3>3, <4>1
    <3>4. CASE w[k] = p[k] /\ (k = 0 \/ w[k] \in db)
      <4>1. w[k + 1] = p[k + 1]
        BY <1>3, <3>2, <3>4
      <4>2. QED
        BY <4>1
    <3>5. QED
      BY <3>1, <3>3, <3>4
  <2> HIDE DEF P
  <2>3. P = Nat
    BY <2>1, <2>2, Induct
  <2>4. QED
    BY <1>1, <2>3 DEF P
<1>5. ASSUME NEW f \in 0..(c + 1), f <= n, \A j \in 1..(f - 1) : p[j] \in db
      PROVE  \A k \in 0..f : w[k] = p[k]
  <2> DEFINE P == {k \in Nat : k <= f => w[k] = p[k]}
  <2>1. P \in SUBSET Nat /\ 0 \in P
    BY <1>1, <1>2
  <2>2. ASSUME NEW k \in P PROVE k + 1 \in P
    <3> SUFFICES ASSUME k + 1 <= f PROVE w[k + 1] = p[k + 1]
      OBVIOUS
    <3>1. /\ k \in Nat /\ w[k] = p[k] /\ k + 1 \in 1..(c + 1) /\ k + 1 <= n
          /\ (k + 1) - 1 = k /\ (k + 1 = 1 \/ k \in 1..(f - 1))
      BY <1>1, <1>5
    <3>2. QED
      BY <1>3, <1>5, <3>1
  <2> HIDE DEF P
  <2>3. P = Nat
    BY <2>1, <2>2, Induct
  <2>4. QED
    BY <2>3 DEF P
<1>6. ASSUME NEW a \in 1..(c + 1), NEW b \in 1..(c + 1), a <= b, w[a] \notin db
      PROVE  w[b] = w[a]
  <2> DEFINE P == {k \in Nat : a + k <= c + 1 => w[a + k] = w[a]}
  <2>1. P \in SUBSET Nat /\ 0 \in P
    OBVIOUS
  <2>2. ASSUME NEW k \in P PROVE k + 1 \in P
    <3> SUFFICES ASSUME a + (k + 1) <= c + 1 PROVE w[a + (k + 1)] = w[a]
      OBVIOUS
    <3>1. /\ k \in Nat /\ w[a + k] = w[a] /\ a + (k + 1) \in 1..(c + 1)
          /\ (a + (k + 1)) - 1 = a + k /\ a + (k + 1) # 1
      BY <1>1
    <3>2. QED
      BY <1>1, <1>6, <3>1
  <2> HIDE DEF P
  <2>3. P = Nat
    BY <2>1, <2>2, Induct
  <2>4. PICK l \in Nat : a + l = b /\ a + l <= c + 1
    <3>1. b - a \in Nat /\ a + (b - a) = b
      BY <1>1, <1>6
    <3>2. QED
      BY <3>1
  <2>5. l \in P
    BY <2>3
  <2>6. QED
    BY <2>4, <2>5 DEF P
<1>7. QED
  BY <1>4, <1>5, <1>6 DEF w, c

(* What is flattened out of a database is what the path tells, if the       *)
(* nodes up to the first with stats are in the database.                   *)
LEMMA FlatTells ==
    ASSUME NEW db \in SUBSET Listed, NEW x \in Listed, NEW p, NEW n \in Nat,
           Climbs(p, x, n), Cardinality(db) + 1 <= n,
           \A f \in 0..n : (Says(p[f]) /\ \A j \in 0..(f - 1) : ~Says(p[j])) =>
              f <= Cardinality(db) + 1 /\ \A j \in 1..f : p[j] \in db
    PROVE  Tells(p, n, Population!Flattened(db, x))
<1> DEFINE w == Population!Walk(db, x)
           c == Cardinality(db)
           stated == {k \in DOMAIN w :
                        w[k] \in Population!Nodes /\ (k = 0 \/ w[k] \in db) /\ own[w[k]] # 0}
           best == CHOOSE k \in stated : \A j \in stated : k <= j
<1>1. Population!Flattened(db, x) = IF stated = {} THEN 0 ELSE own[w[best]]
  BY DEF Population!Flattened
<1>2. c \in Nat /\ DOMAIN w = 0..(c + 1)
  BY WalkIs
<1>3. /\ \A k \in 0..(c + 1) : w[k] = p[k] \/ (k # 0 /\ w[k] \notin db)
      /\ \A f \in 0..(c + 1) : (\A j \in 1..(f - 1) : p[j] \in db) =>
            \A k \in 0..f : w[k] = p[k]
  <2>1. \A k \in 0..(c + 1) : k <= n
    BY <1>2
  <2>2. QED
    BY <2>1, WalkFollows
<1> HIDE DEF w, c
<1>4. \A k \in stated : k \in 0..n /\ w[k] = p[k] /\ Says(p[k])
  BY <1>2, <1>3 DEF Says, c
<1>5. CASE \A k \in 0..n : ~Says(p[k])
  <2>1. stated = {}
    BY <1>4, <1>5
  <2>2. QED
    BY <1>1, <1>5, <2>1 DEF Tells
<1>6. CASE \E k \in 0..n : Says(p[k])
  <2> DEFINE I == {k \in 0..n : Says(p[k])}
  <2>1. I \in SUBSET (0..n) /\ I # {}
    BY <1>6
  <2>2. PICK f \in I : \A j \in 0..(f - 1) : j \notin I
    BY <2>1, First
  <2>3. f \in 0..n /\ Says(p[f]) /\ \A j \in 0..(f - 1) : ~Says(p[j])
    BY <2>2
  <2>4. f \in 0..(c + 1) /\ \A j \in 1..f : p[j] \in db
    BY <1>2, <2>3 DEF c
  <2>5. \A k \in 0..f : w[k] = p[k]
    BY <1>3, <2>4
  <2>6. f \in stated /\ w[f] = p[f]
    BY <1>2, <2>3, <2>4, <2>5 DEF Says
  <2>7. \A j \in stated : f <= j
    BY <1>4, <2>3
  <2>8. best = f
    <3>1. best \in stated /\ \A j \in stated : best <= j
      BY <2>6, <2>7
    <3>2. \A k \in stated : k \in Nat
      BY <1>4
    <3> HIDE DEF best, stated
    <3>3. best \in Nat /\ f \in Nat /\ best <= f /\ f <= best
      BY <2>6, <2>7, <3>1, <3>2
    <3>4. QED
      BY <3>3
  <2>9. Population!Flattened(db, x) = own[p[f]]
    BY <1>1, <2>6, <2>8
  <2>10. QED
    BY <2>3, <2>9 DEF Tells
<1>7. QED
  BY <1>5, <1>6

(* A path that has left the content does not come back.                    *)
LEMMA StaysOutside ==
    ASSUME NEW p, NEW x, NEW n \in Nat, Climbs(p, x, n),
           NEW a \in 0..n, NEW b \in 0..n, a <= b, p[a] \notin Population!Nodes
    PROVE  p[b] \notin Population!Nodes
<1> DEFINE P == {k \in Nat : a + k <= n => p[a + k] \notin Population!Nodes}
<1>1. P \in SUBSET Nat /\ 0 \in P
  OBVIOUS
<1>2. ASSUME NEW k \in P PROVE k + 1 \in P
  <2> SUFFICES ASSUME a + (k + 1) <= n PROVE p[a + (k + 1)] \notin Population!Nodes
    OBVIOUS
  <2>1. /\ k \in Nat /\ p[a + k] \notin Population!Nodes
        /\ a + (k + 1) \in 1..n /\ (a + (k + 1)) - 1 = a + k
    OBVIOUS
  <2>2. p[a + (k + 1)] = Up(p[a + k])
    BY <2>1 DEF Climbs
  <2>3. QED
    BY <2>1, <2>2, NodeNames DEF Up, Population!Extends, Listed
<1> HIDE DEF P
<1>3. P = Nat
  BY <1>1, <1>2, Induct
<1>4. PICK l \in Nat : a + l = b /\ a + l <= n
  <2>1. b - a \in Nat /\ a + (b - a) = b
    OBVIOUS
  <2>2. QED
    BY <2>1
<1>5. l \in P
  BY <1>3
<1>6. QED
  BY <1>4, <1>5 DEF P

(* Above a creature there are no mobs.                                     *)
LEMMA AboveCreatures ==
    ASSUME Apart, NEW x, NEW p, NEW n \in Nat, Climbs(p, x, n), Up(x) \notin Mobs
    PROVE  \A k \in 1..n : p[k] \notin Mobs
<1> DEFINE P == {k \in Nat : k + 1 <= n => p[k + 1] \notin Mobs}
<1>1. P \in SUBSET Nat
  OBVIOUS
<1>2. 0 \in P
  <2> SUFFICES ASSUME 1 <= n PROVE p[1] \notin Mobs
    OBVIOUS
  <2>1. 1 \in 1..n /\ 1 - 1 = 0
    OBVIOUS
  <2>2. p[1] = Up(p[0]) /\ p[0] = x
    BY <2>1 DEF Climbs
  <2>3. QED
    BY <2>2
<1>3. ASSUME NEW k \in P PROVE k + 1 \in P
  <2> SUFFICES ASSUME (k + 1) + 1 <= n PROVE p[(k + 1) + 1] \notin Mobs
    OBVIOUS
  <2>1. /\ k \in Nat /\ p[k + 1] \notin Mobs
        /\ (k + 1) + 1 \in 1..n /\ ((k + 1) + 1) - 1 = k + 1
    OBVIOUS
  <2>2. p[(k + 1) + 1] = Up(p[k + 1])
    BY <2>1 DEF Climbs
  <2>3. QED
    BY <2>1, <2>2, NodeNames DEF Up, Population!Extends, Listed, Apart
<1> HIDE DEF P
<1>4. P = Nat
  BY <1>1, <1>2, <1>3, Induct
<1>5. ASSUME NEW k \in 1..n PROVE p[k] \notin Mobs
  <2>1. PICK l \in Nat : l + 1 = k /\ l + 1 <= n
    <3>1. k - 1 \in Nat /\ (k - 1) + 1 = k
      OBVIOUS
    <3>2. QED
      BY <3>1
  <2>2. l \in P
    BY <1>4
  <2>3. QED
    BY <2>1, <2>2 DEF P
<1>6. QED
  BY <1>5

-----------------------------------------------------------------------------
(* What client and server make of one node *)

(* The nodes up to the first one that says something are all different.    *)
LEMMA SaysEarly ==
    ASSUME NEW x \in Population!Nodes, NEW p, NEW n \in Nat, Climbs(p, x, n), NEW f \in 0..n,
           Says(p[f]), \A j \in 0..(f - 1) : ~Says(p[j]),
           NEW D \in SUBSET Listed, \A j \in 1..(f - 1) : p[j] \in D
    PROVE  f <= Cardinality(D) + 1
<1> DEFINE E == D \cup {x}
<1>1. IsFiniteSet(D) /\ Cardinality(D) \in Nat
  BY NodeNames, FS_Subset, FS_CardinalityType
<1>2. /\ IsFiniteSet(E)
      /\ Cardinality(E) = IF x \in D THEN Cardinality(D) ELSE Cardinality(D) + 1
  BY <1>1, FS_AddElement
<1>3. \A j \in 0..(f - 1) : p[j] \in E /\ p[j] # p[f]
  <2>1. p[0] = x
    BY DEF Climbs
  <2>2. QED
    BY <2>1
<1> HIDE DEF E
<1>4. f <= Cardinality(E)
  BY <1>2, <1>3, ComesEarly
<1>5. QED
  BY <1>1, <1>2, <1>4

(* The client: every node is in its database.                              *)
LEMMA ClientTells ==
    ASSUME NEW x \in Population!Nodes, NEW p, NEW n \in Nat, Climbs(p, x, n),
           Cardinality(Listed) + 1 <= n
    PROVE  Tells(p, n, Population!ClientStats(x))
<1>1. ASSUME NEW f \in 0..n, Says(p[f]), \A j \in 0..(f - 1) : ~Says(p[j])
      PROVE  f <= Cardinality(Listed) + 1 /\ \A j \in 1..f : p[j] \in Listed
  <2>1. ASSUME NEW j \in 0..f PROVE p[j] \in Population!Nodes
    BY <1>1, StaysOutside DEF Says
  <2>2. \A j \in 1..f : p[j] \in Listed
    BY <2>1 DEF Listed
  <2>3. \A j \in 1..(f - 1) : p[j] \in Listed
    BY <2>2
  <2>4. QED
    BY <1>1, <2>2, <2>3, SaysEarly
<1>2. x \in Listed /\ Listed \in SUBSET Listed
  BY DEF Listed
<1>3. Tells(p, n, Population!Flattened(Listed, x))
  BY <1>1, <1>2, FlatTells
<1>4. QED
  BY <1>3 DEF Population!ClientStats, Listed

(* The server: the creatures' databases, from a creature or a mob right     *)
(* above the creatures, or a mob with stats of its own.                    *)
LEMMA ServerTells ==
    ASSUME Apart, NEW x \in Population!Nodes, NEW p, NEW n \in Nat, Climbs(p, x, n),
           Cardinality(Listed) + 1 <= n,
           NEW db \in {Population!CreatureDb, Population!ChassisDb},
           Up(x) \notin Mobs \/ Says(x)
    PROVE  Tells(p, n, Population!Flattened(db, x))
<1>1. db \in SUBSET Listed /\ x \in Listed /\ Population!Creatures \subseteq db
  BY NodeNames DEF Listed, Population!CreatureDb, Population!ChassisDb
<1>2. Cardinality(db) \in Nat /\ Cardinality(db) + 1 <= n
  BY <1>1, NodeNames, FS_Subset, FS_CardinalityType
<1>3. ASSUME NEW f \in 0..n, Says(p[f]), \A j \in 0..(f - 1) : ~Says(p[j])
      PROVE  f <= Cardinality(db) + 1 /\ \A j \in 1..f : p[j] \in db
  <2>1. p[0] = x
    BY DEF Climbs
  <2>2. CASE f = 0
    BY <1>2, <2>2
  <2>3. CASE f # 0
    <3>1. ~Says(x)
      BY <1>3, <2>1, <2>3
    <3>2. \A j \in 1..n : p[j] \notin Mobs
      BY <3>1, AboveCreatures
    <3>3. ASSUME NEW j \in 0..f PROVE p[j] \in Population!Nodes
      BY <1>3, StaysOutside DEF Says
    <3>4. ASSUME NEW j \in 1..f PROVE p[j] \in db
      <4>1. j \in 1..n /\ j \in 0..f
        OBVIOUS
      <4>2. QED
        BY <1>1, <3>2, <3>3, <4>1, NodeNames
    <3>5. \A j \in 1..(f - 1) : p[j] \in db
      BY <3>4
    <3>6. f <= Cardinality(db) + 1
      BY <1>1, <1>3, <3>5, SaysEarly
    <3>7. QED
      BY <3>4, <3>6
  <2>4. QED
    BY <2>2, <2>3
<1>4. QED
  BY <1>1, <1>2, <1>3, FlatTells

LEMMA Alike ==
    ASSUME Apart, NEW x \in Population!Nodes, Up(x) \notin Mobs \/ Says(x),
           NEW db \in {Population!CreatureDb, Population!ChassisDb}
    PROVE  Population!Flattened(db, x) = Population!ClientStats(x)
<1>1. PICK n \in Nat : n = Cardinality(Listed) + 1
  BY NodeNames
<1>2. PICK p : Climbs(p, x, n)
  BY PathExists
<1>3. Cardinality(Listed) + 1 <= n
  BY <1>1, NodeNames
<1>4. QED
  BY <1>2, <1>3, ClientTells, ServerTells, TellsOne

(* The creature a mob is chased to is on its path, behind mobs only.       *)
LEMMA ChasedIs ==
    ASSUME NEW m \in Mobs, NEW p, NEW n \in Nat, Climbs(p, m, n), MaxHops <= n
    PROVE  \E h \in 1..MaxHops : /\ p[h] = Population!Chased(m)
                                 /\ \A j \in 0..(h - 1) : p[j] \in Mobs
                                 /\ h = MaxHops \/ p[h] \notin Mobs
<1> DEFINE S == {extends[y] : y \in Mobs}
           L(f) == [k \in 0..MaxHops - 1 |->
                      IF k = 0 THEN extends[m]
                      ELSE IF f[k - 1] \in Mobs THEN extends[f[k - 1]] ELSE f[k - 1]]
           made == CHOOSE f : f = L(f)
           g == [q \in S \X (1..(MaxHops - 1)) |-> IF q[1] \in Mobs THEN extends[q[1]] ELSE q[1]]
<1>1. PICK l \in Nat : l + 1 = MaxHops /\ l = MaxHops - 1
  <2>1. MaxHops - 1 \in Nat /\ (MaxHops - 1) + 1 = MaxHops
    BY NodeNames
  <2>2. QED
    BY <2>1
<1>2. /\ g \in [S \X (1..l) -> S] /\ extends[m] \in S
      /\ \A y \in S : \A k \in 1..l : g[<<y, k>>] = IF y \in Mobs THEN extends[y] ELSE y
  BY <1>1
<1> HIDE DEF g, S
<1>3. PICK f \in [0..l -> S] : Goes(f, extends[m], l, g)
  BY <1>1, <1>2, Recurs
<1>4. f[0] = extends[m] /\ \A k \in 1..l : f[k] = g[<<f[k - 1], k>>]
  BY <1>3 DEF Goes
<1>5. ASSUME NEW k \in 1..l
      PROVE  f[k] = IF f[k - 1] \in Mobs THEN extends[f[k - 1]] ELSE f[k - 1]
  <2>1. k - 1 \in 0..l
    BY <1>1
  <2>2. f[k - 1] \in S
    BY <2>1
  <2>3. QED
    BY <1>2, <1>4, <2>2
<1>6. f = L(f)
  <2>1. DOMAIN f = 0..MaxHops - 1
    BY <1>1
  <2>2. ASSUME NEW k \in 0..MaxHops - 1
        PROVE  f[k] = IF k = 0 THEN extends[m]
                      ELSE IF f[k - 1] \in Mobs THEN extends[f[k - 1]] ELSE f[k - 1]
    BY <1>1, <1>4, <1>5, <2>2
  <2>3. QED
    BY <2>1, <2>2
<1>7. made = L(made)
  BY <1>6
<1>8. Population!Chased(m) = made[l]
  BY <1>1 DEF Population!Chased
<1> HIDE DEF made
<1>9. made[0] = extends[m] /\ \A k \in 1..l :
        made[k] = IF made[k - 1] \in Mobs THEN extends[made[k - 1]] ELSE made[k - 1]
  BY <1>1, <1>7
<1>10. p[0] = m /\ \A k \in 1..n : p[k] = Up(p[k - 1])
  BY DEF Climbs
<1>11. \A y \in Mobs : Up(y) = extends[y]
  BY NodeNames DEF Up, Population!Extends, Listed
<1> DEFINE At(k, h) == /\ p[h] = made[k] /\ \A j \in 0..(h - 1) : p[j] \in Mobs
                       /\ h = k + 1 \/ p[h] \notin Mobs
           P == {k \in Nat : k <= l => \E h \in 1..(k + 1) : At(k, h)}
<1>12. P \in SUBSET Nat
  OBVIOUS
<1>13. 0 \in P
  <2>1. 1 \in 1..n /\ 1 - 1 = 0
    BY <1>1
  <2>2. p[1] = made[0] /\ p[0] \in Mobs
    BY <1>9, <1>10, <1>11, <2>1
  <2>3. At(0, 1) /\ 1 \in 1..(0 + 1)
    BY <2>2
  <2>4. QED
    BY <2>3
<1>14. ASSUME NEW k \in P PROVE k + 1 \in P
  <2> SUFFICES ASSUME k + 1 <= l PROVE \E h \in 1..((k + 1) + 1) : At(k + 1, h)
    OBVIOUS
  <2>1. k \in Nat /\ k <= l
    BY <1>1
  <2>2. PICK h \in 1..(k + 1) : At(k, h)
    BY <2>1
  <2>3. /\ k + 1 \in 1..l /\ (k + 1) - 1 = k
        /\ (k + 1) + 1 \in 1..n /\ ((k + 1) + 1) - 1 = k + 1
    BY <1>1, <2>1
  <2>4. made[k + 1] = IF made[k] \in Mobs THEN extends[made[k]] ELSE made[k]
    BY <1>9, <2>3
  <2>5. CASE made[k] \in Mobs
    <3>1. h = k + 1 /\ p[k + 1] = made[k]
      BY <2>2, <2>5
    <3>2. p[(k + 1) + 1] = made[k + 1]
      BY <1>10, <1>11, <2>3, <2>4, <2>5, <3>1
    <3>3. \A j \in 0..(((k + 1) + 1) - 1) : p[j] \in Mobs
      <4>1. \A j \in 0..(((k + 1) + 1) - 1) : j = k + 1 \/ j \in 0..(h - 1)
        BY <2>1, <3>1
      <4>2. QED
        BY <2>2, <2>5, <3>1, <4>1
    <3>4. At(k + 1, (k + 1) + 1) /\ (k + 1) + 1 \in 1..((k + 1) + 1)
      BY <2>1, <3>2, <3>3
    <3>5. QED
      BY <3>4
  <2>6. CASE made[k] \notin Mobs
    <3>1. At(k + 1, h) /\ h \in 1..((k + 1) + 1)
      BY <2>1, <2>2, <2>4, <2>6
    <3>2. QED
      BY <3>1
  <2>7. QED
    BY <2>5, <2>6
<1>15. P = Nat
  <2> HIDE DEF P
  <2>1. QED
    BY <1>12, <1>13, <1>14, Induct
<1>16. \E h \in 1..(l + 1) : At(l, h)
  <2>1. l \in P /\ l <= l
    BY <1>1, <1>15
  <2> HIDE DEF At
  <2>2. QED
    BY <2>1
<1>17. QED
  BY <1>1, <1>8, <1>16

(* A mob that says nothing, over mobs that say nothing, has the stats of    *)
(* its creature.                                                           *)
LEMMA OverTemplates ==
    ASSUME NEW m \in Mobs, Population!Chased(m) \in Population!Creatures,
           own[m] = 0, \A t \in Population!Templates(m) : own[t] = 0
    PROVE  Population!ClientStats(m) = Population!ClientStats(Population!Chased(m))
<1> DEFINE key == Population!Chased(m)
           w == Population!Walk(Listed, m)
<1>1. PICK c \in Nat : c = Cardinality(Listed)
  BY NodeNames
<1>2. MaxHops \in Nat /\ MaxHops >= 1
  BY NodeNames
<1>3. PICK p : Climbs(p, m, c + 1 + MaxHops)
  BY <1>1, <1>2, PathExists
<1>4. PICK h \in 1..MaxHops : /\ p[h] = key /\ \A j \in 0..(h - 1) : p[j] \in Mobs
  <2>1. c + 1 + MaxHops \in Nat /\ MaxHops <= c + 1 + MaxHops
    BY <1>1, <1>2
  <2>2. QED
    BY <1>3, <2>1, ChasedIs
<1>5. /\ h \in Nat /\ h >= 1 /\ Climbs(p, m, c + 1 + h) /\ c + 1 + h \in Nat
      /\ h \in 0..(c + 1 + h) /\ c + 1 <= c + 1 + h
  BY <1>1, <1>2, <1>3 DEF Climbs
<1>6. /\ key \in Population!Nodes /\ key \notin Mobs
      /\ m \in Population!Nodes /\ m \in Listed /\ Listed \in SUBSET Listed
      /\ \A y \in Mobs : y \in Listed
  BY NodeNames DEF Listed
<1>7. h <= c
  <2>1. \A j \in 0..(h - 1) : p[j] \in Listed /\ p[j] # p[h]
    BY <1>4, <1>6
  <2>2. QED
    BY <1>1, <1>5, <2>1, NodeNames, ComesEarly
<1>8. \A k \in 0..h : w[k] = p[k]
  <2>1. h \in 0..(c + 1) /\ h <= c + 1 + h /\ \A j \in 1..(h - 1) : p[j] \in Listed
    BY <1>1, <1>4, <1>5, <1>6, <1>7
  <2>2. QED
    BY <1>1, <1>5, <1>6, <2>1, WalkFollows
<1>9. ASSUME NEW j \in 0..(h - 1) PROVE ~Says(p[j])
  <2>1. CASE j = 0
    BY <1>3, <2>1 DEF Climbs, Says
  <2>2. CASE j # 0
    <3>1. j \in 0..h /\ j \in 1..c
      BY <1>1, <1>5, <1>7, <2>2
    <3>2. w[j] = p[j] /\ p[j] \in Mobs
      BY <1>4, <1>8, <3>1
    <3>3. p[j] \in Population!Templates(m)
      BY <1>1, <3>1, <3>2, SizeIs DEF Population!Templates, Listed
    <3>4. QED
      BY <3>3 DEF Says
  <2>3. QED
    BY <2>1, <2>2
<1> DEFINE q == [k \in 0..(c + 1) |-> p[h + k]]
<1> HIDE DEF key, w
<1>10. Climbs(q, key, c + 1)
  <2>1. q[0] = key
    BY <1>1, <1>4, <1>5
  <2>2. ASSUME NEW k \in 1..(c + 1) PROVE q[k] = Up(q[k - 1])
    <3>1. /\ k \in 0..(c + 1) /\ k - 1 \in 0..(c + 1)
          /\ h + k \in 1..(c + 1 + h) /\ (h + k) - 1 = h + (k - 1)
      BY <1>1, <1>5
    <3>2. p[h + k] = Up(p[h + (k - 1)])
      BY <1>5, <3>1 DEF Climbs
    <3>3. QED
      BY <3>1, <3>2
  <2>3. QED
    BY <2>1, <2>2 DEF Climbs
<1>11. Tells(p, c + 1 + h, Population!ClientStats(m))
  BY <1>1, <1>5, <1>6, ClientTells
<1>12. Tells(q, c + 1, Population!ClientStats(key))
  BY <1>1, <1>6, <1>10, ClientTells
<1>13. \A k \in 0..(c + 1) : q[k] = p[h + k]
  OBVIOUS
<1> HIDE DEF q
<1>14. ASSUME NEW v, Tells(p, c + 1 + h, v) PROVE Tells(q, c + 1, v)
  <2>1. CASE \A k \in 0..(c + 1 + h) : ~Says(p[k])
    <3>1. \A k \in 0..(c + 1) : h + k \in 0..(c + 1 + h)
      BY <1>1, <1>5
    <3>2. \A k \in 0..(c + 1) : ~Says(q[k])
      BY <1>13, <2>1, <3>1
    <3>3. v = 0
      BY <1>14, <2>1 DEF Tells
    <3>4. QED
      BY <3>2, <3>3 DEF Tells
  <2>2. ASSUME NEW k \in 0..(c + 1 + h), Says(p[k]), v = own[p[k]],
               \A j \in 0..(k - 1) : ~Says(p[j])
        PROVE  Tells(q, c + 1, v)
    <3>1. k >= h
      BY <1>1, <1>5, <1>9, <2>2
    <3>2. PICK i0 \in 0..(c + 1) : h + i0 = k
      <4>1. k - h \in 0..(c + 1) /\ h + (k - h) = k
        BY <1>1, <1>5, <3>1
      <4>2. QED
        BY <4>1
    <3>3. Says(q[i0]) /\ v = own[q[i0]]
      BY <1>13, <2>2, <3>2
    <3>4. \A j \in 0..(i0 - 1) : j \in 0..(c + 1) /\ h + j \in 0..(k - 1)
      BY <1>1, <1>5, <3>2
    <3>5. \A j \in 0..(i0 - 1) : ~Says(q[j])
      BY <1>13, <2>2, <3>4
    <3>6. QED
      BY <3>3, <3>5 DEF Tells
  <2>3. QED
    BY <1>14, <2>1, <2>2 DEF Tells
<1>15. c + 1 \in Nat
  BY <1>1
<1>16. QED
  BY <1>11, <1>12, <1>14, <1>15, TellsOne DEF key

(* A mob over a mob, with no stats of its own, has none for the server.     *)
LEMMA SilentMob ==
    ASSUME NEW m \in Mobs, Population!Flattened(Population!ChassisDb, m) # 0
    PROVE  Up(m) \notin Mobs \/ Says(m)
<1> SUFFICES ASSUME Up(m) \in Mobs, ~Says(m) PROVE FALSE
  OBVIOUS
<1> DEFINE w == Population!Walk(Population!ChassisDb, m)
           c == Cardinality(Population!ChassisDb)
<1>1. /\ m \in Listed /\ m \in Population!Nodes /\ own[m] = 0
      /\ Up(m) \notin Population!ChassisDb /\ Population!ChassisDb \in SUBSET Listed
      /\ Up(m) = Population!Extends(m)
  BY NodeNames DEF Listed, Says, Population!ChassisDb, Up
<1>2. /\ c \in Nat /\ DOMAIN w = 0..(c + 1) /\ w[0] = m
      /\ \A k \in 1..(c + 1) :
           w[k] = IF k = 1 \/ w[k - 1] \in Population!ChassisDb
                  THEN Population!Extends(w[k - 1]) ELSE w[k - 1]
  BY <1>1, WalkIs
<1>3. PICK p : Climbs(p, m, c + 1)
  <2> HIDE DEF w, c
  <2>1. c + 1 \in Nat
    BY <1>2
  <2>2. QED
    BY <2>1, PathExists
<1>4. \A a, b \in 1..(c + 1) : a <= b /\ w[a] \notin Population!ChassisDb => w[b] = w[a]
  BY <1>1, <1>2, <1>3, WalkFollows
<1> HIDE DEF w, c
<1>5. 1 \in 1..(c + 1) /\ w[1] = Up(m)
  <2>1. 1 \in 1..(c + 1) /\ 1 - 1 = 0
    BY <1>2
  <2>2. QED
    BY <1>1, <1>2, <2>1
<1>6. \A k \in 1..(c + 1) : w[k] \notin Population!ChassisDb
  BY <1>1, <1>4, <1>5
<1>7. {k \in DOMAIN w : /\ w[k] \in Population!Nodes
                        /\ k = 0 \/ w[k] \in Population!ChassisDb
                        /\ own[w[k]] # 0} = {}
  BY <1>1, <1>2, <1>6
<1>8. QED
  BY <1>7 DEF Population!Flattened, w

-----------------------------------------------------------------------------
(* The importers and the zones *)

(* The inductive invariant: what an importer has written is what it makes   *)
(* of the content, and a zone was filled from both.                        *)
Streaming ==
    /\ extends \in Extensions /\ own \in Statements
    /\ "creatures" \in built => rows = Population!CreatureRows
    /\ "worlds" \in built => encounters = Population!Encounters
    /\ DOMAIN spawned # {} => {"creatures", "worlds"} \subseteq built
    /\ \A z \in DOMAIN spawned :
          z \in DOMAIN Worlds /\ spawned[z] = Population!Streamed(Population!Units(z))

LEMMA StreamingInit == Init => Streaming
BY DEF Init, Population!Init, Population!Nothing, Streaming

LEMMA RowsStay ==
    ASSUME extends' = extends, own' = own
    PROVE Population!CreatureRows' = Population!CreatureRows
BY SMT DEF Population!CreatureRows, Population!ConcreteKeys, Population!WorldBossKeys,
   Population!ReferencedBaseKeys, Population!Row, Population!Flattened, Population!Walk,
   Population!Extends, Population!Nodes, Population!Creatures, Population!RootsAtStockUnit,
   Population!CreatureDb, Population!ChassisDb, Population!CreatureOf, Population!Chased,
   Population!IsBoss

LEMMA EncountersStay ==
    ASSUME extends' = extends, own' = own
    PROVE Population!Encounters' = Population!Encounters
BY SMT DEF Population!Encounters, Population!Parsed, Population!Unit, Population!CreatureOf,
   Population!Chased, Population!IsBoss, Population!Placements, Population!Placement,
   Population!WorldEntity, Population!TablesOf, Population!MazeTables,
   Population!StaticTables, Population!Nodes, Population!Creatures, Population!Range

LEMMA UnitsStay ==
    ASSUME encounters' = encounters, NEW z
    PROVE Population!Units(z)' = Population!Units(z)
BY SMT DEF Population!Units, Population!MazeUnits, Population!StaticUnits, Population!Groups,
   Population!Full, Population!Turn, Population!Chosen, Population!Range

LEMMA StreamedStays ==
    ASSUME encounters' = encounters, rows' = rows, NEW z
    PROVE Population!Streamed(Population!Units(z))' = Population!Streamed(Population!Units(z))
<1>1. Population!Units(z)' = Population!Units(z)
  BY UnitsStay
<1>2. QED
  BY <1>1 DEF Population!Streamed

LEMMA StreamingNext == ASSUME Streaming, [Next]_vars PROVE Streaming'
<1> USE DEF Streaming
<1>1. CASE Population!RebuildCreatures
  <2>1. /\ extends' = extends /\ own' = own /\ encounters' = encounters /\ spawned' = spawned
        /\ "creatures" \notin built /\ built' = built \cup {"creatures"}
        /\ rows' = Population!CreatureRows
    BY <1>1 DEF Population!RebuildCreatures
  <2>2. DOMAIN spawned = {}
    BY <2>1
  <2>3. Population!Encounters' = Population!Encounters
    BY <2>1, EncountersStay
  <2>4. Population!CreatureRows' = Population!CreatureRows
    BY <2>1, RowsStay
  <2>5. "creatures" # "worlds"
    OBVIOUS
  <2>6. QED
    BY <2>1, <2>2, <2>3, <2>4, <2>5
<1>2. CASE Population!ImportWorlds
  <2>1. /\ extends' = extends /\ own' = own /\ rows' = rows /\ spawned' = spawned
        /\ "worlds" \notin built /\ built' = built \cup {"worlds"}
        /\ encounters' = Population!Encounters
    BY <1>2 DEF Population!ImportWorlds
  <2>2. DOMAIN spawned = {}
    BY <2>1
  <2>3. Population!Encounters' = Population!Encounters
    BY <2>1, EncountersStay
  <2>4. Population!CreatureRows' = Population!CreatureRows
    BY <2>1, RowsStay
  <2>5. "creatures" # "worlds"
    OBVIOUS
  <2>6. QED
    BY <2>1, <2>2, <2>3, <2>4, <2>5
<1>3. ASSUME NEW z \in DOMAIN Worlds, Population!FillZone(z) PROVE Streaming'
  <2>1. /\ extends' = extends /\ own' = own /\ rows' = rows /\ built' = built
        /\ encounters' = encounters /\ built = {"creatures", "worlds"}
        /\ spawned' = [y \in DOMAIN spawned \cup {z} |->
              IF y \in DOMAIN spawned THEN spawned[y]
              ELSE Population!Streamed(Population!Units(z))]
    BY <1>3 DEF Population!FillZone
  <2>2. Population!Encounters' = Population!Encounters
    BY <2>1, EncountersStay
  <2>3. Population!CreatureRows' = Population!CreatureRows
    BY <2>1, RowsStay
  <2>4. \A y : Population!Streamed(Population!Units(y))' = Population!Streamed(Population!Units(y))
    BY <2>1, StreamedStays
  <2>5. ASSUME NEW y \in DOMAIN spawned'
        PROVE  /\ y \in DOMAIN Worlds
               /\ spawned'[y] = Population!Streamed(Population!Units(y))'
    BY <2>1, <2>4
  <2>6. QED
    BY <2>1, <2>2, <2>3, <2>5
<1>4. CASE UNCHANGED mobVars
  <2>1. /\ extends' = extends /\ own' = own /\ rows' = rows /\ built' = built
        /\ encounters' = encounters /\ spawned' = spawned
    BY <1>4 DEF mobVars
  <2>2. Population!Encounters' = Population!Encounters
    BY <2>1, EncountersStay
  <2>3. Population!CreatureRows' = Population!CreatureRows
    BY <2>1, RowsStay
  <2>4. \A y : Population!Streamed(Population!Units(y))' = Population!Streamed(Population!Units(y))
    BY <2>1, StreamedStays
  <2>5. QED
    BY <2>1, <2>2, <2>3, <2>4
<1>5. QED
  BY <1>1, <1>2, <1>3, <1>4 DEF Next, vars, Population!Next

-----------------------------------------------------------------------------
(* What is streamed *)

LEMMA ContentApart == Streaming => Apart
BY PopulationAssumption DEF Streaming, Apart, Population!ContentAssumption

(* The row of a node is what its client reads of the asset it stands for.   *)
LEMMA RowAlike ==
    ASSUME Streaming, "creatures" \in built, NEW e0 \in Population!Nodes,
           Population!Ordinary(e0), NEW k0, k0 \in DOMAIN rows,
           Population!Unit(e0) = <<e0, k0>>
    PROVE  rows[k0] = Population!ClientStats(e0)
<1>1. Apart
  BY ContentApart
<1>2. /\ rows = Population!CreatureRows
      /\ DOMAIN rows = Population!ConcreteKeys \cup Population!ReferencedBaseKeys
                         \cup Population!WorldBossKeys(Population!ConcreteKeys)
      /\ rows[k0] = Population!Row(k0)
  BY DEF Streaming, Population!CreatureRows
<1>3. k0 = IF e0 \in Mobs THEN Population!CreatureOf(e0) ELSE e0
  BY DEF Population!Unit
<1>4. /\ Population!ConcreteKeys \subseteq Population!Creatures
      /\ Population!CreatureDb \in {Population!CreatureDb, Population!ChassisDb}
      /\ Population!ChassisDb \in {Population!CreatureDb, Population!ChassisDb}
  BY NodeNames DEF Population!ConcreteKeys
<1>5. ASSUME NEW c \in Population!Creatures, c \in DOMAIN rows
      PROVE  Population!Row(c) = Population!ClientStats(c)
  <2>1. c \in Population!Nodes /\ Up(c) \notin Mobs
    BY <1>1, NodeNames DEF Up, Population!Extends, Listed, Apart
  <2>2. /\ Population!Flattened(Population!CreatureDb, c) = Population!ClientStats(c)
        /\ Population!Flattened(Population!ChassisDb, c) = Population!ClientStats(c)
    BY <1>1, <1>4, <2>1, Alike
  <2>3. QED
    BY <2>2 DEF Population!Row
<1>6. CASE e0 \notin Mobs
  <2>1. k0 = e0 /\ e0 \in Population!Creatures
    BY <1>3, <1>6, NodeNames
  <2>2. QED
    BY <1>2, <1>5, <2>1
<1>7. CASE e0 \in Mobs /\ k0 = e0
  <2>1. e0 \notin Population!ConcreteKeys /\ e0 \notin Population!ReferencedBaseKeys
    BY <1>4, <1>7, NodeNames DEF Population!ReferencedBaseKeys
  <2>2. e0 \in Population!WorldBossKeys(Population!ConcreteKeys)
    BY <1>2, <1>7, <2>1
  <2>3. Population!Flattened(Population!ChassisDb, e0) # 0
    BY <2>2 DEF Population!WorldBossKeys
  <2>4. rows[k0] = Population!Flattened(Population!ChassisDb, e0)
    BY <1>2, <1>7, <2>1 DEF Population!Row
  <2>5. Up(e0) \notin Mobs \/ Says(e0)
    BY <1>7, <2>3, SilentMob
  <2>6. QED
    BY <1>1, <1>4, <2>4, <2>5, Alike
<1>8. CASE e0 \in Mobs /\ k0 # e0
  <2>1. /\ ~Population!IsBoss(e0) /\ Population!Chased(e0) \in Species \cup Concrete
        /\ k0 = Population!Chased(e0)
    BY <1>3, <1>8 DEF Population!CreatureOf
  <2>2. own[e0] = 0 /\ \A t \in Population!Templates(e0) : own[t] = 0
    BY <1>8, <2>1, NodeNames DEF Population!Ordinary
  <2>3. k0 \in Population!Creatures
    BY <2>1, NodeNames
  <2>4. Population!ClientStats(e0) = Population!ClientStats(k0)
    BY <1>8, <2>1, <2>2, <2>3, OverTemplates
  <2>5. QED
    BY <1>2, <1>5, <2>3, <2>4
<1>9. QED
  BY <1>6, <1>7, <1>8

LEMMA RangeIs == ASSUME NEW f PROVE Population!Range(f) = {f[x] : x \in DOMAIN f}
BY DEF Population!Range

(* A group of a table holds the units of its types.                        *)
LEMMA GroupUnits ==
    ASSUME Streaming, "worlds" \in built, NEW t, NEW g \in DOMAIN Population!Groups(t),
           NEW u \in Population!Groups(t)[g]
    PROVE  \E e0 \in Population!Nodes : u = Population!Unit(e0)
<1>1. encounters.tables = Population!Encounters.tables
  BY DEF Streaming
<1>2. t \in DOMAIN encounters.tables /\ Population!Groups(t) = encounters.tables[t]
  BY DEF Population!Groups
<1>3. t \in DOMAIN EncounterTables /\ encounters.tables[t] = Population!Parsed(EncounterTables[t])
  BY <1>1, <1>2 DEF Population!Encounters
<1>4. QED
  BY <1>2, <1>3 DEF Population!Parsed

LEMMA ChosenUnits ==
    ASSUME NEW groups, NEW n, NEW u \in Population!Chosen(groups, n)
    PROVE  \E g \in DOMAIN groups : u \in groups[g]
BY DEF Population!Chosen, Population!Full

(* Every unit of a zone is of a table or of a placement.                   *)
LEMMA UnitsFrom ==
    ASSUME Streaming, "worlds" \in built, NEW z \in DOMAIN Worlds, NEW u \in Population!Units(z)
    PROVE  \/ \E e0 \in Population!Nodes : u = Population!Unit(e0)
           \/ u \in UNION Population!Range(encounters.placements)
<1>1. ASSUME NEW t, NEW n, u \in Population!Chosen(Population!Groups(t), n)
      PROVE  \E e0 \in Population!Nodes : u = Population!Unit(e0)
  BY <1>1, ChosenUnits, GroupUnits
<1>2. CASE Worlds[z].maze
  <2>1. u \in Population!MazeUnits(Worlds[z])
    BY <1>2 DEF Population!Units
  <2>2. CASE u \in UNION Population!Range(Population!Groups(Worlds[z].table))
    <3>1. \E g \in DOMAIN Population!Groups(Worlds[z].table) :
            u \in Population!Groups(Worlds[z].table)[g]
      BY <2>2 DEF Population!Range
    <3>2. QED
      BY <3>1, GroupUnits
  <2> DEFINE units(r) == Population!Chosen(Population!Groups(Worlds[z].rooms[r]), r - 1)
             numbers == 1..Len(Worlds[z].rooms)
  <2>3. \A r \in numbers :
          u \in units(r) => \E e0 \in Population!Nodes : u = Population!Unit(e0)
    BY <1>1
  <2>4. u \in (UNION Population!Range(Population!Groups(Worlds[z].table)))
                \cup (UNION {units(r) : r \in numbers})
    BY <2>1 DEF Population!MazeUnits
  <2> HIDE DEF units, numbers
  <2>5. QED
    BY <2>2, <2>3, <2>4
<1>3. CASE ~Worlds[z].maze
  <2>1. u \in Population!StaticUnits(z, Worlds[z])
    BY <1>3 DEF Population!Units
  <2>2. CASE u \in encounters.placements[z]
    <3>1. encounters.placements = Population!Encounters.placements
      BY DEF Streaming
    <3>2. z \in DOMAIN encounters.placements
      BY <1>3, <3>1 DEF Population!Encounters
    <3>3. QED
      BY <2>2, <3>2 DEF Population!Range
  <2> DEFINE of(k) == IF Worlds[z].markers[k] # Population!None THEN Worlds[z].markers[k]
                      ELSE Worlds[z].table
             units(k) == Population!Chosen(Population!Groups(of(k)), k - 1)
             numbers == 1..Len(Worlds[z].markers)
  <2>3. \A k \in numbers :
          u \in units(k) => \E e0 \in Population!Nodes : u = Population!Unit(e0)
    BY <1>1
  <2>4. u \in (UNION {units(k) : k \in numbers}) \cup encounters.placements[z]
    BY <2>1 DEF Population!StaticUnits
  <2> HIDE DEF units, numbers
  <2>5. QED
    BY <2>2, <2>3, <2>4
<1>4. QED
  BY <1>2, <1>3

LEMMA StreamingSame == Streaming => Population!SameStats
<1> SUFFICES ASSUME Streaming, NEW z \in DOMAIN spawned, NEW s \in spawned[z],
                    Population!Ordinary(s[1]),
                    s \notin {<<q[1], q[2], rows[q[2]]>> :
                       q \in {r \in UNION Population!Range(encounters.placements) :
                                r[2] \in DOMAIN rows}}
             PROVE  s[3] = Population!ClientStats(s[1])
  BY DEF Population!SameStats
<1>1. /\ "creatures" \in built /\ "worlds" \in built /\ z \in DOMAIN Worlds
      /\ spawned[z] = Population!Streamed(Population!Units(z))
  BY DEF Streaming
<1>2. PICK u \in Population!Units(z) : /\ s = <<u[1], u[2], rows[u[2]]>>
                                       /\ u[1] \in Population!Nodes /\ u[2] \in DOMAIN rows
  BY <1>1 DEF Population!Streamed
<1>3. u \notin UNION Population!Range(encounters.placements)
  BY <1>2
<1>4. PICK e0 \in Population!Nodes : u = Population!Unit(e0)
  BY <1>1, <1>3, UnitsFrom
<1>5. PICK k0 : u = <<e0, k0>>
  BY <1>4 DEF Population!Unit
<1>6. rows[k0] = Population!ClientStats(e0)
  <2>1. Population!Ordinary(e0) /\ k0 \in DOMAIN rows
    BY <1>2, <1>5
  <2>2. QED
    BY <1>1, <1>4, <1>5, <2>1, RowAlike
<1>7. QED
  BY <1>2, <1>5, <1>6

-----------------------------------------------------------------------------
(* The bosses of an arena *)

(* The groups of a table take turns: every number is one group's turn.     *)
LEMMA TurnComes ==
    ASSUME NEW groups, Population!Full(groups) \in SUBSET Nat,
           IsFiniteSet(Population!Full(groups)), Population!Full(groups) # {}, NEW n \in Nat
    PROVE  \E g \in Population!Full(groups) :
              Population!Turn(groups, g)
                = (n % Population!Cardinality(Population!Full(groups)))
<1> DEFINE I == Population!Full(groups)
           c == Cardinality(I)
<1>1. c \in Nat /\ c # 0
  BY FS_CardinalityType, FS_EmptySet
<1>2. PICK r0 \in 0..(c - 1) : r0 = (n % c)
  BY <1>1
<1>3. r0 + 1 \in 1..c
  BY <1>1, <1>2
<1>4. PICK g \in I : RankIn(I, g) = r0 + 1
  BY <1>3, RankOnto
<1> DEFINE B == {h \in I : h < g}
<1>5. B \in SUBSET I /\ g \notin B /\ {h \in I : h <= g} = B \cup {g}
  <2>1. g \in Nat /\ \A h \in I : h \in Nat
    OBVIOUS
  <2>2. \A h \in I : h <= g <=> h < g \/ h = g
    BY <2>1
  <2>3. g \notin B
    BY <2>1
  <2>4. QED
    BY <2>2, <2>3
<1>6. IsFiniteSet(B) /\ Cardinality(B) \in Nat
  BY <1>5, FS_Subset, FS_CardinalityType
<1> HIDE DEF B
<1>7. Cardinality(B \cup {g}) = Cardinality(B) + 1
  BY <1>5, <1>6, FS_AddElement
<1>8. Cardinality(B) = r0
  BY <1>2, <1>4, <1>5, <1>6, <1>7 DEF RankIn
<1>9. Population!Turn(groups, g) = r0
  BY <1>8, SizeIs DEF Population!Turn, B
<1>10. QED
  BY <1>2, <1>4, <1>9, SizeIs

(* A mob right above a chassis or a creature that the client traces to the  *)
(* stock unit, the server traces there too.                                *)
LEMMA BossRooted ==
    ASSUME Apart, NEW m \in Mobs, Up(m) \in Population!ChassisDb,
           Population!RootsAtStockUnit(Listed, m)
    PROVE  Population!RootsAtStockUnit(Population!ChassisDb, m)
<1> DEFINE db == Population!ChassisDb
           w == Population!Walk(db, m)
           v == Population!Walk(Listed, m)
<1>1. PICK c \in Nat : c = Cardinality(Listed)
  BY NodeNames
<1>2. /\ db \in SUBSET Listed /\ Listed \in SUBSET Listed /\ m \in Listed
      /\ "StockUnit" \notin Listed /\ Up(m) \notin Mobs /\ Listed = db \cup Mobs
  BY NodeNames DEF Listed, Population!ChassisDb
<1>3. PICK d \in Nat : d = Cardinality(db)
  BY <1>2, NodeNames, FS_Subset, FS_CardinalityType
<1>4. d <= c
  BY <1>1, <1>2, <1>3, NodeNames, FS_Subset
<1>5. PICK p : Climbs(p, m, c + 1)
  <2>1. c + 1 \in Nat
    BY <1>1
  <2>2. QED
    BY <2>1, PathExists
<1>6. p[0] = m /\ \A k \in 1..(c + 1) : p[k] = Up(p[k - 1])
  BY <1>5 DEF Climbs
<1>7. /\ v[c + 1] = "StockUnit" /\ c + 1 \in 0..(c + 1) /\ c + 1 \in Nat /\ c + 1 <= c + 1
      /\ c + 1 # 0
  BY <1>1, SizeIs DEF Population!RootsAtStockUnit
<1> HIDE DEF v
<1>8. p[c + 1] = "StockUnit"
  <2>1. v = Population!Walk(Listed, m)
    BY DEF v
  <2>2. v[c + 1] = p[c + 1] \/ v[c + 1] \notin Listed
    BY <1>1, <1>2, <1>5, <1>7, <2>1, WalkFollows
  <2>3. v[0] = m /\ \A k \in 1..(c + 1) : v[k] = IF k = 1 \/ v[k - 1] \in Listed
                                               THEN Population!Extends(v[k - 1]) ELSE v[k - 1]
    BY <1>1, <1>2, <2>1, WalkIs
  <2>4. ASSUME NEW k \in 1..(c + 1) PROVE v[k] = Up(v[k - 1])
    <3>1. k = 1 => v[k - 1] \in Listed
      BY <1>2, <2>3
    <3>2. QED
      BY <2>3, <3>1 DEF Up
  <2>5. Climbs(v, m, c + 1)
    BY <2>3, <2>4 DEF Climbs
  <2>6. v[c + 1] = p[c + 1]
    BY <1>5, <1>7, <2>5, OnePath
  <2>7. QED
    BY <1>7, <2>6
<1> DEFINE I == {k \in 0..(c + 1) : p[k] = "StockUnit"}
<1>9. I \in SUBSET (0..(c + 1)) /\ I # {}
  BY <1>7, <1>8
<1>10. PICK f \in I : \A j \in 0..(f - 1) : j \notin I
  BY <1>7, <1>9, First
<1>11. f \in 0..(c + 1) /\ p[f] = "StockUnit" /\ \A j \in 0..(f - 1) : p[j] # "StockUnit"
  BY <1>10
<1>12. \A k \in 1..(c + 1) : p[k] \notin Mobs
  BY <1>2, <1>5, <1>7, AboveCreatures
<1>13. ASSUME NEW j \in 1..(f - 1) PROVE p[j] \in db
  <2> SUFFICES ASSUME p[j] \notin Listed PROVE FALSE
    BY <1>2, <1>11, <1>12
  <2> DEFINE P == {k \in Nat : j + k <= f => p[j + k] = p[j]}
  <2>1. P \in SUBSET Nat /\ 0 \in P
    OBVIOUS
  <2>2. ASSUME NEW k \in P PROVE k + 1 \in P
    <3> SUFFICES ASSUME j + (k + 1) <= f PROVE p[j + (k + 1)] = p[j]
      OBVIOUS
    <3>1. /\ k \in Nat /\ p[j + k] = p[j]
          /\ j + (k + 1) \in 1..(c + 1) /\ (j + (k + 1)) - 1 = j + k
      BY <1>1, <1>11
    <3>2. QED
      BY <1>6, <3>1 DEF Up
  <2> HIDE DEF P
  <2>3. P = Nat
    BY <2>1, <2>2, Induct
  <2>4. PICK l \in Nat : j + l = f /\ j + l <= f
    <3>1. f - j \in Nat /\ j + (f - j) = f
      BY <1>1, <1>11
    <3>2. QED
      BY <3>1
  <2>5. l \in P
    BY <2>3
  <2>6. p[f] = p[j] /\ j \in 0..(f - 1)
    BY <1>1, <1>11, <2>4, <2>5 DEF P
  <2>7. QED
    BY <1>11, <2>6
<1>14. f <= d + 1 /\ f # 0
  <2> DEFINE E == db \cup {m}
  <2>1. IsFiniteSet(db)
    BY <1>2, NodeNames, FS_Subset
  <2>2. IsFiniteSet(E) /\ Cardinality(E) = IF m \in db THEN d ELSE d + 1
    BY <1>3, <2>1, FS_AddElement
  <2>3. \A j \in 0..(f - 1) : p[j] \in E /\ p[j] # p[f]
    BY <1>6, <1>11, <1>13
  <2> HIDE DEF E
  <2>4. f <= Cardinality(E)
    BY <1>5, <1>7, <1>11, <2>2, <2>3, ComesEarly
  <2>5. QED
    BY <1>2, <1>3, <1>6, <1>11, <2>2, <2>4
<1>15. w[f] = p[f]
  <2>1. f \in 0..(d + 1) /\ f <= c + 1 /\ f \in 0..f
    BY <1>1, <1>3, <1>11, <1>14
  <2>2. QED
    BY <1>2, <1>3, <1>5, <1>7, <1>13, <2>1, WalkFollows
<1>16. w[d + 1] = w[f]
  <2>1. f \in 1..(d + 1) /\ d + 1 \in 1..(d + 1) /\ f <= d + 1
    BY <1>1, <1>3, <1>11, <1>14
  <2>2. w[f] \notin db
    BY <1>2, <1>11, <1>15
  <2>3. QED
    BY <1>2, <1>3, <1>5, <1>7, <2>1, <2>2, WalkFollows
<1>17. QED
  BY <1>3, <1>11, <1>15, <1>16, SizeIs DEF Population!RootsAtStockUnit

(* A boss stands in its arena.                                             *)
LEMMA BossStands ==
    ASSUME Streaming, NEW z \in DOMAIN spawned,
           NEW t \in Population!Range(Worlds[z].markers) \cap DOMAIN EncounterTables,
           NEW m \in Mobs, ~Worlds[z].maze, EncounterTables[t] # <<>>,
           \A g \in DOMAIN EncounterTables[t] : m \in Population!Range(EncounterTables[t][g]),
           Population!IsBoss(m), extends[m] \in Population!ChassisDb,
           Population!RootsAtStockUnit(Listed, m), Population!ClientStats(m) # 0
    PROVE  <<m, m>> \in {<<s[1], s[2]>> : s \in spawned[z]}
<1>1. /\ "creatures" \in built /\ "worlds" \in built /\ z \in DOMAIN Worlds
      /\ spawned[z] = Population!Streamed(Population!Units(z))
      /\ encounters = Population!Encounters /\ rows = Population!CreatureRows
      /\ Apart
  BY ContentApart DEF Streaming
<1>2. m \in Population!Nodes /\ Up(m) = extends[m] /\ Up(m) \notin Mobs
  BY NodeNames DEF Up, Population!Extends, Listed, Population!ChassisDb
<1>3. Population!Unit(m) = <<m, m>>
  BY DEF Population!Unit, Population!CreatureOf
<1>4. m \in DOMAIN rows
  <2>1. Population!Flattened(Population!ChassisDb, m) = Population!ClientStats(m)
    BY <1>1, <1>2, Alike
  <2>2. Population!RootsAtStockUnit(Population!ChassisDb, m)
    BY <1>1, <1>2, BossRooted
  <2>3. m \in Population!WorldBossKeys(Population!ConcreteKeys)
    BY <2>1, <2>2 DEF Population!WorldBossKeys
  <2>4. QED
    BY <1>1, <2>3 DEF Population!CreatureRows
<1>5. /\ EncounterTables[t] \in Seq(Population!Range(EncounterTables[t]))
      /\ Worlds[z].markers \in Seq(Population!Range(Worlds[z].markers))
  <2>1. /\ EncounterTables[t] \in Population!Range(EncounterTables)
        /\ Worlds[z] \in Population!Range(Worlds)
    BY <1>1 DEF Population!Range
  <2>2. QED
    BY <2>1, PopulationAssumption DEF Population!ContentAssumption
<1>6. /\ DOMAIN EncounterTables[t] = 1..Len(EncounterTables[t])
      /\ Len(EncounterTables[t]) \in Nat /\ Len(EncounterTables[t]) # 0
      /\ DOMAIN Worlds[z].markers = 1..Len(Worlds[z].markers) /\ Len(Worlds[z].markers) \in Nat
  BY <1>5
<1>7. PICK k \in 1..Len(Worlds[z].markers) : Worlds[z].markers[k] = t
  BY <1>6 DEF Population!Range
<1> DEFINE groups == Population!Groups(t)
<1>8. groups = Population!Parsed(EncounterTables[t])
  <2>1. t \in Population!StaticTables(Worlds[z])
    BY DEF Population!StaticTables
  <2>2. t \in Population!TablesOf(Worlds[z])
    BY <2>1 DEF Population!TablesOf
  <2>3. t \in DOMAIN encounters.tables
    BY <1>1, <2>2 DEF Population!Encounters
  <2>4. encounters.tables[t] = Population!Parsed(EncounterTables[t])
    BY <1>1, <2>3 DEF Population!Encounters
  <2>5. QED
    BY <2>3, <2>4 DEF Population!Groups
<1>9. /\ DOMAIN groups = DOMAIN EncounterTables[t]
      /\ \A g \in DOMAIN groups : <<m, m>> \in groups[g]
  BY <1>2, <1>3, <1>8 DEF Population!Parsed
<1> HIDE DEF groups
<1>10. Population!Full(groups) = 1..Len(EncounterTables[t])
  BY <1>6, <1>9 DEF Population!Full
<1>11. /\ IsFiniteSet(Population!Full(groups)) /\ Population!Full(groups) # {}
       /\ Population!Full(groups) \in SUBSET Nat
  <2>1. 1 \in 1..Len(EncounterTables[t]) /\ IsFiniteSet(1..Len(EncounterTables[t]))
    BY <1>6, FS_Interval
  <2>2. QED
    BY <1>6, <1>10, <2>1
<1>12. k - 1 \in Nat
  BY <1>6
<1>13. PICK g \in Population!Full(groups) :
         Population!Turn(groups, g)
           = ((k - 1) % Population!Cardinality(Population!Full(groups)))
  BY <1>11, <1>12, TurnComes
<1>14. <<m, m>> \in Population!Chosen(groups, k - 1)
  <2>1. <<m, m>> \in groups[g]
    BY <1>9 DEF Population!Full
  <2>2. QED
    BY <1>13, <2>1 DEF Population!Chosen
<1>15. t # Population!None
  BY PopulationAssumption DEF Population!ContentAssumption
<1>16. <<m, m>> \in Population!Units(z)
  <2> DEFINE of(l) == IF Worlds[z].markers[l] # Population!None THEN Worlds[z].markers[l]
                      ELSE Worlds[z].table
             units(l) == Population!Chosen(Population!Groups(of(l)), l - 1)
             numbers == 1..Len(Worlds[z].markers)
  <2>1. Population!Units(z)
          = (UNION {units(l) : l \in numbers}) \cup encounters.placements[z]
    BY DEF Population!Units, Population!StaticUnits
  <2>2. k \in numbers /\ <<m, m>> \in units(k)
    BY <1>7, <1>14, <1>15 DEF groups
  <2> HIDE DEF units, numbers
  <2>3. QED
    BY <2>1, <2>2
<1>17. <<m, m, rows[m]>> \in spawned[z]
  <2>1. <<m, m>>[1] = m /\ <<m, m>>[2] = m
    OBVIOUS
  <2>2. QED
    BY <1>1, <1>2, <1>4, <1>16, <2>1 DEF Population!Streamed
<1>18. <<m, m, rows[m]>>[1] = m /\ <<m, m, rows[m]>>[2] = m
  OBVIOUS
<1>19. QED
  BY <1>17, <1>18

LEMMA StreamingBosses == Streaming => Population!BossesSpawn
BY BossStands DEF Population!BossesSpawn, Listed

(* A monster of an encounter table has the row its client computes from the *)
(* same asset, whatever the content, and a boss stands in its arena: the    *)
(* importers flatten a chain over fewer files than the client and miss      *)
(* nothing that counts.                                                    *)
THEOREM StatsAgree == Spec => []SameStats
<1>1. Init => Streaming
  BY StreamingInit
<1>2. Streaming /\ [Next]_vars => Streaming'
  BY StreamingNext
<1>3. Streaming => SameStats
  BY StreamingSame, StreamingBosses DEF SameStats
<1>4. QED
  BY <1>1, <1>2, <1>3, PTL DEF Spec
=============================================================================
