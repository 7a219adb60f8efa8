------------------------------ MODULE Dungeon ------------------------------
(***************************************************************************)
(* What fills a dungeon level (managers/dungeon_spawner.py): the arrival    *)
(* cell, the warp gates, the encounters of the room nodes and the packs of  *)
(* monsters in the other cells, over the maze that Maze makes.              *)
(*                                                                          *)
(* Abstractions.  An encounter group is the sequence of the difficulties of *)
(* its units, in eighths.  The hash of a spot is an arbitrary budget of its *)
(* range.  A pack finds floor to stand on or does not.                      *)
(* The encounter markers of a corridor tile depend on its openings.         *)
(***************************************************************************)
EXTENDS Maze, Sums

CONSTANTS
    Kind,       \* room node -> "start", "link" or "room", by list and number
    Encounter,  \* room node -> its encounter group, or <<>>
    Groups,     \* the groups of the main encounter table
    Markers,    \* openings of a corridor cell -> number of encounter markers
    Budgets,    \* _resolve_spot_budget
    MaxPack,    \* 16
    MaxMobs     \* _MAX_MOBS_PER_LEVEL

MobAssumption ==
    /\ MaxMobs \in Nat \ {0} /\ MaxPack \in Nat \ {0} /\ Budgets \subseteq Nat
    /\ Groups \in Seq(Seq(Nat)) \ {<<>>}
    /\ \A p \in Plans : \A n \in 1..Len(p) : Encounter[p][n] \in Seq(Nat)

VARIABLES
    entry,   \* the arrival cell
    packs,   \* what was placed, in order
    next     \* which encounter comes next: of the room nodes, then by cell

level == <<entry, packs, next>>
vars == <<maze, level>>

NodeCell(n) == {c \in Cell : room[c].src = n}
Placed == {n \in 1..Len(plan) : NodeCell(n) # {}}
Lowest(s) == CHOOSE x \in s : \A y \in s : x <= y

(* _entry_cell: a start room, else a node that a gate leads to, else any;  *)
(* the caller's fallback is the cell farthest right, then up.              *)
EntryCell ==
    LET starts == {n \in Placed : Kind[plan][n] = "start"}
        links == {n \in Placed : Kind[plan][n] = "link"}
        best == IF starts # {} THEN starts ELSE IF links # {} THEN links ELSE Placed
    IN  IF best # {} THEN CHOOSE c \in NodeCell(Lowest(best)) : TRUE
        ELSE CHOOSE c \in Cell : \A d \in Cell : d[1] < c[1] \/ (d[1] = c[1] /\ d[2] >= c[2])

(* warp_gates.                                                             *)
Gates == UNION {NodeCell(n) : n \in {m \in Placed : Kind[plan][m] \in {"start", "link"}}}

Total(group) == SumTo(group, Len(group))

(* expand_encounter_group: the weighted units in turn, until the budget of *)
(* the spot has no room for the next.                                      *)
Weighted(group) == {k \in DOMAIN group : group[k] > 0}
Nth(group, n) ==
    CHOOSE k \in Weighted(group) :
        Cardinality({h \in Weighted(group) : h < k}) = n % Cardinality(Weighted(group))
Turns(group, k) == [j \in 1..k |-> group[Nth(group, j - 1)]]
Larger(a, b) == IF a > b THEN a ELSE b

Repeated(group, budget) ==
    {k \in 1..(MaxPack - Len(group)) :
        Total(group) + Total(Turns(group, k)) <= Larger(budget, Total(group))}

Expand(group, budget) ==
    IF Weighted(group) = {} THEN group
    ELSE group \o Turns(group, Max(Repeated(group, budget) \cup {0}))

\* The monsters that stand, and those that found floor around the room nodes.
Count == SumTo([k \in DOMAIN packs |-> packs[k].stood], Len(packs))
InRooms == SumTo([k \in DOMAIN packs |-> IF packs[k].src # 0 THEN packs[k].fit ELSE 0],
                 Len(packs))

(* _emit_group: those of the pack that find floor, until the level is full.*)
Emit(c, src, group) ==
    \E b \in Budgets :
        LET pack == Expand(group, b) IN
        \E fit \in {0, Len(pack)} :
            LET stood == IF fit > MaxMobs - Count THEN MaxMobs - Count ELSE fit IN
            packs' = Append(packs, [at |-> c, src |-> src, group |-> group, budget |-> b,
                                    pack |-> pack, fit |-> fit, stood |-> stood])

-----------------------------------------------------------------------------
Init == MazeInit /\ entry = Nowhere /\ packs = <<>> /\ next = [node |-> 1, cell |-> 1, mark |-> 0, enc |-> 0]

Carve == MazeNext /\ UNCHANGED level

Enter ==
    /\ phase = "done" /\ entry = Nowhere
    /\ entry' = EntryCell
    /\ UNCHANGED <<maze, packs, next>>

(* Step 1 of generate_spawns: the room nodes with an encounter of their own.*)
Populated(c) == c # entry

Leader ==
    LET n == next.node IN
    /\ entry # Nowhere /\ n <= Len(plan)
    /\ next' = [next EXCEPT !.node = n + 1]
    /\ IF n \in Placed /\ Encounter[plan][n] # <<>>
            /\ Populated(CHOOSE c \in NodeCell(n) : TRUE)
       THEN Emit(CHOOSE c \in NodeCell(n) : TRUE, n, Encounter[plan][n])
       ELSE UNCHANGED packs
    /\ UNCHANGED <<maze, entry>>

(* The cells of step 2, those of the lowest row first.                     *)
FillOrder ==
    [k \in 1..(Width * Height) |-> <<(k - 1) % Width, Height - 1 - ((k - 1) \div Width)>>]

(* Step 2: a cell that is no room, a pack for each marker of its tile.     *)
LeadersDone == next.node > Len(plan)

FillCell ==
    LET c == FillOrder[next.cell] IN
    /\ entry # Nowhere /\ LeadersDone /\ next.cell <= Width * Height
    /\ IF ~IsRoom(c) /\ c # entry /\ next.mark < Markers[cells[c]] /\ Count < MaxMobs
       THEN /\ Emit(c, 0, Groups[(next.enc % Len(Groups)) + 1])
            /\ next' = [next EXCEPT !.mark = @ + 1, !.enc = @ + 1]
       ELSE next' = [next EXCEPT !.cell = @ + 1, !.mark = 0] /\ UNCHANGED packs
    /\ UNCHANGED <<maze, entry>>

Next == Carve \/ Enter \/ Leader \/ FillCell

Spec == Init /\ [][Next]_vars

-----------------------------------------------------------------------------
Range2(s) == {s[k] : k \in 1..Len(s)}

(* The encounters of the room nodes (leaders, quests, bosses) are never cut*)
(* short for the sake of the packs in the corridors: only what alone is    *)
(* too much for a level loses members.                                     *)
LeadersStand ==
    (\E p \in Range2(packs) : p.src # 0 /\ p.stood < p.fit) => InRooms > MaxMobs

(* Every authored unit is in its pack, in order; the rest keeps within the *)
(* budget of the spot, and units without difficulty are never repeated.    *)
PacksInBudget ==
    \A p \in Range2(packs) :
        /\ IsPrefix(p.group, p.pack)
        /\ Total(p.pack) <= Larger(p.budget, Total(p.group))
        /\ \A k \in (Len(p.group) + 1)..Len(p.pack) : p.pack[k] > 0

(* No pack is placed where a player arrives who asks for no gate by name.  *)
ArrivalSafe == \A p \in Range2(packs) : p.at # entry

(* Whoever stands in a level can walk to all of it, and who arrives there  *)
(* to every gate, unless there is a cell with rooms all around.            *)
Connected ==
    Walled = {} => IF entry = Nowhere THEN OneMaze ELSE Gates \subseteq Reach(entry)
=============================================================================
