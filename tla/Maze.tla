-------------------------------- MODULE Maze --------------------------------
(***************************************************************************)
(* How the maze of a dungeon level is made (managers/maze.py): rooms with   *)
(* fixed exits are placed, corridors grow through what is left, exits are   *)
(* opened, dead ends are cut back and then joined to their neighbours.      *)
(*                                                                          *)
(* Abstractions.  The Mersenne twister draws anything.  A direction that    *)
(* the code draws again and again until one fits is any that fits.  How     *)
(* straight a corridor goes is a matter of chance and left out.  The bits   *)
(* of a cell are a set of directions; sizes in world units are left out.    *)
(***************************************************************************)
EXTENDS Integers, Sequences, SequencesExt, FiniteSets

CONSTANTS
    Width, Height,
    Plans,         \* lists of room nodes a level may ask for
    Sparseness,    \* maze_sparseness
    SureRemoval    \* maze_dead_end_removal_chance is 100

(* A room node: the variants of its tile set by their exits, the column    *)
(* and the row asked for (AnyLine: the maze may choose), and whether it is sure *)
(* to be placed (chance 100).                                              *)
AnyLine == -1

GridAssumption == Width \in Nat \ {0} /\ Height \in Nat \ {0}
Cell == (0..(Width - 1)) \X (0..(Height - 1))
Dir == {"n", "e", "s", "w"}
PlanAssumption ==
    /\ Sparseness \in Nat /\ SureRemoval \in BOOLEAN
    /\ \A p \in Plans : p \in Seq([variants : SUBSET SUBSET Dir, x : Int, y : Int,
                                   sure : BOOLEAN])
Nowhere == <<-1, -1>>
NoRoom == [src |-> 0, exits |-> {}]

VARIABLES
    plan,     \* _room_nodes
    phase,
    i,        \* the room node, the pass or the cell the phase is at
    cells,    \* _cells: the openings made so far
    room,     \* _occupied and _forced_exits
    left,     \* empty_remaining
    at        \* the cell a corridor or a walk is at

maze == <<plan, phase, i, cells, room, left, at>>

-----------------------------------------------------------------------------
(* Grid primitives *)

Neighbor(c, d) ==
    CASE d = "n" -> <<c[1], c[2] - 1>>
      [] d = "s" -> <<c[1], c[2] + 1>>
      [] d = "e" -> <<c[1] + 1, c[2]>>
      [] d = "w" -> <<c[1] - 1, c[2]>>

Opposite(d) ==
    CASE d = "n" -> "s" [] d = "s" -> "n" [] d = "e" -> "w" [] d = "w" -> "e"

IsRoom(c) == room[c] # NoRoom
(* _cell_byte: a room has its exits from the beginning.                    *)
CellByte(c) == cells[c] \cup room[c].exits
IsEmpty(c) == ~IsRoom(c) /\ cells[c] = {}
IsDeadEnd(c) == ~IsRoom(c) /\ Cardinality(cells[c]) = 1

Opened(g, c, d) == [g EXCEPT ![c] = @ \cup {d}, ![Neighbor(c, d)] = @ \cup {Opposite(d)}]
Closed(g, c, d) == [g EXCEPT ![c] = @ \ {d}, ![Neighbor(c, d)] = @ \ {Opposite(d)}]

(* The cells row by row.                                                   *)
InOrder == [k \in 1..(Width * Height) |-> <<(k - 1) % Width, (k - 1) \div Width>>]

-----------------------------------------------------------------------------
(* Room candidates *)

ForcedExitsFit(c, exits) == \A d \in exits : Neighbor(c, d) \in Cell

(* What a flood from the candidate meets: it leaves an empty cell in every *)
(* direction and a room by its exits, and enters a room by its exits.      *)
Solid(c, cand) == IsRoom(c) \/ c = cand
Exits(c, cand, exits) == IF c = cand THEN exits ELSE room[c].exits
Ways(c, cand, exits) == IF Solid(c, cand) THEN Exits(c, cand, exits) ELSE Dir
Enters(c, d, cand, exits) ==
    /\ Neighbor(c, d) \in Cell
    /\ Solid(Neighbor(c, d), cand) => Opposite(d) \in Exits(Neighbor(c, d), cand, exits)

Flood(cand, exits) ==
    LET reached[n \in 0..(Width * Height)] ==
            IF n = 0 THEN {cand}
            ELSE LET s == reached[n - 1]
                 IN  s \cup {Neighbor(x[1], x[2]) : x \in
                        {y \in s \X Dir : y[2] \in Ways(y[1], cand, exits)
                                          /\ Enters(y[1], y[2], cand, exits)}}
    IN  reached[Width * Height]

(* _map_fully_connected_with_candidate.                                    *)
MapFullyConnected_ExitsOnly(cand, exits) ==
    \A c \in Cell : Solid(c, cand) =>
        \A d \in Exits(c, cand, exits) : Enters(c, d, cand, exits)

MapFullyConnected(cand, exits) ==
    LET visited == Flood(cand, exits) IN
    /\ visited = Cell
    /\ \A c \in visited : Solid(c, cand) =>
        \A d \in Exits(c, cand, exits) : Enters(c, d, cand, exits)

(* A column or row beyond the grid is moved to its edge.                   *)
Wanted(asked, size) ==
    IF asked = AnyLine THEN 0..(size - 1)
    ELSE IF asked < 0 THEN {} ELSE {IF asked >= size THEN size - 1 ELSE asked}

RoomCandidates(spec, exits) ==
    {c \in Wanted(spec.x, Width) \X Wanted(spec.y, Height) :
        ~IsRoom(c) /\ ForcedExitsFit(c, exits) /\ MapFullyConnected(c, exits)}

-----------------------------------------------------------------------------
MazeInit ==
    /\ plan \in Plans
    /\ phase = "rooms" /\ i = 1 /\ left = 0 /\ at = Nowhere
    /\ cells = [c \in Cell |-> {}] /\ room = [c \in Cell |-> NoRoom]

(* _place_room_nodes: the variants are tried in any order.                 *)
PlaceRoom ==
    /\ phase = "rooms" /\ i <= Len(plan)
    /\ LET spec == plan[i]
           fitting == {v \in spec.variants : RoomCandidates(spec, v) # {}}
       IN  \/ \E v \in fitting : \E c \in RoomCandidates(spec, v) :
                room' = [room EXCEPT ![c] = [src |-> i, exits |-> v]]
           \/ (fitting = {} \/ ~spec.sure) /\ UNCHANGED room
    /\ i' = i + 1
    /\ UNCHANGED <<plan, phase, cells, left, at>>

(* The beginning of _generate_corridors.                                   *)
BeginCorridors ==
    LET empty == {c \in Cell : IsEmpty(c)}
        rest == Cardinality(empty) - 1
    IN
    /\ phase = "rooms" /\ i > Len(plan)
    /\ phase' = "corridors"
    /\ left' = IF rest < 0 THEN 0 ELSE rest
    /\ \/ at' \in empty
       \/ empty = {} /\ at' = Nowhere
    /\ UNCHANGED <<plan, i, cells, room>>

(* Where a corridor can go on: a room is left by its exits only.           *)
Free(c) ==
    {d \in IF IsRoom(c) THEN CellByte(c) ELSE Dir \ cells[c] :
        Neighbor(c, d) \in Cell /\ IsEmpty(Neighbor(c, d))}

Grow ==
    /\ phase = "corridors" /\ left > 0 /\ at # Nowhere
    /\ \/ \E d \in Free(at) :
            /\ cells' = Opened(cells, at, d)
            /\ at' = Neighbor(at, d) /\ left' = left - 1
       \/ Free(at) = {} /\ at' = Nowhere /\ UNCHANGED <<cells, left>>
    /\ UNCHANGED <<plan, phase, i, room>>

(* _get_random_corridor_cell: one with an empty neighbour; a room only if  *)
(* no corridor has one.                                                    *)
OpenEnds_Any == {c \in Cell : ~IsRoom(c) /\ cells[c] # {}}

OpenEnds ==
    LET normal == {c \in Cell : ~IsRoom(c) /\ cells[c] # {} /\ Free(c) # {}}
        forced == {c \in Cell : IsRoom(c) /\ Free(c) # {}}
    IN  IF normal # {} THEN normal ELSE forced

Branch ==
    /\ phase = "corridors" /\ left > 0 /\ at = Nowhere
    /\ at' \in OpenEnds
    /\ UNCHANGED <<plan, phase, i, cells, room, left>>

(* _apply_forced_room_exits: what a cell has of the ways S out of c.       *)
Facing(c, S, x) ==
    (IF x = c THEN S ELSE {}) \cup {Opposite(d) : d \in {e \in S : Neighbor(c, e) = x}}

ForcedAt_OneSided(g, c) == [g EXCEPT ![c] = @ \cup room[c].exits]

ForcedAt(g, c) ==
    LET inside == {d \in Dir : Neighbor(c, d) \in Cell}
        opened == room[c].exits \cap inside
        closed == (g[c] \ room[c].exits) \cap inside
    IN  IF room[c].exits = {} THEN g
        ELSE [x \in Cell |-> (g[x] \ Facing(c, closed, x)) \cup Facing(c, opened, x)]

(* Room by room, in order.                                                 *)
Forced ==
    LET swept[n \in 0..(Width * Height)] ==
            IF n = 0 THEN cells ELSE ForcedAt(swept[n - 1], InOrder[n])
    IN  swept[Width * Height]

ApplyForcedRoomExits ==
    /\ phase = "corridors" /\ (left = 0 \/ (at = Nowhere /\ OpenEnds = {}))
    /\ cells' = Forced
    /\ phase' = "sparsify" /\ i' = 1 /\ at' = Nowhere
    /\ UNCHANGED <<plan, room, left>>

(* _sparsify: dead ends are cut off, those at a room excepted.             *)
Sparsify ==
    LET ends == {c \in Cell : IsDeadEnd(c)} IN
    /\ phase = "sparsify" /\ i <= Sparseness /\ ends # {}
    /\ \E c \in ends : \E d \in cells[c] :
        cells' = IF IsRoom(Neighbor(c, d)) THEN cells ELSE Closed(cells, c, d)
    /\ i' = i + 1
    /\ UNCHANGED <<plan, phase, room, left, at>>

BeginRemoval ==
    /\ phase = "sparsify" /\ (i > Sparseness \/ \A c \in Cell : ~IsDeadEnd(c))
    /\ phase' = "removal" /\ i' = 1
    /\ UNCHANGED <<plan, cells, room, left, at>>

(* _remove_dead_ends: the cells are looked at in order, ...                *)
NextCell ==
    /\ phase = "removal" /\ at = Nowhere /\ i <= Width * Height
    /\ i' = i + 1
    /\ \/ IsDeadEnd(InOrder[i]) /\ at' = InOrder[i]
       \/ (IsDeadEnd(InOrder[i]) => ~SureRemoval) /\ UNCHANGED at
    /\ UNCHANGED <<plan, phase, cells, room, left>>

(* ... and from a dead end a way is made until it meets another.           *)
Outward(c) ==
    {d \in Dir : /\ Neighbor(c, d) \in Cell /\ cells[c] # {d}
                 /\ ~IsRoom(Neighbor(c, d))}

Walk ==
    /\ phase = "removal" /\ at # Nowhere
    /\ \/ \E d \in Outward(at) :
            LET nxt == Neighbor(at, d) IN
            /\ cells' = Opened(cells, at, d)
            /\ at' = IF cells'[nxt] # {Opposite(d)} THEN Nowhere ELSE nxt
       \/ Outward(at) = {} /\ at' = Nowhere /\ UNCHANGED cells
    /\ UNCHANGED <<plan, phase, i, room, left>>

Finish ==
    /\ phase = "removal" /\ at = Nowhere /\ i > Width * Height
    /\ phase' = "done"
    /\ UNCHANGED <<plan, i, cells, room, left, at>>

MazeNext ==
    \/ PlaceRoom \/ BeginCorridors \/ Grow \/ Branch \/ ApplyForcedRoomExits
    \/ Sparsify \/ BeginRemoval \/ NextCell \/ Walk \/ Finish

-----------------------------------------------------------------------------
(* The shape of the state.                                                 *)
TypeOK ==
    /\ plan \in Plans /\ i \in Nat /\ left \in Nat
    /\ phase \in {"rooms", "corridors", "sparsify", "removal", "done"}
    /\ cells \in [Cell -> SUBSET Dir] /\ at \in Cell \cup {Nowhere}
    /\ room \in [Cell -> [src : 0..Len(plan), exits : SUBSET Dir]]

Ended == phase = "done"

(* No opening faces a wall or leads out of the grid, rooms included.       *)
OpeningsMeet ==
    Ended => \A c \in Cell : \A d \in CellByte(c) :
        Neighbor(c, d) \in Cell /\ Opposite(d) \in CellByte(Neighbor(c, d))

(* The maze adds no opening to a room and closes none: its tile has the    *)
(* exits it has.                                                           *)
RoomsKeepExits ==
    Ended => \A c \in Cell : IsRoom(c) => cells[c] = room[c].exits

Reach(c) ==
    LET r[n \in 0..(Width * Height)] ==
            IF n = 0 THEN {c}
            ELSE LET s == r[n - 1]
                 IN  s \cup {Neighbor(x[1], x[2]) : x \in {y \in s \X Dir : y[2] \in CellByte(y[1])}}
    IN  r[Width * Height]

(* Whoever stands in a cell of the level can walk to every other.          *)
OneMaze ==
    Ended => LET open == {c \in Cell : CellByte(c) # {}} IN
             \A c \in open : open \subseteq Reach(c)

(* The cells with rooms all around.  If the first corridor starts in one,  *)
(* one cell less than there are is filled, and rooms around that cell may  *)
(* stay cut off.                                                           *)
Walled ==
    {c \in Cell : /\ ~IsRoom(c)
                  /\ \A d \in Dir : Neighbor(c, d) \in Cell => IsRoom(Neighbor(c, d))}

(* What is left to do.  A corridor that is stuck costs one more step, and  *)
(* so does looking for another beginning; a dead end is opened at most     *)
(* once in every direction.                                                *)
Idle == CASE at = Nowhere -> 1 [] at # Nowhere /\ Free(at) = {} -> 2 [] OTHER -> 0
Shut == Cardinality({x \in Cell \X Dir : x[2] \notin cells[x[1]]})
Area == Width * Height
Work ==
    CASE phase = "rooms" -> <<4, Len(plan) + 1 - i>>
      [] phase = "corridors" -> <<3, 3 * left + Idle>>
      [] phase = "sparsify" -> <<2, Sparseness + 1 - i>>
      [] phase = "removal" -> <<1, 2 * (Area + 1 - i) + Shut + (IF at = Nowhere THEN 0 ELSE 1)>>
      [] phase = "done" -> <<0, 0>>

(* Drawing again and again comes to an end: every step of the generator    *)
(* leaves less to do than there was, and never less than nothing.          *)
Terminates ==
    [][/\ Work'[2] >= 0
       /\ Work'[1] < Work[1] \/ (Work'[1] = Work[1] /\ Work'[2] < Work[2])]_maze
=============================================================================
