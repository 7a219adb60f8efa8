------------------------------- MODULE MCLand -------------------------------
(***************************************************************************)
(* Land for TLC: each of its five parts is explored in full.                *)
(***************************************************************************)
EXTENDS Land, TLC

CONSTANTS
    cam, dee, k1, k2,             \* two travellers, two characters
    tutorial, town, cave, lair,   \* the zones
    ann, bob, rat                 \* two fighters, a monster

-----------------------------------------------------------------------------
\* One numbered and one flattened item, one that the item tree lost; a vendor of
\* each kind.
MCPrefixed == [robe |-> "items.pal.robe"]
MCStock == [smith |-> {"axe"}, hubvendor |-> {"items.pal.robe"}, admin |-> {"relic"}]
MCLegacy == [items |-> {"axe", "relic", "items.pal.robe"}, shops |-> {"smith", "admin"},
             creatures |-> {"orc"}, armed |-> {"orc"}, client |-> {}, players |-> {},
             sound |-> TRUE]
MCSnapshot == [MCLegacy EXCEPT !.items = {"axe", "relic"}]

-----------------------------------------------------------------------------
\* Two mobs and a boss over one node of each creature kind, and the ways they extend.
MCExtensions ==
    {[melee |-> m, alias |-> a, boss |-> b, lib |-> l, dogbase |-> s, dog |-> "dogbase"] :
        m \in {"lib", "dogbase", "dog", "boss"},
        a \in {"dog", "lib", "prop", "melee", "boss"},
        b \in {"dog", "dogbase", "ranged", "alias"},
        l \in {"StockUnit", "ranged"}, s \in {"lib", "ranged", "prop"}}
MCStatements ==
    {[melee |-> m, alias |-> a, boss |-> b, lib |-> 1, dogbase |-> s, dog |-> 0] :
        m \in {0, 2}, a \in {0, 8}, b \in {0, 3, 8}, s \in {0, 4}}
MCWorlds ==
    [level |-> [maze |-> TRUE, table |-> "main", leader |-> "leaders",
                rooms |-> <<"none", "leaders">>, markers |-> <<>>, placed |-> {}],
     arena |-> [maze |-> FALSE, table |-> "none", leader |-> "none",
                rooms |-> <<>>, markers |-> <<"none", "master">>, placed |-> {"nci"}]]
MCTables ==
    [main |-> << <<"melee", "dog">> >>, master |-> << <<"boss", "melee">> >>,
     leaders |-> << <<"crate">>, <<"melee">>, <<"alias", "crate">> >>]
MCGenerated == [nci |-> "alias"]

-----------------------------------------------------------------------------
\* A stair and a hall, a corner and a stair, and a wall of three rooms: the last
\* would face a wall or part the grid and is never placed.
Stairs == [variants |-> {{"n"}, {"s"}}, x |-> -1, y |-> 5, sure |-> TRUE]
Hall == [variants |-> {{"n", "s"}, {"e", "w"}}, x |-> -1, y |-> -1, sure |-> FALSE]
Corner == [variants |-> {{"e", "s"}}, x |-> 0, y |-> -1, sure |-> TRUE]
Wall == <<[variants |-> {{"e"}}, x |-> 1, y |-> 0, sure |-> TRUE],
          [variants |-> {{"w"}}, x |-> 1, y |-> 1, sure |-> TRUE],
          [variants |-> {{"n"}, {"e"}}, x |-> 1, y |-> 2, sure |-> TRUE]>>
MCPlans == {<<Stairs, Hall>>, <<Corner, Stairs>>, Wall}
MCKind == [p \in MCPlans |-> IF p = <<Stairs, Hall>> THEN <<"start", "room">>
                             ELSE <<"room", "link", "room">>]
MCEncounter == [p \in MCPlans |-> IF p = <<Stairs, Hall>> THEN << <<6>>, <<2, 0>> >>
                                  ELSE << <<2, 4>>, <<2>>, <<>> >>]
MCGroups == << <<4>>, <<2, 3>> >>
MCMarkers == [s \in SUBSET {"n", "e", "s", "w"} |->
                IF Cardinality(s) < 3 THEN 0 ELSE Cardinality(s) - 2]

-----------------------------------------------------------------------------
\* The lair's gate opens with its boss; one portal leads to a zone the registry
\* does not know.
MCPortals == {[from |-> tutorial, to |-> lair, way |-> "gate"],
              [from |-> lair, to |-> cave, way |-> "door"],
              [from |-> cave, to |-> town, way |-> "gate"],
              [from |-> town, to |-> "unbuilt", way |-> "door"]}
MCTeleporters == {[from |-> town, to |-> tutorial, way |-> ""]}
MCWaypoints == {<<town, "gate">>}
MCOrder == town :> 1 @@ tutorial :> 2 @@ cave :> 3

\* Nothing distinguishes one traveller or character from the other.
Exchangeable == Permutations({cam, dee}) \cup Permutations({k1, k2})

-----------------------------------------------------------------------------
\* A monster on a line of four points, under the flags the program documents.
MCSeniority == ann :> 1 @@ bob :> 2
MCHome == rat :> 0
MCModels ==
    {[who |-> "native", inject |-> FALSE, clamp |-> FALSE, late |-> {rat}]}
    \cup [who : {"follow"}, inject : {TRUE}, clamp : BOOLEAN, late : {{}}]
    \cup [who : {"follow"}, inject : {FALSE}, clamp : {FALSE}, late : {{}}]
    \cup [who : {"enroll"}, inject : {FALSE}, clamp : BOOLEAN, late : {{}}]
=============================================================================
