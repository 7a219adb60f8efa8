-------------------------------- MODULE Items --------------------------------
(***************************************************************************)
(* Where the items of the players are: the bag of the session and the bag  *)
(* of the character row (net/inventory.py, net/inventory_model.py), the    *)
(* cursor, the equipment slots (net/equipment.py), the ground              *)
(* (managers/loot.py) and the stock of a merchant (managers/merchants.py). *)
(* Handlers of different players interleave; each runs to completion.      *)
(*                                                                         *)
(* Abstractions.  Every physical item has an identity, which the code does *)
(* not give it, so that an item in two places shows; a stack is the set of *)
(* its items.  All potions are of one sort and the gear is all different.  *)
(* Every item takes one cell.  Equipment is a main hand and an off hand.   *)
(* Gold, prices, ranges, levels and membership are left out: the refusals  *)
(* that depend on them change nothing.  A crash of the server is all       *)
(* memory lost between two handlers; as a handler saves the bag once, that *)
(* covers a crash before and after its save.                               *)
(*                                                                         *)
(* An operator named Op_Slip is Op with a mistake in it that the checks    *)
(* must find; no other definition uses it.                                 *)
(***************************************************************************)
EXTENDS Integers, FiniteSets, Sequences, SequencesExt

CONSTANTS
    Player,
    Gear,           \* weapons and off-hand items
    Potion,         \* potions, which stack
    TwoHanded,      \* gear that needs both hands
    OffHand,        \* gear for the off hand only
    NCells,         \* cells of a bag
    LoadLimit,      \* how many rows are loaded at spawn (20)
    MaxStack,       \* the size a stack may be topped up at
    NDrops,         \* size of the id block of ground drops
    NoItem          \* an empty equipment slot

ASSUME ItemAssumption ==
    /\ Gear \cap Potion = {}
    /\ TwoHanded \subseteq Gear /\ OffHand \subseteq Gear
    /\ TwoHanded \cap OffHand = {}
    /\ NoItem \notin Gear \cup Potion
ASSUME BoundAssumption == {NCells, LoadLimit, MaxStack, NDrops} \subseteq Nat \ {0}

VARIABLES
    inWorld,       \* the players whose session has a bag
    bag,           \* conn.inv_model: rows in the order of their slot ids
    saved,         \* inventory of the character row
    unsynced,      \* the bag was loaded without the affixes, not reconciled yet
    cursor,        \* inv_model.cursor, {} when empty
    worn,          \* the equipment of the character row
    ground,        \* loot._dropped_items: drop id -> stack, {} for no entry
    nextDrop,      \* loot._next_dropped_id
    stock,         \* the merchant's dynamic tab
    plain,         \* gear without affixes: made so, or lost since
    unborn         \* items not yet made

vars == <<inWorld, bag, saved, unsynced, cursor, worn, ground, nextDrop, stock,
          plain, unborn>>

-----------------------------------------------------------------------------
(* Data *)

Item  == Gear \cup Potion
Hand  == {"weapon", "shield"}
Cell  == 1..NCells
Drop  == 0..(NDrops - 1)
Stack == {s \in SUBSET Item : s # {} /\ (s \subseteq Potion \/ Cardinality(s) = 1)}
Row   == [items : Stack, cell : Cell]

ItemsIn(rows) == UNION {r.items : r \in Range(rows)}
CellsIn(rows) == {r.cell : r \in Range(rows)}
FreeCells(rows) == Cell \ CellsIn(rows)

(* The rows that are in S, in their order; a filter without recursion, so  *)
(* that it can be proved about.                                            *)
Kept(rows, S) ==
    LET I       == {k \in DOMAIN rows : rows[k] \in S}
        Rank(k) == Cardinality({j \in I : j <= k})
    IN  [n \in 1..Cardinality(I) |-> rows[CHOOSE k \in I : Rank(k) = n]]

Without(rows, r) == Kept(rows, Range(rows) \ {r})

(* _find_free_slot: the first cell that is free.                           *)
FirstFree(rows) == CHOOSE c \in FreeCells(rows) : \A d \in FreeCells(rows) : c <= d

(* _reconcile: rows the bag and the character row share keep their place,  *)
(* the others of the row are appended, those it lacks are dropped.         *)
Reconciled(p) ==
    Kept(bag[p], Range(saved[p]))
        \o Kept(saved[p], Range(saved[p]) \ Range(bag[p]))

(* The bag of p becomes rows, in memory and in the row (_persist).         *)
Persisted_BagOnly(p, rows) ==
    /\ bag' = [bag EXCEPT ![p] = rows]
    /\ saved' = saved

Persisted(p, rows) ==
    /\ bag' = [bag EXCEPT ![p] = rows]
    /\ saved' = [saved EXCEPT ![p] = rows]

(* A handler that reconciles before anything else, and what the bag of p   *)
(* is at its end when it saves nothing.                                    *)
ReconciledOnly(p) ==
    /\ bag' = [bag EXCEPT ![p] = Reconciled(p)]
    /\ UNCHANGED <<saved, cursor, worn, ground, nextDrop, stock, unborn>>

Syncs(p) == unsynced' = [unsynced EXCEPT ![p] = FALSE] /\ plain' = plain

(* A handler that saves the bag without reconciling it writes what was     *)
(* loaded: the affixes are gone from the row.  What it adds has none.      *)
SavesUnsynced(p, new) ==
    /\ unsynced' = [unsynced EXCEPT ![p] = FALSE]
    /\ plain' = plain \cup
          (Gear \cap (new \cup (IF unsynced[p] THEN ItemsIn(bag[p]) ELSE {})))

-----------------------------------------------------------------------------
(* Adding to a bag *)

(* Stacks of rows that another potion can top up.                          *)
Open(rows) ==
    {k \in DOMAIN rows : /\ rows[k].items \subseteq Potion
                         /\ Cardinality(rows[k].items) < MaxStack}

FirstOpen(rows) == CHOOSE k \in Open(rows) : \A j \in Open(rows) : k <= j

Fits(rows, s) == (s \subseteq Potion /\ Open(rows) # {}) \/ FreeCells(rows) # {}

(* The rows with the stack s added: potions top up the first open stack,   *)
(* anything else takes the first free cell.                                *)
Added(rows, s) ==
    IF s \subseteq Potion /\ Open(rows) # {}
    THEN [rows EXCEPT ![FirstOpen(rows)].items = @ \cup s]
    ELSE Append(rows, [items |-> s, cell |-> FirstFree(rows)])

-----------------------------------------------------------------------------
(* Sessions *)

(* The avatar is spawned, at login or in another zone: the first rows are  *)
(* loaded, without affixes, and the cursor is cleared (InventoryModel.load *)
(* and reset, spawn.py).                                                   *)
EnterZone(p) ==
    /\ inWorld' = inWorld \cup {p}
    /\ bag' = [bag EXCEPT ![p] = SubSeq(saved[p], 1,
                 IF Len(saved[p]) <= LoadLimit THEN Len(saved[p]) ELSE LoadLimit)]
    /\ unsynced' = [unsynced EXCEPT ![p] = TRUE]
    /\ cursor' = [cursor EXCEPT ![p] = {}]
    /\ UNCHANGED <<saved, worn, ground, nextDrop, stock, plain, unborn>>

(* The connection is lost.                                                 *)
Disconnect(p) ==
    /\ p \in inWorld
    /\ inWorld' = inWorld \ {p}
    /\ bag' = [bag EXCEPT ![p] = <<>>]
    /\ cursor' = [cursor EXCEPT ![p] = {}]
    /\ UNCHANGED <<saved, unsynced, worn, ground, nextDrop, stock, plain, unborn>>

(* The server dies: what is not in a character row is gone.                *)
Crash ==
    /\ inWorld # {}
    /\ inWorld' = {}
    /\ bag' = [p \in Player |-> <<>>]
    /\ cursor' = [p \in Player |-> {}]
    /\ ground' = [d \in Drop |-> {}]
    /\ nextDrop' = 0
    /\ stock' = {}
    /\ unborn' = unborn \cup stock
    /\ UNCHANGED <<saved, unsynced, worn, plain>>

-----------------------------------------------------------------------------
(* Bag and cursor *)

(* handle_pickup_item: a row goes onto the cursor, unless it holds one.    *)
TakeUp(p) ==
    /\ p \in inWorld
    /\ Syncs(p)
    /\ \/ cursor[p] # {} /\ ReconciledOnly(p)
       \/ \E r \in Range(Reconciled(p)) :
          /\ cursor[p] = {}
          /\ Persisted(p, Without(Reconciled(p), r))
          /\ cursor' = [cursor EXCEPT ![p] = r.items]
          /\ UNCHANGED <<worn, ground, nextDrop, stock, unborn>>
    /\ UNCHANGED inWorld

(* The cells the cursor item may be placed in.                             *)
Placeable_Anywhere(rows) == Cell

Placeable(rows) == FreeCells(rows)

(* handle_place_item.                                                      *)
Place(p, c) ==
    /\ p \in inWorld
    /\ Syncs(p)
    /\ \/ (cursor[p] = {} \/ c \notin Placeable(Reconciled(p))) /\ ReconciledOnly(p)
       \/ /\ cursor[p] # {}
          /\ c \in Placeable(Reconciled(p))
          /\ Persisted(p, Append(Reconciled(p), [items |-> cursor[p], cell |-> c]))
          /\ cursor' = [cursor EXCEPT ![p] = {}]
          /\ UNCHANGED <<worn, ground, nextDrop, stock, unborn>>
    /\ UNCHANGED inWorld

(* handle_use_item on a potion: the stack loses one, an empty one goes.    *)
UsePotion(p) ==
    /\ p \in inWorld
    /\ Syncs(p)
    /\ LET rows == Reconciled(p) IN
       \E k \in DOMAIN rows :
          /\ rows[k].items \subseteq Potion
          /\ \E i \in rows[k].items :
                Persisted(p, IF rows[k].items = {i} THEN Without(rows, rows[k])
                             ELSE [rows EXCEPT ![k].items = @ \ {i}])
    /\ UNCHANGED <<inWorld, cursor, worn, ground, nextDrop, stock, unborn>>

(* handle_sell: the cursor item, or with an empty cursor a row.            *)
Sell(p) ==
    /\ p \in inWorld
    /\ Syncs(p)
    /\ \/ /\ cursor[p] # {}
          /\ Persisted(p, Reconciled(p))
          /\ cursor' = [cursor EXCEPT ![p] = {}]
       \/ /\ cursor[p] = {}
          /\ \E r \in Range(Reconciled(p)) : Persisted(p, Without(Reconciled(p), r))
          /\ cursor' = cursor
    /\ UNCHANGED <<inWorld, worn, ground, nextDrop, stock, unborn>>

(* handle_buy: what another player bought in the meantime is refused.      *)
Buy(p) ==
    /\ p \in inWorld
    /\ \E i \in stock :
          /\ \/ ~Fits(Reconciled(p), {i}) /\ ReconciledOnly(p)
             \/ /\ Fits(Reconciled(p), {i})
                /\ stock' = stock \ {i}
                /\ Persisted(p, Added(Reconciled(p), {i}))
                /\ UNCHANGED <<cursor, worn, ground, nextDrop, unborn>>
          /\ Syncs(p)
    /\ UNCHANGED inWorld

(* The dynamic tab is generated anew.                                      *)
Restock(i) ==
    /\ i \in unborn
    /\ stock' = {i}
    /\ unborn' = (unborn \ {i}) \cup stock
    /\ UNCHANGED <<inWorld, bag, saved, unsynced, cursor, worn, ground, nextDrop,
                   plain>>

(* give_stacked_item for a quest reward, without reconciling; what does    *)
(* not fit falls to the ground.                                            *)
Reward(p, i) ==
    /\ p \in inWorld
    /\ i \in unborn
    /\ unborn' = unborn \ {i}
    /\ \/ /\ Fits(bag[p], {i})
          /\ Persisted(p, Added(bag[p], {i}))
          /\ SavesUnsynced(p, {i})
          /\ UNCHANGED <<ground, nextDrop>>
       \/ /\ ~Fits(bag[p], {i})
          /\ ground' = [ground EXCEPT ![nextDrop] = {i}]
          /\ nextDrop' = (nextDrop + 1) % NDrops
          /\ UNCHANGED <<bag, saved, unsynced, plain>>
    /\ UNCHANGED <<inWorld, cursor, worn, stock>>

(* remove_items_by_gc when a quest takes its items, without reconciling.   *)
TurnInItem(p) ==
    /\ p \in inWorld
    /\ \E k \in DOMAIN bag[p] :
          /\ bag[p][k].items \subseteq Potion
          /\ \E i \in bag[p][k].items :
                Persisted(p, IF bag[p][k].items = {i} THEN Without(bag[p], bag[p][k])
                             ELSE [bag[p] EXCEPT ![k].items = @ \ {i}])
    /\ SavesUnsynced(p, {})
    /\ UNCHANGED <<inWorld, cursor, worn, ground, nextDrop, stock, unborn>>

-----------------------------------------------------------------------------
(* Equipment *)

(* The hands an item of gear may go to: a weapon for one hand fits both.   *)
Hands(i) ==
    CASE i \in TwoHanded -> {"weapon"}
      [] i \in OffHand -> {"shield"}
      [] OTHER -> Hand

(* The other hand is in the way.                                           *)
Blocked(p, i, h) ==
    \/ h = "weapon" /\ i \in TwoHanded /\ worn[p]["shield"] # NoItem
    \/ h = "shield" /\ worn[p]["weapon"] \in TwoHanded

(* What the cursor of p holds after i went into the hand h.                *)
SwappedOut_Nothing(p, i, h) == {}

SwappedOut(p, i, h) == {worn[p][h]} \ {NoItem}

(* handle_add_equipped_item: the cursor item is worn, what was worn goes   *)
(* onto the cursor.                                                        *)
Equip(p, h) ==
    /\ p \in inWorld
    /\ \E i \in Gear :
          /\ cursor[p] = {i}
          /\ h \in Hands(i)
          /\ ~Blocked(p, i, h)
          /\ worn' = [worn EXCEPT ![p][h] = i]
          /\ cursor' = [cursor EXCEPT ![p] = SwappedOut(p, i, h)]
    /\ UNCHANGED <<inWorld, bag, saved, unsynced, ground, nextDrop, stock, plain,
                   unborn>>

(* handle_remove_equipped_item: whatever the cursor held is overwritten.   *)
Unequip(p, h) ==
    /\ p \in inWorld
    /\ worn[p][h] # NoItem
    /\ worn' = [worn EXCEPT ![p][h] = NoItem]
    /\ cursor' = [cursor EXCEPT ![p] = {worn[p][h]}]
    /\ UNCHANGED <<inWorld, bag, saved, unsynced, ground, nextDrop, stock, plain,
                   unborn>>

-----------------------------------------------------------------------------
(* Ground *)

(* handle_drop_item: the cursor item gets the next id of the block; its    *)
(* affixes are not kept with the drop.                                     *)
DropHeld(p) ==
    /\ p \in inWorld
    /\ cursor[p] # {}
    /\ ground' = [ground EXCEPT ![nextDrop] = cursor[p]]
    /\ nextDrop' = (nextDrop + 1) % NDrops
    /\ cursor' = [cursor EXCEPT ![p] = {}]
    /\ plain' = plain \cup (cursor[p] \cap Gear)
    /\ UNCHANGED <<inWorld, bag, saved, unsynced, worn, stock, unborn>>

(* generate_loot_for_monster.                                              *)
LootDrop(i) ==
    /\ i \in unborn
    /\ ground' = [ground EXCEPT ![nextDrop] = {i}]
    /\ nextDrop' = (nextDrop + 1) % NDrops
    /\ unborn' = unborn \ {i}
    /\ UNCHANGED <<inWorld, bag, saved, unsynced, cursor, worn, stock, plain>>

(* The drop is claimed before anything else (remove_drop), so that a       *)
(* second click finds nothing.                                             *)
Claim_Peek(d) == ground' = ground

Claim(d) == ground' = [ground EXCEPT ![d] = {}]

(* handle_ground_pickup: with a full bag the drop is registered again.     *)
PickUpDrop(p, d) ==
    /\ p \in inWorld
    /\ ground[d] # {}
    /\ Syncs(p)
    /\ \/ ~Fits(Reconciled(p), ground[d]) /\ ReconciledOnly(p)
       \/ /\ Fits(Reconciled(p), ground[d])
          /\ Claim(d)
          /\ Persisted(p, Added(Reconciled(p), ground[d]))
          /\ UNCHANGED <<cursor, worn, nextDrop, stock, unborn>>
    /\ UNCHANGED inWorld

(* A Bling Gnome eats a drop and turns it into gold.                       *)
GnomeEats(d) ==
    /\ ground[d] # {}
    /\ Claim(d)
    /\ UNCHANGED <<inWorld, bag, saved, unsynced, cursor, worn, nextDrop, stock,
                   plain, unborn>>

-----------------------------------------------------------------------------
Init ==
    /\ inWorld = {}
    /\ bag = [p \in Player |-> <<>>]
    /\ saved = [p \in Player |-> <<>>]
    /\ unsynced = [p \in Player |-> FALSE]
    /\ cursor = [p \in Player |-> {}]
    /\ worn = [p \in Player |-> [h \in Hand |-> NoItem]]
    /\ ground = [d \in Drop |-> {}]
    /\ nextDrop = 0
    /\ stock = {}
    /\ plain = {}
    /\ unborn = Item

Next ==
    \/ \E p \in Player : EnterZone(p) \/ Disconnect(p)
    \/ Crash
    \/ \E p \in Player : TakeUp(p) \/ UsePotion(p) \/ Sell(p) \/ Buy(p)
    \/ \E p \in Player : TurnInItem(p) \/ DropHeld(p)
    \/ \E p \in Player, c \in Cell : Place(p, c)
    \/ \E p \in Player, i \in Item : Reward(p, i)
    \/ \E p \in Player, h \in Hand : Equip(p, h) \/ Unequip(p, h)
    \/ \E p \in Player, d \in Drop : PickUpDrop(p, d)
    \/ \E d \in Drop : GnomeEats(d)
    \/ \E i \in Item : Restock(i) \/ LootDrop(i)

Spec == Init /\ [][Next]_vars

-----------------------------------------------------------------------------
(* Properties *)

TypeOK ==
    /\ inWorld \subseteq Player
    /\ bag \in [Player -> Seq(Row)]
    /\ saved \in [Player -> Seq(Row)]
    /\ unsynced \in [Player -> BOOLEAN]
    /\ cursor \in [Player -> Stack \cup {{}}]
    /\ worn \in [Player -> [Hand -> Gear \cup {NoItem}]]
    /\ ground \in [Drop -> Stack \cup {{}}]
    /\ nextDrop \in Drop
    /\ stock \subseteq Item
    /\ plain \subseteq Gear
    /\ unborn \subseteq Item

(* The places an item is in, session and row of a bag being one place.     *)
Places(i) ==
    {<<"bag", p>> : p \in {q \in Player : i \in ItemsIn(bag[q]) \cup ItemsIn(saved[q])}}
    \cup {<<"cursor", p>> : p \in {q \in Player : i \in cursor[q]}}
    \cup {x \in Hand \X Player : worn[x[2]][x[1]] = i}
    \cup {<<"ground", d>> : d \in {e \in Drop : i \in ground[e]}}
    \cup (IF i \in stock THEN {<<"stock", 0>>} ELSE {})
    \cup (IF i \in unborn THEN {<<"unborn", 0>>} ELSE {})

(* No item is ever in two places, nor in two rows of a bag: not after two  *)
(* players clicked one drop or bought one item, not after a swap of        *)
(* equipment, and not after a reconnect or a crash brought a row back.     *)
NothingDuplicated ==
    /\ \A i \in Item : Cardinality(Places(i)) <= 1
    /\ \A p \in Player : \A rows \in {bag[p], saved[p]} :
           \A j, k \in DOMAIN rows : rows[j].items \cap rows[k].items # {} => j = k

(* No two rows of a bag share a cell, in the session or in the row, so     *)
(* that each can be seen and taken up (_find_free_slot, occupied).         *)
CellsApart ==
    \A p \in Player : \A rows \in {bag[p], saved[p]} :
        \A j, k \in DOMAIN rows : rows[j].cell = rows[k].cell => j = k

(* While the row fits what a spawn loads, the bag of the session and the   *)
(* row are the same after every handler (inventory_model.py: "every        *)
(* mutation is also persisted").                                           *)
BagIsSaved ==
    \A p \in inWorld : Len(saved[p]) <= LoadLimit => bag[p] = saved[p]

(* Nobody wields a two-handed weapon beside an off-hand item, whichever    *)
(* was equipped first (handle_add_equipped_item).                          *)
HandsCompatible ==
    \A p \in Player :
        worn[p]["weapon"] \in TwoHanded => worn[p]["shield"] = NoItem

(* Every item is where it may be: a cell of its own, a hand that is free.  *)
PlacesLawful == TypeOK /\ CellsApart /\ HandsCompatible

(* What a player has.                                                      *)
Owned(p) ==
    ItemsIn(bag[p]) \cup ItemsIn(saved[p]) \cup cursor[p]
        \cup ({worn[p][h] : h \in Hand} \ {NoItem})

(* What a player with a bag that a spawn loads whole has, it keeps through *)
(* everything but giving it up: it uses, sells, turns in or drops an item, *)
(* or ends its session or takes off equipment with an item on the cursor.  *)
KeepsItems ==
    [][\A p \in Player :
          LET lost == Owned(p) \ Owned(p)' IN
          \/ Len(saved[p]) > LoadLimit
          \/ lost = {}
          \/ /\ lost = cursor[p]
             /\ \/ EnterZone(p) \/ Disconnect(p) \/ Crash \/ DropHeld(p) \/ Sell(p)
                \/ \E h \in Hand : Unequip(p, h)
          \/ /\ UsePotion(p) \/ Sell(p) \/ TurnInItem(p)
             /\ \E r \in Range(saved[p]) : lost \subseteq r.items]_vars

=============================================================================
