-------------------------------- MODULE Shop --------------------------------
(***************************************************************************)
(* The stock of a vendor (managers/merchants.py): how it is generated, sold,*)
(* topped up after purchases and regenerated, and what the clients show.    *)
(*                                                                          *)
(* The vendor has one stock for the whole server.  Every copy of its zone   *)
(* has a component that shows it, and a client only learns of changes from  *)
(* what is sent to its own connection: the whole stock when it enters, its  *)
(* own purchases, and the restocks and refills that its clicks and          *)
(* purchases have armed.  Requests are under way while others change the    *)
(* stock or while the player is taken to another zone.                      *)
(*                                                                          *)
(* Abstractions.  One dynamic tab; a kind of item has a size and a price.   *)
(* The shuffle and the chances of the item generator are an arbitrary order *)
(* of arbitrary kinds.  A timer may run out at any time after it was set.   *)
(* Packets to a client arrive at once; a component is named by its copy of  *)
(* the zone.                                                                *)
(***************************************************************************)
EXTENDS Integers, Sequences, SequencesExt, FiniteSets

CONSTANTS
    Player,
    FreePlayer,  \* those without a membership
    Copy,        \* the copies of the vendor's zone
    Kind,        \* what the item generator can make
    RareKind,    \* Rare and Unique items, for members only
    Size,        \* kind -> <<width, height>>
    Price,       \* kind -> gold
    Width, Height,  \* the grid of the tab
    Ceiling,     \* _MAX_GENERATED_PER_TAB
    Gold,        \* bound: gold of a player
    MaxLevel,    \* bound: player levels
    MaxId,       \* bound: item ids
    MaxUp,       \* bound: requests of a player under way
    MaxMoves,    \* bound: entries of all players
    MaxAsks      \* bound: requests of all players

None == "none"
Transit == "transit"

PlayerAssumption == FreePlayer \subseteq Player /\ RareKind \subseteq Kind
GridAssumption ==
    /\ Width \in Nat /\ Height \in Nat
    /\ Size \in [Kind -> (1..Width) \X (1..Height)]
PriceAssumption == IsFiniteSet(Kind) /\ Price \in [Kind -> Nat] /\ {Gold, MaxUp} \subseteq Nat
CopyAssumption == {None, Transit} \cap Copy = {}

VARIABLES
    stock,    \* tab.items
    nextId,   \* next_item_id
    genFor,   \* tab.generated_for_level
    at,       \* the copy a player is spawned in, or Transit
    level, gold,   \* of a player
    armed,    \* active_merchant_cid
    refill,   \* merchant_refill_cid
    shown,    \* the items the client shows
    up,       \* requests under way
    used      \* entries and requests so far

vars == <<stock, nextId, genFor, at, level, gold, armed, refill, shown, up, used>>

Off == [cid |-> None, late |-> FALSE]

(* A timer for the component of copy c; late records that the player was   *)
(* in the loading screen by then.                                          *)
Counting(p, c) == [cid |-> c, late |-> at[p] = Transit]

(* A copy that nobody is in is torn down, its components unregistered.     *)
Registered(c) == \E p \in Player : at[p] = c

-----------------------------------------------------------------------------
(* Stock generation *)

CellsAt(k, x, y) ==
    (x..(x + Size[k][1] - 1)) \X (y..(y + Size[k][2] - 1))
CellsOf(i) == CellsAt(i.kind, i.x, i.y)
Taken(items) == UNION {CellsOf(i) : i \in items}

Spots(k, taken) ==
    {s \in (1..(Width - Size[k][1] + 1)) \X (1..(Height - Size[k][2] + 1)) :
        CellsAt(k, s[1], s[2]) \cap taken = {}}

(* _first_free_spot: columns first, as in the client.                      *)
First(spots) ==
    CHOOSE s \in spots : \A t \in spots : s[1] < t[1] \/ (s[1] = t[1] /\ s[2] <= t[2])

(* One more item of kind k, where the cells taken leave room for it.       *)
Placed(tab, k) ==
    IF Cardinality(tab.items) >= Ceiling \/ Spots(k, tab.taken) = {} THEN tab
    ELSE LET s == First(Spots(k, tab.taken))
             i == [id |-> tab.next, kind |-> k, x |-> s[1], y |-> s[2]]
         IN  [items |-> tab.items \cup {i}, next |-> tab.next + 1,
              taken |-> tab.taken \cup CellsOf(i)]

PlacedIfNew(tab, k) ==
    IF k \in {i.kind : i \in tab.items} THEN tab ELSE Placed(tab, k)

(* Where a generated tab starts: the counter of the vendor goes on.        *)
EmptyTab_FirstId(next) == [items |-> {}, next |-> 1, taken |-> {}]

EmptyTab(next) == [items |-> {}, next |-> next, taken |-> {}]

(* generate_tab.                                                           *)
Generated(order, next) ==
    LET tab[n \in 0..Len(order)] ==
            IF n = 0 THEN EmptyTab(next) ELSE Placed(tab[n - 1], order[n])
    IN  tab[Len(order)]

(* _build_occupancy.                                                       *)
Occupied(items) == Taken(items)

(* _top_up_tab: kinds the tab lacks, then any.                             *)
ToppedUp(order, items, next) ==
    LET lacked[n \in 0..Len(order)] ==
            IF n = 0 THEN [items |-> items, next |-> next, taken |-> Occupied(items)]
            ELSE PlacedIfNew(lacked[n - 1], order[n])
        full[n \in 0..Len(order)] ==
            IF n = 0 THEN lacked[Len(order)] ELSE Placed(full[n - 1], order[n])
    IN  full[Len(order)]

(* _legacy_candidates.                                                     *)
Candidates == UNION {SetToSeqs(ks) : ks \in SUBSET Kind}

Regenerated(p) ==
    \E order \in Candidates :
        LET tab == Generated(order, nextId) IN
        /\ tab.next <= MaxId + 1
        /\ stock' = tab.items /\ nextId' = tab.next /\ genFor' = level[p]

-----------------------------------------------------------------------------
Init ==
    /\ stock = {} /\ nextId = 1 /\ genFor = 0
    /\ at = [p \in Player |-> Transit]
    /\ level = [p \in Player |-> 1] /\ gold = [p \in Player |-> Gold]
    /\ armed = [p \in Player |-> Off] /\ refill = [p \in Player |-> Off]
    /\ shown = [p \in Player |-> {}] /\ up = [p \in Player |-> <<>>]
    /\ used = [moves |-> 0, asks |-> 0]

(* send_zone_stock: what the stock of another level was is regenerated.    *)
Enter(p, c) ==
    /\ at[p] = Transit /\ up[p] = <<>>
    /\ used.moves < MaxMoves /\ used' = [used EXCEPT !.moves = @ + 1]
    /\ at' = [at EXCEPT ![p] = c]
    /\ IF genFor # level[p] THEN Regenerated(p) ELSE UNCHANGED <<stock, nextId, genFor>>
    /\ shown' = [shown EXCEPT ![p] = stock']
    /\ UNCHANGED <<level, gold, armed, refill, up>>

(* The part of _transfer_zone about vendors.                               *)
TransferZone(p) ==
    /\ at[p] # Transit /\ at' = [at EXCEPT ![p] = Transit]
    /\ armed' = [armed EXCEPT ![p] = Off] /\ refill' = [refill EXCEPT ![p] = Off]
    /\ shown' = [shown EXCEPT ![p] = {}]
    /\ UNCHANGED <<stock, nextId, genFor, level, gold, up, used>>

LevelUp(p) ==
    /\ level[p] < MaxLevel /\ level' = [level EXCEPT ![p] = @ + 1]
    /\ UNCHANGED <<stock, nextId, genFor, at, gold, armed, refill, shown, up, used>>

(* The client buys something it shows or clicks the vendor.                *)
Asks(p) ==
    /\ at[p] # Transit /\ Len(up[p]) < MaxUp
    /\ used.asks < MaxAsks /\ used' = [used EXCEPT !.asks = @ + 1]
    /\ \/ \E i \in shown[p] : up' = [up EXCEPT ![p] = Append(@, [t |-> "buy", c |-> at[p], i |-> i])]
       \/ up' = [up EXCEPT ![p] = Append(@, [t |-> "click", c |-> at[p]])]
    /\ UNCHANGED <<stock, nextId, genFor, at, level, gold, armed, refill, shown>>

Takes(p, t) == up[p] # <<>> /\ Head(up[p]).t = t /\ up' = [up EXCEPT ![p] = Tail(@)]

Affordable(p, i) ==
    /\ ~(p \in FreePlayer /\ i.kind \in RareKind)
    /\ gold[p] >= Price[i.kind]

(* handle_buy: the id is looked up in the stock of the server.             *)
Buy(p) ==
    /\ Takes(p, "buy")
    /\ LET m == Head(up[p])
           found == {i \in stock :
                        Registered(m.c) /\ i.id = m.i.id /\ Affordable(p, i)}
       IN \/ found = {} /\ UNCHANGED <<stock, gold, refill, shown>>
          \/ \E i \in found :
                /\ gold' = [gold EXCEPT ![p] = @ - Price[i.kind]]
                /\ stock' = stock \ {i}
                /\ shown' = [shown EXCEPT ![p] = {j \in @ : j.id # i.id}]
                /\ refill' = [refill EXCEPT ![p] = Counting(p, m.c)]
    /\ UNCHANGED <<nextId, genFor, at, level, armed, used>>

(* arm_refresh, from a click on the vendor.                                *)
Click(p) ==
    /\ Takes(p, "click")
    /\ LET c == Head(up[p]).c IN
        armed' = IF Registered(c) THEN [armed EXCEPT ![p] = Counting(p, c)] ELSE armed
    /\ UNCHANGED <<stock, nextId, genFor, at, level, gold, refill, shown, used>>

(* The time of the timer may have come.                                    *)
Ready(p, timer) == timer.cid # None /\ at[p] # Transit

(* _do_refresh: removes the stock of the server, adds the new one and      *)
(* counts again.                                                           *)
DoRefresh(p) ==
    /\ Regenerated(p)
    /\ shown' = [shown EXCEPT ![p] =
                    {i \in @ : i.id \notin {j.id : j \in stock}} \cup stock']
    /\ armed' = armed

(* flush_due_refresh, and on_container_boundary where the client reports   *)
(* the end of its own countdown: both wait for the time of the server.     *)
FlushDueRefresh(p) ==
    /\ Ready(p, armed[p]) /\ DoRefresh(p)
    /\ UNCHANGED <<at, level, gold, refill, up, used>>

(* flush_pending_buy_refill, before the restock in the same flush.         *)
FlushPendingBuyRefill(p) ==
    /\ Ready(p, refill[p])
    /\ refill' = [refill EXCEPT ![p] = Off]
    /\ \E order \in Candidates :
        LET tab == ToppedUp(order, stock, nextId) IN
        /\ tab.next <= MaxId + 1
        /\ stock' = tab.items /\ nextId' = tab.next
        /\ shown' = [shown EXCEPT ![p] = @ \cup (stock' \ stock)]
    /\ UNCHANGED <<genFor, at, level, gold, armed, up, used>>

Next ==
    \E p \in Player :
        \/ \E c \in Copy : Enter(p, c)
        \/ TransferZone(p) \/ LevelUp(p) \/ Asks(p)
        \/ Buy(p) \/ Click(p)
        \/ FlushDueRefresh(p) \/ FlushPendingBuyRefill(p)

Spec == Init /\ [][Next]_vars

-----------------------------------------------------------------------------
(* Properties *)

TypeOK ==
    /\ at \in [Player -> Copy \cup {Transit}]
    /\ gold \in [Player -> 0..Gold]
    /\ \A p \in Player : armed[p].cid \in Copy \cup {None} /\ Len(up[p]) <= MaxUp
    /\ \A i \in stock : i.id \in 1..(nextId - 1) /\ i.kind \in Kind

(* The items of the tab never overlap and never leave the grid, over any   *)
(* purchases of any players and the refills that pack what they freed.     *)
StockApart ==
    /\ Taken(stock) \subseteq (1..Width) \X (1..Height)
    /\ \A i, j \in stock : CellsOf(i) \cap CellsOf(j) # {} => i = j

(* What a player pays for and gets is what its client showed, however      *)
(* often the shared stock was sold, refilled and regenerated meanwhile: an *)
(* id is never given to a second item.                                     *)
BoughtAsShown ==
    \A p \in Player : \A n \in DOMAIN up[p] :
        up[p][n].t = "buy" =>
            \A i \in stock : i.id = up[p][n].i.id => i = up[p][n].i

(* A restock or refill of a vendor only goes to a client in the copy that  *)
(* has the vendor's component, except where a late click or purchase of    *)
(* the old zone armed it during the loading screen.                        *)
PushesAtHome ==
    \A p \in Player : \A timer \in {armed[p], refill[p]} :
        timer.cid \in {None, at[p]} \/ at[p] = Transit \/ timer.late
=============================================================================
