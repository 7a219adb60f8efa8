-------------------------------- MODULE Pets --------------------------------
(***************************************************************************)
(* The units players summon: the Bling Gnome (managers/bling_gnome.py), who *)
(* follows his owner, picks up gold and converts items to gold, and the     *)
(* Monster Bait and the Snowman (managers/summons.py).                      *)
(*                                                                          *)
(* The server owns them: it tells the owner and the players of the same     *)
(* copy about each step, tells a player who comes later about the gnomes,   *)
(* and drops them when the owner leaves.  Every gnome has two tasks, the    *)
(* behaviour loop and the conversion sweep; they sleep between their steps, *)
(* and players move, pick up and summon meanwhile.                          *)
(*                                                                          *)
(* Abstractions.  Everything on the ground of a copy is in the reach of     *)
(* whoever is there.  A drop is worth one piece of gold.  Positions,        *)
(* headings, animations and health are left out: an update of the behaviour *)
(* component is its gnome's id in an interval queue.  The snowman melts in  *)
(* the clients; the server is not told.                                     *)
(***************************************************************************)
EXTENDS Integers, FiniteSets

CONSTANTS
    Player,
    Copy,        \* copies of zones
    Drop,        \* entity ids of drops
    GoldPile,    \* the gold among them
    Convertible, \* items of Rare quality and lower, not protected
    MaxId,       \* bound: units summoned
    MaxMoves     \* bound: players leaving

Away == "away"
Unfallen == "unfallen"
None == "none"
Bait == "bait"
Snowman == "snowman"

DropAssumption ==
    GoldPile \subseteq Drop /\ Convertible \subseteq Drop \ GoldPile
NameAssumption ==
    {Away, Unfallen, None} \cap (Player \cup Copy \cup Drop) = {} /\ Player \cap Copy = {}

VARIABLES
    zone, spawned,   \* the zone key of a connection, is_spawned
    gnome,     \* _gnomes: owner -> his gnome, or NoGnome
    sweep,     \* the conversion task of the gnome
    summons,   \* _summons: owner -> type -> id, 0 if none
    lies,      \* where a drop lies, or who has taken it
    purse,     \* gold credited
    screen,    \* the units a client shows, and the ids whose components it was sent
    queue,     \* interval_message_queue
    nextId, moves

vars == <<zone, spawned, gnome, sweep, summons, lies, purse, screen, queue, nextId, moves>>

NoGnome == [id |-> 0, made |-> FALSE]
NoSweep == [step |-> "none", cands |-> {}, item |-> None]
Blank == [units |-> {}, met |-> {}]

Unit(owner, kind, id) == [owner |-> owner, kind |-> kind, id |-> id]

Init ==
    /\ zone = [p \in Player |-> Away] /\ spawned = [p \in Player |-> FALSE]
    /\ gnome = [p \in Player |-> NoGnome] /\ sweep = [p \in Player |-> NoSweep]
    /\ summons = [p \in Player |-> [k \in {Bait, Snowman} |-> 0]]
    /\ lies = [d \in Drop |-> Unfallen] /\ purse = [p \in Player |-> 0]
    /\ screen = [p \in Player |-> Blank] /\ queue = [p \in Player |-> {}]
    /\ nextId = 1 /\ moves = 0

-----------------------------------------------------------------------------
(* _instance_peers.                                                        *)
Peers(p) == {q \in Player \ {p} : spawned[q] /\ zone[q] = zone[p]}

(* send_to_client, after the changes of whoever sends.                     *)
Shown(to, u) ==
    [q \in Player |-> IF q \in to THEN [screen[q] EXCEPT !.units = @ \cup {u}] ELSE screen[q]]
Components(to, id) ==
    [q \in Player |-> IF q \in to THEN [screen[q] EXCEPT !.met = @ \cup {id}] ELSE screen[q]]
Removed(to, us) ==
    [q \in Player |-> IF q \in to THEN [screen[q] EXCEPT !.units = @ \ us] ELSE screen[q]]

(* _enqueue_interval.                                                      *)
Enqueued(p, id) ==
    [q \in Player |-> IF q \in Peers(p) \cup {p} THEN queue[q] \cup {id} ELSE queue[q]]

GnomeOf(p) == Unit(p, "gnome", gnome[p].id)
SummonOf(p, k) == Unit(p, k, summons[p][k])

(* remove_drop: a drop is claimed once.                                    *)
RemoveDrop(p, d) ==
    /\ lies[d] \in Copy
    /\ lies' = [lies EXCEPT ![d] = p]
    /\ purse' = [purse EXCEPT ![p] = @ + 1]

-----------------------------------------------------------------------------
(* Players come and go *)

Login(p, c) ==
    /\ zone[p] = Away
    /\ zone' = [zone EXCEPT ![p] = c]
    /\ UNCHANGED <<spawned, gnome, sweep, summons, lies, purse, screen, queue, nextId, moves>>

(* send_gnomes_to_connection: the gnomes of those who are there.           *)
LateJoin(p) ==
    LET others == {q \in Peers(p) : gnome[q].id # 0} IN
    [units |-> {GnomeOf(q) : q \in others},
     met |-> {gnome[q].id : q \in {r \in others : gnome[r].made}}]

(* The tail of _send_zone_progression; start_tick clears the queue.        *)
Enter(p) ==
    /\ zone[p] # Away /\ ~spawned[p]
    /\ spawned' = [spawned EXCEPT ![p] = TRUE]
    /\ screen' = [screen EXCEPT ![p] = LateJoin(p)]
    /\ queue' = [queue EXCEPT ![p] = {}]
    /\ UNCHANGED <<zone, gnome, sweep, summons, lies, purse, nextId, moves>>

(* cleanup of both managers: peers are told, the tasks are cancelled.      *)
Cleanup(p) ==
    /\ gnome' = [gnome EXCEPT ![p] = NoGnome]
    /\ sweep' = [sweep EXCEPT ![p] = NoSweep]
    /\ summons' = [summons EXCEPT ![p] = [k \in {Bait, Snowman} |-> 0]]
    /\ screen' = [Removed(Peers(p), {GnomeOf(p), SummonOf(p, Bait), SummonOf(p, Snowman)})
                    EXCEPT ![p] = Blank]

(* _transfer_zone and _on_disconnect: while the connection still has its   *)
(* old zone key.  The client forgets what it showed.                       *)
Leave(p, c) ==
    /\ spawned[p] /\ moves < MaxMoves /\ moves' = moves + 1
    /\ Cleanup(p)
    /\ spawned' = [spawned EXCEPT ![p] = FALSE]
    /\ zone' = [zone EXCEPT ![p] = c]
    /\ UNCHANGED <<lies, purse, queue, nextId>>

DropFalls(d, c) ==
    /\ lies[d] = Unfallen
    /\ lies' = [lies EXCEPT ![d] = c]
    /\ UNCHANGED <<zone, spawned, gnome, sweep, summons, purse, screen, queue, nextId, moves>>

(* A player takes a drop by hand.                                          *)
PickUp(p, d) ==
    /\ spawned[p] /\ lies[d] = zone[p]
    /\ RemoveDrop(p, d)
    /\ UNCHANGED <<zone, spawned, gnome, sweep, summons, screen, queue, nextId, moves>>

-----------------------------------------------------------------------------
(* The gnome *)

(* spawn: by the hotbar, the skill or the chat, for who has none.          *)
Spawn(p) ==
    /\ spawned[p] /\ gnome[p].id = 0 /\ nextId <= MaxId
    /\ gnome' = [gnome EXCEPT ![p] = [id |-> nextId, made |-> FALSE]]
    /\ screen' = Shown(Peers(p) \cup {p}, Unit(p, "gnome", nextId))
    /\ nextId' = nextId + 1
    /\ UNCHANGED <<zone, spawned, sweep, summons, lies, purse, queue, moves>>

(* _behavior_loop after its first sleep: the components.                   *)
CreateBehavior(p) ==
    /\ gnome[p].id # 0 /\ ~gnome[p].made
    /\ gnome' = [gnome EXCEPT ![p].made = TRUE]
    /\ screen' = Components(Peers(p) \cup {p}, gnome[p].id)
    /\ UNCHANGED <<zone, spawned, sweep, summons, lies, purse, queue, nextId, moves>>

(* A tick of the loop moves or animates the gnome.                         *)
FollowTick(p) ==
    /\ gnome[p].made
    /\ queue' = Enqueued(p, gnome[p].id)
    /\ UNCHANGED <<zone, spawned, gnome, sweep, summons, lies, purse, screen, nextId, moves>>

(* _try_pickup_nearest_gold: found and claimed without a sleep between.    *)
PickupGold(p, d) ==
    /\ gnome[p].made /\ d \in GoldPile /\ lies[d] = zone[p]
    /\ RemoveDrop(p, d)
    /\ UNCHANGED <<zone, spawned, gnome, sweep, summons, screen, queue, nextId, moves>>

(* activate: the former sweep is cancelled, whatever it was doing.         *)
Activate(p) ==
    /\ gnome[p].made
    /\ sweep' = [sweep EXCEPT ![p] = [NoSweep EXCEPT !.step = "started"]]
    /\ queue' = Enqueued(p, gnome[p].id)
    /\ UNCHANGED <<zone, spawned, gnome, summons, lies, purse, screen, nextId, moves>>

(* _apply_active_conversion.  The candidates are looked for once, ...      *)
Collect(p) ==
    /\ sweep[p].step = "started"
    /\ sweep' = [sweep EXCEPT ![p] =
            [step |-> "converting", item |-> None,
             cands |-> {d \in Convertible : lies[d] = zone[p]}]]
    /\ UNCHANGED <<zone, spawned, gnome, summons, lies, purse, screen, queue, nextId, moves>>

(* ... then taken up one by one, if the gnome is still there, ...          *)
NextItem(p, d) ==
    /\ sweep[p].item = None /\ d \in sweep[p].cands
    /\ IF gnome[p].id = 0
       THEN sweep' = [sweep EXCEPT ![p] = NoSweep] /\ UNCHANGED queue
       ELSE /\ sweep' = [sweep EXCEPT ![p].item = d, ![p].cands = @ \ {d}]
            /\ queue' = Enqueued(p, gnome[p].id)
    /\ UNCHANGED <<zone, spawned, gnome, summons, lies, purse, screen, nextId, moves>>

(* ... and converted after a sleep, unless someone was faster.             *)
Convert_Unclaimed(p) ==
    /\ sweep[p].item # None
    /\ sweep' = [sweep EXCEPT ![p].item = None]
    /\ lies' = [lies EXCEPT ![sweep[p].item] = p]
    /\ purse' = [purse EXCEPT ![p] = @ + 1]
    /\ UNCHANGED <<zone, spawned, gnome, summons, screen, queue, nextId, moves>>

Convert(p) ==
    /\ sweep[p].item # None
    /\ sweep' = [sweep EXCEPT ![p].item = None]
    /\ \/ RemoveDrop(p, sweep[p].item)
       \/ lies[sweep[p].item] \notin Copy /\ UNCHANGED <<lies, purse>>
    /\ UNCHANGED <<zone, spawned, gnome, summons, screen, queue, nextId, moves>>

(* despawn: _cancel_tasks has already reset behavior_created, so the death *)
(* animation is never played and the entity is removed at once.            *)
Despawn(p) ==
    /\ gnome[p].id # 0
    /\ gnome' = [gnome EXCEPT ![p] = NoGnome]
    /\ sweep' = [sweep EXCEPT ![p] = NoSweep]
    /\ screen' = Removed(Peers(p) \cup {p}, {GnomeOf(p)})
    /\ UNCHANGED <<zone, spawned, summons, lies, purse, queue, nextId, moves>>

-----------------------------------------------------------------------------
(* Bait and snowman *)

(* try_cast: the former unit of the same kind is replaced.                 *)
TryCast_KeepsFormer(p, k) ==
    /\ spawned[p] /\ nextId <= MaxId
    /\ summons' = [summons EXCEPT ![p][k] = nextId]
    /\ screen' = Shown(Peers(p) \cup {p}, Unit(p, k, nextId))
    /\ nextId' = nextId + 1
    /\ UNCHANGED <<zone, spawned, gnome, sweep, lies, purse, queue, moves>>

TryCast(p, k) ==
    LET audience == Peers(p) \cup {p}
        unit == Unit(p, k, nextId)
    IN
    /\ spawned[p] /\ nextId <= MaxId
    /\ summons' = [summons EXCEPT ![p][k] = nextId]
    /\ screen' = [q \in Player |-> IF q \notin audience THEN screen[q] ELSE
            [screen[q] EXCEPT !.units = (@ \ {SummonOf(p, k)}) \cup {unit}]]
    /\ nextId' = nextId + 1
    /\ UNCHANGED <<zone, spawned, gnome, sweep, lies, purse, queue, moves>>

(* _despawn_after: only the bait has a lifespan.                           *)
BaitEnds(p) ==
    /\ summons[p][Bait] # 0
    /\ screen' = Removed(Peers(p) \cup {p}, {SummonOf(p, Bait)})
    /\ summons' = [summons EXCEPT ![p][Bait] = 0]
    /\ UNCHANGED <<zone, spawned, gnome, sweep, lies, purse, queue, nextId, moves>>

(* The interval frame of a player carries off his queue.                   *)
Flush(p) ==
    /\ queue[p] # {}
    /\ queue' = [queue EXCEPT ![p] = {}]
    /\ UNCHANGED <<zone, spawned, gnome, sweep, summons, lies, purse, screen, nextId, moves>>

Next ==
    \/ \E p \in Player :
        \/ \E c \in Copy : Login(p, c)
        \/ Enter(p) \/ \E c \in Copy \cup {Away} : Leave(p, c)
        \/ Spawn(p) \/ CreateBehavior(p) \/ FollowTick(p) \/ Despawn(p)
        \/ Activate(p) \/ Collect(p) \/ Convert(p)
        \/ \E d \in Drop : PickUp(p, d) \/ PickupGold(p, d) \/ NextItem(p, d)
        \/ \E k \in {Bait, Snowman} : TryCast(p, k)
        \/ BaitEnds(p) \/ Flush(p)
    \/ \E d \in Drop, c \in Copy : DropFalls(d, c)

Spec == Init /\ [][Next]_vars

-----------------------------------------------------------------------------
(* The shape of the state.                                                 *)
TypeOK ==
    /\ zone \in [Player -> Copy \cup {Away}] /\ spawned \in [Player -> BOOLEAN]
    /\ gnome \in [Player -> [id : Nat, made : BOOLEAN]]
    /\ sweep \in [Player -> [step : {"none", "started", "converting"},
                             cands : SUBSET Drop, item : Drop \cup {None}]]
    /\ summons \in [Player -> [{Bait, Snowman} -> Nat]]
    /\ lies \in [Drop -> Copy \cup Player \cup {Unfallen}]
    /\ purse \in [Player -> Nat]
    /\ queue \in [Player -> SUBSET Nat]
    /\ nextId \in Nat /\ moves \in Nat

(* Gold is paid for what was claimed, once: whoever is faster of a player, *)
(* a gnome sniffing out gold and a sweep whose candidates are seconds old, *)
(* no drop pays twice.                                                     *)
PaidForClaims ==
    \A p \in Player : purse[p] = Cardinality({d \in Drop : lies[d] = p})

(* A client shows no ghosts: every gnome, bait or snowman on a screen is   *)
(* the one its owner has, and the owner is there.                          *)
NoGhosts ==
    \A p \in Player : \A u \in screen[p].units :
        /\ spawned[u.owner] /\ zone[u.owner] = zone[p]
        /\ u.id = (IF u.kind = "gnome" THEN gnome[u.owner].id ELSE summons[u.owner][u.kind])

(* Whatever is queued for a player concerns a component he was sent, also  *)
(* when he came after the gnome.                                           *)
UpdatesKnown == \A p \in Player : spawned[p] => queue[p] \subseteq screen[p].met

(* A sweep never takes something from a place its owner has left.          *)
ConvertsAtHome ==
    [][\A p \in Player, d \in Drop :
        lies[d] # p /\ lies'[d] = p => spawned[p] /\ lies[d] = zone[p]]_vars
=============================================================================
