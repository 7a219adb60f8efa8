# A TLA+ model of the dr_pyserver game server

`drserver` (under `src/drserver/`) is a Python reimplementation of the servers
of an online role playing game: a login server, a queue server and the game
server, in one process on one asyncio event loop. The modules here model the
parts of the game server where the order of things matters and the tools and
generators that make its world. TLC checks them on small instances, and TLAPS
proves for every instance what the runs check of the group manager (which is
shown to implement abstract parties), the zone copies, the items, the quests,
combat, what belongs to a character (points, skills, vendor, gnome), the places
travellers keep, the database tools and the end of the maze generator, and most of
it of the movement relay, the monsters and the levels.

1. [The system](#1-the-system)
2. [The modules](#2-the-modules)
3. [The runs](#3-the-runs)
4. [Where the code disagrees with itself](#4-where-the-code-disagrees-with-itself)
5. [The proofs](#5-the-proofs)
6. [What is not modelled](#6-what-is-not-modelled)
7. [Plan](#7-plan)

## 1. The system

### How it runs

There is one event loop. `_read_loop` (`net/game_server.py:334`) reads frames
from a connection and calls the handler of each, synchronously; a handler never
awaits, so **a handler is atomic** and one handler is one action in every
module. The exceptions are the tasks: the tick of a connection
(`net/movement.py`), the tick of a zone copy (`managers/world_instance.py`,
`managers/monster_ai.py`), the gnome's loops (`managers/bling_gnome.py`) and the
deferred removals of `managers/combat.py`; each runs atomically between its
awaits. The tools of `scripts/` are processes of their own.

What interleaves is therefore

- the requests of different clients, and the losses of their connections;
- the answers on their way to a client and what the client clicks meanwhile;
- a client and the hook patched into it, which has a connection of its own;
- the steps of the tasks with all of these;
- what is in memory, in the SQLite rows and in the database file, across a
  reconnect, a crash or the use of a tool.

### Components

| Component | State | Operations | Interacts with | What makes it correct |
|---|---|---|---|---|
| Groups `managers/groups.py` | rosters, group of each login, invitations, leader, difficulty, token | invite, accept, decline, leave, kick, set leader, settings, reset, go to, presence | lifecycle (token, presence), zone transfer (go to) | the tables agree; leader and size; presence follows the connection; copies are private |
| Lifecycle `net/game_server.py` | login, character, zone, instance, spawned flag | login, create, delete, play, join, transfer, respawn, disconnect | all managers | every exit path cleans up in all of them |
| World copies `managers/world_instance.py` | live copies by (zone, instance), entities, tick task | enter, live spawn, leave, tick | lifecycle, combat, AI | live iff inhabited; all see the same; one tick |
| Avatar exchange `net/spawn.py` | avatar id of each login, remote ids of each pair | exchange, remove | lifecycle | a pair sees each other iff in scope, under current ids |
| Movement and relay `net/movement.py`, `action_relay.py` | staged echo, outgoing queues, tick count, last relayed move, pending action | move, act, cancel, activate, tick | viewers, lifecycle | every input answered; viewers follow and halt; nothing of an old zone |
| Progress `data/player_state.py`, `net/attributes.py` | level, experience, points, health for the trailers | spend, return, respec, kill, report, snap | client, hook, combat | panel = row; trailers settle on the client's health |
| Skills `net/skills.py`, `managers/trainers.py`, `player_modifiers.py` | ranks, hotbar map and slots, buffs | train, place, cast, resend | spawn, database | map = slots; ranks paid; buffs not prolonged |
| Inventory, equipment, ground `net/inventory*.py`, `net/equipment.py`, `managers/loot.py` | bag, cursor, hands, drops, saved row | take up, place, use, equip, drop, pick up, reward | merchants, quests, gnome, database | no item doubled, none lost, row = bag |
| Merchants `managers/merchants.py` | stock by tab, gold, timers, what was sent | enter, buy, sell, restock, refill | inventory, tick | the item bought is the one shown; pushes reach their vendor |
| Quests `managers/quests.py`, `quest_wire.py` | active, completed, dialog flags, saved lists | query, accept, progress, turn in, back, abandon | client, inventory, combat, database | journal, runtime and row agree; once; earned |
| Combat `managers/combat.py` | monsters by id, cycles, fighters, timers | register, damage, kill, purge, remove | copies, loot, telemetry | a monster is paid once; clients get what they can take |
| Monsters `managers/monster_ai.py`, `monsters.py` | target, position, ages, simulators, interval queues | tick, aggro, enrol, purge, live spawn | clients, hook, copies | updates about shown monsters; targets found and reached, not run over |
| Gnome, summons `managers/bling_gnome.py`, `summons.py` | units by owner, sweep, purse | summon, collect, convert, dismiss, cleanup | loot, copies, lifecycle | no ghosts; paid for what was claimed; at home |
| Places `managers/portals.py`, `checkpoints.py`, `town_portal.py`, `world_entities.py` | waystones, return place, menu, gates, chests | portal, waystone, scroll, return, recall, obelisk, boss | lifecycle, database | return places usable, once; waystones kept; gates as they are |
| Levels `managers/maze.py`, `dungeon_spawner.py` | cells, rooms, packs | generate | copies | connected; rooms keep exits; terminates; safe arrival |
| Content `data/`, `scripts/` | database file, its log, backups | import, rebuild, restore, build | server | saves survive; nothing referenced is lost; same stats as the client |
| Login, duels, social, chat, admin | tokens, challenges, lists | - | - | see [section 6](#6-what-is-not-modelled) |

### What is hard

*Two copies of one fact.* Membership is in the roster and in a table by login;
the bag is in the session and in the row; the journal and the attribute panel
are on the client and the lists and the row on the server; avatars stand with
the mover and with each viewer; the hotbar is a map and a list of slots; a
monster's health is computed by client and server from different nodes. Each
module carries both sides and says that they agree, or when they do again.

*State read early and used late.* Invitations, instance tokens, turn-in dialogs,
drops chosen before a sleep, vendor stock shown before a click.

*Exits.* A connection may be lost in every state; leave, kick, supersede,
dissolve, transfer, reload, respawn and disconnect must clean up the same things.

*Flags in place of protocol state.* Four fields of the connection tell the quest
manager what an empty message of the client means; one tells the relay that a
displayed copy stands in an action.

*Waiting.* A client stands still until its input is echoed; a level is generated
in the server's only thread; a monster chases until it arrives.

## 2. The modules

| Module | Models | Variables beside the code's own |
|---|---|---|
| `Groups` | the group manager with the lifecycle that drives it | none |
| `Party` | abstract: parties of players, without tables, ids or invitations | - |
| `World` | copies, avatar exchange and entity ids, with the lifecycle | `shown`: the entities a client was sent; `nextGen`, `ticks`: copies numbered, their tasks |
| `Movement` | the tick, echoes, relays and the displayed copies | `copy`: avatars as viewers show them; `since`: what a zone entry starts from |
| `Hero` | level, points and health of a character, its client and hook | `cli`, `up`, `down`, `hook`: client and wires; `unpaid`, `used`: history and bounds |
| `Skills` | ranks, hotbar, manipulators and buffs | `shown`: buffs the client shows |
| `Items` | where every item is, for several players | `plain`, `unborn`: items without affixes, not made yet |
| `Shop` | the stock of a vendor and what its customers show | `shelf`: what a client shows; `up`: purchases under way |
| `Quests` | one character's quests over several logins, with the client | `wire`, `journal`, `dialog`, `owed`: the client; `turnedIn`, `hasty`, `sessions`: history |
| `Combat` | the deaths of monsters in a party's dungeon, with clients and hooks | `made`: copies numbered; `alive`, `corpse`, `hurt`, `faults`: the clients; `paid`: history |
| `Chase` | the monsters of a copy under every combination of AI flags | `shown`: what clients show |
| `Pets` | gnomes and summons of several owners | `screen`: what clients show; `lies`: the ground |
| `Travel` | character screen, zones, portals, waystones, scrolls, gates | `menu`: the obelisk on the client; `trips`, `casts`: history |
| `Maze`, `Dungeon` | the generator of a level; what fills it | none |
| `Content` | the database file, the server and the tools | `committed`: history of saves |
| `Mobs` | from the client's nodes to the monsters of a zone | none |
| `Character` | `Hero`, `Skills`, `Shop` and `Pets` side by side | `part`: which of them is at work |
| `Sums` | sums over numbers and finite sets as recursive functions, for proofs | - |
| `Land` | `Content`, `Mobs`, `Dungeon`, `Travel` and `Chase` side by side | `part`: which of them is at work |
| `*Proofs` | theorems about `Groups`, `World`, `Movement`, `Items`, `Quests`, `Combat`, `Character`, `Land` | - |
| `MC*` | instances for TLC | - |

In the modules an operator `Op_Slip` (with some word for `Slip`) is `Op` with a
plausible mistake. Nothing uses it; putting it in the place of `Op` makes the
property named for it in `PROJECT.json` fail, which shows that the property
looks at that code.

### Groups

One action per request: `Invite`, `Accept`, `Decline`, `Leave`, `Kick`,
`SetLeader`, `SetMonsterDifficulty`, `SetInviteMode`, `SetOpenGroup`,
`ResetInstances`, `GotoMember`; and the lifecycle: `LogIn`, `StartZoneJoin`,
`TransferZone`, `PlayerSpawned`, `Disconnect`. `_after_roster_shrink` is
`Dissolves`, `Unseated`, `Heirs` and `Shrunk`; it is part of each action that
takes a seat away, including the accept that supersedes an older group.
A roster is a set: where the code takes the first of the list (the heir) the
model takes any that can be first, namely any online member if there is one.
`AssignInstance` mints the tokens of groups and of solo players from the same
counter, as the server does.

Environment: `StartZoneJoin` is a request of a client that has not spawned;
`OneConnPerLogin` says that an account has one connection at a time. The server
does not enforce either.

### World

`LogIn`, `StartZoneJoin`, `TransferZone`, `PlayerSpawned`, `Disconnect`,
`SpawnLive` (the debug spawn) and `ResetInstances`. The grouping is fixed: the
logins in `Party` share a token, all others are solo. `LeaveCopy` (`leave` and
`_teardown`) and `Forget` (`broadcast_entity_remove` with the pops of the
callers) are part of each exit, in the order of the code: a player who leaves is
not counted, a player who has not spawned yet neither. `PlayerSpawned` numbers
the avatar from `conn_id * IdSpan + 10`, the population if it creates the copy,
then the player objects it exchanges; `IdSpan` is 500 in the code. An entity
takes one id here, where the code also numbers its components.

### Movement

`HandleClientMove`, `Act`, `HandleCancelAction`, `Activate`, `Tick`, `Join`,
`TransferZone`, `Disconnect`, `RespawnInPlace`, and two actions of the clock:
`HoldoffEnds` and `LimitEnds`. `StageEcho` coalesces moves up to `EchoCap`
(255 records in the code) until the hold-off runs out; the interval frame of
every `IntervalEvery`-th tick carries the echo, all other answers leave with the
next tick. `Broadcast` is `_broadcast_entity_action` with the rate limit, and
`HaltShown` the replay of the last move after a stop. `copy[v][m]` is the avatar
of `m` as `v` shows it: where it is and whether it stands in an action. Instances
and ids are left to `World`.

### Hero

The client fights, levels and heals on its own; the server hears of it through
health reports and requests (`up`, in order), through kills of the hook (`hook`,
a connection of its own) and, without a hook, through its replay. `Serve` takes
the next message: `AdoptHp` (health reports), `StatSpend`, `StatReturn`,
`Respec`; `HookKill` and `ReplayedKill` pay, `sync_client_level` snaps the level
to what a kill shows. `SynchHp` is what the trailers carry. `ExactXp` says
that each kill is paid once; the code does not guarantee it around an entry
into the world (section 4), and the run assumes it.

### Skills

`Enter` sends the manipulators of `SpawnManips` and rebuilds the hotbar map in
the order of the row; `Train`, `HotbarPlace`, `HotbarRemove`, `SelfCast`;
`Relog` loses map and buffs, `TransferZone` loses what the client shows, and
`ResendAll` puts back what is left of each buff, less the loading time.

### Items

Every physical item has an identity, which the code does not give it, so an item
in two places shows. `bag` is `conn.inv_model`, `saved` the row, `Reconciled`
is `_reconcile` (`Kept` are the rows that pass one of its two filters, in their
order), `Persisted` is `_persist`. The actions: `EnterZone` (the spawn
loads at most `LoadLimit` rows and clears the cursor), `Disconnect`, `Crash`
(all memory is lost between two handlers), `TakeUp`, `Place`, `UsePotion`,
`Sell`, `Buy`, `Restock`, `Reward`, `TurnInItem`, `Equip`, `Unequip`,
`DropHeld`, `LootDrop`, `PickUpDrop`, `GnomeEats`. A refusal that still
reconciles (a full bag, a taken cell) is a disjunct of its action. Items take
one cell; gold, prices, ranges and levels only refuse and are left out.

### Shop

One vendor, one stock for the whole server, a component per copy of the zone.
`Enter` generates or regenerates the stock for the level of the customer and
sends it; `Click` arms the restock, `Buy` arms the refill; the two flushes run
when their timer may have. `up` are purchases under way: the customer may be
taken elsewhere, or the stock change, before one arrives.
`Generated`, `ToppedUp` and `First` are the placement on the grid, over every
order of kinds that the item generator can draw.

### Quests

Requests of the client: `QueryOffer`, `ViewActive`, `ClickAccept`,
`ClickComplete`, `CloseOffer`, `ClickBack`, `ClickAbandon`, `SendClose` and
`SendTeardown` (the 0x02 and the 0x03 a client sends when a turn-in dialog
closes); the world: `Kill`, `PickUp`, `TakeOut`, `EnterZone`; and `Receive`,
which delivers the next answer, `Login`, `Logout`. Answers wait in `wire`, in
order; requests arrive at once, since the delay of a request and that of an
answer have the same effect. The client clicks what it was last shown: an offer
of a quest not in its journal, Complete and Back in the dialog that is up. It
has one dialog at a time and a zone change closes it (`src/bible.md`, chapter 13).
A quest counts kills of one sort and items of one sort.

### Combat

Every client runs its own copy of each monster, and the server learns of a death
in three ways: `TickCombat` replays the swings (`UseTarget`) against a health of
its own, unless any hook is connected (`Authoritative`); `ClientKill` and
`OnKill` are the death on a client and the arrival of its hook's report;
`ObserveMonsterHp` is a health a client reports. All three end in `ProcessKill`,
which is `_process_monster_kill` with its purges and its removals. `Removal`
reaches the other players in scope at once and leaves the killer's to
`DeferredDestroy`. `Relay` is `on_player_attack`; `UsePosition` is the 0x51
branch, which does not call it. `PlayerSpawned`, `TransferZone` and
`ResetInstances` build, leave and renew the copies as in `World`; a lost
connection does to combat what a transfer out does. A copy is given the ids
`<<populating player, number>>`, the reuse of ids that `spawn.py:169` brings
about. `faults` records what a client was sent and cannot take. The default
model of monster behaviour is modelled, in which clients run monsters alone;
`Chase` has the others.

Three switches name what the checked instance assumes of its environment; the
server enforces none of them.

- `Apart`: nobody populates a copy while one he populated is alive, since ids
  repeat otherwise (section 4); `TrackedAreLive` and `PaidOnce` then fail, as
  the monsters of one copy replace those of the other in the table by id.
- `Slow`: a copy is populated only after the reports and the removals about the
  copies that are gone. Without it `PaidOnce` and `ClientsCanTake` fail: a late
  report or removal meets the monster that was given the id of the dead one.
  A removal waits eight seconds, which a player needs to leave, come back and
  find the copy rebuilt, as a rule and not by any guard.
- `Harmful`: spells cast at positions hurt monsters; the run is without them.

### Chase

`Models` are the combinations of the switches: who drives (`native`, `follow`,
`enroll`), whether swings are injected, whether health is clamped. `TickFollow`
is `tick_instance`: `Aim` keeps, drops or acquires a target, `Stepped` moves
the monster up to its ring, `Updates` are the Follow, Move and swing put into
the interval queues. `Provoke` is `aggro_from_attack`, `Enroll` the player's
first attack, `Kill` the purge and the destroys, `SpawnLive` a monster an
administrator spawns, `Drain` an interval frame. Positions lie on a line.

### Pets

`Enter`, `Leave`, `LateJoin`, `Cleanup`: who sees which unit. `Spawn`,
`CreateBehavior`, `FollowTick`, `PickupGold`, `Activate`, `Collect`, `NextItem`,
`Convert`, `Despawn` are the loops of a gnome; `TryCast` and `BaitEnds` the
summons. `Convert` follows `Collect` after any number of other steps.

### Travel

`Login`, `Create`, `Delete`, `StartJoin`, `Play`, `Transfer` (inside every way
to travel), `Arrive`, `Disconnect`; `UsePortal`, `UseTownPortal`,
`UseTeleporter`, `Unlock`, `RecallUse`, `RecallMenu`, `CycleObelisk`,
`TownPortalReturn`, `RecentPortal`, `Respawn`, `UseScroll`, `OpenChest`,
`BossFalls`. `Arrival` is where a transfer puts the player down; `SpawnReturn`
spends the saved place on the first arrival there.

### Maze, Dungeon

`Maze` has one action per phase and step of the generator: `PlaceRoom`,
`BeginCorridors`, `Grow`, `Branch`, `ApplyForcedRoomExits`, `Sparsify`,
`BeginRemoval`, `Walk`, `Finish`; the twister draws anything. `Dungeon` extends
it: `Carve` is a maze step, then `Leader` per room, `FillCell` per cell. `Expand`
is `expand_encounter_group`, with difficulties in eighths.

### Content

A tool is a sequence of steps on a working copy or on the file itself
(`CopyAndRebuild`, `BackUp`, `BuildFromZero`, `Swap`, `Merge`, `MoveAside`,
`MoveIn`, `ImportBackUp`, `ImportWrite`) and may be `Interrupted` after each;
`Start`, `Save`, `Stop`, `Die` are the server with its write-ahead log.
`Rebuilt(table, d)` is what a builder leaves of a database. `Careful` says that
the operator stops the server in order before a tool is used.

### Mobs

`RebuildCreatures` and `ImportWorlds` are the importers in either order,
`FillZone` what the spawner streams. `ClientStats` is what the client reads from
the node it is sent. `Ordinary` names the content for which the two agree.

### How they compose

`Groups` and `World` both have the lifecycle, each with the state that matters
to it; `Combat` has `World`'s copies under the same keys; `Dungeon` extends
`Maze`; `Groups` implements `Party`. `Character` and `Land` put parts side by
side that share no state in the code either: a vendor's stock, a gnome and a
hotbar never read one another. A behaviour there is one part at work, named by
`part`, with the others at rest, so a run is the sum of its parts and not
their product, and each part is explored in full. The theorems about a part are
theorems about the whole, whose other steps leave the state of the part alone.

## 3. The runs

The safety specifications of most modules are `Init /\ [][Next]_vars`: they
react to requests, and nothing in them promises progress. Deadlock is not
checked where the instance runs out of connections, steps or copies; in `Items`
it is.

| Run | States | Instance | Shows |
|---|---|---|---|
| `MCGroupsRosters` | 13 432 | 3 logins and connections, 2 group ids, size 3, no dungeon | `SeatsAgree`, `InviteSound`, `PresenceAgrees`, `HeirPresent`; `Groups` implements `Party` (`ImplementsParty`) |
| `MCGroupsCopies` | 304 515 | 3 logins and connections, 1 dungeon, 2 tokens, size 2 | `GroupSound`, `TokenSound`, `PrivateCopyEntry` |
| `MCWorldCopies` | 237 871 | party of 2 and a solo player, town and two levels of one dungeon, 2 tokens, 3 copies | `CopiesLive`, `ClientsShareCopy`, `SightAgrees` |
| `MCMovement` | 278 138 | a walker and a watcher, 2 zones, 3 moves, 1 action, interval 2, echo cap 2 | `RootedIsKnown`, `RelaysFollow`, `MovementSettles` |
| `MCHero` | 266 314 | 3 levels, 1 attribute, 2 kills, 1 hit, 2 spends, 1 travel | `SynchSettles` |
| `MCCharacter` | 1 000 844 | the character of `MCHero`; 4 skills in 4 slots, 4 units of time; 2 customers, 2 copies, a grid of 2 cells; 2 owners, a pile of gold and a sword | `PanelAgrees`, `SkillsSound`, `BoughtAsShown`, `NoGhosts`, `PaidForClaims` |
| `MCItemsPlaces` | 385 646 | 2 players, bow (two hands), sword, 2 potions, 2 cells of which a spawn loads 1, 2 drop ids | `NothingDuplicated`, `PlacesLawful`, `BagIsSaved`, `KeepsItems` |
| `MCQuestsJournal` | 879 279 | a kill quest, a repeatable trade that takes the item, 3 instance ids, 1 answer in flight, 2 logins | `RecordsAgree`, `TurnedInOnce`, `KillsEarned`, `BackKeepsQuestInOrder` |
| `MCCombatKills` | 1 574 535 | 2 players of a party, 1 level, 1 monster of 2 hits, 2 tokens, 2 copies, 1 report under way, `Apart`, `Slow`, not `Harmful` | `TrackedAreLive`, `PaidOnce`, `ClientsCanTake` |
| `MCChase` | 173 894 | 2 players, one hooked, a monster, a line of 4 points, ring 1, radius 2, speed 2, 6 combinations of flags, 2 avatars | `ChaseSettles` |
| `MCLand` | 1 214 904 | 2 saves and all tools; 3 mobs over every way to extend; 3 plans of a 3x3 level; 2 travellers, 4 zones, 1 scroll; the monster of `MCChase` | `SavesOnDisk`, `BuildComplete`, `SameStats`, `LevelSound`, `LevelConnected`, `Terminates`, `PlacesKept`, `UpdatesLive` |
| `MCContentKilled` | until found | the tools after a killed server (`Careful` is FALSE) | `SavesOnDisk` is violated |

The comment before each property says what it means. A type invariant is the
first conjunct of one property of each run.

### Why the bounds suffice

- *Groups.* Three accounts make a leader who leaves with an heir and another
  member; two group ids make an invitation to another group, and to a dead one;
  size 2 makes a group fill up under a pending invitation. A connection id is
  used once, so three of them also give a reconnect when fewer accounts play.
- *World.* Two members of one party and a solo player are the three relations
  players can have; two levels share a gc type, which is what the filters use;
  two tokens give a reset; three copies give one rebuilt after its teardown.
- *Movement.* Three moves fill an echo of two and start another; a frame every
  second tick leaves a tick in which something waits; the walker visits twice,
  so a zone is left with an echo staged and entered again.
- *Hero.* Two kills cross a level in flight; two spends meet a respec; one hit
  and one travel change the health under a report.
- *Skills, Shop, Pets.* Two passives of which one is another class's, a skill
  with and one without authored slot; two customers in two copies, one buying
  what the other's entry regenerated; two owners, one of them late to the copy.
- *Quests.* One quest of each kind of goal, one of each repetition; a bag of
  one item can be emptied under a dialog. Two logins restore the row once. One
  answer in flight is enough for every crossing of a click and an answer.
- *Items.* A row more than the spawn loads is the case the reconciliation is
  for; two potions make a stack; two drop ids make the id block wrap.
- *Combat.* Two players make a killer and a viewer; two hits make a monster that
  is hurt and not dead; two copies of one level under two tokens give the second
  copy the ids of the first. A second level would let removals and late loot cross
  levels (section 4); the theorems say so with the hypothesis `OneLevel`, and those
  about payments and the table of monsters do without it.
- *Chase.* On four points a player is out of the radius, in it, and at the ring;
  a speed of two would overshoot it; two players give a second nearest and a
  target that leaves while another stays. The theorems of section 5 remove the
  bounds for `UpdatesLive` and for the distance.
- *Land.* Nine cells leave rooms at corners, borders and inside, and corridors
  with branches; in one plan the third room would part the grid. Three mobs give
  a boss, an alias and a common one with a chain of each length the importer
  treats apart; two saves are one before and one after a tool; four zones are a
  start, a town, a procedural level and a boss's.

### Fairness

- `Movement`: `WF(Tick)`: `_tick_loop` sleeps an interval and runs again until it
  is cancelled; `WF(HoldoffEnds)`, `WF(LimitEnds)`: time passes. Inputs, travels
  and lost connections are not fair. `MovementSettles`: everything staged is
  echoed and answered, and viewers see a player who stops come to rest.
- `Hero`: `WF(Serve)`, `WF(HookKill)`: the loop handles what has arrived;
  `WF(ClientTakes)`, `WF(ClientReports)`: a client in the world reads its
  connection and keeps sending moves and actions, which all carry its health.
  `SynchSettles`: if the client's health stays what it is, so does the trailer.
- `Chase`: `WF(TickFollow)`: `_instance_tick_loop` runs as long as its copy lives.
  `ChaseSettles`: monsters near players find a target, and reach one who stands.
- `Maze` needs no fairness: `Terminates` is an action property, a pair of numbers
  that every step of the generator makes smaller and that is never negative.

## 4. Where the code disagrees with itself

One run of the project is expected to be violated.

- `MCContentKilled`: `rebuild_content_tables.py:8` says that every other table is
  carried over untouched, because the tool works on a copy of the file. It copies
  the file alone (`:223`). After a kill of the server committed rows still lie in
  the write-ahead log beside it; the swap (`:261`) leaves them behind. `MCLand`
  shows that nothing is lost when the server was stopped in order.

The others were met while modelling; the runs assume or allow what is said here.

*Groups and copies.* A leader who leaves hands over the lead, not the difficulty
(`groups.py:681`, against `:717`). Each spawn sets the shared id counter back to
a base of its connection (`spawn.py:169`), where `game_server.py:155` has ids
unique across players and zones; one player's two copies then share ids, and from
the 132nd connection on the base is beyond 16 bits. Go To lands in a copy other
than the member's when he entered before the token was minted (`groups.py:797`).
Members on two levels of a dungeon are sent one another's avatars
(`spawn.py:734`: the levels share gc type and token).

*Movement.* The halt that is replayed is the last *relayed* move, not the last
one made, when the rate limit swallowed the last (`movement.py:1058`). A zone
transfer clears the answers that `movement.py:386` says are owed to a portal
click. An in-place respawn is not told to viewers. Self-casts are relayed
framed and at once, where `skills.py:274` has them ride the interval frame. The flag
`viewer_action_pending` survives a zone change.

*Progress.* A kill around an entry into the world is paid by both the hook and the
server, or by neither (`combat.py:598`, against "SOLE XP authority" at
`game_server.py:1301`). Endurance moves the health of the trailer, against
`attributes.py:21`. The trailer is wrong while the row lags the client by a level.

*Skills, vendor, pets.* Manipulator ids are not distinct when a passive's authored
slot is another skill's (`spawn.py:279`, against `tests/test_skills.py:139`).
A restock sends no removals of ids the customer was never told of
(`merchants.py:1252`), and the stock is one for the server where its comment says
per player. The refill is pushed by the component id of the last zone
(`game_server.py:976`); the model has `Off` for it. Summons are not shown to
players who come later; the death animation of a gnome is dead code.

*Items and quests.* After a spawn that loaded part of the bag a reward saves that
part over the rest (`spawn.py:368`, against `inventory_model.py:14`). A dialog
opened by a query does not arm the guard that tells Back from Abandon
(`quests.py:421`, against `:681`); `BackKeepsQuestInOrder` shows that it takes a
click before the acceptance arrived. A second query of an offer accepts it, where
`bible.md:1879` has a query never accept (`quests.py:756`).

*Combat and monsters.* A removal reaches party members on another level, who never saw
the monster (`combat.py:654`, against `:620`), and skips clients that simulate it: it
goes by gc type and instance, which the levels of a dungeon share
(`game_server.py:1720`). The loot of a kill that is reported late lies on the level its
killer has gone to (`combat.py:573`). A 0x51 cast does not make its caster a fighter
(`movement.py:391`, against `mob_engagement_relay.py:23`). Simulators are kept by
connection id, so a player who comes back is not enrolled again
(`world_instance.py:391`, against "once per zone entry" at `game_server.py:1509`).

*Places.* `load_tp_state` is given the object of the character screen, which has no
return place, and so restores nothing (`game_server.py:591`, `:722`). A return goes
elsewhere than the comment at `movement.py:786` says. The obelisk counts on in a list
that leaves out the zone one is in, and so skips one of three waystones. The menu keeps
an entry that was used. `respawn_spawn_point` is ignored. A second character on the same
connection inherits return place and source. Chests look open only to whom opened them.

*Levels and content.* Rooms are placed only where all cells stay within reach
(`maze.py:385`), but corridors may leave one of them unfilled and so a room cut off (section 5).
A level without main groups stays empty. "1-2 units become
a pack of 3-6" holds only within the budget. The entry cell is computed without
the spawn point that the transfer uses (`dungeon_spawner.py:919`).
`build_database.py` replaces a live file without a backup, and a subset of its
steps wipes player rows. `--table merchants` leaves the hubs without vendors until
the NPC import. A rekey of items does not touch the rows of characters. A restore
keeps rows of the snapshot where the live table is empty, and has a moment without
a file. Placements send the node an NPC extends with the stats of another
(`dungeon_world_importer.py:336`, against `:183`); a mob that extends a boss or
states a difficulty takes the concrete's stats. `Ordinary` leaves these out.

## 5. The proofs

All theorems are proved by `tlapm` from the named assumptions of the module they
are about and hold for every value of its constants.

| Theorem | States | Inductive invariant |
|---|---|---|
| `GroupsProofs!TypeCorrect` | `Spec => []TypeOK` | `TypeOK` |
| `GroupsProofs!SeatsCorrect` | `Spec => []SeatsAgree` | `RosterInv` |
| `GroupsProofs!GroupCorrect` | `Spec => []GroupSound` | `RosterInv` |
| `GroupsProofs!InviteCorrect` | `Spec => []InviteSound` | `RosterInv` |
| `GroupsProofs!TokenCorrect` | `Spec => []TokenSound` | `TokenInv` |
| `GroupsProofs!HeirCorrect` | `Spec => HeirPresent` | `RosterInv` |
| `GroupsProofs!EntryCorrect` | `Spec => PrivateCopyEntry` | `TokenInv` |
| `GroupsProofs!PresenceCorrect` | `OneConnPerLogin`: `Spec => []PresenceAgrees` | `PresenceInv` |
| `GroupsProofs!PartyImplemented` | `Spec => ImplementsParty` | `RosterInv` |
| `WorldProofs!CopiesCorrect` | `Spec => []CopiesLive` | `Living` |
| `WorldProofs!ScreensCorrect` | `Spec => []ClientsShareCopy` | `Shared` |
| `WorldProofs!SightCorrect` | `Spec => []SightAgrees` | `Seen` |
| `MovementProofs!RootedCorrect` | `Spec => []RootedIsKnown` | `Sound` |
| `MovementProofs!RelaysCorrect` | `Spec => RelaysFollow` | `Sound /\ Frames` |
| `CharacterProofs!PanelCorrect` | `Spec => []PanelAgrees` | `Playing` |
| `CharacterProofs!SkillsCorrect` | `Spec => []SkillsSound` | `Casting` |
| `CharacterProofs!PurchaseCorrect` | `Spec => []BoughtAsShown` | `Trading` |
| `CharacterProofs!GhostsCorrect` | `Spec => []NoGhosts` | `Following` |
| `CharacterProofs!ClaimsCorrect` | `Spec => PaidForClaims` | `Following /\ Paid` |
| `LandProofs!UpdatesCorrect` | `Spec => []UpdatesLive` | `Sound` |
| `LandProofs!DistanceCorrect` | `Spec => KeepsDistance` (a conjunct of `ChaseSettles`) | `Sound` |
| `LandProofs!PlacesCorrect` | `Spec => []PlacesKept` | `Traveling` |
| `LandProofs!SavesStayOnDisk` | `Careful`: `Spec => []SavesOnDisk` | `DbTools /\ DbLogs` |
| `LandProofs!BuildsComplete` | `Spec => BuildComplete` | `DbTools` |
| `LandProofs!StatsAgree` | `Spec => []SameStats` | `Streaming` |
| `LandProofs!LevelsFit` | `Spec => []LevelSound` | `Carving /\ Filled /\ Counted` |
| `LandProofs!LevelsConnect` | `Spec => []LevelConnected` | `Carving /\ Joined` |
| `LandProofs!MazeTerminates` | `Spec => Terminates` | `Carving` |
| `ItemsProofs!InvariantHolds` | `Spec => []IInv` | `IInv` |
| `ItemsProofs!Duplicated` | `Spec => []NothingDuplicated` | `IInv` |
| `ItemsProofs!Lawful` | `Spec => []PlacesLawful` | `IInv` |
| `ItemsProofs!Saved` | `Spec => []BagIsSaved` | `IInv` |
| `ItemsProofs!Keeps` | `Spec => KeepsItems` | `IInv` |
| `QuestsProofs!TypeCorrect` | `Spec => []TypeOK` | `Sound` |
| `QuestsProofs!RunsOnceCorrect` | `Spec => []RunsOnce` (a conjunct of `RecordsAgree`) | `Sound` |
| `QuestsProofs!SavedCorrect` | `Spec => []SavedAgrees` (a conjunct of `RecordsAgree`) | `Sound` |
| `QuestsProofs!TurnedInCorrect` | `Spec => []TurnedInOnce` | `Sound` |
| `QuestsProofs!KillsCorrect` | `Spec => KillsEarned` | `Sound` |
| `QuestsProofs!RecordsCorrect` | `Spec => []RecordsAgree` | `Sound /\ Traced` |
| `QuestsProofs!BackCorrect` | `Spec => BackKeepsQuestInOrder` | `Sound /\ Orderly` |
| `CombatProofs!TypeCorrect` | `Spec => []TypeOK` | `Base` |
| `CombatProofs!PaidAtMostOnce` | `Spec => []OnePayment` (in `PaidOnce`) | `Base` |
| `CombatProofs!TrackedCorrect` | `Apart`: `Spec => []TrackedAreLive` | `Sound` |
| `CombatProofs!PaidOnTrueEvidence` | `Apart`, `Slow`: `Spec => []MeantRight` (in `PaidOnce`) | `Traced` |
| `CombatProofs!PaymentCorrect` | `Apart`, `Slow`, `OneLevel`: `Spec => []PaidOnce` | `Traced /\ LootHome` |
| `CombatProofs!FollowsCorrect` | `Apart`, `~Harmful`: `Spec => []FollowSparesFighters` (in `ClientsCanTake`) | `Spared` |
| `CombatProofs!ClientsCorrect` | all four: `Spec => []ClientsCanTake` | `Spared /\ Fits` |

*Groups: types.* `TypeOK` is inductive by itself; `StepType` has one step per
action, over lemmas for the operators that several actions share.

*Groups: rosters.* None of the other three is inductive alone. That the size
stays bounded is about a roster, but which rosters change is read from the table
by login; that a group that loses a seat keeps a leader among its members needs
the two tables to agree; that an accept never seats somebody twice needs that the
pending invitation is to another group. So the invariant is

    RosterInv == TypeOK /\ SeatsAgree /\ GroupSound /\ InviteSound

*Groups: tokens.* `TokenInv == TypeOK /\ TokenSound` is inductive: a token is
minted from a counter above all tokens in use, and every other step drops tokens
or keeps them. Who may walk in (`PrivateCopyEntry`) follows: a token that is taken
over is that of one's own group, and one that is minted nobody has.

*Groups: leaders and presence.* `HeirPresent` is read off the steps: a leader changes
where a seat is given up and where one is named. Presence relates the rosters to the
connections, so `PresenceInv` adds to `RosterInv` that only accepted connections
have a login, only logged in ones an avatar, and no two the same login (`Attached`). It
is proved from `OneConnPerLogin`, and fails without: when an account plays on two
connections, `on_disconnect` of the first greys out the player who is still there
on the second, as it looks at the login alone.

*Groups implement parties.* A party of `Party` is the set of those who play together
under one leader; the mapping gives a login the roster of the group it leads. As
the tables agree, a login leads at most one group, and every way a group
changes is a step of `Party`: an invitation that founds a group forms a party of one, an
accept that supersedes takes somebody out of one party and into another at once
(`Vacates`), a group that shrinks to one dissolves. All the rest, the lifecycle,
the settings and the invitations, is a stutter. `SameSize` is there because the
instance has a `Cardinality` of its own.

*World.* `Living` is `CopiesLive` with what keeps it: who stands in a zone is logged
in on an accepted connection (`Placed`), and live copies have numbers of their own
(`GensApart`), so that the task of one is not taken for another's. `Shared` adds that the
clients in a copy show its entities: a leaver either empties the copy or leaves
screens and entities of the others alone. `Seen` adds to `Living` that accounts have
one connection each (`LoginsApart`, which this model enforces at the login) and that
who is in the world has an avatar (`Named`); what two players see of each other is then
stated by login (`Meet`) and each step shown to move `remote` for the pairs whose
`Meet` it changes.

*Movement.* `Sound == Types /\ OneTask /\ Known`. That a displayed copy is rooted
only while the server knows to free it (`Known`) is kept by the relays and frees;
who joins is given fresh copies, and who leaves takes its copies along
(`LeaveKnown`). That no frame repeats or overtakes another (`RelaysFollow`) needs
`Frames`: what is staged continues what was echoed and is newer, and what is queued
in either queue was never answered and is in order.

*Hero.* `PanelAgrees` speaks of a client that has taken its answers, so the invariant
`Playing` says where they take it: `Leads(cli.stats, down, row.stats)`, there is a panel
for each answer under way, the first is the one shown, each is what its answer makes of
the one before, and the last is the row's. A handler that answers adds a panel at the end, a
client that takes an answer drops the first. The row also affords what it has
(`Afforded`): points are spent out of what the levels reached have given, where
`apply_xp` and `sync_client_level` go up along the levels by a recursion, and sums over
the attributes change by what one of them does (`Sums`).

*Skills.* `Casting` relates the saved row to what the session made of it. `Learned`
and `OnBar` say that known skills are those with a rank and that what is on the bar is
known, `Tuition` that gold and the cost of the ranks add up, `Fading` that no buff
lasts longer than its cast gave it, `Ids` and `Agrees` that a manipulator has one skill,
a skill one manipulator and the free slots of map and bar are the same. Two skills may claim
the same id at the entry; the map keeps one claimant for each, which is enough.

*Shop.* `Trading`: items of the stock stand on cells of their own under ids below
the next (`StockSound`), what a client shows or asks for is the item its id has in the
stock, if any still has it (`Genuine`, `Told`), and who stands in the zone asks the
component there, as do timers that are not late (`AtHome`). An id is never given out
twice, so a stale click misses and never buys another item. A stock is made by placing
item after item where there is room; that all of it is sound is shown of one item,
and then along the order in which they are placed.

*Pets.* `Following`: who is gone has no units (`Absent`), a client has met the gnome
whose updates it is sent (`Met`), and a sweep has in view what lies where its owner
is, or what somebody else was faster to take (`Sweeping`). That a ledger of claims and
the purse agree is `Paid`, on top. A sweep ends with the gnome its owner leaves behind,
hence `ConvertsAtHome`, the second half of `PaidForClaims`.

*Induction.* The proofs of `Hero`, `Skills` and `Shop` use recursive functions along
numbers (levels, sums, stocks). `Induct`, `Stays` and `Recurs` state induction and
recursion in first-order terms, for a set of numbers and for a given step, and follow
from the least-number principle.

*Chase.* `Sound == Types /\ Shows /\ Queued`. Updates are made for tracked
monsters only, so that queued updates are about shown ones needs that every client
shows all tracked monsters; the kill keeps both by taking the monster from screens
and queues at once. That a target exists is the least-number principle, applied to
distances and then to the order of connections (`NearestInRadius`); that the step
ends on the line and outside the ring is arithmetic (`StepKeepsDistance`).

*Travel.* `Traveling` is what the property says with what keeps it. A return place is
held by the connection, the row and the menu of the client, and outlives the character
that is logged out: `Roles` ties what a connection plays to rows that exist, so that a
deletion takes no row from under a player. A gate is shown as it is because who is in a
copy keeps it alive (`Inhabited`). Scrolls are counted: trips made and a place still
saved are never more than casts (`Credit`).

*Content.* `DbTools` says which files a tool has in which of its steps, and that the
server is down while one is at work, so what the tool took a copy of is still what is
on disk when it swaps. `DbLogs` adds that every row the server saved is in the file, in its log
or in a backup, and that no tool finds a log: this is where `Careful` is needed, and
`MCContentKilled` shows the invariant fail without it. A build is a recursion along 13 steps;
each keeps what the ones before it brought (`Advances`), so the order matters only
where a later one starts a table anew, which the merchants do to the vendors of the
hubs (`Steps`).

*Maze.* `Carving` says that openings meet in pairs at any time, that corridors enter
and leave rooms by their exits, and that rooms placed side by side agree about the wall
between them (`RoomsMeet`, which the code's check of a candidate makes sure of). The sweep
then only adds what rooms lack, at both ends (`ForcedOne`), and meets every cell: quotient
and remainder are shown to number the grid (`OrderInGrid`, `OrderCovers`). After it neither
sparsening nor the removal of dead ends touches a room. For the end of the generator `Carving`
adds that a walk stands in a dead end, so every way it makes was shut before and there are
fewer shut ways left (`WalkLess`).

*Connection.* `Joined` says why a level is connected, phase by phase. While rooms are placed,
no part of the grid is without a passage to the rest (`WellLaid`): the code's flood says so of
the new room's cell, and since passages go both ways, of every other (`LaidFrom`, `LaidOn`).
While corridors grow, floors side by side that are lit can be walked to from each other
(`Trees`), and so can all those about which there is something left to light (`Front`): the code
branches off a room only when no corridor can go on, so the parts between the rooms are filled
one after the other, each by one tree (`CorridorGrows`). Were a cell left over when they end, the
lit ones would have no passage to it (`AllLit`). The sweep opens the exits, so all passages are
ways at last and the level is connected (`LinkedSwept`); a dead end that is cut off leaves the
others together, and a way that is made brings in what it leads to (`LinkedClosed`,
`LinkedOpened`). `ReachAll` counts the rounds of a walk: each adds a cell or none is left to add.

*Packs.* `Counted` says what each pack was made of, and that as long as room nodes are
served no more monsters stand than found floor there. So a leader that loses members
finds the level full of leaders, or too full for it (`EmitCounted`); the packs of the
corridors come later and take nothing back. That a pack begins with its group and keeps
within its budget is shown of `Expand` for every group (`ExpandIs`): weighted units
have ranks (`NthIs`), and totals are sums along a sequence, taken by the laws of `SumTo`
(`SumLess`, `SumAppend`, `SumConcat`).

*Mobs.* `Streaming` says what the tables hold once imported and what is streamed
of them. Client and server flatten the same chain over different files: the client over
all of them, the importer over creatures alone. A walk from a node is one path
(`OnePath`), which no file leaves once it has left the mobs and that comes to its end
within as many steps as there are nodes (`ComesEarly`, by counting). So both find
the same first node that states a stat (`TellsOne`, `Alike`), wherever the mob is
`Ordinary`. The groups of a table take turns by rank, so every marker has one, and a boss
that is in every group of its marker's table stands in the arena (`BossStands`).

*Items.* `IInv` puts the properties together, as they need each other:

    IInv == TypeOK /\ BagsSound /\ Single /\ BagIsSaved /\ HandsCompatible /\ OutOfWorld

`_reconcile` takes rows from the session and from the character row, and an item that
is in both is in one place only because all the rows it keeps are of the character
row, each once (`ReconciledSound`); a filter keeps the rows with their ranks, so what
`Kept` returns is shown through the ranks of a finite set (`RankOnto`, `KeptShape`).
`Single` is about all kinds of places at once, so each handler is shown to add no place to an item
but those it takes it from (`PlacesWithin`, `StaysSingle`). `OutOfWorld` says that
who is gone has no session, which the login relies on. `KeepsItems` follows step by
step, as every bag that is taken over or reconciled is the one saved (`WholeBag`).

*Quests.* `Sound == Core /\ Shown /\ Ripened /\ Offline`. A turn-in looks at nothing
but the instance, so `KillsEarned` needs that every way to name one, the flag of the
connection, a dialog that is up, an answer on its way to raise one, names a *ripe*
instance (`Ripened`): one that was handed out, and whose quest, if it still runs,
has its kills. No step of a session takes that back (`Riper`): kills only grow, and
an instance id goes to one quest per session, which is where `RunsOnce` is needed.
`TurnedInOnce` spans sessions, so it is read off the row (`Retired`): what is turned
in and cannot be repeated is completed there and not active there, which the runtime
lists share while online (`SavedAgrees`) and get back at the next login. 
`JournalAgrees` speaks of the journal after all answers on their way, a recursive
function over `wire`. `Traced` is that agreement alone, and is inductive given `Sound`,
once sending a list of answers is known to act on what the wire before it leaves
(`DeliveredConcat`). Nothing in the library proves such a law; here it is, by the
least number at which it would fail (`HasLeast`, from the well-foundedness of the
numbers). A handler that tells of several quests sends them in any order, which is
the same argument once more (`ShowsMovedOn`). `BackKeepsQuestInOrder` needs `Orderly`:
for a client that has waited for its answers, a 0x03 that is still to come names the
dialog whose 0x02 the server has just seen, or a quest that is gone.

*Combat.* The invariants are layers, each proved on the one below, and say what each
layer asks of the environment:

- `Base` (nothing): types, tracked monsters are of copies that were made, and who
  was paid for is tracked no longer. So a death is paid at most once in any case.
- `Sound` (`Apart`): live copies have keys and populators of their own, so an id
  has one bearer that stands, and the table holds exactly those.
- `Watched` (`Apart`): a client shows and fights only monsters of the copy it is in.
- `Traced` (`Apart`, `Slow`): no report under way would be taken for one about
  another monster, so payments are on evidence about the monster that died.
- `Spared` (`Apart`, `~Harmful`): who has hurt a monster is on record as its fighter.
- `Fits` (all, `OneLevel`): a removal, at once or delayed, finds its monster.

The hypotheses are the switches of section 2, which the run makes true as well, and
`OneLevel`; without each of them TLC finds the property it stands before violated.
`Shapes` brings every handler into one of seven forms first, so that the layers look
at those and not at the handlers.

That a level is connected (`LevelConnected`: `OneMaze`, and that the gates can be reached) is
stated for levels whose rooms wall in no cell (`Walled`), and is not true of all. The first
corridor starts in a cell the twister draws among those without a room (`maze.py:434`), and the
cells still to be filled are counted down from all but that one. If rooms stand all around it, it
is filled a second time, from a room, another cell is not filled, and rooms around that one stay
cut off. With a room at (1, 0) that opens west and east, one at (0, 1) that opens east and a third
at (2, 1) that opens west, on four cells by three, TLC finds such a level, and the generator itself
makes one for a few seeds in a thousand. No text of the repository promises a connected level.

Every invariant and action property of a passing run is stated by a theorem.
Model-checked only is what the prover cannot do in principle: liveness
(`MovementSettles`, `SynchSettles`, the rest of `ChaseSettles`) and `ENABLED`. The
induction theorems of the library take an operator as parameter and cannot be used; an
induction over numbers is possible, one fact at a time, as above.

## 6. What is not modelled

- *Swing replay arithmetic* (`combat/`): cadence, damage and the random stream are
  floating point computations over tables.
- *Login server*: a token is stored and taken once; the two steps have no
  interaction to check.
- *Duels*: `on_player_killed` and `on_disconnect` of `DuelManager` are called by
  nobody, so a duel never ends; an acceptance does not look again whether either
  player already fights.
- *Social lists and chat*: their tables are created by no script; a tell finds its
  addressee by prefix, ignore lists match the login, and tells on channel 6 pass
  them by. Commands call operations modelled elsewhere.
- *Data without control*: byte layouts (`net/framing.py`, `util/`), parsers of the
  client's files, path maps, tiles, loot tables: computations over tables that TLC
  cannot enumerate and whose consumers only use the ids.
- *Plumbing*: configuration, logging, the administration console.

Inside the modelled components: the second connection of an account, a client
that asks for a character while spawned, the 16-bit width of entity ids, the bank,
several units per purchase, the crash inside a turn-in between its two saves,
potion timers, mana, equipment bonuses, the markers over NPCs, and the health that
`hp_broadcast` sends on after a client reported one (`monster_ai.py:152` takes it
for unwired, `combat.py:446` calls it; the vanilla client never reports).

## 7. Plan

What the project has: all modules of section 2, their runs and the proofs of
section 5. What is left, in order of what matters most:

1. The turn-in composed with the bag, with the crash between its two saves.
2. `Combat` without `Slow`, once ids are no longer given out again.
3. The arithmetic of combat as functions against reference definitions.
