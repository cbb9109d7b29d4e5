# TLA+ models of raylib-webrtc_bomberman

A multiplayer Bomberman in C: browsers (raylib, emscripten) talk over two WebRTC
data channels to a node.js server, which keeps the rounds and forwards what the
players do. This directory holds models of its logic, the TLC configurations that
check them and proofs of the properties that matter most. Paths below are
relative to `src/`.

## 1. The system

| part | state | operations | talks to |
|---|---|---|---|
| `tdd_network` sending service, packets | per connection a reliable and an unreliable queue; during a flush two packets | enqueue, flush (build, seal, send) | bag of connections, data channels |
| `tdd_network` streams | bit cursor and buffer | measure, write, read; `SERIALIZE_*` | packets |
| `tdd_game1` network glue | network timer | process pending packets, flush hook | handlers of client or server |
| `tdd_game1` net messages, map | message fields, 15x11 grid of cells and bonuses | serialize, get/set cells | both sides |
| server: game manager | players in order of arrival, state machine, wait hooks, round flags, bonuses of the map | `game_waiting`, `round_playing`, `next_round_waiting` callbacks | handlers, timers, sending service |
| server: handlers and systems | event queues of the world | session ready, READY, EXPLODED, DROP_BOMB, KICK_BOMB, PICKUP_BONUS, POSITION, PING | game manager, other clients |
| server: signaling (JavaScript) | session ids, pending packets | open a session, report it ready, push packets | handlers |
| client: state machine | connection, lobby, game, score | transitions at the next update, message handlers per state | world, network |
| client: game world | entities with bombs, explosions, players, bonuses; tags and groups | systems in a fixed order per update, events | ECS, network |
| client: movement, collisions, interpolation | positions, previous collisions, snapshots | per-update systems | world |
| `tdd_ecs` | entities, components, families, events, marks | create, mark, destroy, update, push and consume events | client and server worlds |
| `tdd` | list, bag, hash table, circular buffer, timer, state machine | the usual ones | everything |
| rendering, assets | textures, fonts | draw, load | client only |

Everything in C runs on one thread per process. A server tick handles the packets
that came in, runs the systems, updates the timers and the state machine, and
flushes (`tdd_game1_server/src/main.c:12-19`). JavaScript callbacks run between
ticks. So the concurrency is between processes and with the channels: what
arrives before what, and before which timer.

What is hard here, and what each part must keep up:

* **sending service** - the order of the messages of a lane; no message forgotten,
  whatever a flush runs into; packets within their size; what is enqueued as
  reliable arrives.
* **server rounds** - the game starts once everybody is ready; a round closes only
  when at most one player is alive, the survivor scores; the next round comes;
  explosions that arrive late, in the tick of the close, or during the pause;
  ids against positions in the array.
* **handlers** - a bonus goes to one player; reports reach the other players.
* **client states** - messages of one burst are handled in the state the burst
  began in; nothing that a later state needs may be lost.
* **client world** - a bomb explodes once, chains of blasts, owners that died,
  inputs and events that outlive what they refer to.
* **containers, timer, ECS** - behave as the sequences, maps and clocks they stand
  for, at the limits of their capacity too.

The hazards, at their lines, are listed in `PROJECT.json`.

## 2. Modules

| module | what it is |
|---|---|
| `MessageLanes` | abstract: lanes that hand over accepted messages in order, each at most once; some lanes may forget messages in a row |
| `SendingService` | enqueue, flush step by step, the two channels; implements `MessageLanes` |
| `MCSendingService` | message kinds and sizes for TLC |
| `SendingServiceProofs` | theorems about `SendingService` |
| `Rounds` | abstract: what players may expect of the rounds |
| `GameManager` | the server: sessions, handlers, events, wait hooks, state machine; implements `Rounds` |
| `GameManagerProofs` | theorems about `GameManager` |
| `RoundProtocol` | the clients' state machines and the channels, composed with `GameManager` |
| `RoundProtocolProofs` | theorems about `RoundProtocol` |
| `BombWorld` | the game world of one client: bombs, blasts, walls, kicks, gear, deaths |
| `BombWorldProofs` | theorems about `BombWorld` |
| `MCBombWorld` | a small map for TLC |
| `LinkedList`, `HashTable`, `ItemBag` | `list_t` node by node, `htable_t` slot by slot, `bag_t` with its cursor: operators on records |
| `Selection` | the loops that collect the elements of a list that pass a test |
| `ContainerProofs` | lemmas about lists, hash tables and sequences |
| `EntityStore` | abstract: entities in the order of their creation, names, groups, queues of events |
| `EntityWorld` | the ECS over those containers, with the collision system; implements `EntityStore` |
| `EntityWorldProofs` | theorems about `EntityWorld` |
| `BitStreams` | the measure, write and read streams, the bit writer and reader: operators on words of bits |
| `NetMessages` | the members of every message, and a packet from packing to reading |
| `GameTimer` | a timer, the readings of its clock and its hooks |
| `Interpolation` | the ring of positions of a remote player and where it is drawn |
| `LibraryProofs` | theorems about `NetMessages`, `GameTimer` and `Interpolation` |
| `BoundedNumbers` | lemmas for the proofs: least and greatest elements, induction and recursion up to a bound |
| `MCLibraries` | `EntityWorld`, `NetMessages`, `GameTimer` and `Interpolation` side by side, one per behaviour, for TLC |

### SendingService

A *lane* is one direction of one channel of one connection. A message is its rank
on its lane and its kind, which decides how many bits are measured for it and how
many are written. The flush (`tdd_network/src/sending_service.c:34-88`) is one
call; it is modelled in small steps (`pc`, `cursor`) so that each loop iteration,
early return and failure is an action, and the callers act only while `pc = "idle"`
because nothing else runs during the call. Deliveries and losses happen at any
time. `BeginFlush .. EndFlush` walk the bag; `AddMessage`, `DropOverflow`,
`FinishBuilding`, `AbortOnRange` are the outcomes of one turn of `build_packet`;
`SendPacket`, `SealFails`, `NothingToSend` those of `send_packet`. `received` and
`lost` are history.

Two facts of the code deserve a reader's attention. `build_packet` takes a message
out of the queue before it knows that it fits, so an overflow loses it
(`DropOverflow`). And neither the header of a packet nor the padding inside it is
measured, so a packet may fail to seal, which loses both packets of the connection
and puts off the connections after it (`SealFails`).

Fairness: the flush is a repeating timer hook and, once begun, a plain loop
(`WF` on its beginning and its steps); a channel delivers or, if unreliable,
loses what it holds (`WF` per lane). New connections and messages may come for ever or
not at all. `EveryMessageSettles` has a condition besides, `FailuresEnd`: packets fail to
seal only finitely often. It is needed. A failed flush returns before the later slots and
the next one starts at slot 0 (`sending_service.c:36-70`), so a connection that failed every
time would starve those behind it; without the condition TLC shows that behaviour on the
same run. The game meets it: a packet comes near its limit only with a PLAYER_CONNECTED or with
two BONUS_MAPs. The former are sent when a session gets ready, which at most four do; the
latter are a whole round apart, many flushes.

### GameManager

The state is that of the server: `players` in order of arrival, the states of the
state machine, the flags `is_game_ready` and `round_is_over`, the wait hooks not yet
triggered, the events pending in the world, the cells that still hide a bonus.
`pc` walks through the parts of a tick in the order of `simulate_server_tick`;
messages are handled only in the part `packets`, sessions get ready only between
ticks, and the events of a tick are consumed before its timers are looked at.
`sends` is what the last step enqueued for each player. `pressed`, `exploded` are
what clients keep that limits what they send: one READY each, one EXPLODED each per
round (`ClientReadies`, `ClientExplodes`, around the handlers, which look at neither); they
may arrive as late as they like, also after the round was closed.

A hook that waits for a date is due in some later tick: time is abstracted to
"not yet" or "now", and strong fairness of the three hooks says that a clock that
only grows passes a fixed date. Leaving the waiting state frees the timer under
the walk that called it; the model lets the process go on or stop there. A
ROUND_OVER whose score is out of range ends the process at the next flush.

Left out: positions and their broadcast (data no decision reads), a fifth session,
and a ping that finds no player at its index.

### RoundProtocol

It EXTENDS `GameManager`: every step of the server is conjoined with what it does to
the channels. `queued` is what the server enqueued since its last flush, `down` what
flies to a client, `up` what flies to the server, `readies` the READY messages
forwarded unreliably, which may be lost or come in any order. `Payload` adds what the
messages carry: the mask of the ready players, the scores, the map of the round (two
maps in turn stand for the random ones, so that a stale map is told apart). What a step
enqueues for one client is either a READY alone, unreliably, or goes reliably as a whole
(`ReadyIn`, `Written`).

`client[id]` is one browser: its state, the flags its transitions read, the tagged
entities of the lobby, the scores, the map and its saved copy, the explosions pending
and done in the game world. `ClientReceive` is one turn of the loop of
`process_pending_packets`; an update takes at most one transition and then runs the
state it is in (`Moved`, `UpdateConnection` .. `UpdateScore`), so all the messages of a
burst are handled in the state the burst began in. A READY of a player without an
entity tagged in the lobby follows a null pointer: the process stops or goes on.

`Prompt` says that a message and an update take less time than the delays of the game:
the players have handled the ROUND_START before anybody is hit or the round closes (a
bomb burns for 3 s, a round found over is closed 2 s later) and the ROUND_OVER before
the pause of 5 s ends. With `Prompt = FALSE` nothing relates the channels to the
clocks, as when a browser throttles the timers of a tab in the background.

Left out: bombs, kicks, bonuses, pings and positions; the winner's id and the nicknames.

Fairness: that of `GameManager` for the server, `WF` for a client's updates and for the
delivery on its reliable lane, `SF` for the server's reception, which is possible only
in one part of a tick.

### BombWorld

One client's world during a round. `pc` walks through the systems in the order in
which `create_game_world` registers them and skips those that have nothing to do;
between two updates messages of the other player become events. `cells` is the map that
the code of bombs and explosions reads, `walls`, `bombs` and `blasts` are the entities:
the two can disagree, which is what `NoGhosts` is about. A bomb is `fresh` until the end
of the update it is made in (the family lists of that update do not hold it), then
`live`, `marked` once it has exploded, and `gone` when the world has destroyed it.
`HitBomb` is the enter hook of a blast on a bomb, `ExpireBomb` the end of a lifetime;
both run `BombExplode`. `Reach` is the loop over the offsets, `Hits` what the colliders
and the tests of the hooks make of it on the grid.

`Ground`, the cells that are not indestructible, is not empty. Players are where they
like: a drop may happen on any free cell, a blast may or may not
touch the local player (up to two colliders in one update), any bomb it may kick may be
kicked. A rolling bomb lies between cells, so whether a blast near it hits it is left open
too. Messages may refer to bombs and players that are no longer there. Then the code
follows a null pointer (the gear of an untagged player, the bomb at a cell without one):
the process stops, or goes on with one of `StrayRanges` or `StrayCells`.

Left out: bonus entities and armor, speed and wall passing, positions, the messages
this client sends except EXPLODED.

Fairness: the browser asks for frames (`WF` on the systems), and the clock passes the
date of the oldest bomb (`SF`, since the test is possible only in one system).

### LinkedList, HashTable, ItemBag

The containers are pure operators, one per function of the source that the program
calls, on a record that holds what the C structure holds. The nodes of a list live in a
heap, a function from addresses to nodes, so that a pointer left behind is visible:
`WellLinked` compares the walk along `next` with the one along `prev`. A table holds its
slots; a key is a model value with a hash given by `Hash`, chosen so that probes collide.
`Delete` leaves the hole that `remove_entry` leaves, `Grow` inserts the entries anew.
They are checked where they are used, in `EntityWorld`. `Kept` of `Selection` stands for
the loops that filter a list: the entities of a family, the contacts of the last update.

### EntityWorld

`stage` is the part of a frame: between updates (`idle`), at a system of the list
(`systems`, with the walk at `node`), in the callback of an entity system (`visit`), in
the handler of an event, testing collisions (`collide`), between and in the hooks of
collisions, in the final sweep. The code of the game is what may run in these places:
factories create entities with components, tags and groups (`Create`), deaths,
explosions and pick-ups take the tags and groups off and may leave a lifetime
(`Retire`), entities are marked (`Mark`), an armor adds a component that the system of
effects removes from the entity it visits (`Equip`, `Unequip`), events are pushed. Each
is enabled where some callback of the client does it (`Creating` .. `Pushing`) - creation in
hooks as well, where a bomb hit by a blast explodes and makes its own (`bomb.c:105`) -, in any
order and any number of times within the bounds; the walks of the world go on around
them.

An address is never used twice, which makes a pointer to a freed entity visible
(`NoDanglingPointers`). The collision system is part of the module because its
`previous_collisions` is the one place that keeps entities from one update to the next
and that survives its world. Which colliders overlap is free, at most one new contact
per visited entity. `ImplementsEntityStore` maps the lists, tables and bags to the
sequences and functions of `EntityStore`.

The specification is `WorldSpec`. `Edit` is one call of a manager of tags or groups,
`EditAll` those a factory or a death makes, in an order of the names that is the same for
all entities. Two assumptions on the constants come from the game. No family of a system
that collides names the components that come and go while an entity lives, the lifetime
and the blinking (`families.c:49-59`, `collision_entity_system.c:27`): otherwise an entity
could stop being a collider, and be freed, without its contacts being dropped. And
`ProbesFor`: the probe sequence of a key meets as many slots as there are keys, without
which `find_free_slot` does not end. The game's table has 32 slots, of which a quadratic
probe meets seven, and holds at most five tags or five groups.

Left out: `user_data`, the deltas, what components hold, functions that nothing calls.

### BitStreams and NetMessages

A message is its type and the sequence of its members, a member a range, a row of ranges
or a byte array; the three streams interpret the same description as the code's
`SERIALIZE_*` macros do. `PlayerKickBomb` .. `Ping` are the `*_serialize_members`
functions, `Factory` the factory. `Values(f)` are the values a member can take, and
`WellFormed(m)` says that the members of a message have such values: on any other message
an assertion ends the process (`measure_stream.c:26`, `:38`, `write_stream.c:28`), so the
messages that are packed are well formed (`SampleMessagesAssumption`). `AddMessage` measures
and accepts, `Seal` writes the header and the messages and flushes the writer, `Receive`
reads the buffer from its start.

The measure and the writing disagree: a byte array of 12 bytes takes four words and is
measured as three and twice the padding before it, the header is not measured. With one
PLAYER_CONNECTED the second padding makes up for the words, or the other messages of the
game leave enough of the packet free; `MeasureCoversWriting` says so. With two of them (three and four players) and a small message TLC finds
a packet measured at 1013 of 1024 bits that does not seal, which is the failure
`SealFails` of `SendingService` stands for. A player gets one such message per session
that gets ready, so two meet only if two sessions get ready within one flush interval.

### GameTimer

Time is in ticks, `Second` of them a second. The timer reads the tick within the second,
rounded, so that a reading may be a whole `Second` as well as 0, and adds what it moved.
`UpdateTimer` reads, `VisitHook`, `HookReturns`, `EndOfHooks` are the walk over the hooks,
during which a hook may set another one. `seen`, `stalled` and the last fields of a hook
are history. `HooksFireOnTime` bounds both sides: no hook early, except by up to a second
when it was set before the first update (which adds the whole reading), and none later
than the whole seconds of the stalls it waited through.

### Interpolation

`Frame` advances the timer, `ReceivePosition` is the handler of a position, `Show` the
entity system. Positions have one coordinate and are those of a player that walks one way;
positions that are lost are positions that do not come. `State1` and `State2` are the two
searches with their order of slots.

## 3. Runs

| run | instance | what it shows |
|---|---|---|
| `SendingOverflow` | 1 connection, 4 messages per lane, packets of 2, an out-of-range kind | order, accounting, isolated losses and the refinement of lossy lanes under overflow, loss and abort |
| `SendingSealFails` | 2 connections, packets that fail to seal, traffic that never ends | no oversized packet, later slots are served once packets seal again |
| `SendingLight` | 1 connection, at most 2 waiting, packets of 2 | reliable lanes are perfect channels, every reliable message arrives |
| `SendingLost` (violation) | 6 messages waiting, packets of 5 as in the game | a reliable message is lost |
| `GameRounds` | 3 players, sessions in order, scores up to the abort | type, bonus granted once, refinement of `Rounds`, no dead winner, the game starts, rounds go on |
| `GameNeverOver` (violation) | 2 players, 1 victory required | a round is played after the game was won |
| `GameOutOfOrder` (violation) | 2 players, sessions in any order | an explosion is not forwarded |
| `RoundProtocol` | 2 clients, prompt, 1 point until the abort | clients notice every round, deaths, scores and maps agree with the server, and clients send what `GameManager` takes them to send |
| `RoundLiveness` | 2 clients, prompt, the first score aborts | everybody enters the game; after the scores comes the game |
| `RoundBackgroundTab` (violation) | 2 clients, not prompt | clients that get the end of a round and the start of the next in one burst show the scores for ever |
| `BombWorld` | 2 free cells, 2 walls, 2 bombs, 2 messages, kick and extra bomb bonuses | explosions happen once and for every bomb, the map agrees with the entities, blasts hit what they see, bombs within the gear, one report of a death |
| `Libraries` | `EntityWorld` with 3 entities, with 2 entities and 2 events, with an armor; packets of 3 messages out of 20; a timer with 2 hooks over 7 ticks of 3 to the second; a ring of 3 positions over 6 ticks | lists stay linked, no freed entity is referred to, enter and exit hooks match, the ECS implements `EntityStore`; messages are read as packed, the measure covers the writing; hooks are on time; a player is not drawn backwards |

Bounds. `SendingSealFails` has two messages on a lane at a time, but any number in all:
`EndlessSpec` adds to `SendingService` a step, `Recount`, that starts the count of a lane again
when nothing of it is on its way, so that one connection may fail for as long as the
condition of `EveryMessageSettles` lets it while another waits. Two messages per packet and four waiting give a full packet, a loss, and a
message after the loss; two connections let a failure on the first one delay the
second. Three players give rounds with two simultaneous deaths, a survivor or none,
and a late explosion of each; the scores bound themselves because the first one out
of range ends the process. Two bombs are a chain
reaction or two bombs on one cell; three cells in a row let a wall hide behind a bomb; two
messages are a drop and its kick, a kick that finds nothing, a bonus before a drop or a
death before a drop, in one update or in two.

`Libraries` checks four parts that share no variable; a behaviour is of one of them, chosen
in `Init`, and says nothing about them together. Its tables start with two slots, so that
two tags make one grow, and the hashes of the two tags collide before and after; five
systems hold one of each sort. Three entities are a list with a head, a middle and a tail, and with
one contact each a chain of three; two events are a handler that pushes the next. Packets
of three hold every pair of messages, in both orders, before a message that fills the packet.
Two hooks are one that sets the other while the list is walked; `EndOfTime` is more than two
seconds and `Stall` more than one. Three positions make the ring overwrite a state that is shown. Deadlock is not checked in runs where the process may end.

## 4. Proofs

Each property, and each invariant below that TLC can evaluate, was checked on a run before
it was proved (that some sequence of writers or sizes exists, as `PacketInv` and `MeasuredInv`
say, it cannot enumerate). What each theorem says is listed in `PROJECT.json`; this is how
the proofs go.

`SendingServiceProofs`, for every capacity, message sizes and limits:

* `TypeCorrect` - `TypeOK`, strengthened with *the cursor is on a slot of the bag
  from `EnterSlot` until the last packet is sent*.
* `InOrder`, `Accounted` - the invariant `LaneInv` says of each lane that what was
  read, flies, is packed and waits are consecutive in rank and, with what is lost,
  make up all that was enqueued. It is inductive only together with `PacketsEmpty`:
  a packet holds nothing when the cursor moves. `LaneEffects` says that a step does one of
  eight things to a lane (`Untouched`, `Enqueued`, `Added`, `Dropped`, `Sent`, `Discarded`,
  `Delivered`, `Vanished`); the later proofs are about these, not about the actions.
* `LossyLanesImplemented`, `ReliableLanesImplemented` - the refinement of `MessageLanes`.
  `Held` is the refinement mapping: the ranks on the wire, in the packet, in the queue. Each
  effect `Accepts`, `Hands` over or `Forgets` messages in a row, or stutters; a reliable lane
  forgets only at a `DropOverflow` or `SealFails`, which the load of the second theorem
  excludes.
* `PacketsFit` - `Weighed`: the bits a packet counts while it is built are those its seal
  writes, apart from the header. `SealedBits` is a sum over a sequence.
* `OverflowLosesIsolated` - assumes that every message fits a packet alone
  (`MessagesFit`) and that packets seal. `NextFindsRoom` is the point: the
  message after a lost one, when it is first in its queue, finds an empty packet, so that it
  is packed. Without the second assumption the property is false, as a failed seal loses whole
  packets. `SmallMessagesSeal` gives a condition on the sizes under which they do seal, and
  `SmallLossesIsolated` combines the two.
* `LightLoadLosesNothing` - if what may wait fits one packet even at its largest,
  header included (`LightLoad`), `DropOverflow` and `SealFails` are impossible.

`GameManagerProofs`, for any number of sessions, arguments, scores and cells:

* `TypeCorrect`, `BonusOnce` - unconditional. A bonus still on the map has not been
  granted in the round (`Bonuses`), which makes `BonusGrantedOnce` inductive.
* `Forwarded` - assumes that sessions get ready in the order of their ids
  (`InOrder`). Its invariant `Arrival` says that the sessions ready are the first
  ones and that players, then pending spawns, sit at the index their id says. The
  run `GameOutOfOrder` shows why the assumption is needed.
* `WinnerNotDead`, `RoundsImplemented` - assume also that the sessions are those of
  the expected players. `IInv` adds: every state waits for exactly the hook it has
  set (`Hooked`), all the players are there once the game is ready (`AllHere`),
  nobody dies in the lobby (`LobbyAlive`), a round found over stays over until it is
  closed (`Survivors`), no event is pending when the timers are looked at
  (`Consumed`) and whoever exploded is dead or about to be (`DeadKnown`).
  `StepEffects` splits the steps by what they do to the players; `DeadIn`, `ScoreIn`
  are the refinement mapping as functions of the array.

`RoundProtocolProofs`, for any number of clients, assumes what the run does: sessions get
ready in the order of their ids, are those of the expected players, and clients are prompt;
`RoundBackgroundTab` shows why the last is needed. Everything follows from one invariant,
`PInv`, which is `IInv` of the server and

* what a client has been told (`Told`). `Phases` is its centre: the turns of the rounds
  come one at a time, and the state of the client, what flies to it and the state of the server
  are together in one of five phases. `Known`, `Died`, `MapsCome`, `ScoresCome` say that
  what the client has handled, followed by what is coming, is what the server has. `Flushed`
  says that no turn waits for the flush when a hook is looked at.
* what a client has sent (`Asked`): READY once, EXPLODED once in a round and only while it is
  played (`Reads`, `Sent`), and nobody explodes before every client plays (`NoneYet`).

`ToldOne` and `AskedOne` are the same for one client as a function of its state and of what
is coming, so that a step of one client (`ClientStep`) or one message enqueued for all
needs one lemma. From `PInv`: `RoundsNoticed` from `Phases`, `ClientsBehave` from `Asked`,
`DeathsAgree`, `ScoresAgree`, `MapsAgree` from `Died`, `ScoresCome`, `MapsCome` of a client to
which nothing is coming. And `ServerIsGameManager`: the handlers of `RoundProtocol` act on
whatever arrives, those of `GameManager` only on what its environment sends (`ClientReadies`,
`ClientExplodes`); as the clients send nothing else (`SendAsAssumed`), the steps of the one are
steps of the other, and the theorems of `GameManager` hold of the server among real clients.
The invariant of the server and that of the clients need each other, so that they are
proved together, step by step (`ProtocolInvariance`).

`BombWorldProofs`, for any map with a free cell, any number of bombs and messages, and any
gear:

* `TypeCorrect` - with `Control` (a system is next only if it has work) and `Fresh` (there is a
  bomb left for every drop).
* `BlastsHit` - about operators alone: over the directions and the offsets of `Reach`,
  colliders and hooks hit exactly the cells in sight.
* `ExplodesOnceOnly`, `NoGhostsOnMap` - `SafeInv`: a bomb that is still in the group has not
  exploded, and one that lies on its cell does not roll. The second is what keeps the map and
  the entities together when a kick and a blast meet.
* `BombsAreWithinGear` - `GearInv`: at most one drop of the local player waits for its bomb,
  only within an update, and there is room for it. The bound on the bombs is not inductive
  without it, since the gear is read when the key is pressed and the bomb is made later.
* `DeathIsReportedOnce` - the report and the death agree.

`LibraryProofs`, for any well-formed messages, any number of them and a buffer of any size:

* `ReadingBackWhatWasPacked` - what the peer reads from a packet that was sealed is what was
  packed. The writers of a packet go on from each other (`Grows`): what one has left, in its
  words and its scratch bits, the later ones keep. A reader stands where a writer stood
  (`ReaderAt`) if the words it has taken and the bits left in its scratch are those; it then
  reads what was written next and stands where the next writer stood. This is shown for each
  kind of member - a number, a signed one, a row, and a byte array, before which both pad to
  a word and after which both pass one word more than the array fills -, then for the members
  of a message one after the other (`ReadsMembers`), for its type and nicknames, and for the
  messages of a packet. The invariant `PacketInv` says that a sealed packet has what its
  writers left in the buffer, and that it takes no message any more.

* `MeasuringCoversWriting` - for packets of 128 bytes (`MAX_PACKET_SIZE`, `network.h:26`), a
  packet with at most one PLAYER_CONNECTED whose measure leaves room for the header is sealed
  within its buffer. Every other message takes the bits it is measured (`PlainMessageMoves`),
  one of eleven sizes (`PlainMessage`). A PLAYER_CONNECTED with up to four nicknames is
  measured 33, 191, 289, 447 or 545 bits (`Measures`), and takes 33 and, with nicknames, the
  padding that its place asks for and 128 bits for each (`Takes`), which may be up to 31 bits
  more than its measure. Four other messages are too small to fill the rest of the packet
  to within those bits, or too large to be taken (`ConnectionFits`), but in one case: three nicknames, a
  BONUS_MAP and 73 bits of others, where the padding would have to be 31 bits and no
  arrangement of sizes makes it that (`TightPacket`). `MeasuredInv` adds to `PacketInv` that
  the measured size of a packet is the sum of its messages'. The 128 bytes are needed: with 72,
  a PLAYER_CONNECTED with four nicknames and a ROUND_START are accepted and do not fit (seen
  with TLC), so a change of `MAX_PACKET_SIZE` or of a message's members can
  break what nothing in the code guards.

For a second of any number of ticks, any delays but 0, any number of
hooks and any stalls:

* `TimerSafety` - hooks fire on time. The invariant `InTime` keeps, for every hook that
  waits, the elapsed time since its wait began between what the clock moved and that
  less the whole seconds of the stalls; `Visited` says that the hooks behind the walk, or
  all of them outside it, are not due. The arithmetic is in `Moved`: what a reading adds
  is what the clock moved, modulo `Second`, also when either reading is a whole `Second`.

And for a ring of any size, any delay and any frames:

* `NeverDrawnBackwards` - the slots are sorted by time and position in the order in which
  they were filled (`Sorted`, `Older`), and whatever is drawn from now on, with the states
  that are in the ring, is not behind what was drawn last (`NotBehind`). A new state
  overwrites the oldest; that it does not take away the state the player is drawn from
  without a later one to replace it is what the proof shows.

`ContainerProofs`, for lists, tables and sequences of any length:

* Lists. A list is `Ordered` by a sequence of its nodes if each is linked to the one before
  and to the one after it, and `Linked` if such a sequence exists. `PushBackOrdered` and
  `RemoveNodeOrdered` say which sequence orders the list afterwards; `OrderedIsWellLinked` walks
  it both ways, and `PushBackAppends`, `RemoveDrops`, `RemoveFirstTail` say what becomes of its
  items.
* Tables. `Maps(K, I)` are the tables that hold each key of `K` at most once, on its own probe
  sequence; such a table has a multiple of the smallest capacity, so that its probes meet as many
  slots (`FreeTurn`). `Get` then finds every key that is there, behind a hole as well
  (`KeyFound`, `KeyMissing`), and `AddGets`, `DeleteGets`, `ReplaceGets` say that `htable_add`,
  with the growth in it, `htable_remove` and a change of an item in place alter one key and
  no other.

`EntityWorldProofs`, for any systems, kinds, tags, groups and events, any number of entities and
any smallest table. Its invariant, `WorldInv`, is

* `ListInv`: the lists are `Linked`; `EntityInv`: the list of entities names each entity in memory
  once, and the bag of an entity holds what its mask says;
* `WalkInv` and `VisitInv`: a walk is at a node of its list, and what it has still to visit is in
  memory and has the components of its family. It holds because entities are freed in the
  sweep alone, and because a visit takes a component from nobody but the entity it visits;
* `ContactInv` and `HookInv`: the contacts kept from the last update, and the hooks due, are of
  colliders in memory. The sweep frees colliders, and drops their contacts; nothing else makes
  an entity cease to be one (`TouchesCollides`), which is where the assumption on the
  families is used. An enter hook that is due was not called, and a contact whose enter hooks were
  called is kept or its exit is due;
* `NamesInv`: the tables are maps, and what they name is in memory and not marked. The
  second part is what makes it inductive: an entity has lost its tags and groups when it is
  marked, so the sweep frees nothing that has a name.

From it follow `WorldKeepsListsLinked`, `WorldMatchesEntersAndExits` and `WorldKeepsPointers`.
`WorldImplementsStore` takes it step by step: a creation, a death, a mark, a freed entity, a
push, a handled event and the end of a world are each a step of `EntityStore` (the lemmas
`CreateImplements` .. `ClearImplements`), and the other steps leave what it sees alone (`Still`).
`BoundsInv` is added because the abstract store has a bound on what is ever created.

`BoundedNumbers` holds what the provers do not know of numbers: a bounded set has a least
and a greatest element (from the well-foundedness of the strict subset ordering on finite
sets); what holds at 0 and is handed on up to a bound holds at every number of it
(`SetInduction`); a recursion up to a bound defines a function (`IterationExists`). The
recursive functions of the model, the sum and the concatenation over a sequence, are
reasoned about through the last two.

What is only model-checked. Liveness is out of the prover's reach: `EveryMessageSettles`,
`EveryReliableMessageArrives`, `GameStarts`, `RoundsGoOn`, `EveryoneEnters`, `ScoresThenGame`
and `EveryBombExplodes`, each under fairness. Every invariant and action property of the
passing runs is the statement of a theorem. The violations are counterexamples, and stay
with TLC.

## 5. Plan

1. Two instances of `BombWorld` that exchange their messages: the cut direction of kicks,
   ranges read from copies of the gear, kicks forwarded unreliably; bonus entities and
   their pickup.
2. The walls' resolution of collisions and the wall passing of the client, on whole
   pixels; the signaling of the JavaScript parts as a protocol of its own.
3. Proofs: lanes, rounds and world composed.

## 6. Not modelled

* Rendering, animations, assets, debug drawing: no decision of the game reads them.
* Geometry in floats: the overlap of colliders (left to choice), the resolution of walls,
  the positions of players between cells.
* `sending_thread.c`, `world_get_system`, `tdd_timer_stop`, `list_push_front`, `list_remove_if`,
  `list_find_and_remove`, `htable_print`: nothing calls them.
* The JavaScript of client and server and the WebRTC channels: modelled only by what the C
  code sees of them, order, loss and readiness.
* The unit-test framework under `tdd_utests` and the tests.
* A fifth session, beyond the two to four players of `README.md`.
