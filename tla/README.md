# cubic-server: TLA+ models and proofs

cubic-server is a Minecraft server in C++. Two things are hard about it. One
is its threads: one per connection, one that writes to all sockets, one per
dimension, a pool that generates chunks, and the main thread that starts and
stops all of them. The other is the data that they hand to each other and to
the players: packets that arrive in pieces, palettes packed into words, stacks
of items in eight bits. This project models both, checks the models with TLC
on small instances and proves with TLAPS, for every instance, the safety
properties that the provers can reach.

All paths below are relative to `src/cubic-server/`.

## 1. Inventory

### Components and the state they keep

| Component | State | Operations | Threads |
|---|---|---|---|
| Generation pool (`thread_pool/Priority*`, `Semaphore.hpp`) | job deque, `jobSemaphore`, `library`, `stayAlive` | `addJob`, `cancelJob`, `cancelAll`, `waitUntilJobsDone`, destructor, `doJob` | workers; every caller |
| World life cycle (`World.cpp`, `WorldGroup.cpp`, `default/`) | `_isInitialized`, `_worldGenFuture`, `_running` | `initialize`, `stop`, `tick` | main, `std::async` task, group thread |
| Chunk requests (`Dimension.cpp`) | `_loadingChunks` under `_loadingChunksMutex` | `loadOrGenerateChunk`, `removePlayerFromLoadingChunk`, `sendChunkToPlayers` | client threads, workers |
| Rosters and ticking (`Dimension.cpp`) | `_players`, `_entities`, two mutexes, `_dimensionLock` | `spawnPlayer`, `addEntity`, `removeEntity`, `removePlayer`, `tick`, `stop` | client threads, dimension thread, writer |
| Player view (`Player.cpp`) | position, `_chunks` (`Loading` / `Loaded`) | `setPosition`, `_updateRenderedChunks`, `_unloadChunk`, `sendChunkAndLightUpdate` | client thread, workers |
| Keep-alive (`Player.cpp`, `TickClock.cpp`) | `_keepAliveId`, `_keepAliveIgnored`, `_tick` | `_processKeepAlive`, `_onKeepAliveResponse` | dimension thread, client thread |
| Items, food, fighting (`Player.cpp`, `LivingEntity.cpp`, `protocol/container/`) | slots, cursor, food, saturation, exhaustion, health | clicks of every mode, drop, dig, place, eat, attack, `_foodTick` | client thread, dimension thread |
| Network loop (`Server.cpp`) | `_clients` under `clientsMutex`, `_toSend`, `_running`, `_hasTerminated` | `_doAccept`, `sendData`, `_writeLoop`, `triggerClientCleanup`, `stop`, `_stop` | main (asio), writer |
| Connection (`Client.cpp`) | `_isRunning`, `_status`, buffers, cipher | `doRead`, `_handlePacket`, handlers, `doWrite`, `disconnect`, `~Client` | client thread; whoever drops the last pointer |
| Protocol (`protocol/`, `nbt.*`) | none: bytes to structs and back | `parse*`, `create*`, `pop*`, `add*`, NBT | client thread, everybody who sends |
| Columns (`world_storage/ChunkColumn.cpp`, `generation/`) | blocks, `_currentState`, light | `generate` and its stages, `recalculateSkyLight` | workers |
| Sections (`world_storage/Section.cpp`, `Palette.cpp`, `DynamicStorage.hpp`) | palettes, packed words, light counters | `updateBlock`, `updateBiome`, light, `addChunkColumn` | workers, client threads |
| Persistence (`world_storage/Persistence.cpp`) | loaded regions | `isChunkLoaded`, `loadRegion` | workers |
| Whitelist, permissions, configuration, commands | sets of names, settings | `/op`, `/deop`, `/reload`, `/stop`, `_enforceWhitelistOnReload` | client threads, console |

### How they interact

A connection starts with a handshake and a login; `_onLoginStart` asks the
whitelist and switches the client to play, which creates a `Player`, puts it
into the rosters of its dimension and shows it to the others. From then on the
client thread reads packets and the dimension's thread ticks the player.

A client thread moves a player (`setPosition`). `_updateRenderedChunks` unloads
what left the window and asks the dimension for what came into it. The
dimension joins an existing request or adds a job to the pool. A worker reads
the chunk's region or generates the chunk, stage by stage, and under
`_loadingChunksMutex` sends it to every player of the request. Sending means
`doWrite`, which puts a packet on `_toSend`; the writer takes it off, cleans
disconnected clients up and writes. Dropping a client runs `~Client`, possibly
on a worker, which leaves the requests and the rosters again. Stopping
disconnects and joins the clients under `clientsMutex`, waits for `_toSend` to
drain, ends the writer, clears `_clients`, and then stops the worlds: the
group's thread is joined, then for each world `cancelAll` and
`waitUntilJobsDone`, and for each dimension its thread is woken and joined and
its level cleared; the pool is destroyed with the world.

### What is hard about it

* The pool's `Semaphore` adds permits without its mutex and takes them away
  with it; only a mutex of the *dimension* keeps the two apart.
* `waitUntilJobsDone` reads two counters one after the other.
* `Player::_chunks` is written by the client thread and by workers, mostly
  without a lock.
* `~Client` runs wherever the last pointer is dropped, under whatever mutex is
  held there.
* Threads are joined while `clientsMutex` is held, and a thread in `read_some()`
  ends only when its peer says something or hangs up.
* `_eat` and `_foodTick` change the same levels in two threads, without a lock.
* Which stage of a column is next is read before the column's lock is taken,
  and `READY` is set before the light is computed.
* Players enter and leave two rosters, one after the other, while others are
  told about them.
* `_handlePacket` finds frames with pointers of which `eof` means two things.
* Palettes change their width while they are in use; counts of items are
  eight-bit numbers.

`PROJECT.json` lists each of these hazards at its line, with the properties
that watch over it.

### What makes each component correct

* Pool: no job is lost, run twice or run after it was cancelled; waiting and
  stopping end, and find the pool empty.
* Chunk requests: every request has a live job and every queued job somebody
  who wants it; requests do not generate a chunk twice at once; chunks in view
  arrive, and a player that leaves leaves nothing behind.
* Rosters: players in play see each other and nobody sees one who left.
* Network: a client is joined before it is erased; packets arrive in order, and
  neither they nor a stop are held up by anything but a silent peer.
* Keep-alive: the silent are dropped, and nobody for a wrong id or too early.
* View: what is in view is held, and no move touches what stays in view.
* Protocol: each packet is handled once, in order and as it was sent, in
  whatever pieces it arrives; nothing cut short passes for a whole packet; what
  the server writes can be read back.
* Columns: saved terrain is kept; what is `READY` is finished, and lit when the
  last worker has gone.
* Sections: however they are packed, they are a function from positions to
  values.
* Items and levels: items move and are neither made nor lost, but for the clicks
  that lose some; food, saturation and health stay in their ranges.
* Configuration: whatever a file says, a reload leaves a server that can be stopped.

## 2. Modules

| Module | Models | Checked by |
|---|---|---|
| `JobBoard` | what users of the pool rely on: numbered jobs, each run once or withdrawn; a board that is closed when empty | (abstract) |
| `GenerationPool` | the pool, its workers and the threads that call it | `pool`, `GenerationPoolProofs` |
| `ChunkLoading` | requests, jobs, delivery, marks, departure of clients | `chunks`, `ChunkLoadingProofs` |
| `ServerNetwork` | accepting, reading, writing, cleanup, stopping | `network`, `network_stop`, `ServerNetworkProofs` |
| `RenderWindow` | the eight loops of `_updateRenderedChunks` | `player`, `PlayerProofs` |
| `KeepAlive` | the keep-alive exchange | `player`, `player_idle`, `PlayerProofs` |
| `PlayerLife` | the two together: one player, two threads | `player`, `PlayerProofs` |
| `Bits`, `Nbt`, `Wire` | bytes of numbers, of NBT trees and of all protocol types | `protocol` |
| `Packets`, `ServerStructs`, `ClientStructs` | fields and ids of the packets, and the structs the code gives and gets | `protocol` |
| `Answers` | what the handlers and the `send*` functions send | `protocol` |
| `PacketStream` | one connection as two streams of bytes | `protocol`, `framing` |
| `BlockGrid` | what a section promises: one value per position | (abstract) |
| `GlobalPalette` | the numbers of block states | `storage`, `SectionStorageProofs` |
| `SectionStorage` | palettes, packed words, light counters, region palettes, the chunk packet | `storage`, `SectionStorageProofs` |
| `Terrain` | what each generation stage writes | `columns` |
| `ChunkColumns` | generation and region loading by several workers | `columns`, `ChunkColumnsProofs` |
| `Inventory` | slots and clicks | `play`, `PlayerProofs` |
| `Survival` | the handlers that use the inventory, food, fighting | `play`, `PlayerProofs` |
| `Configuration` | where settings come from | `session` |
| `Session` | login, rosters, departure, ticking threads, operators, reload, shutdown | `session`, `SessionProofs` |
| `Loops` | induction, and what a bounded loop computes: lemmas for the proofs | itself |
| `MC*` | constants for TLC | |

`GenerationPool` implements the safety part of `JobBoard` (`KeepsBoard`, also
proved). `ChunkLoading` uses `JobBoard` in place of the pool and is shown to
use it as it allows (`UsesBoard`, also proved), so the two models compose. `SectionStorage`
implements `BlockGrid` (`IsGrid`, also proved). `PlayerLife` extends `KeepAlive` and
`RenderWindow`. A definition whose comment begins with "Variant:" is a changed
form of the definition after it; it takes part in no specification and shows
which mistake a property would find.

### GenerationPool

Actions are the pieces of the code between two points at which another thread
can interfere: `addJob` is `PushJob` (under `queueProtection`) and `Release` (a
bare atomic addition); `cancelJob` is `CancelJob`, `IncrementTest` and
`IncrementWrite`; `doJob` is `Acquire`, then `GiveUp` or `TakeJob`, then
`FinishJob`; `waitUntilJobsDone` is a loop of `...SeesNoBook` and
`...ReadsCounter`. Mutexes are not variables: who holds one follows from where
the threads are (`QueueProtectionFree`, `CounterMutexFree`,
`LoadingChunksMutexFree`). The deque is a set of ids, because ids are pushed in
increasing order. Which entry the scan of `doJob` ends on depends on distances
that change during the scan: `Selectable` leaves it open, except that a spawn
job, with its constant priority 0, cannot be beaten.

### ChunkLoading

`loadOrGenerateChunk` and `removePlayerFromLoadingChunk` are operators on the
request table and the board, each one step, since the mutex covers them.
`sendChunkToPlayers` is `SendStart`, then `SendWrite` and `SendMark` (or
`SendSkip`) per player, then `SendEnd`, because other threads read and write
`_chunks` in between. `_unloadChunk` and `sendChunkAndLightUpdate` are split
where they lock, read or write a mark. The spawn jobs of
`Overworld::initialize` use the same pool but have no entry in
`_loadingChunks`, so they are not on this board; what they do to a request is:
a chunk in `Spawned` is `READY` before anybody asks for it, and the state of an
`Unsteady` one is set back and forth (`SpawnStage`) while its request runs, so
that the job may not find it `READY`. That the two generate the chunk at the
same time is the subject of `ChunkColumns`. `~Client()` runs in the thread that
drops the client or, when `GET_CLIENT()` in a worker owns the last pointer,
under the `_loadingChunksMutex` of `sendChunkToPlayers`: with another chunk
still `Loading` it locks that mutex again (`cli[p] = "relock"`), and nobody
gets any chunk from then on. A window is a set of chunks taken from `Windows`;
which chunks a real window holds is the subject of `RenderWindow`.

### RenderWindow, KeepAlive, PlayerLife

`RenderWindow`: state is the player's chunk and the keys of `_chunks`.
`Unloaded` and `Loaded` are unions of four rectangles each, with the bounds of
the four loops. `KeepAlive`: an id is the time at which it was made; two values
are enough because at most one is outstanding, and the proof establishes just
that (`WireInv`). `_keepAliveIgnored` is counted modulo 256; `waited` and `idle`
are history variables that count the ticks spent waiting, in all and since the
player was last heard of. `PlayerLife` interleaves the two: the
dimension's thread ticks the player, its client's thread moves it until the
connection ends.

### ServerNetwork

A packet carries its receiver, its number per receiver and whether it is the
disconnect packet. The peers are part of the model: guests ask for the status,
players send what they like, and any of them may hang up or say nothing for
ever. The initial state picks a scenario (who is a guest, who may be kicked, may
the server stop). The accept handler adds a client and calls `async_accept()`
again in two steps (`Accept`, `Rearm`), so that `stop()` can come between them
and cancel nothing (`main = "missed"`).

### Bits, Nbt, Wire, Packets, ServerStructs, ClientStructs, Answers, PacketStream

A number of *w* bits is the set of its bits, so that 64-bit values, negative
coordinates and IEEE floats are exact without large integers. `Wire` has a
writer and a reader per protocol type; a reader takes a position and an
inclusive end and returns a value and a new position or the exception the code
throws, with the code's own tests of lengths. Writers and readers are separate
translations of separate functions: that they agree is a result, not a
definition. `Packets` says for each packet which fields its `parse*` or
`create*` function takes, in order, and its id; `ServerStructs` and
`ClientStructs` say into which members of the struct they go or from which
they come. `Answers` gives the packets of the handlers and of the login
sequence.

`PacketStream` has the bytes the peer wrote, the receive buffer, the position
and the status of the connection. A read appends bytes up to one of the `Cuts`
(`DoRead`): at any byte in `framing`, and in `protocol`
(`CutsAnywhere = FALSE`) behind a packet, or inside one behind its length field
and two bytes or more before its end. `HandlePacket` finds the length, tests it
against the end of the buffer and dispatches by status and id (`Dispatch`); an
exception that nothing catches ends the process (`"terminated"`), an unknown id
or a `PacketEOF` ends the loop until the next read. Logins may be refused, asked
to encrypt, and then refused or let in (`NextStatus`, `Replies`). `DoWrite`
writes what other threads send. The byte behind the end of the buffer, which the
code can read, is a member of `Garbage`; what an `erase()` past the end makes of
the buffer is undefined, and `Erased` lists the outcomes.

The tables of `Packets`, `ServerStructs` and `ClientStructs` are long because
`AnswersAreReadable` and `TruncationIsDetected` are about every field of every
packet; no other property looks into them.

### GlobalPalette, BlockGrid, SectionStorage

`GlobalPalette` has the weights that `initialize` gives to the properties of a
block (`MaxThingy`, `BaseWeight`) and the sum of them that
`fromBlockToProtocolId` computes. What it should compute is written apart from
it: `StateNumber`, the rank of the state among those of its block.

The storage keeps words, a width and a palette that only grows. Setting a
value adds it to the palette, resizes the words if its index needs more bits
and writes the index. `kind` chooses between blocks, biomes and light, which
differ in their widths and, for light, in a counter of lit positions. A region
file gives a palette and packed data, of any palette: with states whose weights
do not fit, with two states that get the same number, with unknown blocks, with
a single state, with more states than an index tells apart. `IsReadable` says
which of them the code reads as they were saved; the others are read as the code
reads them. `PeerSees` is what a client decodes from the chunk packet.

### Terrain, ChunkColumns

A column is six blocks wide instead of sixteen and as high as the stages need
to be told apart (water level, lakes, caves, trees). The noise is a constant
record. Blocks are kept as the list of stages applied since every block was
last replaced, and `Terrain` says what a list of stages amounts to. Each stage
is read from `_currentState` (`ReadState`), locked and run (`RunStage`);
`READY` is set without the lock and the light computed after it, as in the
code. Flat and debug worlds are written in one go. Region loading holds
`_accessMutex` while it puts the columns into the level one by one.

### Inventory, Survival

Slots have a flag, an item and a count that wraps like `int8_t`
(2 × `MaxStack` is half the range). Every mode of `onClick` is an operator on
the window; a packet may name a slot or, with the index -1 that
`Inventory::at()` knows, the cursor, which a plain click then swaps with itself.
Packets come with any index the containers have; one that they do not have
throws, and no action stands for what follows an exception nobody catches.

Saturation is counted in parts of a point (fifths in the game) and health in
sixths of those, since regeneration adds a sixth of the saturation; the rounding
of the floats is left out. The exhaustion of a blow (0.1) and of digging (0.005)
may or may not carry into the next point. `_eat` in the client's thread and
`_foodTick` in the dimension's are cut into sections, between which the other
thread and anybody who hits the player may come: each section decides by levels
loaded when the one before it ended, and adds to those or to levels loaded
again.

### Configuration, Session

`Configuration` translates where a `Value` may come from and how `parse`,
`load` and `emplace` treat what is there already. `Session` has the stages of a
login, the two rosters with their mutexes, what each player has been shown,
`~Client` in its steps (unlink the entity, tell the others, remove the player),
the thread of the world group with its initialization, the dimension's thread
with the permits it waits for, the commands of operators and the console, and
`_stop`. `~Client` runs in the thread that erases the client, or in
`Dimension::tick()` if the pointer that its loop holds turns out to be the last
one: under `_entitiesMutex`, which it then locks again
(`dimension = "relocked"`). A client's thread in `read_some()` ends when its
peer sends something or hangs up, and nothing makes a peer do either.
`crashed` is the outcome of an exception nobody catches and of the null pointer
that `disconnect` follows when the status is already `Play` and `_player` is not
yet set.

## 3. Runs

| Run | Instance | Shows |
|---|---|---|
| `pool` | 2 workers, 2 callers, 2 spawn jobs, 5 jobs | `NoStrandedJob`, `StopIsQuiescent`, `OneOwner`, `KeepsBoard`; `EveryJobLeaves`, `StopEnds` |
| `chunks` | 2 players of whom one may leave, 2 chunks (1 unsteady), windows of up to two chunks, 2 workers, 2 moves, 3 jobs | `RequestHasJob`, `QueuedJobIsWanted`, `RequestsGenerateOnce`, `NoLostRequest`, `GoneIsForgotten`, `UsesBoard`; `EveryChunkArrives` |
| `network` | 2 clients, three scenarios, 1 request, 1 push | `JoinedBeforeErased`, `InOrder`; `OutputFlows`, `OnlyPeersDelayStop` |
| `network_stop` | 2 clients, one a guest, server stops | **violated** `StopEnds`, though every peer keeps talking |
| `player` | clock of 2 ticks, limit 6, distance 1, 9 positions with steps of 1 to 4 | `NeverWrong`, `PatienceKept`, `ViewIsHeld`, `MovesAreMinimal`; `SilenceIsNoticed` |
| `player_idle` | clock of 2 ticks, limit 6 | **violated** `IdleBeforeKick` |
| `protocol` | every packet of both directions, four sets of edge values, alone and behind others | `FramesAreHandled`, `AnswersAreReadable`, `TruncationIsDetected` |
| `framing` | reads that end at any byte | **violated** `IncompletePacketsWait` |
| `storage` | 3 positions, words of 6 bits, 5 values, widths 1, 2 and direct 4, weights of 1 bit, nine file palettes | `PeerSeesSection`, `LightIsCounted`, `IsGrid` |
| `columns` | one saved column, one unfinished one with two jobs, 2 workers, 6×12×6 blocks, 6 worlds, 2 noises | `SavedTerrainIsKept`, `ReadyIsFinished`, `LeftReadyAndLit`; `EveryJobEnds` |
| `play` | 4 slots and the cursor, stacks of 2, 2 items, 2 or 3 packets, levels up to 3 | `ItemsAreConserved`, `NoItemIsMade`, `LevelsStayInRange` |
| `session` | 2 players, one of them an operator, 2 acts, 1 permit | `EveryoneIsSeen`, `NoGhosts`; `ShutdownEnds` |

Why the bounds are enough. In the pool, the critical races are between one call
and one worker, or one call and another; two of each, and enough jobs for a
spawn job, an added one and a cancelled one to be around together, reach all of
them, and the proofs cover the rest. In `ChunkLoading` two players and two moves
are what it takes to join a request, leave it, make it again and race with the
worker; two workers let two jobs of one chunk overlap if the code let them, and
a window of two chunks lets a player leave with a second request under way.
`Spawned` is empty in the run: a chunk in it is one that an earlier request has
made `READY`. In `ServerNetwork` one client that is being dropped and one that
waits for its output suffice. A window of distance 1 is left by a step of 3, so
steps of 1, 2, 3 and 4 cover overlapping, adjacent and disjoint windows in all
directions; `KeepAlive` reaches its limit after three missed periods. Packets do
not share state except the status and the position in the buffer, so scripts of
one to three packets cover what one can do to the next; in `protocol`, reads end
where `_handlePacket` can tell a whole frame from a part (`CutsAnywhere =
FALSE`), the other ends being the subject of `framing`. Three positions, with
two-bit indices in six-bit words and with direct ones of four bits, fill a word,
leave one partly used and go on in a second; five values pass every change of
width. Weights of one bit let a block of six states have one that does not fit.
Two workers on one column are the race the column's lock is for. Two players are
what it takes to miss each other; the second act lets a reload or a change of
operators race with the stop. In `play` the packets are few and the ticks
unbounded: a meal has four sections and a tick five, and one of each, with one
hit, reach every way they can overlap.

The deadlock check is off in `network_stop` (the state in which nothing can
move is the counterexample) and in `protocol`, `framing`, `columns` and `play`,
whose scripts, jobs and packets come to an end.

### Disagreements

* **Stopping can hang** (`network_stop`). `_stop` joins under `clientsMutex` a
  thread that waits for it in `_onStatusRequest`. This run gives the peers all
  the fairness one could ask for, and a guest hangs up in the end.
* **Late answers add up to a timeout** (`player_idle`). `_keepAliveIgnored` is
  never set back, so that a player who was heard of a moment ago can be dropped
  for the periods it missed in the whole session; the comment speaks of the time
  a player "can be idle".
* **A packet that lacks one byte is taken for a whole one** (`framing`).
  `_handlePacket` compares with `eof - at + 1`, as if `eof` were the last byte;
  it is one past it. The packet is then erased with a range that ends behind the
  buffer, and what becomes of the missing byte is undefined.

Four more disagree with what the code says of itself. They have no run of their
own; the models have them, and a property they would break names them:

* `sendChunkToPlayers` ("This send the chunk to the players that are loading
  it", `Dimension.cpp:315`) can hang: a worker that owns the last pointer to a
  client runs `~Client` under `_loadingChunksMutex` and locks it again for a
  second chunk that is still `Loading`. `EveryChunkArrives` shows that nothing
  else keeps a chunk in view from a player.
* `_stop` joins threads in `read_some()` under `clientsMutex`; the writer, which
  would send their peers the disconnect packet, waits for that mutex, and drops
  the packet afterwards. The five seconds of the comment at `Server.cpp:278`
  begin after the joins. `OnlyPeersDelayStop` shows that, without guests,
  nothing else delays a stop.
* The weight of a property is kept in an `uint8_t` (`blockStates.hpp:16`), and
  blocks with many states have larger ones (432 for the `east` of a redstone
  wire): `fromBlockToProtocolId` returns the number of another state. `IsGrid`
  claims of the files without such states (`IsReadable`) that they are read as
  they were saved.
* `_reloadConfig` ("Reloads the config if no error within the new file",
  `Server.cpp:308`) loads the file into nodes that keep their first children,
  and never parses them again: a reload changes no setting.

Seen while modelling, and in the models as the code has it; no document says
otherwise:

* A worker between `acquire()` and `library.increment()` is counted by neither
  semaphore, so `waitUntilJobsDone()` can return with the last spawn job still
  queued. `StopIsQuiescent` holds all the same: `stop` empties the queue first.
* The `Loading` mark is written after the request is made, without a lock, and
  can overwrite the worker's `Loaded`; `_unloadChunk` sends no packet for it,
  so a chunk out of view can stay on the client.
* `disconnect` clears `_isRunning` as soon as its packet is queued, and the
  writer drops what is queued for such a client, that packet included: its peer
  is not told, and the join of its thread in `triggerClientCleanup` holds up
  everybody's output until the peer speaks (`Stalled` in `OutputFlows`).
* `stop()` between an accept handler's test of `_running` and its
  `async_accept()` cancels nothing: `run()` returns after one more connection.
* `Dimension::tick()` holds a pointer to each entity in turn, under
  `_entitiesMutex`: if it is the last one to a client, `~Client` locks the mutex
  again (`ShutdownEnds` names it). The loops over `_players` have the same
  window.
* A job whose chunk a spawn job has set back is not `READY` when it is looked
  at: it returns and leaves its request behind (`Unsteady`).
* A diagonal move whose displacements have different signs loads a corner
  outside the new window.
* `popBitSet` computes `1 >> i` and keeps the first bit only; the field is not
  used and is left out of the comparison. `ChatMessage::messageCount` is not
  set by its parser.
* A section with more states than a palette may hold sends local indices as
  block ids, and a section of a region file with a single state other than air
  is sent as that state while `getBlock` returns air (the code has a TODO for
  it); `PeerSeesSection` names both.
* Adding two full stacks overflows `int8_t`, a left drag loses the rest of the
  division, and a plain click on the cursor's own index swaps it with itself and
  can lose what it holds. `ItemsAreConserved` leaves the three out;
  `NoItemIsMade` has them.
* `_eat` takes one off the count and leaves a slot of count 0 that is still
  present. `_onSetHeldItem` and `_onSetCreativeModeSlot` take any slot, item and
  count, in any game mode.
* A payment for exhaustion in the middle of a meal can leave food above its
  maximum, or saturation above the food (`Overlap` in `LevelsStayInRange`).
* A column is `READY` before it is lit, and may be sent in between.
* Two workers on one column can put `_currentState` back and apply a stage
  twice; `ReadyIsFinished` is about columns one worker made.
* `switchToPlayState` sets the status before `_player`: `disconnect` by another
  thread in between follows a null pointer. `ShutdownEnds` holds up to that.

### Fairness

Each thread of the server that can move does move (weak fairness per thread).
Jobs return. Nothing obliges players to move or to leave, an operator to stop
the server, anybody to be kicked, or a peer to send, to answer or to hang up:
a thread in `read_some()` may stay there for ever, and `OutputFlows`,
`OnlyPeersDelayStop` and `ShutdownEnds` name that as the one thing (in `Session`
one of two) that may hold the server up. `network_stop` alone is checked under
`HelpfulSpec`, where players keep answering and guests hang up: its deadlock
does not depend on silence. In `Session` the dimension's thread takes and
returns `_entitiesMutex` in every tick; a thread that waits for it gets it in
the end (strong fairness of `AddEntity` and `UnlinkEntity`). `PacketStream`,
`SectionStorage` and `Survival` state safety only.

## 4. Proofs

`GenerationPoolProofs`, for any finite set of workers, any callers and any
number of jobs: `TypeCorrect`, `JobsAreCovered` (`NoStrandedJob`), `StopSafe`
(`StopIsQuiescent`), `JobsRunOnce` (`OneOwner`) and `PoolKeepsBoard`
(`KeepsBoard`). Assumptions: `WorkersAssumption`, `MainAssumption`,
`JobsAssumption`. The invariant `IInv` adds to the properties:

* `CallInv`: pool calls do not overlap (this is what `_loadingChunksMutex`
  gives), belong to a phase of the world, and `increment()` that chose to
  subtract still can;
* `PermitInv`: while a cancellation is under way there is one permit more than
  jobs, which it is about to take back. Without this `NoStrandedJob` is not
  inductive: the write of `increment()` could take the last job's permit;
* `JobInv`: every id up to `totalJobsPushed` is somewhere, larger ones nowhere;
* `QuiescenceInv`: the book counts the workers that run a job.

The refinement proof shows that under `IInv` the mapped board says where each
job is (`BoardRead`), and that each action maps to one action of `JobBoard` or
to none (`BoardStep`).

`PlayerProofs` is about one player. For every `TickRate` and `MaxTicks`:
`KeepAliveTyped`, `AnswersAreRight` (`NeverWrong`), `TimeoutIsPatient`
(`PatienceKept`). The invariant `AliveInv` says that at most one id is under
way and that it is the stored one (`WireInv`), and that every counted period
was waited through (`PatienceInv`). For every render distance and all integer
positions, over `WindowSpec`: `ViewAlwaysHeld` (`ViewIsHeld`), `MovesMinimal`
(`MovesAreMinimal`). The two lemmas behind them say what the loops visit, chunk
by chunk. The same holds with both threads at work, over `LifeSpec`:
`LifeIsSafe` and `LifeMovesMinimal`, because a step of one thread leaves the
other's variables alone, except that the client's thread stops with the
connection. Assumptions: `KeepAliveAssumption`, `IgnoredAssumption`,
`RenderDistanceAssumption`, `CoordinateAssumption`.

Over `SurvivalSpec`, for all sizes of the levels, every food and any packets:
`BodyInRange` (`LevelsStayInRange`), with both threads at work section by
section. `BodyInv` bounds food and health whatever they do: a meal begins below
the maximum and in its first section finds no more food than it has loaded, a
payment finds no less than it has loaded or so much that no meal can begin, and
others than the tick only take health away. `CalmInv`, the second half, says
that what a thread has loaded is still there when it is used; it is kept by
every step from a state without `Overlap` to one without.

For any number of slots, any items and any size of a stack: `ItemsConserved`
(`ItemsAreConserved`), on top of the types of slots and cursor (the lemma
`InventoryTyped`; the hand may be no slot at all, as in the code). The
balance of an item is a sum over the slots; a change of one slot changes it by
the difference of that slot, a change of two by the sum of both, and an
exchange not at all. A click is such a change, in which the counts pass through
an `int8_t`: that they come out of it unchanged follows from the bounds of a
well-formed stack. Double clicks and shift clicks are loops over the slots; that
each turn keeps the balance is carried to their end by `BoundedInduction`.
Assumptions: `InventoryAssumption`, `SurvivalAssumption`, `LevelsAssumption` (a
meal feeds; a player starts in range).

`ChunkLoadingProofs`, for any finite sets of players and chunks, any windows
(with several requests of a player under way), any number of workers, moves and
jobs, and any sets of chunks that are there already or unsteady: `TypeCorrect`,
`EntryHasJob` (`RequestHasJob`), `NoIdleJob` (`QueuedJobIsWanted`),
`RequestedOnce` (`RequestsGenerateOnce`), `WaitingIsServed` (`NoLostRequest`),
`LeftIsForgotten` (`GoneIsForgotten`) and the refinement `BoardIsUsed`
(`UsesBoard`). Assumptions: `WindowsAssumption`, `SubsetsAssumption`,
`NoneAssumption`, `FiniteAssumption`, `BoundsAssumption`. None of the properties
is inductive alone. The invariant `IInv` has, beside the types:

* `BoardInv`: ids are given out in order, and `MaxJobs` leaves one for every
  load still to come, so that a request always gets the id it writes down;
* `JobInv`: a job under way and the entry for its chunk name each other, an
  entry without a job is one of an unsteady chunk, and whoever
  holds the mutex in `sendChunkToPlayers` is at that step of a running job;
* `ThreadInv`: a chunk is marked `Loading` only while it is in view and dealt
  with, or about to be unloaded. This is why `Deliver`, which marks a chunk
  `Loaded` without looking at the requests, never leaves a player in one;
* `WantInv`: who waits for a chunk is in its request or has it; and while the
  request is served, is still to be served or has it. The second half is what
  `SendEnd` needs, which erases the request whoever is in it;
* `NameInv`: why a request names a player: it is being served; or the mark is
  `Loading` or about to be written; or `~Client` has still to come to it.

There is one lemma per action; `PrivateStep`, `LockedStep` and `WorkerStep` say
what is left to show for steps outside the mutex, under it, and of a worker.
`GivingUp` and `Asking` are about the two operators on the request table.

`ServerNetworkProofs`, for any clients, scenarios, requests and pushes:
`TypeCorrect`, `ThreadIsJoined` (`JoinedBeforeErased`) and `PacketsInOrder`
(`InOrder`, an action property). Assumption: `NetworkBoundsAssumption`.
`JoinInv` carries the joins of `_stop` over to the
steps after `clientsMutex` is given back. `OrderInv` says of every client that
still has a reader that `_toSend` holds exactly the packets issued since the
one the peer got, or the one in the writer's hand, in increasing order.

`SessionProofs`, for any players and invokers: `LoggedInIsSeen`
(`EveryoneIsSeen`), `LeftIsHidden` (`NoGhosts`). The two need each other, and
two facts more: where a client's thread is tells whether its player is in
`_players` (`RosterInv`), and nobody has been shown anything before
(`FreshInv`). The steps that touch neither rosters nor screens are dealt with
at once (`OtherSteps`). The proof uses no assumption on the constants.

`ChunkColumnsProofs`, for any workers, positions, jobs, worlds and noises:
`SavedIsKept` (`SavedTerrainIsKept`), `LastLeavesItReady` (`LeftReadyAndLit`)
and `AloneIsFinished` (`ReadyIsFinished`). Assumption: `ColumnsAssumption`.
`RegionInv` says that the region is read once and that whoever has returned
from `loadRegion` finds it read; from it `SavedInv` follows, that no worker
generates a saved column. `LightInv` and `ReadyInv` name, for every column that
is not lit or not `READY`, the worker that will see to it. `AloneInv` says
which stages a column that one job generates has been through. That these
stages leave a finished terrain is a computation on blocks: it is the
hypothesis `StagesFinish` of `AloneIsFinished`, and an assumption of
`MCChunkColumns`, which TLC evaluates for the noises of the `columns` run.

`SectionStorageProofs`, for any number of positions, any width of words, any
values and any palettes in the region files: `LightCounted`
(`LightIsCounted`), `StatesAreNumbered`, `PeerSeesTheSection`
(`PeerSeesSection`) and the refinement `SectionIsGrid` (`IsGrid`). Assumptions:
`StorageAssumption`, `ReadAssumption`. The proof is built from below:

* a word is a high part, a field and a low part (`Parts`); setting the field
  leaves every field above and below it alone (`OtherField`), and shifts add up
  (`Pow2Sum`), so that a value is read back and no other one changes
  (`GetPut`);
* the loop of `setValueSize` reads each value from the old words and writes it
  into new ones; `LoopExists` gives the sequence of its words, and after *k*
  turns the first *k* positions have moved (`PackLoop`, `ResizeKeeps`);
* `getBits` is the least width that holds the indices (`BitsNeededIsLeast`), and
  a longer palette is not narrower (`BitsOfLonger`);
* `PaletteInv`, the inductive invariant, says that the width of the store is
  that of `getBits`, which is what is sent to a peer; that the store has a word
  for every position unless the palette is direct; and that only a new section
  has a file still to read. None of it is part of `PeerSeesSection`, and without
  it that is not inductive. For light, `LightInv` has the width and the count;
* the weights of the properties of a block are the products of the numbers of
  values of the later ones (`WeightsMultiply`); so the sum of weights is the
  rank (`WeightsGiveRank`), with properties left out and filled in from the
  default state (`StatesAreNumbered`).

`PeerSeesTheSection` has no hypothesis: it holds with every region file, those
the code misreads included. `StatesAreNumbered` and `SectionIsGrid` ask for
`BlocksDescribed`: the blocks of blocks.json have different names, properties of
different names and a complete default state. Neither limits the weights of the
blocks: `StatesAreNumbered` is about a state whose own number is made of weights
that fit (`IsCounted`; that of a redstone wire that points east is not), and
`SectionIsGrid` covers all files, claiming of those that are `IsReadable` that
the section holds what was saved and of all of them that the section is a grid
from then on. `MCSectionStorage` assumes `BlocksDescribed`, and TLC evaluates it
for the blocks of the run.

`Loops` holds what these proofs have in common. The library's induction
theorems take an operator as their parameter, which the installed provers
cannot instantiate; here a property is the *set* of numbers that have it
(`Induction`, `BoundedInduction`, from `LeastNumber`), and the body of a loop is
a function (`LoopExists`, `LoopUnique`, `EndlessLoop`).

Only model-checked:

* all liveness properties (`EveryJobLeaves`, `StopEnds` of the pool,
  `EveryChunkArrives`, `OutputFlows`, `OnlyPeersDelayStop`, `SilenceIsNoticed`,
  `EveryJobEnds`, `ShutdownEnds`): fairness is out of the provers' reach;
* `NoItemIsMade`, for the overflows and drags that `ItemsConserved` leaves out;
* `FramesAreHandled`, `AnswersAreReadable`, `TruncationIsDetected`: readers and
  writers of packets are `RECURSIVE` operators, which the provers cannot use;
  the trees they read and write are of any depth, so that a rewriting as
  functions would need a domain for them first;
* what a list of generation stages amounts to (`StagesFinish`), a computation on
  the blocks of a column.

## 5. Not modelled

* The ciphers (a library); with them the gap between encrypting a packet and
  queueing it: `SendData` is one step, and `InOrder` counts packets in the order
  of `sendData()`. Of the session server only the outcome is modelled.
* The noise (an arbitrary function here) and biomes by climate; physics, items
  on the ground and knock-back.
* Crafting results, recipes, loot tables and the contents of registries: data
  read once at the start.
* The text of commands, completion and the commands without state of their
  own; the time of day beyond its packet.
* Logging, sounds, events, plugins and the management interface.
* The older `Pool` / `ThreadPool` (not used) and `resizePool` (never
  triggered).
* Data races inside standard containers: the accept handler and the writer on
  `_clients`, `Level`'s two mutexes, the search in `_regionStore`. They have no
  outcome a model could enumerate; the accesses are single steps.
* Socket buffers: a blocking write to a peer that does not read is one step.
* What follows an exception that nobody catches for a slot index out of range
  (`hotbar().at()`, `Inventory::at()`), and the rounding of floats.

## 6. Plan

1. The two halves of the pool's composition (`PoolKeepsBoard`, `BoardIsUsed`)
   carried into the shutdown of `Session`.
2. The primitive types of `Wire` as functions of their own, and that each
   reader undoes its writer, as the first part of a proof about `PacketStream`.
3. Item entities and their pick-up, the remaining commands, world time.
