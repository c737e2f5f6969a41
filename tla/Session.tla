------------------------------ MODULE Session -------------------------------
(***************************************************************************)
(* A player's way through the server: Client::_onLoginStart() and what     *)
(* follows it up to Player::_continueLoginSequence(), the rosters of the   *)
(* dimension (_entities under _entitiesMutex, _players under               *)
(* _playersMutex), ~Client(), the threads that tick the dimension, and the *)
(* shutdown in Server::_stop(); with it what an operator may do meanwhile: *)
(* /op, /deop, /reload, /stop.                                             *)
(*                                                                         *)
(* Threads: one per client, the console's, the WorldGroup's, the           *)
(* dimension's, and the one that destroys clients (the writer, and the     *)
(* main thread once the writer has ended).  A name connects once.  Loops   *)
(* over getPlayers() are single steps here.  The one over _entities in     *)
(* tick() is not: the shared_ptr it holds to a client may turn out to be   *)
(* the last one.                                                           *)
(***************************************************************************)
EXTENDS Naturals, FiniteSets, Configuration

CONSTANTS
    Players,          \* names; one client each
    Nobody,           \* neither a name nor the console
    Console,          \* the invoker of a command typed at the console
    FirstOperators,   \* the names in the operator file
    FirstList,        \* the names in whitelist.json at first
    Lists,            \* contents whitelist.json may have, Absent: no JSON
    Files,            \* documents config.yml may have; also Absent and Malformed
    Malformed,
    GivenValues,      \* what the command line and the environment give
    Invokers,         \* who gives commands: operators, and the console
    MaxActs,          \* how many commands are given and files edited
    MaxPermits        \* how far the ticks may run ahead of the dimension

ASSUME SessionAssumption ==
    /\ FirstOperators \subseteq Players /\ FirstList \subseteq Players
    /\ MaxActs \in Nat /\ Invokers \subseteq Players \cup {Console} /\ MaxPermits \in Nat \ {0}
    /\ \A key \in Keys : StartValues(GivenValues, Absent)[key] # "Invalid value"

VARIABLES
    phase,            \* where a client's thread is, or its destruction
    running,          \* Client::_isRunning
    isOperator,       \* Player::_isOperator
    entities,         \* the players in Dimension::_entities
    roster,           \* Dimension::_players
    shown,            \* the players each client has been told to show
    eraser,           \* whose ~Client() is under way
    operators,        \* Permissions::_operatorSet
    whitelist,        \* Server::_whitelist
    whitelistFile,
    node, values,     \* Server::_config: the document and the settings
    configFile,
    acts,             \* commands and edits so far
    reload,           \* the next step of each invoker's Server::reload()
    group,            \* WorldGroup::_run()
    dimension,        \* Dimension::_run()
    initialized,      \* Dimension::_isInitialized
    isRunning,        \* Dimension::_isRunning
    permits,          \* Dimension::_dimensionLock
    keeps,            \* the client a shared_ptr of Dimension::tick() keeps alive
    main,             \* where the main thread is in the shutdown
    crashed           \* an exception or a null pointer has ended the process

clientVars == <<phase, running, isOperator, entities, roster, shown, eraser>>
adminVars == <<operators, whitelist, whitelistFile, node, values, configFile, acts, reload>>
worldVars == <<group, dimension, initialized, isRunning, permits, keeps>>
vars == <<clientVars, adminVars, worldVars, main, crashed>>

Init ==
    /\ phase = [p \in Players |-> "none"]
    /\ running = [p \in Players |-> TRUE]
    /\ isOperator = [p \in Players |-> FALSE]
    /\ entities = {} /\ roster = {}
    /\ shown = [p \in Players |-> {}]
    /\ eraser = Nobody
    /\ operators = FirstOperators
    /\ whitelistFile = FirstList /\ whitelist = FirstList
    /\ configFile \in Files \ {Absent, Malformed}
    /\ node = StartNode(configFile) /\ values = StartValues(GivenValues, configFile)
    /\ acts = 0
    /\ reload = [i \in Invokers |-> "none"]
    /\ group = "looking"
    /\ dimension = "initializing"
    /\ initialized = FALSE /\ isRunning = TRUE
    /\ permits = 0 /\ keeps = Nobody
    /\ main = "serving"
    /\ crashed = FALSE

-----------------------------------------------------------------------------
(* The client's thread                                                     *)

isWhitelistEnabled == AsBool(values["whitelist-enabled"])
isWhitelistEnforce == AsBool(values["enforce-whitelist"])

\* A name is found in the list; the uuid that goes with it is the name again.
IsPlayerWhitelisted(p) == p \in whitelist

At(p, here) == ~crashed /\ phase[p] = here
GoTo(p, there) == phase' = [phase EXCEPT ![p] = there]
StopRunning(p) == running' = [running EXCEPT ![p] = FALSE]

\* A connection; _acceptor is cancelled when the server stops.
Connect(p) ==
    /\ At(p, "none") /\ main = "serving"
    /\ GoTo(p, "connected")
    /\ UNCHANGED <<running, isOperator, entities, roster, shown, eraser, adminVars, worldVars, main, crashed>>

\* Client::disconnect() of a client that is not in play.
Refuse(p) == StopRunning(p) /\ UNCHANGED phase

\* _onLoginStart().
OnLoginStart(p) ==
    /\ At(p, "connected") /\ running[p]
    /\ IF ~initialized \/ (isWhitelistEnabled /\ ~IsPlayerWhitelisted(p))
         THEN Refuse(p)
         ELSE GoTo(p, IF AsBool(values["online-mode"]) THEN "encrypting" ELSE "success") /\ UNCHANGED running
    /\ UNCHANGED <<isOperator, entities, roster, shown, eraser, adminVars, worldVars, main, crashed>>

\* _onEncryptionResponse(): token, key and the session server's answer are right or not.
OnEncryptionResponse(p) ==
    /\ At(p, "encrypting") /\ running[p]
    /\ \/ Refuse(p)
       \/ GoTo(p, "success") /\ UNCHANGED running
    /\ UNCHANGED <<isOperator, entities, roster, shown, eraser, adminVars, worldVars, main, crashed>>

\* _loginSequence(): the status is Play before there is a player ...
SetPlayStatus(p) ==
    /\ At(p, "success")
    /\ GoTo(p, "switching")
    /\ UNCHANGED <<running, isOperator, entities, roster, shown, eraser, adminVars, worldVars, main, crashed>>

\* ... which reads its permission when it is made.
MakePlayer(p) ==
    /\ At(p, "switching")
    /\ GoTo(p, "made")
    /\ isOperator' = [isOperator EXCEPT ![p] = p \in operators]
    /\ UNCHANGED <<running, entities, roster, shown, eraser, adminVars, worldVars, main, crashed>>

\* Dimension::tick() holds _entitiesMutex for the whole of its loop.
EntitiesFree == dimension \notin {"ticking", "relocked"}

AddEntity(p) ==
    /\ At(p, "made") /\ EntitiesFree
    /\ GoTo(p, "entity")
    /\ entities' = entities \cup {p}
    /\ UNCHANGED <<running, isOperator, roster, shown, eraser, adminVars, worldVars, main, crashed>>

AddPlayer(p) ==
    /\ At(p, "entity")
    /\ GoTo(p, "joined")
    /\ roster' = roster \cup {p}
    /\ UNCHANGED <<running, isOperator, entities, shown, eraser, adminVars, worldVars, main, crashed>>

\* Variant: the others learn of the player, which learns of nobody.
SpawnPlayerToOthers(p) ==
    /\ At(p, "joined")
    /\ GoTo(p, "playing")
    /\ shown' = [q \in Players |-> IF q \in roster \ {p} THEN shown[q] \cup {p} ELSE shown[q]]
    /\ UNCHANGED <<running, isOperator, entities, roster, eraser, adminVars, worldVars, main, crashed>>

\* Dimension::spawnPlayer(), under _playersMutex.
SpawnPlayer(p) ==
    /\ At(p, "joined")
    /\ GoTo(p, "playing")
    /\ shown' = [q \in Players |-> IF q = p THEN shown[p] \cup (roster \ {p})
                                   ELSE IF q \in roster THEN shown[q] \cup {p} ELSE shown[q]]
    /\ UNCHANGED <<running, isOperator, entities, roster, eraser, adminVars, worldVars, main, crashed>>

\* The thread is not in the middle of a /reload.
NotReloading(p) == p \in Invokers => reload[p] = "none"

\* The thread is in read_some().
InReadSome(p) ==
    /\ \E here \in {"connected", "encrypting", "playing"} : At(p, here)
    /\ NotReloading(p)

\* doRead() returns; a client without a player has nothing to clean up.
EndThread(p) == GoTo(p, IF phase[p] = "playing" THEN "leaving" ELSE "gone")

\* The peer hangs up: the read fails.
PeerCloses(p) ==
    /\ InReadSome(p)
    /\ StopRunning(p)
    /\ EndThread(p)
    /\ UNCHANGED <<isOperator, entities, roster, shown, eraser, adminVars, worldVars, main, crashed>>

\* The peer sends something, whatever it is, to a client that was disconnected.
ThreadEnds(p) ==
    /\ InReadSome(p) /\ ~running[p]
    /\ EndThread(p)
    /\ UNCHANGED <<running, isOperator, entities, roster, shown, eraser, adminVars, worldVars, main, crashed>>

-----------------------------------------------------------------------------
(* ~Client()                                                               *)

\* The server lets go of a client: triggerClientCleanup(), _clients.clear().
Erasing(p) ==
    /\ At(p, "leaving") /\ eraser = Nobody
    /\ main \in {"serving", "disconnecting", "joining", "clearing"}

\* Not the last reference: the destructor is left to the dimension's thread.
LeaveToTick(p) ==
    /\ Erasing(p) /\ keeps = p
    /\ GoTo(p, "orphan")
    /\ UNCHANGED <<running, isOperator, entities, roster, shown, eraser, adminVars, worldVars, main, crashed>>

\* removeEntity(): out of _entities ...
UnlinkEntity(p) ==
    /\ Erasing(p) /\ EntitiesFree
    /\ GoTo(p, "unlinked")
    /\ eraser' = p
    /\ entities' = entities \ {p}
    /\ UNCHANGED <<running, isOperator, roster, shown, adminVars, worldVars, main, crashed>>

Hide(p, from) == shown' = [q \in Players |-> IF q \in from THEN shown[q] \ {p} ELSE shown[q]]

\* ... and off the screens of all in _players, under _playersMutex.
HideEntity(p) ==
    /\ At(p, "unlinked")
    /\ GoTo(p, "hidden")
    /\ Hide(p, roster)
    /\ UNCHANGED <<running, isOperator, entities, roster, eraser, adminVars, worldVars, main, crashed>>

\* Variant: the others were told by removeEntity(), and are not told again.
RemovePlayerSilently(p) ==
    /\ At(p, "hidden")
    /\ GoTo(p, "removed")
    /\ roster' = roster \ {p}
    /\ UNCHANGED <<running, isOperator, entities, shown, eraser, adminVars, worldVars, main, crashed>>

\* removePlayer(): out of _players and once more off the screens.
RemovePlayer(p) ==
    /\ At(p, "hidden")
    /\ GoTo(p, "removed")
    /\ roster' = roster \ {p}
    /\ Hide(p, roster \ {p})
    /\ UNCHANGED <<running, isOperator, entities, eraser, adminVars, worldVars, main, crashed>>

\* The chunk requests (ChunkLoading) and ~Player().
DestroyPlayer(p) ==
    /\ At(p, "removed")
    /\ GoTo(p, "gone")
    /\ eraser' = Nobody
    /\ UNCHANGED <<running, isOperator, entities, roster, shown, adminVars, worldVars, main, crashed>>

-----------------------------------------------------------------------------
(* Commands and files                                                      *)

Counted == acts < MaxActs /\ acts' = acts + 1

\* Who may give a command now: the console, or an operator in play.
MayCommand(i) ==
    /\ ~crashed /\ main = "serving"
    /\ reload[i] = "none"
    /\ i # Console => phase[i] = "playing" /\ running[i] /\ isOperator[i]

\* The roster is searched for the name: the flag of a player still logging in is not set.
SetFlag(name, flag) ==
    isOperator' = IF name \in roster THEN [isOperator EXCEPT ![name] = flag] ELSE isOperator

\* Permissions::addOperator() and removeOperator() return early when the name is
\* on the list already, or is not.
AddOperator(name) ==
    /\ name \notin operators
    /\ operators' = operators \cup {name}
    /\ SetFlag(name, TRUE)

RemoveOperator(name) ==
    /\ name \in operators
    /\ operators' = operators \ {name}
    /\ SetFlag(name, FALSE)

Op(i, name) ==
    /\ MayCommand(i) /\ Counted /\ AddOperator(name)
    /\ UNCHANGED <<phase, running, entities, roster, shown, eraser, whitelist, whitelistFile, node, values,
                   configFile, reload, worldVars, main, crashed>>

Deop(i, name) ==
    /\ MayCommand(i) /\ Counted /\ RemoveOperator(name)
    /\ UNCHANGED <<phase, running, entities, roster, shown, eraser, whitelist, whitelistFile, node, values,
                   configFile, reload, worldVars, main, crashed>>

\* _reloadConfig(): a file that is missing is reported; one that is no YAML throws
\* what nobody catches.
ReloadConfig(i) ==
    /\ MayCommand(i) /\ Counted
    /\ reload' = [reload EXCEPT ![i] = "whitelist"]
    /\ node' = IF configFile \in {Absent, Malformed} THEN node ELSE Load(node, configFile)
    /\ crashed' = (configFile = Malformed)
    /\ UNCHANGED <<clientVars, operators, whitelist, whitelistFile, values, configFile, worldVars, main>>

\* Whitelist(): a list that cannot be parsed throws, and the old one is kept.
ParseWhitelist(file) == IF file = Absent THEN whitelist ELSE file

ReloadWhitelist(i) ==
    /\ ~crashed /\ reload[i] = "whitelist"
    /\ reload' = [reload EXCEPT ![i] = "enforce"]
    /\ whitelist' = IF isWhitelistEnabled THEN ParseWhitelist(whitelistFile) ELSE whitelist
    /\ UNCHANGED <<clientVars, operators, whitelistFile, node, values, configFile, acts, worldVars, main, crashed>>

\* _enforceWhitelistOnReload().
EnforceWhitelist(i) ==
    /\ ~crashed /\ reload[i] = "enforce"
    /\ reload' = [reload EXCEPT ![i] = "none"]
    /\ running' = [p \in Players |-> /\ running[p]
                                     /\ isWhitelistEnabled /\ isWhitelistEnforce /\ p \in roster => IsPlayerWhitelisted(p)]
    /\ UNCHANGED <<phase, isOperator, entities, roster, shown, eraser, operators, whitelist, whitelistFile, node,
                   values, configFile, acts, worldVars, main, crashed>>

\* The administrator edits a file.
EditFiles ==
    /\ ~crashed /\ Counted
    /\ \/ whitelistFile' \in Lists \ {whitelistFile} /\ UNCHANGED configFile
       \/ configFile' \in Files \ {configFile} /\ UNCHANGED whitelistFile
    /\ UNCHANGED <<clientVars, operators, whitelist, node, values, reload, worldVars, main, crashed>>

\* /stop, a signal or the end of the console's input: Server::stop().
Stop ==
    /\ ~crashed /\ main = "serving"
    /\ main' = "disconnecting"
    /\ UNCHANGED <<clientVars, adminVars, worldVars, crashed>>

-----------------------------------------------------------------------------
(* Ticking                                                                 *)

\* release(), which keeps counting past the 1000 the semaphore is made for.
Released(n) == IF permits + n > MaxPermits THEN MaxPermits ELSE permits + n

\* Variant: the loop does not look at the flag.
GroupLooksAway ==
    /\ ~crashed /\ group = "looking"
    /\ group' = "ticking"
    /\ UNCHANGED <<clientVars, adminVars, dimension, initialized, isRunning, permits, keeps, main, crashed>>

\* WorldGroup::_run(): the flag ...
GroupLooks ==
    /\ ~crashed /\ group = "looking"
    /\ group' = IF main \in {"serving", "disconnecting", "joining", "clearing"} THEN "ticking" ELSE "ended"
    /\ UNCHANGED <<clientVars, adminVars, dimension, initialized, isRunning, permits, keeps, main, crashed>>

\* ... and World::tick(), whether or not the dimension is ready for it.
GroupTicks ==
    /\ ~crashed /\ group = "ticking"
    /\ group' = "looking"
    /\ permits' = Released(1)
    /\ UNCHANGED <<clientVars, adminVars, dimension, initialized, isRunning, keeps, main, crashed>>

\* The generation pool has no jobs left (GenerationPool): Overworld::initialize().
Initialize ==
    /\ ~crashed /\ ~initialized
    /\ initialized' = TRUE
    /\ UNCHANGED <<clientVars, adminVars, group, dimension, isRunning, permits, keeps, main, crashed>>

\* Dimension::_run(): the busy loop, the test of _isRunning, acquire(), tick().
DimensionWakes ==
    /\ ~crashed /\ dimension = "initializing"
    /\ initialized \/ ~isRunning
    /\ dimension' = "looking"
    /\ UNCHANGED <<clientVars, adminVars, group, initialized, isRunning, permits, keeps, main, crashed>>

DimensionLooks ==
    /\ ~crashed /\ dimension = "looking"
    /\ dimension' = IF isRunning THEN "acquiring" ELSE "ended"
    /\ UNCHANGED <<clientVars, adminVars, group, initialized, isRunning, permits, keeps, main, crashed>>

DimensionAcquires ==
    /\ ~crashed /\ dimension = "acquiring"
    /\ permits > 0
    /\ permits' = permits - 1
    /\ dimension' = "ticking"
    /\ keeps' \in {Nobody} \cup entities
    /\ UNCHANGED <<clientVars, adminVars, group, initialized, isRunning, main, crashed>>

\* Dimension::tick(): KeepAlive may end a player's connection.  If the tick has
\* kept a client that the server let go of, ~Client() runs here, under
\* _entitiesMutex, and removeEntity() locks it again.
DimensionTicks ==
    /\ ~crashed /\ dimension = "ticking"
    /\ dimension' = IF keeps # Nobody /\ phase[keeps] = "orphan" THEN "relocked" ELSE "looking"
    /\ keeps' = Nobody
    /\ \E silent \in {{}} \cup {{p} : p \in entities} :
          running' = [p \in Players |-> running[p] /\ p \notin silent]
    /\ UNCHANGED <<phase, isOperator, entities, roster, shown, eraser, adminVars, group, initialized, isRunning,
                   permits, main, crashed>>

-----------------------------------------------------------------------------
(* Server::_stop()                                                         *)

\* Every client is told; one that has the status Play but no player yet is a
\* null pointer.
DisconnectAll ==
    /\ ~crashed /\ main = "disconnecting"
    /\ main' = "joining"
    /\ crashed' = (\E p \in Players : phase[p] = "switching")
    /\ running' = [p \in Players |-> phase[p] = "none" /\ running[p]]
    /\ UNCHANGED <<phase, isOperator, entities, roster, shown, eraser, adminVars, worldVars>>

\* The threads of the clients are joined, then the writer's.
JoinClients ==
    /\ ~crashed /\ main = "joining"
    /\ \A p \in Players : phase[p] \in {"none", "leaving", "orphan", "unlinked", "hidden", "removed", "gone"}
    /\ eraser = Nobody
    /\ main' = "clearing"
    /\ UNCHANGED <<clientVars, adminVars, worldVars, crashed>>

\* _clients.clear() has destroyed the rest; WorldGroup::stop() clears its flag.
ClientsCleared ==
    /\ ~crashed /\ main = "clearing"
    /\ \A p \in Players : phase[p] \in {"none", "orphan", "gone"}
    /\ main' = "stopping group"
    /\ UNCHANGED <<clientVars, adminVars, worldVars, crashed>>

\* The group's thread is joined; Dimension::stop() clears _isRunning ...
StopDimension ==
    /\ ~crashed /\ main = "stopping group" /\ group = "ended"
    /\ isRunning' = FALSE
    /\ main' = "releasing"
    /\ UNCHANGED <<clientVars, adminVars, group, dimension, initialized, permits, keeps, crashed>>

\* ... then wakes the dimension's thread ...
ReleaseAll ==
    /\ ~crashed /\ main = "releasing"
    /\ permits' = Released(MaxPermits)
    /\ main' = "joining dimension"
    /\ UNCHANGED <<clientVars, adminVars, group, dimension, initialized, isRunning, keeps, crashed>>

\* ... joins it, clears the level and waits for _worldGenFuture.
JoinDimension ==
    /\ ~crashed /\ main = "joining dimension" /\ dimension = "ended" /\ initialized
    /\ main' = "stopped"
    /\ UNCHANGED <<clientVars, adminVars, worldVars, crashed>>

\* The process has ended, or the dimension's thread waits for itself.
Over == (main = "stopped" \/ crashed \/ dimension = "relocked") /\ UNCHANGED vars

-----------------------------------------------------------------------------

\* What the peer does, or makes the client's thread do.
Peer(p) == Connect(p) \/ OnLoginStart(p) \/ OnEncryptionResponse(p) \/ PeerCloses(p) \/ ThreadEnds(p)

\* What the client's thread does by itself.
Client(p) == SetPlayStatus(p) \/ MakePlayer(p) \/ AddEntity(p) \/ AddPlayer(p) \/ SpawnPlayer(p)

Erase(p) == LeaveToTick(p) \/ UnlinkEntity(p) \/ HideEntity(p) \/ RemovePlayer(p) \/ DestroyPlayer(p)

Reload(i) == ReloadWhitelist(i) \/ EnforceWhitelist(i)

Group == GroupLooks \/ GroupTicks

DimensionThread == DimensionWakes \/ DimensionLooks \/ DimensionAcquires \/ DimensionTicks

Shutdown ==
    \/ DisconnectAll \/ JoinClients \/ ClientsCleared
    \/ StopDimension \/ ReleaseAll \/ JoinDimension

Next ==
    \/ \E p \in Players : Peer(p) \/ Client(p) \/ Erase(p)
    \/ \E i \in Invokers : ReloadConfig(i) \/ Reload(i)
                           \/ \E name \in Players : Op(i, name) \/ Deop(i, name)
    \/ EditFiles \/ Stop
    \/ Group \/ Initialize \/ DimensionThread \/ Shutdown \/ Over

\* Every thread runs, mutexes are granted in the end and jobs of the pool end
\* (GenerationPool).  No peer is obliged to anything, and nobody tells it that it
\* was disconnected: the packet that would is dropped (ServerNetwork).
Fairness ==
    /\ \A p \in Players : /\ WF_vars(Client(p)) /\ WF_vars(Erase(p))
                          /\ SF_vars(AddEntity(p)) /\ SF_vars(UnlinkEntity(p))
    /\ \A i \in Invokers : WF_vars(Reload(i))
    /\ WF_vars(Group) /\ WF_vars(Initialize) /\ WF_vars(DimensionThread) /\ WF_vars(Shutdown)

Spec == Init /\ [][Next]_vars /\ Fairness

-----------------------------------------------------------------------------
(* Properties                                                              *)

\* Any two players who have finished logging in are shown each other, whichever
\* came first and whatever happened in between: addPlayer() comes before
\* spawnPlayer(), which reads and tells _players in one critical section.
EveryoneIsSeen ==
    \A p, q \in Players : phase[p] = "playing" /\ phase[q] = "playing" /\ p # q => p \in shown[q]

\* No client still shows a player that has left _players, although one who joins
\* between removeEntity() and removePlayer() is shown the player that is leaving.
NoGhosts == \A p \in Players, q \in roster : p \in shown[q] => p \in roster

\* A shutdown ends, or the process with it (a null pointer in a disconnect() that
\* meets switchToPlayState(), an exception of /reload): no thread waits for a tick
\* that does not come, and no player who is logging in or being destroyed holds
\* it up.  Two things may: _stop() joins the thread of a client whose peer stays
\* silent, and the dimension's thread has locked _entitiesMutex twice.
ShutdownEnds ==
    \/ main # "serving" ~> main = "stopped" \/ crashed
    \/ <>[](main = "joining" /\ \E p \in Players : InReadSome(p))
    \/ <>[](dimension = "relocked")
=============================================================================
