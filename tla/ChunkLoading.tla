---------------------------- MODULE ChunkLoading ----------------------------
(***************************************************************************)
(* How chunks reach players: Dimension::_loadingChunks and the mutex that  *)
(* guards it, the job each entry stands for, Player::_chunks with its      *)
(* Loading / Loaded marks, and the chunks a player's client holds.  Three  *)
(* kinds of threads take part:                                             *)
(*                                                                         *)
(*  - the client thread of a player, in _updateRenderedChunks(): it first  *)
(*    unloads the chunks that left the window, then asks for the new ones; *)
(*  - the workers of the generation pool, which run the job of a request:  *)
(*    generateChunk(), then sendChunkToPlayers();                          *)
(*  - the thread that drops a client (triggerClientCleanup() or _stop())   *)
(*    once its own thread has ended, and with it runs ~Client().           *)
(*                                                                         *)
(* The pool is the board of JobBoard, which GenerationPool is shown to     *)
(* implement: jobs are queued in order, run once or withdrawn, and which   *)
(* queued job comes next is open, for priorities follow the players.       *)
(* sendChunkToPlayers() is the only critical section of                    *)
(* _loadingChunksMutex whose inner steps another thread can observe, since *)
(* Player::_chunks is read and written without that mutex; all the others  *)
(* are one step each.  Packets to one client keep their order.             *)
(*                                                                         *)
(* The jobs Overworld::initialize() adds for the spawn chunks have no      *)
(* entry in _loadingChunks and are not on this board: they are seen here   *)
(* by what they do to the state of a chunk.  The ones that have ended left *)
(* it READY (Spawned); one that still runs may set the state back and      *)
(* forth under the hands of a request (Unsteady, SpawnStage), as           *)
(* ChunkColumns shows.                                                     *)
(***************************************************************************)
EXTENDS Integers, FiniteSets

CONSTANTS
    Players,
    Chunks,
    Windows,          \* for each player, the sets of chunks it can have in view
    Quitters,         \* players whose connection may end
    None,             \* no chunk, no player
    Spawned,          \* chunks that are READY when players come, from the spawn jobs
    Unsteady,         \* chunks a job may not find READY after it generated them
    NbWorkers,        \* num-gen-thread
    MaxMoves,         \* bound on the moves of one player, login included
    MaxJobs           \* bound on the jobs ever added

ASSUME WindowsAssumption == Windows \in [Players -> SUBSET SUBSET Chunks]
ASSUME SubsetsAssumption == 
    /\ Quitters \subseteq Players
    /\ Spawned \subseteq Chunks
    /\ Unsteady \subseteq Chunks
ASSUME NoneAssumption == None \notin Chunks \cup Players
ASSUME FiniteAssumption == IsFiniteSet(Players) /\ IsFiniteSet(Chunks)
ASSUME BoundsAssumption == NbWorkers \in Nat \ {0} /\ MaxMoves \in Nat /\ MaxJobs \in Nat

VARIABLES
    board,            \* job id -> state of the job on the pool's board
    jobChunk,         \* job id -> chunk the job was added for
    step,             \* job id -> where a worker is in the job
    ready,            \* chunks of the Level whose state is READY
    loading,          \* _loadingChunks: chunk -> [id, players], id 0 for no entry
    sender,           \* the sendChunkToPlayers() that holds _loadingChunksMutex
    chunks,           \* Player::_chunks: player -> chunk -> mark
    held,             \* player -> chunks its client has been sent and not unloaded
    window,           \* player -> chunks that should be in view
    todo,             \* player -> chunks still to unload and to load
    at,               \* player -> step of the client thread and its chunk
    cli,              \* player -> what became of its Client object
    moves             \* player -> moves made

vars == <<board, jobChunk, step, ready, loading, sender, chunks, held, window, todo, at, cli, moves>>
jobVars == <<board, jobChunk, step>>
moveVars == <<window, moves>>

JobIds == 1 .. MaxJobs
Running == {j \in JobIds : board[j] = "running"}

NoRequest == [id |-> 0, players |-> {}]
NoSender == [id |-> 0, todo |-> {}, cur |-> None]
NoTodo == [unload |-> {}, load |-> {}]
Waiting == [pc |-> "none", chunk |-> None]

\* The client thread is between two calls on chunks.
Between(p) == at[p].pc = "none"

\* The client thread has handled its last packet completely.
Settled(p) == Between(p) /\ todo[p] = NoTodo

LoadingChunksMutexFree == sender = NoSender

Init ==
    /\ board = [j \in JobIds |-> "new"]
    /\ jobChunk = [j \in JobIds |-> None]
    /\ step = [j \in JobIds |-> "none"]
    /\ ready = Spawned
    /\ loading = [c \in Chunks |-> NoRequest]
    /\ sender = NoSender
    /\ chunks = [p \in Players |-> [c \in Chunks |-> "none"]]
    /\ held = [p \in Players |-> {}]
    /\ window = [p \in Players |-> {}]
    /\ todo = [p \in Players |-> NoTodo]
    /\ at = [p \in Players |-> Waiting]
    /\ cli = [p \in Players |-> "connected"]
    /\ moves = [p \in Players |-> 0]

-----------------------------------------------------------------------------
(* Dimension, under _loadingChunksMutex                                    *)

\* addJob(): the next id of the board.
NextJob == Cardinality({j \in JobIds : board[j] # "new"}) + 1

\* Variant: a chunk that is being loaded already is left alone.
LoadOrGenerateChunkOnce(c, p) ==
    IF loading[c].id # 0
    THEN UNCHANGED <<loading, board, jobChunk>>
    ELSE /\ loading' = [loading EXCEPT ![c] = [id |-> NextJob, players |-> {p}]]
         /\ board' = [board EXCEPT ![NextJob] = "queued"]
         /\ jobChunk' = [jobChunk EXCEPT ![NextJob] = c]

\* loadOrGenerateChunk(): join the request for the chunk, or make one.
LoadOrGenerateChunk(c, p) ==
    IF loading[c].id # 0
    THEN /\ loading' = [loading EXCEPT ![c].players = @ \cup {p}]
         /\ UNCHANGED <<board, jobChunk>>
    ELSE /\ loading' = [loading EXCEPT ![c] = [id |-> NextJob, players |-> {p}]]
         /\ board' = [board EXCEPT ![NextJob] = "queued"]
         /\ jobChunk' = [jobChunk EXCEPT ![NextJob] = c]

\* Variant: the request is erased whatever cancelJob() answers.
RemovePlayerErasesAlways(c, p) ==
    LET id == loading[c].id
        left == loading[c].players \ {p}
    IN  IF left = {} /\ id # 0
        THEN /\ board' = [board EXCEPT ![id] = IF @ = "queued" THEN "cancelled" ELSE @]
             /\ loading' = [loading EXCEPT ![c] = NoRequest]
        ELSE /\ loading' = [loading EXCEPT ![c].players = left]
             /\ UNCHANGED board

\* Variant: the job is cancelled and the request is kept.
RemovePlayerKeepsRequest(c, p) ==
    LET id == loading[c].id
        left == loading[c].players \ {p}
    IN  /\ loading' = [loading EXCEPT ![c].players = left]
        /\ board' = IF id # 0 /\ left = {} /\ board[id] = "queued"
                    THEN [board EXCEPT ![id] = "cancelled"] ELSE board

\* Variant: the job is never cancelled.
RemovePlayerKeepsJob(c, p) ==
    /\ loading' = [loading EXCEPT ![c].players = @ \ {p}]
    /\ UNCHANGED board

\* Variant: cancelJob() also stops a job a worker has started.
RemovePlayerStopsWorker(c, p) ==
    LET id == loading[c].id
        left == loading[c].players \ {p}
    IN  IF left = {} /\ id # 0
        THEN /\ board' = [board EXCEPT ![id] = "cancelled"]
             /\ loading' = [loading EXCEPT ![c] = NoRequest]
        ELSE /\ loading' = [loading EXCEPT ![c].players = left]
             /\ UNCHANGED board

\* removePlayerFromLoadingChunk(): leave the request; if nobody is left and
\* cancelJob() finds the job still queued, the request goes too.
RemovePlayerFromLoadingChunk(c, p) ==
    LET id == loading[c].id
        left == loading[c].players \ {p}
    IN  IF id # 0 /\ left = {} /\ board[id] = "queued"
        THEN /\ board' = [board EXCEPT ![id] = "cancelled"]
             /\ loading' = [loading EXCEPT ![c] = NoRequest]
        ELSE /\ loading' = [loading EXCEPT ![c].players = left]
             /\ UNCHANGED board

-----------------------------------------------------------------------------
(* The client thread of a player                                           *)

\* Loads still to come, of every player: each may add a job.
PendingLoads == {x \in Players \X Chunks : x[2] \in todo[x[1]].load}

\* setPosition() into another chunk, or the login sequence: the window changes.
\* Moves are bounded, and no move is made that could exhaust the job ids.
Move(p, v) ==
    /\ cli[p] = "connected"
    /\ Settled(p)
    /\ v # window[p]
    /\ moves[p] < MaxMoves
    /\ moves' = [moves EXCEPT ![p] = @ + 1]
    /\ window' = [window EXCEPT ![p] = v]
    /\ todo' = [todo EXCEPT ![p] = [unload |-> window[p] \ v, load |-> v \ window[p]]]
    /\ NextJob - 1 + Cardinality(PendingLoads') <= MaxJobs
    /\ UNCHANGED <<jobVars, ready, loading, sender, chunks, held, at, cli>>

\* _unloadChunk(): the mark is read, without any mutex.  An absent chunk is
\* left alone, and for a Loaded one the unload packet is sent.
UnloadRead(p, c) ==
    /\ cli[p] = "connected"
    /\ Between(p)
    /\ c \in todo[p].unload
    /\ todo' = [todo EXCEPT ![p].unload = @ \ {c}]
    /\ at' = [at EXCEPT ![p] =
                CASE chunks[p][c] = "none" -> Waiting
                  [] chunks[p][c] = "Loading" -> [pc |-> "remove", chunk |-> c]
                  [] chunks[p][c] = "Loaded" -> [pc |-> "erase", chunk |-> c]]
    /\ held' = [held EXCEPT ![p] = IF chunks[p][c] = "Loaded" THEN @ \ {c} ELSE @]
    /\ UNCHANGED <<jobVars, ready, loading, sender, chunks, moveVars, cli>>

\* _unloadChunk() of a Loading chunk: give the request up.
UnloadRemove(p) ==
    /\ at[p].pc = "remove"
    /\ LoadingChunksMutexFree
    /\ RemovePlayerFromLoadingChunk(at[p].chunk, p)
    /\ at' = [at EXCEPT ![p].pc = "erase"]
    /\ UNCHANGED <<jobChunk, step, ready, sender, chunks, held, moveVars, todo, cli>>

\* _unloadChunk(): _chunks.erase().
UnloadErase(p) ==
    /\ at[p].pc = "erase"
    /\ chunks' = [chunks EXCEPT ![p][at[p].chunk] = "none"]
    /\ at' = [at EXCEPT ![p] = Waiting]
    /\ UNCHANGED <<jobVars, ready, loading, sender, held, moveVars, todo, cli>>

\* sendChunkAndLightUpdate(x, z): hasChunkLoaded(), once all unloads are done.
LoadRead(p, c) ==
    /\ cli[p] = "connected"
    /\ Between(p)
    /\ todo[p].unload = {}
    /\ c \in todo[p].load
    /\ at' = [at EXCEPT ![p] = [pc |-> IF c \in ready THEN "deliver" ELSE "request", chunk |-> c]]
    /\ UNCHANGED <<jobVars, ready, loading, sender, chunks, held, moveVars, todo, cli>>

\* ... of a loaded chunk: sent at once, under _loadingChunksMutex.
Deliver(p) ==
    LET c == at[p].chunk IN
    /\ at[p].pc = "deliver"
    /\ LoadingChunksMutexFree
    /\ held' = [held EXCEPT ![p] = @ \cup {c}]
    /\ chunks' = [chunks EXCEPT ![p][c] = "Loaded"]
    /\ todo' = [todo EXCEPT ![p].load = @ \ {c}]
    /\ at' = [at EXCEPT ![p] = Waiting]
    /\ UNCHANGED <<jobVars, ready, loading, sender, moveVars, cli>>

\* ... of any other: requested under the mutex ...
Request(p) ==
    /\ at[p].pc = "request"
    /\ LoadingChunksMutexFree
    /\ LoadOrGenerateChunk(at[p].chunk, p)
    /\ at' = [at EXCEPT ![p].pc = "mark"]
    /\ todo' = [todo EXCEPT ![p].load = @ \ {at[p].chunk}]
    /\ UNCHANGED <<step, ready, sender, chunks, held, moveVars, cli>>

\* ... and marked Loading after it is released.
MarkLoading(p) ==
    /\ at[p].pc = "mark"
    /\ chunks' = [chunks EXCEPT ![p][at[p].chunk] = "Loading"]
    /\ at' = [at EXCEPT ![p] = Waiting]
    /\ UNCHANGED <<jobVars, ready, loading, sender, held, moveVars, todo, cli>>

-----------------------------------------------------------------------------
(* The worker that runs job j                                              *)

\* A free worker picks the job.
Take(j) ==
    /\ board[j] = "queued"
    /\ Cardinality(Running) < NbWorkers
    /\ board' = [board EXCEPT ![j] = "running"]
    /\ step' = [step EXCEPT ![j] = "generate"]
    /\ UNCHANGED <<jobChunk, ready, loading, sender, chunks, held, moveVars, todo, at, cli>>

\* generateChunk() returns, or throws: the chunk is READY, but for an unsteady one.
Generate(j) ==
    /\ step[j] = "generate"
    /\ ready' = ready \cup ({jobChunk[j]} \ Unsteady)
    /\ step' = [step EXCEPT ![j] = "check"]
    /\ UNCHANGED <<board, jobChunk, loading, sender, chunks, held, moveVars, todo, at, cli>>

\* An unsteady chunk becomes READY or ceases to be: a spawn job is in one of its
\* stages.  (Without a generator, or with generation off, it need never be READY.)
SpawnStage(c) ==
    /\ c \in Unsteady
    /\ ready' = IF c \in ready THEN ready \ {c} ELSE ready \cup {c}
    /\ UNCHANGED <<jobVars, loading, sender, chunks, held, moveVars, todo, at, cli>>

\* if (!hasChunkLoaded(x, z)) return;
Check(j) ==
    /\ step[j] = "check"
    /\ step' = [step EXCEPT ![j] = IF jobChunk[j] \in ready THEN "send" ELSE "none"]
    /\ board' = [board EXCEPT ![j] = IF jobChunk[j] \in ready THEN @ ELSE "done"]
    /\ UNCHANGED <<jobChunk, ready, loading, sender, chunks, held, moveVars, todo, at, cli>>

\* sendChunkToPlayers(): the mutex is taken and the players are gone through.
SendStart(j) ==
    /\ step[j] = "send"
    /\ LoadingChunksMutexFree
    /\ sender' = [id |-> j, todo |-> loading[jobChunk[j]].players, cur |-> None]
    /\ UNCHANGED <<jobVars, ready, loading, chunks, held, moveVars, todo, at, cli>>

\* sendChunkAndLightUpdate(chunk): GET_CLIENT() and the packet ...
SendWrite(p) ==
    /\ sender.cur = None
    /\ p \in sender.todo
    /\ cli[p] = "connected"
    /\ held' = [held EXCEPT ![p] = @ \cup {jobChunk[sender.id]}]
    /\ sender' = [sender EXCEPT !.todo = @ \ {p}, !.cur = p]
    /\ UNCHANGED <<jobVars, ready, loading, chunks, moveVars, todo, at, cli>>

\* ... or nothing, once the client object is gone.
SendSkip(p) ==
    /\ sender.cur = None
    /\ p \in sender.todo
    /\ cli[p] # "connected"
    /\ sender' = [sender EXCEPT !.todo = @ \ {p}]
    /\ UNCHANGED <<jobVars, ready, loading, chunks, held, moveVars, todo, at, cli>>

\* The chunk is marked Loaded and the shared_ptr of GET_CLIENT() given back.
\* If it was the last one, ~Client() runs here, under _loadingChunksMutex: a
\* chunk still marked Loading makes it lock that mutex a second time.
SendMark(p) ==
    LET marks == [chunks[p] EXCEPT ![jobChunk[sender.id]] = "Loaded"]
        relock == \E c \in Chunks : marks[c] = "Loading"
    IN  /\ sender.cur = p
        /\ cli[p] # "relock"
        /\ chunks' = [chunks EXCEPT ![p] = marks]
        /\ cli' = [cli EXCEPT ![p] =
                     IF @ # "dropped" THEN @ ELSE IF relock THEN "relock" ELSE "gone"]
        /\ sender' = IF cli[p] = "dropped" /\ relock THEN sender ELSE [sender EXCEPT !.cur = None]
        /\ UNCHANGED <<jobVars, ready, loading, held, moveVars, todo, at>>

\* Everyone has been served: the request is erased and the job ends.
SendEnd ==
    /\ sender # NoSender
    /\ sender.todo = {}
    /\ sender.cur = None
    /\ loading' = [loading EXCEPT ![jobChunk[sender.id]] = NoRequest]
    /\ step' = [step EXCEPT ![sender.id] = "none"]
    /\ board' = [board EXCEPT ![sender.id] = "done"]
    /\ sender' = NoSender
    /\ UNCHANGED <<jobChunk, ready, chunks, held, moveVars, todo, at, cli>>

-----------------------------------------------------------------------------
(* The end of a client                                                     *)

\* The server forgets a client whose thread has ended; ~Client() starts here
\* unless a worker still holds the object.
DropClient(p) ==
    /\ p \in Quitters
    /\ cli[p] = "connected"
    /\ Settled(p)
    /\ cli' = [cli EXCEPT ![p] = IF sender.cur = p THEN "dropped" ELSE "leaving"]
    /\ todo' = [todo EXCEPT ![p].unload =
                  IF sender.cur = p THEN {} ELSE {c \in Chunks : chunks[p][c] = "Loading"}]
    /\ UNCHANGED <<jobVars, ready, loading, sender, chunks, held, moveVars, at>>

\* Variant: ~Client() without the loop over _chunks.
LeaveRequestKept(p, c) ==
    /\ cli[p] = "leaving"
    /\ c \in todo[p].unload
    /\ todo' = [todo EXCEPT ![p].unload = @ \ {c}]
    /\ UNCHANGED <<jobVars, ready, loading, sender, chunks, held, moveVars, at, cli>>

\* ~Client(): every chunk that is marked Loading is given up ...
LeaveRequest(p, c) ==
    /\ cli[p] = "leaving"
    /\ c \in todo[p].unload
    /\ LoadingChunksMutexFree
    /\ RemovePlayerFromLoadingChunk(c, p)
    /\ todo' = [todo EXCEPT ![p].unload = @ \ {c}]
    /\ UNCHANGED <<jobChunk, step, ready, sender, chunks, held, moveVars, at, cli>>

\* ... and the object is gone.
Gone(p) ==
    /\ cli[p] = "leaving"
    /\ todo[p].unload = {}
    /\ cli' = [cli EXCEPT ![p] = "gone"]
    /\ UNCHANGED <<jobVars, ready, loading, sender, chunks, held, moveVars, todo, at>>

-----------------------------------------------------------------------------

PlayerStep(p) ==
    \/ \E c \in Chunks : UnloadRead(p, c) \/ LoadRead(p, c)
    \/ UnloadRemove(p) \/ UnloadErase(p)
    \/ Deliver(p) \/ Request(p) \/ MarkLoading(p)

JobStep(j) == Take(j) \/ Generate(j) \/ Check(j) \/ SendStart(j)

SenderStep ==
    \/ \E p \in Players : SendWrite(p) \/ SendSkip(p) \/ SendMark(p)
    \/ SendEnd

LeaveStep(p) == Gone(p) \/ \E c \in Chunks : LeaveRequest(p, c)

\* Everybody has what is in view, or has left, and no work is under way.
Quiet ==
    /\ \A p \in Players : Settled(p) /\ cli[p] \in {"connected", "gone"}
    /\ \A j \in JobIds : board[j] \notin {"queued", "running"}
    /\ UNCHANGED vars

\* A worker has locked _loadingChunksMutex twice: it waits for itself.
Relocked == (\E p \in Players : cli[p] = "relock") /\ UNCHANGED vars

Next ==
    \/ \E p \in Players : \E v \in Windows[p] : Move(p, v)
    \/ \E p \in Players : PlayerStep(p)
    \/ \E j \in JobIds : JobStep(j)
    \/ \E c \in Chunks : SpawnStage(c)
    \/ SenderStep
    \/ \E p \in Players : DropClient(p) \/ LeaveStep(p)
    \/ Quiet
    \/ Relocked

(***************************************************************************)
(* Threads run, jobs return and a free mutex is obtained.  Moving and      *)
(* quitting are nobody's duty.                                             *)
(***************************************************************************)
Fairness ==
    /\ \A p \in Players : WF_vars(PlayerStep(p)) /\ WF_vars(LeaveStep(p))
    /\ \A j \in JobIds : WF_vars(JobStep(j))
    /\ WF_vars(SenderStep)

Spec == Init /\ [][Next]_vars /\ Fairness

-----------------------------------------------------------------------------
(* Properties                                                              *)

\* Every variable has its type.
TypeOK ==
    /\ board \in [JobIds -> {"new", "queued", "running", "done", "cancelled"}]
    /\ jobChunk \in [JobIds -> Chunks \cup {None}]
    /\ step \in [JobIds -> {"none", "generate", "check", "send"}]
    /\ ready \subseteq Chunks
    /\ loading \in [Chunks -> [id : 0 .. MaxJobs, players : SUBSET Players]]
    /\ sender \in [id : 0 .. MaxJobs, todo : SUBSET Players, cur : Players \cup {None}]
    /\ chunks \in [Players -> [Chunks -> {"none", "Loading", "Loaded"}]]
    /\ held \in [Players -> SUBSET Chunks]
    /\ window \in [Players -> SUBSET Chunks]
    /\ todo \in [Players -> [unload : SUBSET Chunks, load : SUBSET Chunks]]
    /\ at \in [Players -> [pc : {"none", "remove", "erase", "deliver", "request", "mark"},
                           chunk : Chunks \cup {None}]]
    /\ cli \in [Players -> {"connected", "dropped", "leaving", "gone", "relock"}]
    /\ moves \in [Players -> 0 .. MaxMoves]

\* Every entry of _loadingChunks stands for a job of that chunk that has not
\* ended yet, so whoever joins the request will be served by it.  (It is not so
\* for a chunk its job did not find READY: loadOrGenerateChunk()'s job returns
\* and the entry stays behind.)
RequestHasJob ==
    \A c \in Chunks \ Unsteady : loading[c].id # 0 =>
        /\ jobChunk[loading[c].id] = c
        /\ board[loading[c].id] \in {"queued", "running"}

\* No job waits in the pool for nobody: removePlayerFromLoadingChunk() has
\* cancelled it with its last player, in view changes and in ~Client().
QueuedJobIsWanted ==
    \A j \in JobIds : board[j] = "queued" =>
        /\ loading[jobChunk[j]].id = j
        /\ loading[jobChunk[j]].players # {}

\* Requests never make two workers generate one chunk at the same time, although
\* a request may be given up and made again while its first job is on its way.
\* (The spawn job of a chunk has no request, and may generate it as well.)
RequestsGenerateOnce ==
    \A i, j \in JobIds :
        step[i] = "generate" /\ step[j] = "generate" /\ jobChunk[i] = jobChunk[j] => i = j

\* A chunk marked Loading is on its way or has arrived: the player is in the
\* request, whatever the worker did between the request and the mark.
NoLostRequest ==
    \A p \in Players, c \in Chunks :
        cli[p] = "connected" /\ chunks[p][c] = "Loading" /\ at[p].chunk # c
            => p \in loading[c].players \/ c \in held[p]

\* ~Client() leaves no request behind that names the player, but for the one a
\* worker is serving and about to erase.
GoneIsForgotten ==
    \A p \in Players, c \in Chunks :
        cli[p] = "gone" /\ p \in loading[c].players => sender.id = loading[c].id

\* A chunk that comes into view is sent, unless it leaves the view again, the
\* player leaves, or the chunk is unsteady.  It is not so once ~Client() of some
\* player ran inside sendChunkToPlayers() with another chunk still Loading: the
\* worker has then locked _loadingChunksMutex twice and waits for itself.
EveryChunkArrives ==
    \A p \in Players, c \in Chunks \ Unsteady :
        c \in window[p] ~> \/ c \in held[p]
                           \/ c \notin window[p]
                           \/ cli[p] # "connected"
                           \/ \E q \in Players : cli[q] = "relock"

Board == INSTANCE JobBoard WITH closed <- FALSE

\* The dimension uses the pool as JobBoard allows it.
UsesBoard == Board!SafeSpec
=============================================================================
