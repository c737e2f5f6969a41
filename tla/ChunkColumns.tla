---------------------------- MODULE ChunkColumns ----------------------------
(***************************************************************************)
(* How a column of the overworld comes into being: Overworld::             *)
(* generateChunk(), Persistence::isChunkLoaded() and loadRegion(), the     *)
(* Level's map of columns and ChunkColumn::generate() with its stages.     *)
(*                                                                         *)
(* Workers of the generation pool run generateChunk() for a position; the  *)
(* job of the spawn area and the job of a player's request may be for the  *)
(* same one.  Each stage runs under the column's _generationLock, but      *)
(* which stage is next is read from _currentState before the lock is       *)
(* taken, READY is set without it, and the light is computed after it.     *)
(* A stage is one step: nothing looks at the blocks of a column that is    *)
(* not READY except the other stages.  The blocks of a column are kept as  *)
(* the list of what was written to it since every block was last replaced; *)
(* BlocksOf() is the terrain it stands for.                                *)
(***************************************************************************)
EXTENDS Terrain, FiniteSets

CONSTANTS
    Positions,        \* columns of one region
    Saved,            \* positions the region file has, status "full"
    Partial,          \* positions the file has with another status
    Jobs,             \* position -> number of jobs for it
    Workers,
    Worlds,           \* [type, generation]: the configuration
    Noises,           \* what the noise library may answer
    None

ASSUME ColumnsAssumption ==
    /\ Saved \cup Partial \subseteq Positions /\ Saved \cap Partial = {}
    /\ Jobs \in [Positions -> Nat]
    /\ None \notin Positions \cup Workers

VARIABLES
    world,            \* the configuration: type of the world, enable-generation
    columns,          \* Level::_chunkColumns: position -> [state, written, lit], or NoColumn
    regionLoaded,     \* the region is in Persistence::_regionStore
    accessMutex,      \* worker that holds Persistence::_accessMutex, or None
    toRead,           \* columns of the region file that are still to be read
    started,          \* position -> jobs started
    at                \* worker -> [pc, pos, seen]

vars == <<world, columns, regionLoaded, accessMutex, toRead, started, at>>

\* GenerationState
States == <<"INITIALIZED", "RAW_GENERATION", "LAKES", "LOCAL_MODIFICATIONS",
            "UNDERGROUND_STRUCTURES", "SURFACE_STRUCTURES", "STRONGHOLDS", "UNDERGROUND_ORES",
            "UNDERGROUND_DECORATION", "FLUID_SPRINGS", "VEGETAL_DECORATION",
            "TOP_LAYER_MODIFICATION", "READY">>

\* Variant: a stage that writes nothing forgets its state.
StageAfterSkips(state) ==
    IF state = "SURFACE_STRUCTURES" THEN state
    ELSE States[1 + CHOOSE i \in DOMAIN States : States[i] = state]

\* The switch of _generateOverworld(): the state a stage ends in.
StageAfter(state) == States[1 + CHOOSE i \in DOMAIN States : States[i] = state]

NoColumn == [state |-> "none", written |-> <<>>, lit |-> FALSE]
NewColumn == [NoColumn EXCEPT !.state = "INITIALIZED"]
Idle == [pc |-> "idle", pos |-> None, seen |-> "none"]

IsReady(p) == columns[p].state = "READY"

Init ==
    /\ world \in Worlds
    /\ columns = [p \in Positions |-> NoColumn]
    /\ regionLoaded = FALSE
    /\ accessMutex = None
    /\ toRead = Saved \cup Partial
    /\ started = [p \in Positions |-> 0]
    /\ at = [w \in Workers |-> Idle]

Go(w, pc) == at' = [at EXCEPT ![w].pc = pc]

-----------------------------------------------------------------------------
(* generateChunk() up to isChunkLoaded()                                   *)

\* A worker starts the next job for a position.
GenerateChunk(w, p) ==
    /\ at[w] = Idle
    /\ started[p] < Jobs[p]
    /\ started' = [started EXCEPT ![p] = @ + 1]
    /\ at' = [at EXCEPT ![w] = [pc |-> "region", pos |-> p, seen |-> "none"]]
    /\ UNCHANGED <<world, columns, regionLoaded, accessMutex, toRead>>

\* Variant: a region that is in the store is not waited for.
LoadRegionUnlocked(w) ==
    /\ at[w].pc = "region"
    /\ regionLoaded \/ accessMutex = None
    /\ IF regionLoaded
       THEN Go(w, "loaded?") /\ UNCHANGED <<regionLoaded, accessMutex>>
       ELSE Go(w, "reading") /\ regionLoaded' = TRUE /\ accessMutex' = w
    /\ UNCHANGED <<world, columns, toRead, started>>

\* loadRegion(): under _accessMutex, a region is put in the store and read once.
LoadRegion(w) ==
    /\ at[w].pc = "region"
    /\ accessMutex = None
    /\ IF regionLoaded
       THEN Go(w, "loaded?") /\ UNCHANGED <<regionLoaded, accessMutex>>
       ELSE Go(w, "reading") /\ regionLoaded' = TRUE /\ accessMutex' = w
    /\ UNCHANGED <<world, columns, toRead, started>>

\* _regionLoadChunk(): a column that is not full is skipped, another enters the map.
RegionAddsColumn(w, p) ==
    /\ at[w].pc = "reading"
    /\ p \in toRead
    /\ toRead' = toRead \ {p}
    /\ IF p \in Partial
       THEN UNCHANGED <<columns, at>>
       ELSE /\ columns' = [columns EXCEPT ![p] = IF @ = NoColumn THEN NewColumn ELSE @]
            /\ at' = [at EXCEPT ![w] = [@ EXCEPT !.pc = "sections", !.seen = p]]
    /\ UNCHANGED <<world, regionLoaded, accessMutex, started>>

\* _regionLoadSection() for its sections, the height maps, and READY.
RegionFillsColumn(w) ==
    /\ at[w].pc = "sections"
    /\ columns' = [columns EXCEPT ![at[w].seen] = [state |-> "READY", written |-> <<"saved">>, lit |-> TRUE]]
    /\ at' = [at EXCEPT ![w] = [@ EXCEPT !.pc = "reading", !.seen = "none"]]
    /\ UNCHANGED <<world, regionLoaded, accessMutex, toRead, started>>

\* loadRegion() returns and unlocks.
RegionRead(w) ==
    /\ at[w].pc = "reading"
    /\ toRead = {}
    /\ accessMutex' = None
    /\ Go(w, "loaded?")
    /\ UNCHANGED <<world, columns, regionLoaded, toRead, started>>

\* hasChunkLoaded(): the job ends, or the column is added and generated.
\* emplace() keeps a column that is there.
IsChunkLoaded(w) ==
    LET p == at[w].pos
    IN  /\ at[w].pc = "loaded?"
        /\ IF IsReady(p)
           THEN at' = [at EXCEPT ![w] = Idle] /\ UNCHANGED columns
           ELSE /\ columns' = [columns EXCEPT ![p] = IF @ = NoColumn THEN NewColumn ELSE @]
                /\ at' = [at EXCEPT ![w] = IF world.generation THEN [@ EXCEPT !.pc = "generate"] ELSE Idle]
        /\ UNCHANGED <<world, regionLoaded, accessMutex, toRead, started>>

-----------------------------------------------------------------------------
(* ChunkColumn::generate()                                                 *)

\* _generateOverworld(): the loop reads the state, without the lock.
ReadState(w) ==
    /\ at[w].pc = "generate"
    /\ world.type = "default"
    /\ at' = [at EXCEPT ![w] = IF IsReady(at[w].pos)
                               THEN [@ EXCEPT !.pc = "light"]
                               ELSE [@ EXCEPT !.pc = "stage", !.seen = columns[at[w].pos].state]]
    /\ UNCHANGED <<world, columns, regionLoaded, accessMutex, toRead, started>>

\* Variant: the case of the local modifications moves the state on and writes nothing.
WrittenSkipsLocal(written, state) ==
    CASE state = "INITIALIZED" -> <<"raw">>
      [] state = "RAW_GENERATION" -> Append(written, "lakes")
      [] state = "FLUID_SPRINGS" -> Append(written, "vegetal")
      [] OTHER -> written

\* What the stage after a state adds to what was written: raw generation
\* replaces every block, and most stages are still empty.
Written(written, state) ==
    CASE state = "INITIALIZED" -> <<"raw">>
      [] state = "RAW_GENERATION" -> Append(written, "lakes")
      [] state = "LAKES" -> Append(written, "local")
      [] state = "FLUID_SPRINGS" -> Append(written, "vegetal")
      [] OTHER -> written

\* The terrain that a list of writes leaves.
BlocksOf(written, noise) ==
    LET after[i \in 0 .. Len(written)] ==
            IF i = 0 THEN [c \in Cells |-> "Air"]
            ELSE CASE written[i] = "raw" -> RawGeneration(noise)
                   [] written[i] = "lakes" -> Lakes(after[i - 1])
                   [] written[i] = "local" -> LocalModifications(after[i - 1])
                   [] written[i] = "vegetal" -> VegetalDecoration(after[i - 1], noise)
                   [] written[i] = "flat" -> Flat(after[i - 1])
                   [] written[i] = "cubic" -> FlatCubicServer(after[i - 1])
                   [] written[i] = "debug" -> Debug(after[i - 1])
    IN  after[Len(written)]

\* One stage: its blocks under the lock, and the state it ends in.
RunStage(w) ==
    LET p == at[w].pos
    IN  /\ at[w].pc = "stage"
        /\ columns' = [columns EXCEPT ![p].written = Written(@, at[w].seen),
                                      ![p].state = StageAfter(at[w].seen)]
        /\ Go(w, "generate")
        /\ UNCHANGED <<world, regionLoaded, accessMutex, toRead, started>>

\* Variant: the flat worlds return before the light is computed.
GenerateFlatReturns(w) ==
    LET p == at[w].pos
    IN  /\ at[w].pc = "generate"
        /\ world.type # "default"
        /\ columns' = CASE world.type = "superflat" ->
                              [columns EXCEPT ![p].written = Append(@, "flat"), ![p].state = "READY"]
                        [] world.type = "superflat_cubic_server" ->
                              [columns EXCEPT ![p].written = Append(@, "cubic"), ![p].state = "READY"]
                        [] world.type = "debug" ->
                              [columns EXCEPT ![p].written = Append(@, "debug"), ![p].state = "READY"]
                        [] OTHER -> columns
        /\ at' = [at EXCEPT ![w] = Idle]
        /\ UNCHANGED <<world, regionLoaded, accessMutex, toRead, started>>

\* _generateFlat(), _generateFlatCubicServer(), _generateDebug(); the world types
\* that are not implemented only log an error.
GenerateFlat(w) ==
    LET p == at[w].pos
    IN  /\ at[w].pc = "generate"
        /\ world.type # "default"
        /\ columns' = CASE world.type = "superflat" ->
                              [columns EXCEPT ![p].written = Append(@, "flat"), ![p].state = "READY"]
                        [] world.type = "superflat_cubic_server" ->
                              [columns EXCEPT ![p].written = Append(@, "cubic"), ![p].state = "READY"]
                        [] world.type = "debug" ->
                              [columns EXCEPT ![p].written = Append(@, "debug"), ![p].state = "READY"]
                        [] OTHER -> columns
        /\ Go(w, "light")
        /\ UNCHANGED <<world, regionLoaded, accessMutex, toRead, started>>

\* recalculateSkyLight(), at the end of generate(): full light everywhere.
RecalculateSkyLight(w) ==
    /\ at[w].pc = "light"
    /\ columns' = [columns EXCEPT ![at[w].pos].lit = TRUE]
    /\ at' = [at EXCEPT ![w] = Idle]
    /\ UNCHANGED <<world, regionLoaded, accessMutex, toRead, started>>

-----------------------------------------------------------------------------

Step(w) ==
    \/ \E p \in Positions : GenerateChunk(w, p)
    \/ LoadRegion(w)
    \/ \E p \in Positions : RegionAddsColumn(w, p)
    \/ RegionFillsColumn(w)
    \/ RegionRead(w)
    \/ IsChunkLoaded(w)
    \/ ReadState(w)
    \/ RunStage(w)
    \/ GenerateFlat(w)
    \/ RecalculateSkyLight(w)

Next == \E w \in Workers : Step(w)

\* A worker thread goes on with its job, and takes the next one.
Fairness == \A w \in Workers : WF_vars(Step(w))

Spec == Init /\ [][Next]_vars /\ Fairness

-----------------------------------------------------------------------------

\* Nobody works on the column of p.
Quiet(p) == \A w \in Workers : at[w].pos # p

\* A column the region file holds complete is never generated: once it can be
\* seen READY its blocks are the saved ones, whoever asks for it and whoever
\* reads the region (loadRegion() under _accessMutex, before isChunkLoaded()).
SavedTerrainIsKept ==
    \A p \in Saved : IsReady(p) => columns[p].written = <<"saved">>

\* A column that one worker generated alone is complete as soon as it is READY:
\* bedrock, no bare stone, lakes up to the water level, trunks on the ground
\* (the order of the stages in _generateOverworld() and what each relies on).
\* A debug world has no ground.
ReadyIsFinished ==
    \A p \in Positions \ Saved :
        IsReady(p) /\ started[p] = 1 /\ world.type # "debug" =>
            \A noise \in Noises : Finished(BlocksOf(columns[p].written, noise))

\* What a column is made of that went through every stage once, in a world with a ground.
CompleteLists == {<<"raw", "lakes", "local", "vegetal">>, <<"flat">>, <<"cubic">>}

\* One pass through the stages leaves a finished terrain, whatever the noise.
StagesFinish == \A noise \in Noises, list \in CompleteLists : Finished(BlocksOf(list, noise))

\* When the last worker leaves a column it is READY and lit, even if several
\* ran its stages at once and set each other's state back; only a world that
\* generates nothing leaves it unfinished.
LeftReadyAndLit ==
    \A p \in Positions :
        /\ Quiet(p) /\ started[p] > 0
        /\ world.generation
        /\ world.type \in {"default", "superflat", "superflat_cubic_server", "debug"}
        => IsReady(p) /\ columns[p].lit

\* Every job ends: a state that goes back never keeps two workers generating
\* for ever (the loop of _generateOverworld()).
EveryJobEnds == <>[](\A p \in Positions : started[p] = Jobs[p] /\ Quiet(p))
=============================================================================
