------------------------- MODULE ChunkLoadingProofs -------------------------
(***************************************************************************)
(* Safety of chunk requests, for any number of players, chunks, workers    *)
(* and moves.  The inductive invariant has five parts beside the types:    *)
(*                                                                         *)
(*  - BoardInv: job ids are given out in order, and enough are left for    *)
(*    every load that is still to come;                                    *)
(*  - JobInv: the jobs on the board, the entries of _loadingChunks and the *)
(*    worker that holds its mutex agree with each other;                   *)
(*  - ThreadInv: where a client thread is, what it has still to do, and    *)
(*    which chunks may be marked Loading then;                             *)
(*  - WantInv: whoever waits for a chunk is in its request or has it, and  *)
(*    once the request is being served, is still to be served or has it;   *)
(*  - NameInv: a request names only players who can still take themselves  *)
(*    out of it, but for the request that is being served.                 *)
(***************************************************************************)
EXTENDS ChunkLoading, FiniteSetTheorems, TLAPS

\* The loads to come and the jobs added together stay within the ids.
BoardInv ==
    /\ \A j \in JobIds : board[j] # "new" <=> j < NextJob
    /\ NextJob - 1 + Cardinality(PendingLoads) <= MaxJobs

\* A job under way and the request for its chunk name each other.
JobsMatch ==
    \A j \in JobIds :
        /\ board[j] = "running" <=> step[j] # "none"
        /\ board[j] # "new" => jobChunk[j] \in Chunks
        /\ step[j] = "check" => jobChunk[j] \in ready \cup Unsteady
        /\ board[j] \in {"queued", "running"} => loading[jobChunk[j]].id = j
        /\ board[j] = "queued" => loading[jobChunk[j]].players # {}

RequestsMatch ==
    \A c \in Chunks :
        /\ loading[c].id = 0 => loading[c].players = {}
        /\ loading[c].id # 0 =>
              /\ jobChunk[loading[c].id] = c
              /\ \/ board[loading[c].id] \in {"queued", "running"}
                 \/ c \in Unsteady /\ board[loading[c].id] = "done"

SenderSends ==
    /\ sender.id = 0 => sender = NoSender
    /\ sender.id # 0 => step[sender.id] = "send"

JobInv == JobsMatch /\ RequestsMatch /\ SenderSends

\* The request for the chunk is being served.
Served(c) == sender.id # 0 /\ sender.id = loading[c].id

\* The client thread and its list of things to do.
ThreadOK(p) ==
    /\ at[p].pc = "none" => at[p] = Waiting
    /\ at[p].pc # "none" => at[p].chunk \in Chunks /\ cli[p] = "connected"
    /\ at[p].pc \in {"deliver", "request"} => at[p].chunk \in todo[p].load /\ todo[p].unload = {}
    /\ at[p].pc = "mark" => at[p].chunk \in window[p] \ todo[p].load
    /\ todo[p].load \subseteq window[p]

\* A chunk marked Loading is in view and dealt with, or about to be unloaded.
MarkOK(p, c) ==
    cli[p] = "connected" /\ chunks[p][c] = "Loading" =>
        \/ c \in window[p] \ todo[p].load
        \/ c \in todo[p].unload
        \/ at[p].pc \in {"remove", "erase"} /\ at[p].chunk = c

ThreadInv == \A p \in Players : ThreadOK(p) /\ \A c \in Chunks : MarkOK(p, c)

\* The player waits for the chunk.
Wants(p, c) ==
    /\ cli[p] = "connected"
    /\ \/ chunks[p][c] = "Loading" /\ at[p].chunk # c
       \/ at[p].pc = "mark" /\ at[p].chunk = c

WantOK(p, c) ==
    Wants(p, c) =>
        /\ p \in loading[c].players \/ c \in held[p]
        /\ Served(c) => p \in sender.todo \/ c \in held[p]

WantInv == \A p \in Players, c \in Chunks : WantOK(p, c)

\* Why a request names the player.
NameOK(p, c) ==
    p \in loading[c].players =>
        \/ Served(c)
        \/ /\ cli[p] \in {"connected", "dropped"}
           /\ \/ chunks[p][c] = "Loading" /\ ~(at[p].pc = "erase" /\ at[p].chunk = c)
              \/ at[p].pc = "mark" /\ at[p].chunk = c
        \/ cli[p] = "leaving" /\ c \in todo[p].unload
        \/ cli[p] = "relock"

NameInv == \A p \in Players, c \in Chunks : NameOK(p, c)

IInv == TypeOK /\ BoardInv /\ JobInv /\ ThreadInv /\ WantInv /\ NameInv

-----------------------------------------------------------------------------
(* Counting the jobs                                                       *)

LEMMA JobCount ==
    /\ IsFiniteSet({j \in JobIds : board[j] # "new"})
    /\ NextJob \in Nat \ {0}
<1>1. IsFiniteSet(JobIds)
  BY FS_Interval, BoundsAssumption DEF JobIds
<1>2. IsFiniteSet({j \in JobIds : board[j] # "new"})
  BY <1>1, FS_Subset
<1>3. Cardinality({j \in JobIds : board[j] # "new"}) \in Nat
  BY <1>2, FS_CardinalityType
<1>4. QED  BY <1>2, <1>3 DEF NextJob

LEMMA LoadCount ==
    /\ IsFiniteSet(PendingLoads)
    /\ Cardinality(PendingLoads) \in Nat
<1>1. IsFiniteSet(Players \X Chunks)
  BY FiniteAssumption, FS_Product
<1>2. PendingLoads \in SUBSET (Players \X Chunks)
  BY DEF PendingLoads
<1>3. IsFiniteSet(PendingLoads)
  BY <1>1, <1>2, FS_Subset
<1>4. QED  BY <1>3, FS_CardinalityType

\* A step that adds no job and no load.
LEMMA BoardKept ==
    ASSUME BoardInv,
           \A j \in JobIds : board'[j] = "new" <=> board[j] = "new",
           \A p \in Players : todo'[p].load \subseteq todo[p].load
    PROVE  BoardInv'
<1>1. {j \in JobIds : board'[j] # "new"} = {j \in JobIds : board[j] # "new"}
  OBVIOUS
<1>2. NextJob' = NextJob
  BY <1>1 DEF NextJob
<1>3. PendingLoads' \in SUBSET PendingLoads
  BY DEF PendingLoads
<1>4. Cardinality(PendingLoads') <= Cardinality(PendingLoads) /\ Cardinality(PendingLoads') \in Nat
  BY <1>3, LoadCount, FS_Subset, FS_CardinalityType
<1>5. QED  BY <1>2, <1>4, JobCount, LoadCount, BoundsAssumption DEF BoardInv

\* A job is added for a load that was to come: there is an id left for it, and
\* there are as many left as before for the other loads.
LEMMA BoardAdds ==
    ASSUME TypeOK, BoardInv, NEW p \in Players, NEW c \in Chunks, c \in todo[p].load
    PROVE  /\ NextJob \in JobIds /\ board[NextJob] = "new"
           /\ /\ board' = [board EXCEPT ![NextJob] = "queued"]
              /\ todo' = [todo EXCEPT ![p].load = @ \ {c}]
              => BoardInv'
<1> DEFINE x == <<p, c>>
           old == {j \in JobIds : board[j] # "new"}
<1>1. x \in PendingLoads
  BY DEF PendingLoads
<1>2. Cardinality(PendingLoads \ {x}) = Cardinality(PendingLoads) - 1 /\ Cardinality(PendingLoads \ {x}) \in Nat
  BY <1>1, LoadCount, FS_RemoveElement, FS_CardinalityType
<1>3. NextJob \in JobIds
  BY <1>2, JobCount, LoadCount, BoundsAssumption DEF BoardInv, JobIds
<1>4. board[NextJob] = "new"
  <2>1. ~(NextJob < NextJob)  BY JobCount
  <2>2. QED  BY <1>3, <2>1 DEF BoardInv
<1>5. ASSUME board' = [board EXCEPT ![NextJob] = "queued"],
             todo' = [todo EXCEPT ![p].load = @ \ {c}]
      PROVE  BoardInv'
  <2>1. {j \in JobIds : board'[j] # "new"} = old \cup {NextJob}
    BY <1>3, <1>5 DEF TypeOK
  <2>2. NextJob' = NextJob + 1
    <3>1. Cardinality(old \cup {NextJob}) = Cardinality(old) + 1
      BY <1>4, JobCount, FS_AddElement
    <3>2. QED  BY <2>1, <3>1 DEF NextJob
  <2>3. PendingLoads' = PendingLoads \ {x}
    BY <1>5 DEF PendingLoads, TypeOK
  <2>4. ASSUME NEW j \in JobIds
        PROVE  board'[j] # "new" <=> j < NextJob'
    <3>1. j \in Int  BY DEF JobIds
    <3>2. board'[j] # "new" <=> j \in old \cup {NextJob}
      BY <2>1
    <3>3. QED  BY <2>2, <3>1, <3>2, JobCount DEF BoardInv
  <2>5. QED  BY <1>2, <2>2, <2>3, <2>4, JobCount, LoadCount, BoundsAssumption DEF BoardInv
<1>6. QED  BY <1>3, <1>4, <1>5

-----------------------------------------------------------------------------
(* Jobs and requests                                                       *)

\* removePlayerFromLoadingChunk() takes the player out of one request and
\* changes nothing else about who waits for what; the entry and its job go
\* together, and only if nobody else waits.
LEMMA GivingUp ==
    ASSUME TypeOK, JobInv, NEW c \in Chunks, NEW p \in Players,
           RemovePlayerFromLoadingChunk(c, p),
           UNCHANGED <<jobChunk, step, ready, sender>>
    PROVE  /\ board' \in [JobIds -> {"new", "queued", "running", "done", "cancelled"}]
           /\ loading' \in [Chunks -> [id : 0 .. MaxJobs, players : SUBSET Players]]
           /\ \A j \in JobIds : board'[j] = "new" <=> board[j] = "new"
           /\ \A d \in Chunks : loading'[d].players = loading[d].players \ (IF d = c THEN {p} ELSE {})
           /\ \A d \in Chunks : loading'[d].id \in {0, loading[d].id}
           /\ \A d \in Chunks : loading'[d].players # {} => loading'[d].id = loading[d].id
           /\ JobsMatch' /\ RequestsMatch'
<1> DEFINE id == loading[c].id
           left == loading[c].players \ {p}
<1>0. /\ board \in [JobIds -> {"new", "queued", "running", "done", "cancelled"}]
      /\ loading \in [Chunks -> [id : 0 .. MaxJobs, players : SUBSET Players]]
      /\ id \in 0 .. MaxJobs /\ (id # 0 => id \in JobIds)
      /\ left \in SUBSET Players
  BY BoundsAssumption DEF TypeOK, JobIds
<1>1. CASE id # 0 /\ left = {} /\ board[id] = "queued"
  <2>1. /\ board' = [board EXCEPT ![id] = "cancelled"]
        /\ loading' = [loading EXCEPT ![c] = NoRequest]
    BY <1>1 DEF RemovePlayerFromLoadingChunk
  <2>2. /\ board' \in [JobIds -> {"new", "queued", "running", "done", "cancelled"}]
        /\ \A j \in JobIds : board'[j] = IF j = id THEN "cancelled" ELSE board[j]
    BY <1>0, <2>1
  <2>3. /\ loading' \in [Chunks -> [id : 0 .. MaxJobs, players : SUBSET Players]]
        /\ loading'[c].id = 0 /\ loading'[c].players = {}
        /\ \A d \in Chunks \ {c} : loading'[d] = loading[d]
    <3>1. NoRequest \in [id : 0 .. MaxJobs, players : SUBSET Players]
      BY BoundsAssumption DEF NoRequest
    <3>2. QED  BY <1>0, <2>1, <3>1 DEF NoRequest
  <2>4. JobsMatch'
    <3>1. ASSUME NEW j \in JobIds, board'[j] \in {"queued", "running"}
          PROVE  jobChunk[j] \in Chunks \ {c}
      BY <1>1, <2>2, <3>1 DEF JobInv, JobsMatch
    <3>2. QED  BY <1>0, <1>1, <2>2, <2>3, <3>1 DEF JobInv, JobsMatch
  <2>5. RequestsMatch'
    <3>1. ASSUME NEW d \in Chunks \ {c}, loading[d].id # 0
          PROVE  loading[d].id # id /\ loading[d].id \in JobIds
      BY <1>0, <1>1, <3>1 DEF JobInv, RequestsMatch, JobIds
    <3>2. QED  BY <2>2, <2>3, <3>1 DEF JobInv, RequestsMatch
  <2>6. QED  BY <1>0, <1>1, <2>2, <2>3, <2>4, <2>5
<1>2. CASE ~(id # 0 /\ left = {} /\ board[id] = "queued")
  <2>1. /\ board' = board
        /\ loading' = [loading EXCEPT ![c].players = left]
    BY <1>2 DEF RemovePlayerFromLoadingChunk
  <2>2. /\ loading' \in [Chunks -> [id : 0 .. MaxJobs, players : SUBSET Players]]
        /\ loading'[c].id = id /\ loading'[c].players = left
        /\ \A d \in Chunks \ {c} : loading'[d] = loading[d]
    BY <1>0, <2>1
  <2>3. JobsMatch'
    BY <1>0, <1>2, <2>1, <2>2 DEF JobInv, JobsMatch, JobIds
  <2>4. RequestsMatch'
    BY <1>0, <2>1, <2>2 DEF JobInv, RequestsMatch
  <2>5. QED  BY <1>0, <2>1, <2>2, <2>3, <2>4
<1>3. QED  BY <1>1, <1>2

\* loadOrGenerateChunk() puts the player into the request for the chunk, which
\* it makes, with a new job, if there is none.
LEMMA Asking ==
    ASSUME TypeOK, JobInv, NEW c \in Chunks, NEW p \in Players,
           NextJob \in JobIds, board[NextJob] = "new",
           LoadOrGenerateChunk(c, p),
           UNCHANGED <<step, ready, sender>>
    PROVE  /\ board' \in [JobIds -> {"new", "queued", "running", "done", "cancelled"}]
           /\ jobChunk' \in [JobIds -> Chunks \cup {None}]
           /\ loading' \in [Chunks -> [id : 0 .. MaxJobs, players : SUBSET Players]]
           /\ \A d \in Chunks : loading'[d].players = loading[d].players \cup (IF d = c THEN {p} ELSE {})
           /\ \A d \in Chunks : loading[d].id # 0 => loading'[d].id = loading[d].id
           /\ JobsMatch' /\ RequestsMatch'
<1> DEFINE n == NextJob
<1> HIDE DEF n
<1>0. /\ board \in [JobIds -> {"new", "queued", "running", "done", "cancelled"}]
      /\ jobChunk \in [JobIds -> Chunks \cup {None}]
      /\ loading \in [Chunks -> [id : 0 .. MaxJobs, players : SUBSET Players]]
      /\ \A d \in Chunks : loading[d].id # 0 => loading[d].id \in JobIds
      /\ n \in JobIds /\ n \in 0 .. MaxJobs /\ n # 0 /\ board[n] = "new"
  BY BoundsAssumption DEF TypeOK, JobIds, n
<1>1. CASE loading[c].id # 0
  <2>1. /\ board' = board /\ jobChunk' = jobChunk
        /\ loading' = [loading EXCEPT ![c].players = @ \cup {p}]
    BY <1>1 DEF LoadOrGenerateChunk
  <2>2. /\ loading' \in [Chunks -> [id : 0 .. MaxJobs, players : SUBSET Players]]
        /\ loading'[c].id = loading[c].id /\ loading'[c].players = loading[c].players \cup {p}
        /\ \A d \in Chunks \ {c} : loading'[d] = loading[d]
    BY <1>0, <2>1
  <2>3. JobsMatch'
    BY <1>0, <2>1, <2>2 DEF JobInv, JobsMatch
  <2>4. RequestsMatch'
    BY <1>0, <1>1, <2>1, <2>2 DEF JobInv, RequestsMatch
  <2>5. QED  BY <1>0, <2>1, <2>2, <2>3, <2>4
<1>2. CASE loading[c].id = 0
  <2>1. /\ loading' = [loading EXCEPT ![c] = [id |-> n, players |-> {p}]]
        /\ board' = [board EXCEPT ![n] = "queued"]
        /\ jobChunk' = [jobChunk EXCEPT ![n] = c]
    BY <1>2 DEF LoadOrGenerateChunk, n
  <2>2. /\ board' \in [JobIds -> {"new", "queued", "running", "done", "cancelled"}]
        /\ \A j \in JobIds : board'[j] = IF j = n THEN "queued" ELSE board[j]
        /\ jobChunk' \in [JobIds -> Chunks \cup {None}]
        /\ \A j \in JobIds : jobChunk'[j] = IF j = n THEN c ELSE jobChunk[j]
    BY <1>0, <2>1
  <2>3. /\ loading' \in [Chunks -> [id : 0 .. MaxJobs, players : SUBSET Players]]
        /\ loading'[c].id = n /\ loading'[c].players = {p}
        /\ \A d \in Chunks \ {c} : loading'[d] = loading[d]
    BY <1>0, <2>1
  <2>4. JobsMatch'
    <3>1. ASSUME NEW j \in JobIds, j # n, board[j] \in {"queued", "running"}
          PROVE  jobChunk[j] \in Chunks \ {c}
      BY <1>0, <1>2, <3>1 DEF JobInv, JobsMatch, JobIds
    <3>2. step[n] = "none"
      BY <1>0 DEF JobInv, JobsMatch, TypeOK
    <3>3. ASSUME NEW j \in JobIds
          PROVE  /\ board'[j] = "running" <=> step'[j] # "none"
                 /\ board'[j] # "new" => jobChunk'[j] \in Chunks
                 /\ step'[j] = "check" => jobChunk'[j] \in ready' \cup Unsteady
                 /\ board'[j] \in {"queued", "running"} => loading'[jobChunk'[j]].id = j
                 /\ board'[j] = "queued" => loading'[jobChunk'[j]].players # {}
      <4>1. CASE j = n
        BY <2>2, <2>3, <3>2, <4>1
      <4>2. CASE j # n
        BY <2>2, <2>3, <3>1, <4>2 DEF JobInv, JobsMatch
      <4>3. QED  BY <4>1, <4>2
    <3>4. QED  BY <3>3 DEF JobsMatch
  <2>5. RequestsMatch'
    <3>1. ASSUME NEW d \in Chunks, loading[d].id # 0
          PROVE  loading[d].id # n /\ loading[d].id \in JobIds
      BY <1>0, <3>1 DEF JobInv, RequestsMatch
    <3>2. QED  BY <1>0, <2>2, <2>3, <3>1 DEF JobInv, RequestsMatch
  <2>6. loading[c].players = {}
    BY <1>2 DEF JobInv, RequestsMatch
  <2>7. QED  BY <1>2, <2>2, <2>3, <2>4, <2>5, <2>6
<1>3. QED  BY <1>1, <1>2

-----------------------------------------------------------------------------
(* Steps of one player's threads outside of the mutex                      *)

\* The step is about p and no other player.
OnlyPlayer(p) ==
    \A q \in Players \ {p} :
        /\ at'[q] = at[q] /\ todo'[q] = todo[q] /\ window'[q] = window[q]
        /\ chunks'[q] = chunks[q] /\ held'[q] = held[q] /\ cli'[q] = cli[q]

\* Such a step only has to keep what the invariant says of p.
LEMMA PrivateStep ==
    ASSUME IInv, NEW p \in Players, OnlyPlayer(p), TypeOK', BoardInv',
           UNCHANGED <<board, jobChunk, step, ready, loading, sender>>,
           ThreadOK(p)',
           \A c \in Chunks : MarkOK(p, c)' /\ WantOK(p, c)' /\ NameOK(p, c)'
    PROVE  IInv'
<1>1. JobInv'
  BY DEF IInv, JobInv, JobsMatch, RequestsMatch, SenderSends, NoSender
<1>2. ASSUME NEW q \in Players, q # p
      PROVE  /\ ThreadOK(q)'
             /\ \A c \in Chunks : MarkOK(q, c)' /\ WantOK(q, c)' /\ NameOK(q, c)'
  <2>1. /\ at'[q] = at[q] /\ todo'[q] = todo[q] /\ window'[q] = window[q]
        /\ chunks'[q] = chunks[q] /\ held'[q] = held[q] /\ cli'[q] = cli[q]
    BY <1>2 DEF OnlyPlayer
  <2>2. ThreadOK(q)'
    BY <2>1 DEF IInv, ThreadInv, ThreadOK, Waiting
  <2>3. ASSUME NEW c \in Chunks
        PROVE  MarkOK(q, c)'
    BY <2>1 DEF IInv, ThreadInv, MarkOK
  <2>4. ASSUME NEW c \in Chunks
        PROVE  WantOK(q, c)'
    BY <2>1 DEF IInv, WantInv, WantOK, Wants, Served
  <2>5. ASSUME NEW c \in Chunks
        PROVE  NameOK(q, c)'
    BY <2>1 DEF IInv, NameInv, NameOK, Served
  <2>6. QED  BY <2>2, <2>3, <2>4, <2>5
<1>3. ThreadInv'
  BY <1>2 DEF ThreadInv
<1>4. WantInv' /\ NameInv'
  BY <1>2 DEF WantInv, NameInv
<1>5. QED  BY <1>1, <1>3, <1>4 DEF IInv

\* What the invariant says of a player and a chunk.
LEMMA AboutPlayer ==
    ASSUME IInv, NEW p \in Players
    PROVE  /\ TypeOK /\ BoardInv /\ JobInv
           /\ ThreadOK(p)
           /\ \A c \in Chunks : MarkOK(p, c) /\ WantOK(p, c) /\ NameOK(p, c)
BY DEF IInv, ThreadInv, WantInv, NameInv

\* Writing one of the two lists of a player.
LEMMA TodoType ==
    ASSUME TypeOK, NEW p \in Players, NEW S \in SUBSET Chunks
    PROVE  /\ [todo EXCEPT ![p].unload = S] \in [Players -> [unload : SUBSET Chunks, load : SUBSET Chunks]]
           /\ [todo EXCEPT ![p].load = S] \in [Players -> [unload : SUBSET Chunks, load : SUBSET Chunks]]
<1> DEFINE A == SUBSET Chunks
           Todo == [unload : A, load : A]
<1>1. S \in A /\ todo \in [Players -> Todo]  BY DEF TypeOK
<1> HIDE DEF A
<1>2. todo[p] \in Todo  BY <1>1
<1>3. /\ [todo[p] EXCEPT !.unload = S] \in Todo
      /\ [todo[p] EXCEPT !.load = S] \in Todo
  BY <1>1, <1>2
<1>4. /\ [todo EXCEPT ![p].unload = S] \in [Players -> Todo]
      /\ [todo EXCEPT ![p].load = S] \in [Players -> Todo]
  BY <1>1, <1>3
<1>5. QED  BY <1>4 DEF A

\* setPosition(): what was marked Loading stays in view or is to be unloaded.
LEMMA MoveStep ==
    ASSUME IInv, NEW p \in Players, NEW v \in Windows[p], Move(p, v)
    PROVE  IInv'
<1>0. TypeOK /\ BoardInv /\ ThreadOK(p) /\ at[p] = Waiting /\ todo[p] = NoTodo
      /\ \A c \in Chunks : MarkOK(p, c) /\ WantOK(p, c) /\ NameOK(p, c)
  BY AboutPlayer DEF Move, Settled, Between, ThreadOK
<1>1. /\ todo'[p] = [unload |-> window[p] \ v, load |-> v \ window[p]]
      /\ window'[p] = v
      /\ UNCHANGED <<board, jobChunk, step, ready, loading, sender, chunks, held, at, cli>>
      /\ OnlyPlayer(p)
  BY <1>0 DEF Move, jobVars, TypeOK, OnlyPlayer
<1>2. TypeOK'
  <2>1. v \in SUBSET Chunks  BY WindowsAssumption
  <2>2. moves[p] + 1 \in 0 .. MaxMoves
    BY <1>0, BoundsAssumption DEF Move, TypeOK
  <2>3. moves' \in [Players -> 0 .. MaxMoves]
    BY <1>0, <2>2 DEF Move, TypeOK
  <2>4. window' \in [Players -> SUBSET Chunks]
    BY <1>0, <2>1 DEF Move, TypeOK
  <2>5. todo' \in [Players -> [unload : SUBSET Chunks, load : SUBSET Chunks]]
    BY <1>0, <2>1 DEF Move, TypeOK
  <2>6. QED  BY <1>0, <1>1, <2>3, <2>4, <2>5 DEF TypeOK
<1>3. BoardInv'
  <2>1. NextJob' = NextJob  BY <1>1 DEF NextJob
  <2>2. QED  BY <1>0, <1>1, <2>1 DEF BoardInv, Move
<1>4. ThreadOK(p)'
  BY <1>0, <1>1 DEF ThreadOK, Waiting
<1>5. ASSUME NEW c \in Chunks
      PROVE  MarkOK(p, c)' /\ WantOK(p, c)' /\ NameOK(p, c)'
  <2>1. MarkOK(p, c)'
    BY <1>0, <1>1 DEF MarkOK, NoTodo, Waiting
  <2>2. WantOK(p, c)'
    BY <1>0, <1>1 DEF WantOK, Wants, Served
  <2>3. NameOK(p, c)'
    BY <1>0, <1>1 DEF NameOK, Served, Move
  <2>4. QED  BY <2>1, <2>2, <2>3
<1>6. QED  BY <1>1, <1>2, <1>3, <1>4, <1>5, PrivateStep

\* _unloadChunk() reads the mark.
LEMMA UnloadReadStep ==
    ASSUME IInv, NEW p \in Players, NEW c \in Chunks, UnloadRead(p, c)
    PROVE  IInv'
<1>0. TypeOK /\ BoardInv /\ ThreadOK(p) /\ at[p] = Waiting
      /\ \A d \in Chunks : MarkOK(p, d) /\ WantOK(p, d) /\ NameOK(p, d)
  BY AboutPlayer DEF UnloadRead, Between, ThreadOK
<1> DEFINE there == CASE chunks[p][c] = "none" -> Waiting
                      [] chunks[p][c] = "Loading" -> [pc |-> "remove", chunk |-> c]
                      [] chunks[p][c] = "Loaded" -> [pc |-> "erase", chunk |-> c]
<1>1. /\ chunks[p][c] \in {"none", "Loading", "Loaded"}
      /\ chunks[p][c] = "none" => there = Waiting
      /\ chunks[p][c] = "Loading" => there = [pc |-> "remove", chunk |-> c]
      /\ chunks[p][c] = "Loaded" => there = [pc |-> "erase", chunk |-> c]
  BY <1>0 DEF TypeOK
<1>2. /\ at' = [at EXCEPT ![p] = there]
      /\ todo' = [todo EXCEPT ![p].unload = @ \ {c}]
      /\ held' = [held EXCEPT ![p] = IF chunks[p][c] = "Loaded" THEN @ \ {c} ELSE @]
      /\ UNCHANGED <<board, jobChunk, step, ready, loading, sender, chunks, window, moves, cli>>
      /\ cli[p] = "connected"
  BY DEF UnloadRead, jobVars, moveVars
<1> HIDE DEF there
<1>3. /\ at'[p] = there
      /\ todo'[p].unload = todo[p].unload \ {c} /\ todo'[p].load = todo[p].load
      /\ held'[p] = IF chunks[p][c] = "Loaded" THEN held[p] \ {c} ELSE held[p]
      /\ OnlyPlayer(p)
  BY <1>0, <1>2 DEF TypeOK, OnlyPlayer
<1>4. TypeOK'
  <2>1. there \in [pc : {"none", "remove", "erase", "deliver", "request", "mark"}, chunk : Chunks \cup {None}]
    BY <1>1 DEF Waiting
  <2>2. at' \in [Players -> [pc : {"none", "remove", "erase", "deliver", "request", "mark"},
                             chunk : Chunks \cup {None}]]
    BY <1>0, <1>2, <2>1 DEF TypeOK
  <2>3. todo' \in [Players -> [unload : SUBSET Chunks, load : SUBSET Chunks]]
    <3>1. todo[p].unload \ {c} \in SUBSET Chunks  BY <1>0 DEF TypeOK
    <3>2. QED  BY <1>0, <1>2, <3>1, TodoType
  <2>4. held' \in [Players -> SUBSET Chunks]
    BY <1>0, <1>2 DEF TypeOK
  <2>5. QED  BY <1>0, <1>2, <2>2, <2>3, <2>4 DEF TypeOK
<1>5. BoardInv'
  BY <1>0, <1>2, <1>3, BoardKept DEF OnlyPlayer
<1>6. ThreadOK(p)'
  BY <1>0, <1>1, <1>2, <1>3 DEF ThreadOK, Waiting
<1>7. ASSUME NEW d \in Chunks
      PROVE  MarkOK(p, d)' /\ WantOK(p, d)' /\ NameOK(p, d)'
  <2>0. at[p].pc = "none" /\ at[p].chunk = None /\ d # None
    BY <1>0, NoneAssumption DEF Waiting
  <2>1. MarkOK(p, d)'
    BY <1>0, <1>1, <1>2, <1>3, <2>0 DEF MarkOK
  <2>2. WantOK(p, d)'
    BY <1>0, <1>1, <1>2, <1>3, <2>0 DEF WantOK, Wants, Served, Waiting
  <2>3. NameOK(p, d)'
    BY <1>0, <1>1, <1>2, <1>3, <2>0 DEF NameOK, Served, Waiting
  <2>4. QED  BY <2>1, <2>2, <2>3
<1>8. QED  BY <1>2, <1>3, <1>4, <1>5, <1>6, <1>7, PrivateStep

\* _chunks.erase(): the player is in the request no more, or it is being served.
LEMMA UnloadEraseStep ==
    ASSUME IInv, NEW p \in Players, UnloadErase(p)
    PROVE  IInv'
<1> DEFINE c == at[p].chunk
<1>0. /\ TypeOK /\ BoardInv /\ ThreadOK(p) /\ at[p].pc = "erase" /\ c \in Chunks /\ cli[p] = "connected"
      /\ \A d \in Chunks : MarkOK(p, d) /\ WantOK(p, d) /\ NameOK(p, d)
  BY AboutPlayer DEF UnloadErase, ThreadOK
<1>1. /\ at'[p] = Waiting
      /\ chunks'[p] = [chunks[p] EXCEPT ![c] = "none"]
      /\ UNCHANGED <<board, jobChunk, step, ready, loading, sender, held, window, moves, todo, cli>>
      /\ OnlyPlayer(p)
  BY <1>0 DEF UnloadErase, jobVars, moveVars, TypeOK, OnlyPlayer
<1>2. TypeOK'
  <2>1. Waiting \in [pc : {"none", "remove", "erase", "deliver", "request", "mark"}, chunk : Chunks \cup {None}]
    BY DEF Waiting
  <2>2. at' \in [Players -> [pc : {"none", "remove", "erase", "deliver", "request", "mark"},
                             chunk : Chunks \cup {None}]]
    BY <1>0, <2>1 DEF TypeOK, UnloadErase
  <2>3. chunks' \in [Players -> [Chunks -> {"none", "Loading", "Loaded"}]]
    BY <1>0 DEF TypeOK, UnloadErase
  <2>4. QED  BY <1>0, <1>1, <2>2, <2>3 DEF TypeOK
<1>3. BoardInv'
  BY <1>0, <1>1, BoardKept
<1>4. ThreadOK(p)'
  BY <1>0, <1>1 DEF ThreadOK, Waiting
<1>5. ASSUME NEW d \in Chunks
      PROVE  MarkOK(p, d)' /\ WantOK(p, d)' /\ NameOK(p, d)'
  <2>0. chunks'[p][d] = IF d = c THEN "none" ELSE chunks[p][d]
    BY <1>0, <1>1 DEF TypeOK
  <2>1. MarkOK(p, d)'
    BY <1>0, <1>1, <2>0 DEF MarkOK, Waiting
  <2>2. WantOK(p, d)'
    BY <1>0, <1>1, <2>0 DEF WantOK, Wants, Served, Waiting
  <2>3. NameOK(p, d)'
    BY <1>0, <1>1, <2>0 DEF NameOK, Served, Waiting
  <2>4. QED  BY <2>1, <2>2, <2>3
<1>6. QED  BY <1>1, <1>2, <1>3, <1>4, <1>5, PrivateStep

\* hasChunkLoaded() for a chunk that came into view.
LEMMA LoadReadStep ==
    ASSUME IInv, NEW p \in Players, NEW c \in Chunks, LoadRead(p, c)
    PROVE  IInv'
<1>0. /\ TypeOK /\ BoardInv /\ ThreadOK(p) /\ at[p] = Waiting /\ cli[p] = "connected"
      /\ \A d \in Chunks : MarkOK(p, d) /\ WantOK(p, d) /\ NameOK(p, d)
  BY AboutPlayer DEF LoadRead, Between, ThreadOK
<1> DEFINE there == [pc |-> IF c \in ready THEN "deliver" ELSE "request", chunk |-> c]
<1>1. there.pc \in {"deliver", "request"} /\ there.chunk = c
  OBVIOUS
<1>2. /\ at' = [at EXCEPT ![p] = there]
      /\ UNCHANGED <<board, jobChunk, step, ready, loading, sender, chunks, held, window, moves, todo, cli>>
      /\ c \in todo[p].load /\ todo[p].unload = {}
  BY DEF LoadRead, jobVars, moveVars
<1>3. TypeOK'
  <2>1. there \in [pc : {"none", "remove", "erase", "deliver", "request", "mark"}, chunk : Chunks \cup {None}]
    OBVIOUS
  <2>2. at' \in [Players -> [pc : {"none", "remove", "erase", "deliver", "request", "mark"},
                             chunk : Chunks \cup {None}]]
    BY <1>0, <1>2, <2>1 DEF TypeOK
  <2>3. QED  BY <1>0, <1>2, <2>2 DEF TypeOK
<1> HIDE DEF there
<1>4. at'[p] = there /\ OnlyPlayer(p)
  BY <1>0, <1>2 DEF TypeOK, OnlyPlayer
<1>5. BoardInv'
  BY <1>0, <1>2, BoardKept
<1>6. ThreadOK(p)'
  BY <1>0, <1>1, <1>2, <1>4 DEF ThreadOK
<1>7. ASSUME NEW d \in Chunks
      PROVE  MarkOK(p, d)' /\ WantOK(p, d)' /\ NameOK(p, d)'
  <2>0. at[p].pc = "none" /\ at[p].chunk = None /\ d # None
    BY <1>0, NoneAssumption DEF Waiting
  <2>1. MarkOK(p, d)'
    BY <1>0, <1>1, <1>2, <1>4, <2>0 DEF MarkOK
  <2>2. WantOK(p, d)'
    BY <1>0, <1>1, <1>2, <1>4, <2>0 DEF WantOK, Wants, Served
  <2>3. NameOK(p, d)'
    BY <1>0, <1>1, <1>2, <1>4, <2>0 DEF NameOK, Served
  <2>4. QED  BY <2>1, <2>2, <2>3
<1>8. QED  BY <1>2, <1>3, <1>4, <1>5, <1>6, <1>7, PrivateStep

\* A loaded chunk is sent at once: it was not marked Loading, so no request for
\* it names the player.
LEMMA DeliverStep ==
    ASSUME IInv, NEW p \in Players, Deliver(p)
    PROVE  IInv'
<1> DEFINE c == at[p].chunk
<1>0. /\ TypeOK /\ BoardInv /\ JobInv /\ ThreadOK(p) /\ at[p].pc = "deliver"
      /\ c \in Chunks /\ cli[p] = "connected" /\ c \in todo[p].load /\ todo[p].unload = {}
      /\ \A d \in Chunks : MarkOK(p, d) /\ WantOK(p, d) /\ NameOK(p, d)
  BY AboutPlayer DEF Deliver, ThreadOK
<1>1. /\ at'[p] = Waiting
      /\ chunks'[p] = [chunks[p] EXCEPT ![c] = "Loaded"]
      /\ held'[p] = held[p] \cup {c}
      /\ todo'[p].unload = todo[p].unload /\ todo'[p].load = todo[p].load \ {c}
      /\ UNCHANGED <<board, jobChunk, step, ready, loading, sender, window, moves, cli>>
      /\ OnlyPlayer(p)
  BY <1>0 DEF Deliver, jobVars, moveVars, TypeOK, OnlyPlayer
<1>2. TypeOK'
  <2>1. Waiting \in [pc : {"none", "remove", "erase", "deliver", "request", "mark"}, chunk : Chunks \cup {None}]
    BY DEF Waiting
  <2>2. at' \in [Players -> [pc : {"none", "remove", "erase", "deliver", "request", "mark"},
                             chunk : Chunks \cup {None}]]
    BY <1>0, <2>1 DEF TypeOK, Deliver
  <2>3. chunks' \in [Players -> [Chunks -> {"none", "Loading", "Loaded"}]]
    BY <1>0 DEF TypeOK, Deliver
  <2>4. held' \in [Players -> SUBSET Chunks]
    BY <1>0 DEF TypeOK, Deliver
  <2>5. todo' \in [Players -> [unload : SUBSET Chunks, load : SUBSET Chunks]]
    <3>1. todo[p].load \ {c} \in SUBSET Chunks  BY <1>0 DEF TypeOK
    <3>2. QED  BY <1>0, <3>1, TodoType DEF Deliver
  <2>6. QED  BY <1>0, <1>1, <2>2, <2>3, <2>4, <2>5 DEF TypeOK
<1>3. BoardInv'
  BY <1>0, <1>1, BoardKept DEF OnlyPlayer
<1>4. ThreadOK(p)'
  BY <1>0, <1>1 DEF ThreadOK, Waiting
<1>5. chunks[p][c] # "Loading"
  BY <1>0 DEF MarkOK
<1>6. p \notin loading[c].players
  <2>1. ~Served(c)
    BY DEF Deliver, LoadingChunksMutexFree, NoSender, Served
  <2>2. QED  BY <1>0, <1>5, <2>1 DEF NameOK
<1>7. ASSUME NEW d \in Chunks
      PROVE  MarkOK(p, d)' /\ WantOK(p, d)' /\ NameOK(p, d)'
  <2>0. chunks'[p][d] = IF d = c THEN "Loaded" ELSE chunks[p][d]
    BY <1>0, <1>1 DEF TypeOK
  <2>1. MarkOK(p, d)'
    BY <1>0, <1>1, <2>0 DEF MarkOK, Waiting
  <2>2. WantOK(p, d)'
    BY <1>0, <1>1, <2>0 DEF WantOK, Wants, Served, Waiting
  <2>3. NameOK(p, d)'
    BY <1>0, <1>1, <1>6, <2>0 DEF NameOK, Served, Waiting
  <2>4. QED  BY <2>1, <2>2, <2>3
<1>8. QED  BY <1>1, <1>2, <1>3, <1>4, <1>7, PrivateStep

\* The mark Loading is set after the mutex was released: the chunk may have
\* arrived in the meantime.
LEMMA MarkLoadingStep ==
    ASSUME IInv, NEW p \in Players, MarkLoading(p)
    PROVE  IInv'
<1> DEFINE c == at[p].chunk
<1>0. /\ TypeOK /\ BoardInv /\ ThreadOK(p) /\ at[p].pc = "mark" /\ c \in Chunks
      /\ cli[p] = "connected" /\ c \in window[p] \ todo[p].load
      /\ \A d \in Chunks : MarkOK(p, d) /\ WantOK(p, d) /\ NameOK(p, d)
  BY AboutPlayer DEF MarkLoading, ThreadOK
<1>1. /\ at'[p] = Waiting
      /\ chunks'[p] = [chunks[p] EXCEPT ![c] = "Loading"]
      /\ UNCHANGED <<board, jobChunk, step, ready, loading, sender, held, window, moves, todo, cli>>
      /\ OnlyPlayer(p)
  BY <1>0 DEF MarkLoading, jobVars, moveVars, TypeOK, OnlyPlayer
<1>2. TypeOK'
  <2>1. Waiting \in [pc : {"none", "remove", "erase", "deliver", "request", "mark"}, chunk : Chunks \cup {None}]
    BY DEF Waiting
  <2>2. at' \in [Players -> [pc : {"none", "remove", "erase", "deliver", "request", "mark"},
                             chunk : Chunks \cup {None}]]
    BY <1>0, <2>1 DEF TypeOK, MarkLoading
  <2>3. chunks' \in [Players -> [Chunks -> {"none", "Loading", "Loaded"}]]
    BY <1>0 DEF TypeOK, MarkLoading
  <2>4. QED  BY <1>0, <1>1, <2>2, <2>3 DEF TypeOK
<1>3. BoardInv'
  BY <1>0, <1>1, BoardKept
<1>4. ThreadOK(p)'
  BY <1>0, <1>1 DEF ThreadOK, Waiting
<1>5. ASSUME NEW d \in Chunks
      PROVE  MarkOK(p, d)' /\ WantOK(p, d)' /\ NameOK(p, d)'
  <2>0. chunks'[p][d] = IF d = c THEN "Loading" ELSE chunks[p][d]
    BY <1>0, <1>1 DEF TypeOK
  <2>1. MarkOK(p, d)'
    BY <1>0, <1>1, <2>0 DEF MarkOK, Waiting
  <2>2. WantOK(p, d)'
    BY <1>0, <1>1, <2>0 DEF WantOK, Wants, Served, Waiting
  <2>3. NameOK(p, d)'
    BY <1>0, <1>1, <2>0 DEF NameOK, Served, Waiting
  <2>4. QED  BY <2>1, <2>2, <2>3
<1>6. QED  BY <1>1, <1>2, <1>3, <1>4, <1>5, PrivateStep

\* The server forgets the client: every request that names the player, and is
\* not being served, is for a chunk marked Loading.
LEMMA DropClientStep ==
    ASSUME IInv, NEW p \in Players, DropClient(p)
    PROVE  IInv'
<1> DEFINE status == IF sender.cur = p THEN "dropped" ELSE "leaving"
           list == IF sender.cur = p THEN {} ELSE {c \in Chunks : chunks[p][c] = "Loading"}
<1>0. /\ TypeOK /\ BoardInv /\ ThreadOK(p) /\ at[p] = Waiting /\ cli[p] = "connected"
      /\ \A d \in Chunks : MarkOK(p, d) /\ WantOK(p, d) /\ NameOK(p, d)
  BY AboutPlayer DEF DropClient, Settled, Between, ThreadOK
<1>1. /\ cli'[p] = status
      /\ todo'[p].unload = list /\ todo'[p].load = todo[p].load
      /\ UNCHANGED <<board, jobChunk, step, ready, loading, sender, chunks, held, window, moves, at>>
      /\ OnlyPlayer(p)
  BY <1>0 DEF DropClient, jobVars, moveVars, TypeOK, OnlyPlayer
<1>2. TypeOK'
  <2>1. cli' \in [Players -> {"connected", "dropped", "leaving", "gone", "relock"}]
    BY <1>0 DEF TypeOK, DropClient
  <2>2. todo' \in [Players -> [unload : SUBSET Chunks, load : SUBSET Chunks]]
    <3>1. list \in SUBSET Chunks  OBVIOUS
    <3>2. todo' = [todo EXCEPT ![p].unload = list]  BY DEF DropClient
    <3> HIDE DEF list
    <3>3. QED  BY <1>0, <3>1, <3>2, TodoType
  <2>3. QED  BY <1>0, <1>1, <2>1, <2>2 DEF TypeOK
<1>3. BoardInv'
  BY <1>0, <1>1, BoardKept DEF OnlyPlayer
<1>4. ThreadOK(p)'
  BY <1>0, <1>1 DEF ThreadOK, Waiting
<1>5. ASSUME NEW d \in Chunks
      PROVE  MarkOK(p, d)' /\ WantOK(p, d)' /\ NameOK(p, d)'
  <2>1. MarkOK(p, d)'
    BY <1>1 DEF MarkOK
  <2>2. WantOK(p, d)'
    BY <1>1 DEF WantOK, Wants
  <2>3. NameOK(p, d)'
    BY <1>0, <1>1 DEF NameOK, Served, Waiting
  <2>4. QED  BY <2>1, <2>2, <2>3
<1>6. QED  BY <1>1, <1>2, <1>3, <1>4, <1>5, PrivateStep

\* ~Client() has gone through its list.
LEMMA GoneStep ==
    ASSUME IInv, NEW p \in Players, Gone(p)
    PROVE  IInv'
<1>0. /\ TypeOK /\ BoardInv /\ ThreadOK(p) /\ cli[p] = "leaving" /\ todo[p].unload = {}
      /\ \A d \in Chunks : MarkOK(p, d) /\ WantOK(p, d) /\ NameOK(p, d)
  BY AboutPlayer DEF Gone
<1>1. /\ cli'[p] = "gone"
      /\ UNCHANGED <<board, jobChunk, step, ready, loading, sender, chunks, held, window, moves, todo, at>>
      /\ OnlyPlayer(p)
  BY <1>0 DEF Gone, jobVars, moveVars, TypeOK, OnlyPlayer
<1>2. TypeOK'
  <2>1. cli' \in [Players -> {"connected", "dropped", "leaving", "gone", "relock"}]
    BY <1>0 DEF TypeOK, Gone
  <2>2. QED  BY <1>0, <1>1, <2>1 DEF TypeOK
<1>3. BoardInv'
  BY <1>0, <1>1, BoardKept
<1>4. ThreadOK(p)'
  BY <1>0, <1>1 DEF ThreadOK, Waiting
<1>5. ASSUME NEW d \in Chunks
      PROVE  MarkOK(p, d)' /\ WantOK(p, d)' /\ NameOK(p, d)'
  BY <1>0, <1>1 DEF MarkOK, WantOK, Wants, NameOK, Served
<1>6. QED  BY <1>1, <1>2, <1>3, <1>4, <1>5, PrivateStep

-----------------------------------------------------------------------------
(* Steps of one player's threads under the mutex                           *)

\* Nobody is being served, and the other players stay in the requests they are
\* in.
LEMMA LockedStep ==
    ASSUME IInv, NEW p \in Players, OnlyPlayer(p), TypeOK', BoardInv',
           LoadingChunksMutexFree, UNCHANGED sender, JobsMatch', RequestsMatch',
           \A q \in Players \ {p}, c \in Chunks : q \in loading'[c].players <=> q \in loading[c].players,
           ThreadOK(p)',
           \A c \in Chunks : MarkOK(p, c)' /\ WantOK(p, c)' /\ NameOK(p, c)'
    PROVE  IInv'
<1>1. JobInv'
  BY DEF LoadingChunksMutexFree, JobInv, SenderSends, NoSender
<1>2. sender.id = 0 /\ sender'.id = 0
  BY DEF LoadingChunksMutexFree, NoSender
<1>3. ASSUME NEW q \in Players, q # p
      PROVE  /\ ThreadOK(q)'
             /\ \A c \in Chunks : MarkOK(q, c)' /\ WantOK(q, c)' /\ NameOK(q, c)'
  <2>1. /\ at'[q] = at[q] /\ todo'[q] = todo[q] /\ window'[q] = window[q]
        /\ chunks'[q] = chunks[q] /\ held'[q] = held[q] /\ cli'[q] = cli[q]
    BY <1>3 DEF OnlyPlayer
  <2>2. ThreadOK(q)'
    BY <2>1 DEF IInv, ThreadInv, ThreadOK, Waiting
  <2>3. ASSUME NEW c \in Chunks
        PROVE  MarkOK(q, c)'
    BY <2>1, ZenonT(40) DEF IInv, ThreadInv, MarkOK
  <2>4. ASSUME NEW c \in Chunks
        PROVE  WantOK(q, c)'
    BY <1>2, <1>3, <2>1 DEF IInv, WantInv, WantOK, Wants, Served
  <2>5. ASSUME NEW c \in Chunks
        PROVE  NameOK(q, c)'
    BY <1>2, <1>3, <2>1 DEF IInv, NameInv, NameOK, Served
  <2>6. QED  BY <2>2, <2>3, <2>4, <2>5
<1>4. ThreadInv'
  BY <1>3 DEF ThreadInv
<1>5. WantInv' /\ NameInv'
  BY <1>3 DEF WantInv, NameInv
<1>6. QED  BY <1>1, <1>4, <1>5 DEF IInv

\* _unloadChunk() of a chunk that was marked Loading.
LEMMA UnloadRemoveStep ==
    ASSUME IInv, NEW p \in Players, UnloadRemove(p)
    PROVE  IInv'
<1> DEFINE c == at[p].chunk
<1>0. /\ TypeOK /\ BoardInv /\ JobInv /\ ThreadOK(p) /\ at[p].pc = "remove"
      /\ c \in Chunks /\ cli[p] = "connected" /\ sender.id = 0
      /\ \A d \in Chunks : MarkOK(p, d) /\ WantOK(p, d) /\ NameOK(p, d)
  BY AboutPlayer DEF UnloadRemove, ThreadOK, LoadingChunksMutexFree, NoSender
<1>1. /\ at'[p].pc = "erase" /\ at'[p].chunk = c
      /\ UNCHANGED <<jobChunk, step, ready, sender, chunks, held, window, moves, todo, cli>>
      /\ OnlyPlayer(p)
  BY <1>0 DEF UnloadRemove, moveVars, TypeOK, OnlyPlayer
<1>2. /\ board' \in [JobIds -> {"new", "queued", "running", "done", "cancelled"}]
      /\ loading' \in [Chunks -> [id : 0 .. MaxJobs, players : SUBSET Players]]
      /\ \A j \in JobIds : board'[j] = "new" <=> board[j] = "new"
      /\ \A d \in Chunks : loading'[d].players = loading[d].players \ (IF d = c THEN {p} ELSE {})
      /\ JobsMatch' /\ RequestsMatch'
  BY <1>0, GivingUp DEF UnloadRemove
<1>3. TypeOK'
  <2>1. at' \in [Players -> [pc : {"none", "remove", "erase", "deliver", "request", "mark"},
                             chunk : Chunks \cup {None}]]
    <3> DEFINE A == {"none", "remove", "erase", "deliver", "request", "mark"}
               B == Chunks \cup {None}
    <3>1. "erase" \in A /\ at \in [Players -> [pc : A, chunk : B]]  BY <1>0 DEF TypeOK
    <3> HIDE DEF A, B
    <3>2. [at EXCEPT ![p].pc = "erase"] \in [Players -> [pc : A, chunk : B]]  BY <3>1
    <3>3. QED  BY <3>2 DEF UnloadRemove, A, B
  <2>2. QED  BY <1>0, <1>1, <1>2, <2>1 DEF TypeOK
<1>4. BoardInv'
  BY <1>0, <1>1, <1>2, BoardKept
<1>5. ThreadOK(p)'
  BY <1>0, <1>1 DEF ThreadOK
<1>6. ASSUME NEW d \in Chunks
      PROVE  MarkOK(p, d)' /\ WantOK(p, d)' /\ NameOK(p, d)'
  <2>0. p \in loading'[d].players <=> p \in loading[d].players /\ d # c
    BY <1>2
  <2>1. MarkOK(p, d)'
    BY <1>0, <1>1 DEF MarkOK
  <2>2. WantOK(p, d)'
    BY <1>0, <1>1, <2>0 DEF WantOK, Wants, Served
  <2>3. NameOK(p, d)'
    BY <1>0, <1>1, <2>0 DEF NameOK, Served
  <2>4. QED  BY <2>1, <2>2, <2>3
<1>7. \A q \in Players \ {p}, d \in Chunks : q \in loading'[d].players <=> q \in loading[d].players
  BY <1>2
<1>8. LoadingChunksMutexFree
  BY DEF UnloadRemove
<1>9. QED  BY <1>1, <1>2, <1>3, <1>4, <1>5, <1>6, <1>7, <1>8, LockedStep

\* ~Client() takes the player out of one request.
LEMMA LeaveRequestStep ==
    ASSUME IInv, NEW p \in Players, NEW c \in Chunks, LeaveRequest(p, c)
    PROVE  IInv'
<1>0. /\ TypeOK /\ BoardInv /\ JobInv /\ ThreadOK(p) /\ cli[p] = "leaving"
      /\ sender.id = 0
      /\ \A d \in Chunks : MarkOK(p, d) /\ WantOK(p, d) /\ NameOK(p, d)
  BY AboutPlayer DEF LeaveRequest, LoadingChunksMutexFree, NoSender
<1>1. /\ todo'[p].unload = todo[p].unload \ {c} /\ todo'[p].load = todo[p].load
      /\ UNCHANGED <<jobChunk, step, ready, sender, chunks, held, window, moves, at, cli>>
      /\ OnlyPlayer(p)
  BY <1>0 DEF LeaveRequest, moveVars, TypeOK, OnlyPlayer
<1>2. /\ board' \in [JobIds -> {"new", "queued", "running", "done", "cancelled"}]
      /\ loading' \in [Chunks -> [id : 0 .. MaxJobs, players : SUBSET Players]]
      /\ \A j \in JobIds : board'[j] = "new" <=> board[j] = "new"
      /\ \A d \in Chunks : loading'[d].players = loading[d].players \ (IF d = c THEN {p} ELSE {})
      /\ JobsMatch' /\ RequestsMatch'
  BY <1>0, GivingUp DEF LeaveRequest
<1>3. TypeOK'
  <2>1. todo' \in [Players -> [unload : SUBSET Chunks, load : SUBSET Chunks]]
    <3>1. todo[p].unload \ {c} \in SUBSET Chunks  BY <1>0 DEF TypeOK
    <3>2. QED  BY <1>0, <3>1, TodoType DEF LeaveRequest
  <2>2. QED  BY <1>0, <1>1, <1>2, <2>1 DEF TypeOK
<1>4. BoardInv'
  BY <1>0, <1>1, <1>2, BoardKept DEF OnlyPlayer
<1>5. ThreadOK(p)'
  BY <1>0, <1>1 DEF ThreadOK, Waiting
<1>6. ASSUME NEW d \in Chunks
      PROVE  MarkOK(p, d)' /\ WantOK(p, d)' /\ NameOK(p, d)'
  <2>0. p \in loading'[d].players <=> p \in loading[d].players /\ d # c
    BY <1>2
  <2>1. MarkOK(p, d)'
    BY <1>0, <1>1 DEF MarkOK
  <2>2. WantOK(p, d)'
    BY <1>0, <1>1 DEF WantOK, Wants
  <2>3. NameOK(p, d)'
    BY <1>0, <1>1, <2>0 DEF NameOK, Served
  <2>4. QED  BY <2>1, <2>2, <2>3
<1>7. \A q \in Players \ {p}, d \in Chunks : q \in loading'[d].players <=> q \in loading[d].players
  BY <1>2
<1>8. LoadingChunksMutexFree
  BY DEF LeaveRequest
<1>9. QED  BY <1>1, <1>2, <1>3, <1>4, <1>5, <1>6, <1>7, <1>8, LockedStep

\* sendChunkAndLightUpdate() asks for a chunk.
LEMMA RequestStep ==
    ASSUME IInv, NEW p \in Players, Request(p)
    PROVE  IInv'
<1> DEFINE c == at[p].chunk
<1>0. /\ TypeOK /\ BoardInv /\ JobInv /\ ThreadOK(p) /\ at[p].pc = "request"
      /\ c \in Chunks /\ cli[p] = "connected" /\ sender.id = 0
      /\ c \in todo[p].load /\ todo[p].unload = {} /\ todo[p].load \subseteq window[p]
      /\ \A d \in Chunks : MarkOK(p, d) /\ WantOK(p, d) /\ NameOK(p, d)
  BY AboutPlayer DEF Request, ThreadOK, LoadingChunksMutexFree, NoSender
<1>1. /\ at'[p].pc = "mark" /\ at'[p].chunk = c
      /\ todo'[p].unload = todo[p].unload /\ todo'[p].load = todo[p].load \ {c}
      /\ UNCHANGED <<step, ready, sender, chunks, held, window, moves, cli>>
      /\ OnlyPlayer(p)
  BY <1>0 DEF Request, moveVars, TypeOK, OnlyPlayer
<1>2. NextJob \in JobIds /\ board[NextJob] = "new"
  BY <1>0, BoardAdds
<1>3. /\ board' \in [JobIds -> {"new", "queued", "running", "done", "cancelled"}]
      /\ jobChunk' \in [JobIds -> Chunks \cup {None}]
      /\ loading' \in [Chunks -> [id : 0 .. MaxJobs, players : SUBSET Players]]
      /\ \A d \in Chunks : loading'[d].players = loading[d].players \cup (IF d = c THEN {p} ELSE {})
      /\ JobsMatch' /\ RequestsMatch'
  BY <1>0, <1>1, <1>2, Asking DEF Request
<1>4. TypeOK'
  <2>1. at' \in [Players -> [pc : {"none", "remove", "erase", "deliver", "request", "mark"},
                             chunk : Chunks \cup {None}]]
    <3> DEFINE A == {"none", "remove", "erase", "deliver", "request", "mark"}
               B == Chunks \cup {None}
    <3>1. "mark" \in A /\ at \in [Players -> [pc : A, chunk : B]]  BY <1>0 DEF TypeOK
    <3> HIDE DEF A, B
    <3>2. [at EXCEPT ![p].pc = "mark"] \in [Players -> [pc : A, chunk : B]]  BY <3>1
    <3>3. QED  BY <3>2 DEF Request, A, B
  <2>2. todo' \in [Players -> [unload : SUBSET Chunks, load : SUBSET Chunks]]
    <3>1. todo[p].load \ {c} \in SUBSET Chunks  BY <1>0 DEF TypeOK
    <3>2. QED  BY <1>0, <3>1, TodoType DEF Request
  <2>3. QED  BY <1>0, <1>1, <1>3, <2>1, <2>2 DEF TypeOK
<1>5. BoardInv'
  <2>1. CASE loading[c].id # 0
    <3>1. board' = board  BY <2>1 DEF Request, LoadOrGenerateChunk
    <3>2. QED  BY <1>0, <1>1, <3>1, BoardKept DEF OnlyPlayer
  <2>2. CASE loading[c].id = 0
    <3>1. /\ board' = [board EXCEPT ![NextJob] = "queued"]
          /\ todo' = [todo EXCEPT ![p].load = @ \ {c}]
      BY <2>2 DEF Request, LoadOrGenerateChunk
    <3>2. QED  BY <1>0, <3>1, BoardAdds
  <2>3. QED  BY <2>1, <2>2
<1>6. ThreadOK(p)'
  BY <1>0, <1>1 DEF ThreadOK
<1>7. ASSUME NEW d \in Chunks
      PROVE  MarkOK(p, d)' /\ WantOK(p, d)' /\ NameOK(p, d)'
  <2>0. p \in loading'[d].players <=> p \in loading[d].players \/ d = c
    BY <1>3
  <2>1. MarkOK(p, d)'
    BY <1>0, <1>1 DEF MarkOK
  <2>2. WantOK(p, d)'
    BY <1>0, <1>1, <2>0 DEF WantOK, Wants, Served
  <2>3. NameOK(p, d)'
    BY <1>0, <1>1, <2>0 DEF NameOK, Served
  <2>4. QED  BY <2>1, <2>2, <2>3
<1>8. \A q \in Players \ {p}, d \in Chunks : q \in loading'[d].players <=> q \in loading[d].players
  BY <1>3
<1>9. LoadingChunksMutexFree
  BY DEF Request
<1>10. QED  BY <1>1, <1>3, <1>4, <1>5, <1>6, <1>7, <1>8, <1>9, LockedStep

-----------------------------------------------------------------------------
(* The workers                                                             *)

\* Until it sends, a worker touches neither players nor requests.
LEMMA WorkerStep ==
    ASSUME IInv, TypeOK', JobInv',
           \A j \in JobIds : board'[j] = "new" <=> board[j] = "new",
           UNCHANGED <<loading, sender, chunks, held, window, todo, at, cli>>
    PROVE  IInv'
<1>1. BoardInv'
  BY BoardKept DEF IInv
<1>2. ThreadInv'
  BY DEF IInv, ThreadInv, ThreadOK, MarkOK, Waiting
<1>3. WantInv'
  BY DEF IInv, WantInv, WantOK, Wants, Served
<1>4. NameInv'
  BY DEF IInv, NameInv, NameOK, Served
<1>5. QED  BY <1>1, <1>2, <1>3, <1>4 DEF IInv

\* A worker takes a job.
LEMMA TakeStep ==
    ASSUME IInv, NEW j \in JobIds, Take(j)
    PROVE  IInv'
<1>0. TypeOK /\ JobInv /\ board[j] = "queued" /\ step[j] = "none"
  BY DEF IInv, Take, JobInv, JobsMatch
<1>1. /\ board' = [board EXCEPT ![j] = "running"] /\ step' = [step EXCEPT ![j] = "generate"]
      /\ UNCHANGED <<jobChunk, ready, loading, sender, chunks, held, window, moves, todo, at, cli>>
  BY DEF Take, moveVars
<1>2. /\ board' \in [JobIds -> {"new", "queued", "running", "done", "cancelled"}]
      /\ step' \in [JobIds -> {"none", "generate", "check", "send"}]
      /\ \A i \in JobIds : /\ board'[i] = IF i = j THEN "running" ELSE board[i]
                           /\ step'[i] = IF i = j THEN "generate" ELSE step[i]
  BY <1>0, <1>1 DEF TypeOK
<1>3. TypeOK'
  BY <1>0, <1>1, <1>2 DEF TypeOK
<1>4. JobsMatch'
  BY <1>0, <1>1, <1>2 DEF JobInv, JobsMatch
<1>5. RequestsMatch'
  <2>1. \A c \in Chunks : loading[c].id # 0 => loading[c].id \in JobIds
    BY <1>0, BoundsAssumption DEF TypeOK, JobIds
  <2>2. QED  BY <1>0, <1>1, <1>2, <2>1 DEF JobInv, RequestsMatch
<1>6. SenderSends'
  <2>1. sender.id # 0 => sender.id \in JobIds /\ sender.id # j
    BY <1>0, BoundsAssumption DEF TypeOK, JobIds, JobInv, SenderSends
  <2>2. QED  BY <1>0, <1>1, <1>2, <2>1 DEF JobInv, SenderSends, NoSender
<1>7. QED  BY <1>0, <1>1, <1>2, <1>3, <1>4, <1>5, <1>6, WorkerStep DEF JobInv

\* generateChunk() returns or throws.
LEMMA GenerateStep ==
    ASSUME IInv, NEW j \in JobIds, Generate(j)
    PROVE  IInv'
<1>0. TypeOK /\ JobInv /\ step[j] = "generate" /\ board[j] = "running" /\ jobChunk[j] \in Chunks
  BY DEF IInv, Generate, JobInv, JobsMatch
<1>1. /\ step' = [step EXCEPT ![j] = "check"]
      /\ ready' = ready \cup ({jobChunk[j]} \ Unsteady)
      /\ UNCHANGED <<board, jobChunk, loading, sender, chunks, held, window, moves, todo, at, cli>>
  BY DEF Generate, moveVars
<1>2. /\ step' \in [JobIds -> {"none", "generate", "check", "send"}]
      /\ \A i \in JobIds : step'[i] = IF i = j THEN "check" ELSE step[i]
  BY <1>0, <1>1 DEF TypeOK
<1>3. TypeOK'
  <2>1. ready' \subseteq Chunks  BY <1>0, <1>1 DEF TypeOK
  <2>2. QED  BY <1>0, <1>1, <1>2, <2>1 DEF TypeOK
<1>4. JobsMatch'
  BY <1>0, <1>1, <1>2 DEF JobInv, JobsMatch
<1>5. RequestsMatch'
  BY <1>0, <1>1 DEF JobInv, RequestsMatch
<1>6. SenderSends'
  <2>1. sender.id # 0 => sender.id \in JobIds /\ sender.id # j
    BY <1>0, BoundsAssumption DEF TypeOK, JobIds, JobInv, SenderSends
  <2>2. QED  BY <1>0, <1>1, <1>2, <2>1 DEF JobInv, SenderSends, NoSender
<1>7. QED  BY <1>0, <1>1, <1>3, <1>4, <1>5, <1>6, WorkerStep DEF JobInv

\* A spawn job changes the state of an unsteady chunk.
LEMMA SpawnStageStep ==
    ASSUME IInv, NEW c \in Chunks, SpawnStage(c)
    PROVE  IInv'
<1>0. TypeOK /\ JobInv  BY DEF IInv
<1>1. /\ ready \ Unsteady = ready' \ Unsteady /\ ready' \subseteq Chunks
      /\ UNCHANGED <<board, jobChunk, step, loading, sender, chunks, held, window, moves, todo, at, cli>>
  BY <1>0 DEF SpawnStage, TypeOK, jobVars, moveVars
<1>2. TypeOK'
  BY <1>0, <1>1 DEF TypeOK
<1>3. JobInv'
  BY <1>0, <1>1 DEF JobInv, JobsMatch, RequestsMatch, SenderSends, NoSender
<1>4. QED  BY <1>1, <1>2, <1>3, WorkerStep

\* Only the job of an unsteady chunk ends here, and leaves its request behind.
LEMMA CheckStep ==
    ASSUME IInv, NEW j \in JobIds, Check(j)
    PROVE  IInv'
<1> DEFINE s == IF jobChunk[j] \in ready THEN "send" ELSE "none"
           b == IF jobChunk[j] \in ready THEN "running" ELSE "done"
<1>0. /\ TypeOK /\ JobInv /\ step[j] = "check" /\ board[j] = "running"
      /\ jobChunk[j] \in Chunks /\ jobChunk[j] \in ready \cup Unsteady
      /\ loading[jobChunk[j]].id = j
  BY DEF IInv, Check, JobInv, JobsMatch
<1>1. /\ board' = [board EXCEPT ![j] = b] /\ step' = [step EXCEPT ![j] = s]
      /\ UNCHANGED <<jobChunk, ready, loading, sender, chunks, held, window, moves, todo, at, cli>>
  BY <1>0 DEF Check, moveVars
<1>2. /\ b \in {"new", "queued", "running", "done", "cancelled"} /\ s \in {"none", "generate", "check", "send"}
      /\ b = "running" <=> s # "none"
      /\ b \in {"running", "done"} /\ s # "check"
      /\ b = "done" => jobChunk[j] \in Unsteady
  BY <1>0
<1> HIDE DEF b, s
<1>3. /\ board' \in [JobIds -> {"new", "queued", "running", "done", "cancelled"}]
      /\ step' \in [JobIds -> {"none", "generate", "check", "send"}]
      /\ \A i \in JobIds : /\ board'[i] = IF i = j THEN b ELSE board[i]
                           /\ step'[i] = IF i = j THEN s ELSE step[i]
  BY <1>0, <1>1, <1>2 DEF TypeOK
<1>4. TypeOK'
  BY <1>0, <1>1, <1>3 DEF TypeOK
<1>5. JobsMatch'
  BY <1>0, <1>1, <1>2, <1>3 DEF JobInv, JobsMatch
<1>6. RequestsMatch'
  <2>1. \A c \in Chunks : loading[c].id # 0 => loading[c].id \in JobIds
    BY <1>0, BoundsAssumption DEF TypeOK, JobIds
  <2>2. QED  BY <1>0, <1>1, <1>2, <1>3, <2>1 DEF JobInv, RequestsMatch
<1>7. SenderSends'
  <2>1. sender.id # 0 => sender.id \in JobIds /\ sender.id # j
    BY <1>0, BoundsAssumption DEF TypeOK, JobIds, JobInv, SenderSends
  <2>2. QED  BY <1>0, <1>1, <1>3, <2>1 DEF JobInv, SenderSends, NoSender
<1>8. QED  BY <1>0, <1>1, <1>2, <1>3, <1>4, <1>5, <1>6, <1>7, WorkerStep DEF JobInv

\* sendChunkToPlayers() begins with everyone in the request still to be served.
LEMMA SendStartStep ==
    ASSUME IInv, NEW j \in JobIds, SendStart(j)
    PROVE  IInv'
<1> DEFINE d == jobChunk[j]
<1>0. /\ TypeOK /\ BoardInv /\ JobInv /\ ThreadInv /\ WantInv /\ NameInv
      /\ step[j] = "send" /\ board[j] = "running" /\ d \in Chunks /\ loading[d].id = j
      /\ sender.id = 0 /\ j # 0
  BY DEF IInv, SendStart, JobInv, JobsMatch, LoadingChunksMutexFree, NoSender, JobIds
<1>1. /\ sender' = [id |-> j, todo |-> loading[d].players, cur |-> None]
      /\ UNCHANGED <<board, jobChunk, step, ready, loading, chunks, held, window, moves, todo, at, cli>>
  BY DEF SendStart, jobVars, moveVars
<1>2. TypeOK'
  <2>1. sender' \in [id : 0 .. MaxJobs, todo : SUBSET Players, cur : Players \cup {None}]
    BY <1>0, <1>1 DEF TypeOK, JobIds
  <2>2. QED  BY <1>0, <1>1, <2>1 DEF TypeOK
<1>3. BoardInv'
  BY <1>0, <1>1, BoardKept
<1>4. JobInv'
  BY <1>0, <1>1 DEF JobInv, JobsMatch, RequestsMatch, SenderSends, NoSender
<1>5. ThreadInv'
  BY <1>0, <1>1 DEF ThreadInv, ThreadOK, MarkOK, Waiting
<1>6. \A c \in Chunks : Served(c)' <=> c = d
  BY <1>0, <1>1 DEF Served, JobInv, RequestsMatch
<1>7. WantInv'
  <2>1. ASSUME NEW p \in Players, NEW c \in Chunks
        PROVE  WantOK(p, c)'
    BY <1>0, <1>1, <1>6 DEF WantInv, WantOK, Wants
  <2>2. QED  BY <2>1 DEF WantInv
<1>8. NameInv'
  <2>1. ASSUME NEW p \in Players, NEW c \in Chunks
        PROVE  NameOK(p, c)'
    BY <1>0, <1>1, <1>6 DEF NameInv, NameOK, Served
  <2>2. QED  BY <2>1 DEF NameInv
<1>9. QED  BY <1>2, <1>3, <1>4, <1>5, <1>7, <1>8 DEF IInv

\* Whoever holds the mutex in sendChunkToPlayers() serves the request for the
\* chunk of its job, and no other.
LEMMA Serving ==
    ASSUME TypeOK, JobInv, sender # NoSender
    PROVE  /\ sender.id \in JobIds /\ sender.id # 0
           /\ step[sender.id] = "send" /\ board[sender.id] = "running"
           /\ jobChunk[sender.id] \in Chunks
           /\ loading[jobChunk[sender.id]].id = sender.id
           /\ \A c \in Chunks : Served(c) <=> c = jobChunk[sender.id]
<1>1. sender.id \in JobIds /\ sender.id # 0 /\ step[sender.id] = "send"
  BY BoundsAssumption DEF TypeOK, JobInv, SenderSends, JobIds
<1>2. board[sender.id] = "running" /\ jobChunk[sender.id] \in Chunks
  BY <1>1 DEF JobInv, JobsMatch
<1>3. loading[jobChunk[sender.id]].id = sender.id
  BY <1>1, <1>2 DEF JobInv, JobsMatch
<1>4. \A c \in Chunks : Served(c) <=> c = jobChunk[sender.id]
  BY <1>1, <1>2, <1>3 DEF JobInv, RequestsMatch, Served
<1>5. QED  BY <1>1, <1>2, <1>3, <1>4

\* The packet with the chunk is sent to one player of the request.
LEMMA SendWriteStep ==
    ASSUME IInv, NEW p \in Players, SendWrite(p)
    PROVE  IInv'
<1> DEFINE d == jobChunk[sender.id]
<1>0. TypeOK /\ BoardInv /\ JobInv /\ ThreadInv /\ WantInv /\ NameInv /\ p \in sender.todo
  BY DEF IInv, SendWrite
<1>1. sender.id # 0 /\ d \in Chunks /\ \A c \in Chunks : Served(c) <=> c = d
  <2>1. sender # NoSender  BY <1>0 DEF NoSender
  <2>2. QED  BY <1>0, <2>1, Serving
<1>2. /\ sender' = [sender EXCEPT !.todo = @ \ {p}, !.cur = p]
      /\ held' = [held EXCEPT ![p] = @ \cup {d}]
      /\ UNCHANGED <<board, jobChunk, step, ready, loading, chunks, window, moves, todo, at, cli>>
  BY DEF SendWrite, jobVars, moveVars
<1>3. sender'.id = sender.id /\ sender'.todo = sender.todo \ {p}
  BY <1>0, <1>2 DEF TypeOK
<1>4. \A q \in Players : held'[q] = IF q = p THEN held[q] \cup {d} ELSE held[q]
  BY <1>0, <1>2 DEF TypeOK
<1>5. TypeOK'
  <2>1. sender' \in [id : 0 .. MaxJobs, todo : SUBSET Players, cur : Players \cup {None}]
    <3> DEFINE A == 0 .. MaxJobs
               B == SUBSET Players
               C == Players \cup {None}
    <3>1. sender \in [id : A, todo : B, cur : C] /\ sender.todo \ {p} \in B /\ p \in C
      BY <1>0 DEF TypeOK
    <3> DEFINE S == sender.todo \ {p}
    <3> HIDE DEF A, B, C, S
    <3>2. [sender EXCEPT !.todo = S] \in [id : A, todo : B, cur : C]
      BY <3>1 DEF S
    <3> DEFINE half == [sender EXCEPT !.todo = S]
    <3> HIDE DEF half
    <3>3. [half EXCEPT !.cur = p] \in [id : A, todo : B, cur : C]
      BY <3>1, <3>2 DEF half
    <3>4. sender' = [half EXCEPT !.cur = p]
      BY <1>2 DEF half, S
    <3>5. QED  BY <3>3, <3>4 DEF A, B, C
  <2>2. held' \in [Players -> SUBSET Chunks]
    BY <1>0, <1>1, <1>2 DEF TypeOK
  <2>3. QED  BY <1>0, <1>2, <2>1, <2>2 DEF TypeOK
<1>6. BoardInv'
  BY <1>0, <1>2, BoardKept
<1>7. JobInv'
  BY <1>0, <1>1, <1>2, <1>3 DEF JobInv, JobsMatch, RequestsMatch, SenderSends
<1>8. ThreadInv'
  BY <1>0, <1>2 DEF ThreadInv, ThreadOK, MarkOK, Waiting
<1>9. \A c \in Chunks : Served(c)' <=> c = d
  BY <1>1, <1>2, <1>3 DEF Served
<1>10. WantInv'
  <2>1. ASSUME NEW q \in Players, NEW c \in Chunks
        PROVE  WantOK(q, c)'
    BY <1>0, <1>1, <1>2, <1>3, <1>4, <1>9 DEF WantInv, WantOK, Wants
  <2>2. QED  BY <2>1 DEF WantInv
<1>11. NameInv'
  BY <1>0, <1>1, <1>2, <1>9 DEF NameInv, NameOK
<1>12. QED  BY <1>5, <1>6, <1>7, <1>8, <1>10, <1>11 DEF IInv

\* A player whose client object is gone is passed over.
LEMMA SendSkipStep ==
    ASSUME IInv, NEW p \in Players, SendSkip(p)
    PROVE  IInv'
<1> DEFINE d == jobChunk[sender.id]
<1>0. /\ TypeOK /\ BoardInv /\ JobInv /\ ThreadInv /\ WantInv /\ NameInv /\ p \in sender.todo
      /\ cli[p] # "connected"
  BY DEF IInv, SendSkip
<1>1. sender.id # 0 /\ d \in Chunks /\ \A c \in Chunks : Served(c) <=> c = d
  <2>1. sender # NoSender  BY <1>0 DEF NoSender
  <2>2. QED  BY <1>0, <2>1, Serving
<1>2. /\ sender' = [sender EXCEPT !.todo = @ \ {p}]
      /\ UNCHANGED <<board, jobChunk, step, ready, loading, chunks, held, window, moves, todo, at, cli>>
  BY DEF SendSkip, jobVars, moveVars
<1>3. sender'.id = sender.id /\ sender'.todo = sender.todo \ {p}
  BY <1>0, <1>2 DEF TypeOK
<1>4. TypeOK'
  <2>1. sender' \in [id : 0 .. MaxJobs, todo : SUBSET Players, cur : Players \cup {None}]
    <3> DEFINE A == 0 .. MaxJobs
               B == SUBSET Players
               C == Players \cup {None}
               S == sender.todo \ {p}
    <3>1. sender \in [id : A, todo : B, cur : C] /\ S \in B
      BY <1>0 DEF TypeOK
    <3> HIDE DEF A, B, C, S
    <3>2. [sender EXCEPT !.todo = S] \in [id : A, todo : B, cur : C]
      BY <3>1
    <3>3. QED  BY <1>2, <3>2 DEF A, B, C, S
  <2>2. QED  BY <1>0, <1>2, <2>1 DEF TypeOK
<1>5. BoardInv'
  BY <1>0, <1>2, BoardKept
<1>6. JobInv'
  BY <1>0, <1>1, <1>2, <1>3 DEF JobInv, JobsMatch, RequestsMatch, SenderSends
<1>7. ThreadInv'
  BY <1>0, <1>2 DEF ThreadInv, ThreadOK, MarkOK, Waiting
<1>8. \A c \in Chunks : Served(c)' <=> c = d
  BY <1>1, <1>2, <1>3 DEF Served
<1>9. WantInv'
  <2>1. ASSUME NEW q \in Players, NEW c \in Chunks
        PROVE  WantOK(q, c)'
    BY <1>0, <1>1, <1>2, <1>3, <1>8 DEF WantInv, WantOK, Wants
  <2>2. QED  BY <2>1 DEF WantInv
<1>10. NameInv'
  BY <1>0, <1>1, <1>2, <1>8 DEF NameInv, NameOK
<1>11. QED  BY <1>4, <1>5, <1>6, <1>7, <1>9, <1>10 DEF IInv

\* The chunk is marked Loaded, and a client whose last reference this was is
\* destroyed: if no chunk of it is left in a request, it is gone.
LEMMA SendMarkStep ==
    ASSUME IInv, NEW p \in Players, SendMark(p)
    PROVE  IInv'
<1> DEFINE d == jobChunk[sender.id]
           marks == [chunks[p] EXCEPT ![d] = "Loaded"]
           relock == \E c \in Chunks : marks[c] = "Loading"
           status == IF cli[p] # "dropped" THEN cli[p] ELSE IF relock THEN "relock" ELSE "gone"
<1>0. TypeOK /\ BoardInv /\ JobInv /\ ThreadInv /\ WantInv /\ NameInv /\ sender.cur = p
  BY DEF IInv, SendMark
<1>1. sender.id # 0 /\ d \in Chunks /\ \A c \in Chunks : Served(c) <=> c = d
  <2>1. sender # NoSender  BY <1>0, NoneAssumption DEF NoSender
  <2>2. QED  BY <1>0, <2>1, Serving
<1>2. /\ chunks' = [chunks EXCEPT ![p] = marks]
      /\ cli' = [cli EXCEPT ![p] = status]
      /\ sender' = sender \/ sender' = [sender EXCEPT !.cur = None]
      /\ UNCHANGED <<board, jobChunk, step, ready, loading, held, window, moves, todo, at>>
  BY DEF SendMark, jobVars, moveVars
<1>3. /\ marks \in [Chunks -> {"none", "Loading", "Loaded"}]
      /\ \A c \in Chunks : marks[c] = IF c = d THEN "Loaded" ELSE chunks[p][c]
  BY <1>0, <1>1 DEF TypeOK
<1>4. /\ status \in {"connected", "dropped", "leaving", "gone", "relock"}
      /\ status # "dropped"
      /\ cli[p] # "dropped" => status = cli[p]
      /\ cli[p] = "dropped" => status = "relock" \/ (status = "gone" /\ \A c \in Chunks : marks[c] # "Loading")
  BY <1>0 DEF TypeOK
<1> HIDE DEF marks, status
<1>5. /\ sender'.id = sender.id /\ sender'.todo = sender.todo
      /\ sender' \in [id : 0 .. MaxJobs, todo : SUBSET Players, cur : Players \cup {None}]
  BY <1>0, <1>2 DEF TypeOK
<1>6. TypeOK'
  <2>1. chunks' \in [Players -> [Chunks -> {"none", "Loading", "Loaded"}]]
    BY <1>0, <1>2, <1>3 DEF TypeOK
  <2>2. cli' \in [Players -> {"connected", "dropped", "leaving", "gone", "relock"}]
    BY <1>0, <1>2, <1>4 DEF TypeOK
  <2>3. QED  BY <1>0, <1>2, <1>5, <2>1, <2>2 DEF TypeOK
<1>7. \A q \in Players : /\ chunks'[q] = IF q = p THEN marks ELSE chunks[q]
                         /\ cli'[q] = IF q = p THEN status ELSE cli[q]
  BY <1>0, <1>2 DEF TypeOK
<1>8. BoardInv'
  BY <1>0, <1>2, BoardKept
<1>9. JobInv'
  BY <1>0, <1>1, <1>2, <1>5 DEF JobInv, JobsMatch, RequestsMatch, SenderSends
<1>10. \A c \in Chunks : Served(c)' <=> c = d
  BY <1>1, <1>2, <1>5 DEF Served
<1>11. ASSUME NEW q \in Players
       PROVE  ThreadOK(q)' /\ \A c \in Chunks : MarkOK(q, c)'
  <2>0. ThreadOK(q) /\ \A c \in Chunks : MarkOK(q, c)
    BY <1>0 DEF ThreadInv
  <2>1. cli'[q] = "connected" <=> cli[q] = "connected"
    BY <1>4, <1>7
  <2>2. \A c \in Chunks : chunks'[q][c] = "Loading" => chunks[q][c] = "Loading"
    BY <1>3, <1>7
  <2>3. ThreadOK(q)'
    BY <1>2, <2>0, <2>1 DEF ThreadOK, Waiting
  <2>4. \A c \in Chunks : MarkOK(q, c)'
    BY <1>2, <2>0, <2>1, <2>2 DEF MarkOK
  <2>5. QED  BY <2>3, <2>4
<1>12. ASSUME NEW q \in Players, NEW c \in Chunks
       PROVE  WantOK(q, c)'
  <2>1. Wants(q, c)' => Wants(q, c)
    BY <1>2, <1>3, <1>4, <1>7 DEF Wants
  <2>2. QED  BY <1>0, <1>1, <1>2, <1>5, <1>10, <2>1 DEF WantInv, WantOK
<1>13. ASSUME NEW q \in Players, NEW c \in Chunks
       PROVE  NameOK(q, c)'
  <2>0. NameOK(q, c) /\ (cli[q] # "connected" => at[q].pc = "none")
    BY <1>0 DEF NameInv, ThreadInv, ThreadOK, Waiting
  <2>1. CASE c = d  BY <1>10, <2>1 DEF NameOK
  <2>2. CASE c # d /\ q # p
    BY <1>1, <1>2, <1>7, <2>0, <2>2 DEF NameOK
  <2>3. CASE c # d /\ q = p
    <3>1. ~Served(c) /\ chunks'[q][c] = chunks[q][c] /\ marks[c] = chunks[q][c]
      BY <1>1, <1>3, <1>7, <2>3
    <3>2. CASE cli[p] # "dropped"
      BY <1>2, <1>4, <1>7, <2>0, <2>3, <3>1, <3>2 DEF NameOK
    <3>3. CASE cli[p] = "dropped"
      BY <1>2, <1>4, <1>7, <2>0, <2>3, <3>1, <3>3 DEF NameOK
    <3>4. QED  BY <3>2, <3>3
  <2>4. QED  BY <2>1, <2>2, <2>3
<1>14. ThreadInv' /\ WantInv' /\ NameInv'
  BY <1>11, <1>12, <1>13 DEF ThreadInv, WantInv, NameInv
<1>15. QED  BY <1>6, <1>8, <1>9, <1>14 DEF IInv

\* Everyone who still waited has been served, so the request may go.
LEMMA SendEndStep ==
    ASSUME IInv, SendEnd
    PROVE  IInv'
<1> DEFINE j == sender.id
           d == jobChunk[j]
<1>0. TypeOK /\ BoardInv /\ JobInv /\ ThreadInv /\ WantInv /\ NameInv /\ sender.todo = {}
  BY DEF IInv, SendEnd
<1>1. /\ j \in JobIds /\ j # 0 /\ step[j] = "send" /\ board[j] = "running"
      /\ d \in Chunks /\ loading[d].id = j
      /\ \A c \in Chunks : Served(c) <=> c = d
  BY <1>0, Serving DEF SendEnd
<1>2. /\ loading' = [loading EXCEPT ![d] = NoRequest]
      /\ step' = [step EXCEPT ![j] = "none"] /\ board' = [board EXCEPT ![j] = "done"]
      /\ sender' = NoSender
      /\ UNCHANGED <<jobChunk, ready, chunks, held, window, moves, todo, at, cli>>
  BY DEF SendEnd, moveVars
<1> HIDE DEF j, d
<1>3. /\ board' \in [JobIds -> {"new", "queued", "running", "done", "cancelled"}]
      /\ step' \in [JobIds -> {"none", "generate", "check", "send"}]
      /\ \A i \in JobIds : /\ board'[i] = IF i = j THEN "done" ELSE board[i]
                           /\ step'[i] = IF i = j THEN "none" ELSE step[i]
  BY <1>0, <1>1, <1>2 DEF TypeOK
<1>4. /\ loading' \in [Chunks -> [id : 0 .. MaxJobs, players : SUBSET Players]]
      /\ loading'[d].id = 0 /\ loading'[d].players = {}
      /\ \A c \in Chunks \ {d} : loading'[c] = loading[c]
  <2>1. NoRequest \in [id : 0 .. MaxJobs, players : SUBSET Players]
    BY BoundsAssumption DEF NoRequest
  <2>2. QED  BY <1>0, <1>1, <1>2, <2>1 DEF TypeOK, NoRequest
<1>5. TypeOK'
  <2>1. NoSender \in [id : 0 .. MaxJobs, todo : SUBSET Players, cur : Players \cup {None}]
    BY BoundsAssumption DEF NoSender
  <2>2. QED  BY <1>0, <1>2, <1>3, <1>4, <2>1 DEF TypeOK
<1>6. BoardInv'
  BY <1>0, <1>1, <1>2, <1>3, BoardKept
<1>7. JobsMatch'
  <2>1. ASSUME NEW i \in JobIds, i # j, board[i] \in {"queued", "running"}
        PROVE  jobChunk[i] \in Chunks \ {d}
    BY <1>0, <1>1, <2>1 DEF JobInv, JobsMatch
  <2>2. ASSUME NEW i \in JobIds
        PROVE  /\ board'[i] = "running" <=> step'[i] # "none"
               /\ board'[i] # "new" => jobChunk'[i] \in Chunks
               /\ step'[i] = "check" => jobChunk'[i] \in ready' \cup Unsteady
               /\ board'[i] \in {"queued", "running"} => loading'[jobChunk'[i]].id = i
               /\ board'[i] = "queued" => loading'[jobChunk'[i]].players # {}
    <3>1. CASE i = j
      BY <1>1, <1>2, <1>3, <3>1 DEF d
    <3>2. CASE i # j
      BY <1>0, <1>2, <1>3, <1>4, <2>1, <3>2 DEF JobInv, JobsMatch
    <3>3. QED  BY <3>1, <3>2
  <2>3. QED  BY <2>2 DEF JobsMatch
<1>8. RequestsMatch'
  <2>1. ASSUME NEW c \in Chunks \ {d}, loading[c].id # 0
        PROVE  loading[c].id \in JobIds /\ loading[c].id # j
    <3>1. loading[c].id \in JobIds
      BY <1>0, <2>1, BoundsAssumption DEF TypeOK, JobIds
    <3>2. jobChunk[loading[c].id] = c
      BY <1>0, <2>1 DEF JobInv, RequestsMatch
    <3>3. QED  BY <2>1, <3>1, <3>2 DEF d
  <2>2. QED  BY <1>0, <1>2, <1>3, <1>4, <2>1 DEF JobInv, RequestsMatch
<1>9. JobInv'
  BY <1>2, <1>7, <1>8 DEF JobInv, SenderSends, NoSender
<1>10. ThreadInv'
  BY <1>0, <1>2 DEF ThreadInv, ThreadOK, MarkOK, Waiting
<1>11. \A c \in Chunks : ~Served(c)'
  BY <1>2 DEF Served, NoSender
<1>12. ASSUME NEW p \in Players, NEW c \in Chunks
       PROVE  WantOK(p, c)' /\ NameOK(p, c)'
  <2>1. WantOK(p, c) /\ NameOK(p, c) /\ (Wants(p, c)' <=> Wants(p, c))
    BY <1>0, <1>2 DEF WantInv, NameInv, Wants
  <2>2. CASE c = d
    BY <1>0, <1>1, <1>2, <1>4, <1>11, <2>1, <2>2 DEF WantOK, NameOK
  <2>3. CASE c # d
    BY <1>1, <1>2, <1>4, <1>11, <2>1, <2>3 DEF WantOK, NameOK
  <2>4. QED  BY <2>2, <2>3
<1>13. WantInv' /\ NameInv'
  BY <1>12 DEF WantInv, NameInv
<1>14. QED  BY <1>5, <1>6, <1>9, <1>10, <1>13 DEF IInv

-----------------------------------------------------------------------------
(* The specification                                                       *)

LEMMA InitInv == Init => IInv
<1> SUFFICES ASSUME Init  PROVE IInv
  OBVIOUS
<1>1. TypeOK
  <2>1. /\ NoRequest \in [id : 0 .. MaxJobs, players : SUBSET Players]
        /\ NoSender \in [id : 0 .. MaxJobs, todo : SUBSET Players, cur : Players \cup {None}]
        /\ NoTodo \in [unload : SUBSET Chunks, load : SUBSET Chunks]
        /\ Waiting \in [pc : {"none", "remove", "erase", "deliver", "request", "mark"},
                        chunk : Chunks \cup {None}]
    BY BoundsAssumption DEF NoRequest, NoSender, NoTodo, Waiting
  <2>2. QED  BY <2>1, BoundsAssumption, SubsetsAssumption DEF Init, TypeOK
<1>2. BoardInv
  <2>1. {j \in JobIds : board[j] # "new"} = {}  BY DEF Init
  <2>2. NextJob = 1  BY <2>1, FS_EmptySet DEF NextJob
  <2>3. PendingLoads = {}  BY DEF Init, PendingLoads, NoTodo
  <2>4. QED  BY <2>2, <2>3, FS_EmptySet, BoundsAssumption DEF Init, BoardInv, JobIds
<1>3. JobInv
  BY DEF Init, JobInv, JobsMatch, RequestsMatch, SenderSends, NoRequest, NoSender
<1>4. ThreadInv
  BY DEF Init, ThreadInv, ThreadOK, MarkOK, Waiting, NoTodo
<1>5. WantInv /\ NameInv
  BY NoneAssumption DEF Init, WantInv, WantOK, Wants, NameInv, NameOK, Waiting, NoRequest
<1>6. QED  BY <1>1, <1>2, <1>3, <1>4, <1>5 DEF IInv

\* Nothing happens.
LEMMA StutterStep ==
    ASSUME IInv, UNCHANGED vars
    PROVE  IInv'
<1>1. UNCHANGED <<board, jobChunk, step, ready, loading, sender, chunks, held, window, todo, at, cli, moves>>
  BY DEF vars
<1>2. TypeOK'
  BY <1>1 DEF IInv, TypeOK
<1>3. JobInv'
  BY <1>1 DEF IInv, JobInv, JobsMatch, RequestsMatch, SenderSends, NoSender
<1>4. QED  BY <1>1, <1>2, <1>3, WorkerStep

LEMMA NextInv == IInv /\ [Next]_vars => IInv'
<1> SUFFICES ASSUME IInv, [Next]_vars  PROVE IInv'
  OBVIOUS
<1>1. ASSUME NEW p \in Players, NEW v \in Windows[p], Move(p, v)
      PROVE  IInv'
  BY <1>1, MoveStep
<1>2. ASSUME NEW p \in Players, PlayerStep(p)
      PROVE  IInv'
  BY <1>2, UnloadReadStep, LoadReadStep, UnloadRemoveStep, UnloadEraseStep, DeliverStep,
     RequestStep, MarkLoadingStep DEF PlayerStep
<1>3. ASSUME NEW j \in JobIds, JobStep(j)
      PROVE  IInv'
  BY <1>3, TakeStep, GenerateStep, CheckStep, SendStartStep DEF JobStep
<1>4. CASE SenderStep
  BY <1>4, SendWriteStep, SendSkipStep, SendMarkStep, SendEndStep DEF SenderStep
<1>5. ASSUME NEW p \in Players, DropClient(p) \/ LeaveStep(p)
      PROVE  IInv'
  BY <1>5, DropClientStep, GoneStep, LeaveRequestStep DEF LeaveStep
<1>6. ASSUME NEW c \in Chunks, SpawnStage(c)
      PROVE  IInv'
  BY <1>6, SpawnStageStep
<1>7. CASE Quiet \/ Relocked \/ UNCHANGED vars
  BY <1>7, StutterStep DEF Quiet, Relocked
<1>8. QED  BY <1>1, <1>2, <1>3, <1>4, <1>5, <1>6, <1>7 DEF Next

LEMMA Invariance == Spec => []IInv
BY InitInv, NextInv, PTL DEF Spec

\* Every variable of the chunk requests keeps its type.
THEOREM TypeCorrect == Spec => []TypeOK
<1>1. IInv => TypeOK  BY DEF IInv
<1>2. QED  BY <1>1, Invariance, PTL

\* Every entry of _loadingChunks for a chunk that is not unsteady stands for a
\* job of that chunk that is queued or running: who joins it will be served.
THEOREM EntryHasJob == Spec => []RequestHasJob
<1>1. IInv => RequestHasJob
  BY DEF IInv, JobInv, RequestsMatch, RequestHasJob
<1>2. QED  BY <1>1, Invariance, PTL

\* A job waits in the pool only for a request with somebody in it.
THEOREM NoIdleJob == Spec => []QueuedJobIsWanted
<1>1. IInv => QueuedJobIsWanted
  BY DEF IInv, JobInv, JobsMatch, QueuedJobIsWanted
<1>2. QED  BY <1>1, Invariance, PTL

\* The requests of players never make two workers generate one chunk at once.
THEOREM RequestedOnce == Spec => []RequestsGenerateOnce
<1>1. IInv => RequestsGenerateOnce
  BY DEF IInv, JobInv, JobsMatch, RequestsGenerateOnce
<1>2. QED  BY <1>1, Invariance, PTL

\* A player whose chunk is marked Loading is in its request or has the chunk,
\* whichever way the client thread and the worker interleave.
THEOREM WaitingIsServed == Spec => []NoLostRequest
<1>1. IInv => NoLostRequest
  BY DEF IInv, WantInv, WantOK, Wants, NoLostRequest
<1>2. QED  BY <1>1, Invariance, PTL

\* Once a client object is gone, no request names its player but the one that
\* is being served.
THEOREM LeftIsForgotten == Spec => []GoneIsForgotten
<1>1. IInv => GoneIsForgotten
  BY DEF IInv, NameInv, NameOK, Served, GoneIsForgotten
<1>2. QED  BY <1>1, Invariance, PTL

-----------------------------------------------------------------------------
(* The pool is used as JobBoard allows                                     *)

\* cancelJob() withdraws one job that nobody has started.
LEMMA GivingUpBoard ==
    ASSUME TypeOK, NEW c \in Chunks, NEW p \in Players, RemovePlayerFromLoadingChunk(c, p)
    PROVE  Board!Next \/ UNCHANGED board
<1> DEFINE id == loading[c].id
<1>1. CASE board' = board
  BY <1>1
<1>2. CASE id # 0 /\ board[id] = "queued" /\ board' = [board EXCEPT ![id] = "cancelled"]
  <2>1. id \in JobIds
    BY <1>2, BoundsAssumption DEF TypeOK, JobIds
  <2>2. board' = [j \in Board!JobIds |-> IF j \in {id} THEN "cancelled" ELSE board[j]]
    BY <1>2, <2>1 DEF TypeOK, JobIds, Board!JobIds
  <2>3. Board!Withdraw({id})
    BY <1>2, <2>2 DEF Board!Withdraw
  <2>4. {id} \in SUBSET Board!JobIds
    BY <2>1 DEF JobIds, Board!JobIds
  <2>5. QED  BY <2>3, <2>4 DEF Board!Next
<1>3. QED  BY <1>1, <1>2 DEF RemovePlayerFromLoadingChunk

\* addJob() submits the next job.
LEMMA AskingBoard ==
    ASSUME TypeOK, BoardInv, NEW c \in Chunks, NEW p \in Players,
           NextJob \in JobIds, board[NextJob] = "new", LoadOrGenerateChunk(c, p)
    PROVE  Board!Next \/ UNCHANGED board
<1>1. CASE loading[c].id # 0
  BY <1>1 DEF LoadOrGenerateChunk
<1>2. CASE loading[c].id = 0
  <2>1. board' = [board EXCEPT ![NextJob] = "queued"]
    BY <1>2 DEF LoadOrGenerateChunk
  <2>2. \A i \in 1 .. (NextJob - 1) : board[i] # "new"
    <3>1. ASSUME NEW i \in 1 .. (NextJob - 1)
          PROVE  i \in JobIds /\ i < NextJob
      BY BoundsAssumption DEF JobIds
    <3>2. QED  BY <3>1 DEF BoardInv
  <2>3. Board!Submit(NextJob)
    BY <2>1, <2>2 DEF Board!Submit
  <2>4. QED  BY <2>3 DEF Board!Next, JobIds, Board!JobIds
<1>3. QED  BY <1>1, <1>2

\* Every step of the dimension is a step of the board or none.
LEMMA BoardStep ==
    ASSUME IInv, [Next]_vars
    PROVE  Board!Next \/ UNCHANGED board
<1>0. TypeOK /\ BoardInv /\ JobInv  BY DEF IInv
<1>1. ASSUME NEW p \in Players, NEW v \in Windows[p], Move(p, v)
      PROVE  UNCHANGED board
  BY <1>1 DEF Move, jobVars
<1>2. ASSUME NEW p \in Players, PlayerStep(p)
      PROVE  Board!Next \/ UNCHANGED board
  <2>0. ThreadOK(p)  BY AboutPlayer
  <2>1. CASE UnloadRemove(p)
    <3>1. at[p].chunk \in Chunks  BY <2>0, <2>1 DEF ThreadOK, UnloadRemove
    <3>2. QED  BY <1>0, <2>1, <3>1, GivingUpBoard DEF UnloadRemove
  <2>2. CASE Request(p)
    <3>1. at[p].chunk \in Chunks /\ at[p].chunk \in todo[p].load
      BY <2>0, <2>2 DEF ThreadOK, Request
    <3>2. NextJob \in JobIds /\ board[NextJob] = "new"
      BY <1>0, <3>1, BoardAdds
    <3>3. QED  BY <1>0, <2>2, <3>1, <3>2, AskingBoard DEF Request
  <2>3. CASE UnloadErase(p) \/ Deliver(p) \/ MarkLoading(p) \/ \E c \in Chunks : UnloadRead(p, c) \/ LoadRead(p, c)
    BY <2>3 DEF UnloadErase, Deliver, MarkLoading, UnloadRead, LoadRead, jobVars
  <2>4. QED  BY <1>2, <2>1, <2>2, <2>3 DEF PlayerStep
<1>3. ASSUME NEW j \in JobIds, JobStep(j)
      PROVE  Board!Next \/ UNCHANGED board
  <2>0. j \in Board!JobIds  BY DEF JobIds, Board!JobIds
  <2>1. CASE Take(j)
    <3>1. Board!Take(j)  BY <2>1 DEF Take, Board!Take
    <3>2. QED  BY <2>0, <3>1 DEF Board!Next
  <2>2. CASE Check(j)
    <3>1. board[j] = "running"
      BY <1>0, <2>2 DEF Check, JobInv, JobsMatch
    <3>2. CASE jobChunk[j] \in ready
      BY <1>0, <2>2, <3>2 DEF Check, TypeOK
    <3>3. CASE jobChunk[j] \notin ready
      <4>1. Board!Finish(j)  BY <2>2, <3>1, <3>3 DEF Check, Board!Finish
      <4>2. QED  BY <2>0, <4>1 DEF Board!Next
    <3>4. QED  BY <3>2, <3>3
  <2>3. CASE Generate(j) \/ SendStart(j)
    BY <2>3 DEF Generate, SendStart, jobVars
  <2>4. QED  BY <1>3, <2>1, <2>2, <2>3 DEF JobStep
<1>4. CASE SenderStep
  <2>1. CASE SendEnd
    <3>1. sender.id \in JobIds /\ board[sender.id] = "running"
      BY <1>0, <2>1, Serving DEF SendEnd
    <3>2. Board!Finish(sender.id)
      BY <2>1, <3>1 DEF SendEnd, Board!Finish
    <3>3. sender.id \in Board!JobIds  BY <3>1 DEF JobIds, Board!JobIds
    <3>4. QED  BY <3>2, <3>3 DEF Board!Next
  <2>2. CASE \E p \in Players : SendWrite(p) \/ SendSkip(p) \/ SendMark(p)
    BY <2>2 DEF SendWrite, SendSkip, SendMark, jobVars
  <2>3. QED  BY <1>4, <2>1, <2>2 DEF SenderStep
<1>5. ASSUME NEW p \in Players, DropClient(p) \/ LeaveStep(p)
      PROVE  Board!Next \/ UNCHANGED board
  <2>1. ASSUME NEW c \in Chunks, LeaveRequest(p, c)
        PROVE  Board!Next \/ UNCHANGED board
    BY <1>0, <2>1, GivingUpBoard DEF LeaveRequest
  <2>2. CASE DropClient(p) \/ Gone(p)
    BY <2>2 DEF DropClient, Gone, jobVars
  <2>3. QED  BY <1>5, <2>1, <2>2 DEF LeaveStep
<1>6. CASE Quiet \/ Relocked \/ UNCHANGED vars \/ \E c \in Chunks : SpawnStage(c)
  BY <1>6 DEF Quiet, Relocked, SpawnStage, jobVars, vars
<1>7. QED  BY <1>1, <1>2, <1>3, <1>4, <1>5, <1>6 DEF Next

\* The dimension uses the generation pool as its abstract specification allows:
\* it submits jobs in order and withdraws only what waits, and its workers run
\* each job they take to its end.
THEOREM BoardIsUsed == Spec => UsesBoard
<1>1. Init => Board!Init
  BY DEF Init, Board!Init, JobIds, Board!JobIds
<1>2. IInv /\ [Next]_vars => [Board!Next]_(Board!vars)
  BY BoardStep DEF Board!vars
<1>3. QED  BY <1>1, <1>2, Invariance, PTL DEF Spec, UsesBoard, Board!SafeSpec
=============================================================================
