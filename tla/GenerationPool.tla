--------------------------- MODULE GenerationPool ---------------------------
(***************************************************************************)
(* thread_pool::PriorityThreadPool as World uses it to generate chunks:    *)
(* the job queue, the hand-written Semaphore that counts its entries, the  *)
(* ReverseSemaphore ("library") that counts running jobs, the worker       *)
(* threads, and the threads that call into the pool:                       *)
(*                                                                         *)
(*  - Main, which runs Overworld::initialize() (one job per spawn chunk),  *)
(*    then World::stop() and at last ~PriorityThreadPool();                *)
(*  - the std::async task of Overworld::initialize() that waits for the    *)
(*    spawn jobs and then declares the dimension initialized;              *)
(*  - Callers, the client threads, which add and cancel one job at a time  *)
(*    while they hold Dimension::_loadingChunksMutex.                      *)
(*                                                                         *)
(* Jobs are pushed under queueProtection with increasing ids, so the deque *)
(* is a set of ids in increasing order.  Spawn jobs (ids up to NbSpawn)    *)
(* have the constant priority 0; the priority of the others is the         *)
(* distance to the nearest player, read anew at every comparison.          *)
(***************************************************************************)
EXTENDS Integers, FiniteSets

CONSTANTS
    Workers,          \* num-gen-thread worker threads
    Callers,          \* client threads whose player moves
    Main,             \* the thread that initializes and stops the world
    NbSpawn,          \* jobs Overworld::initialize() adds
    MaxJobs           \* bound on totalJobsPushed

ASSUME WorkersAssumption == IsFiniteSet(Workers) /\ Workers # {}
ASSUME MainAssumption == Main \notin Callers
ASSUME JobsAssumption == NbSpawn \in Nat /\ MaxJobs \in Nat /\ NbSpawn <= MaxJobs

VARIABLES
    jobQueue,         \* ids in the deque, in increasing order
    totalJobsPushed,
    counter,          \* jobSemaphore._counter
    books,            \* library._books; library._notifier is books = 0
    stayAlive,
    pc,               \* worker -> where it is in its loop
    job,              \* worker -> the id it runs, 0 for none
    call,             \* Main and client threads -> step of the pool call
    main,             \* progress of Main
    waiter,           \* progress of the async task
    finished,         \* ids whose function has returned
    cancelled         \* ids erased by cancelJob() or cancelAll()

vars == <<jobQueue, totalJobsPushed, counter, books, stayAlive, pc, job, call,
          main, waiter, finished, cancelled>>

JobIds == 1 .. MaxJobs
Threads == Callers \cup {Main}

(***************************************************************************)
(* A pool call in progress: its next step on the Semaphore and the amount. *)
(*   "release"  the job is pushed, jobSemaphore.release(n) is still to come*)
(*   "erased"   jobs are erased, jobSemaphore.increment(n) is to come      *)
(*   "subtract" increment() has read _counter > n                          *)
(*   "reset"    increment() has read _counter <= n                         *)
(***************************************************************************)
Idle == [op |-> "none", n |-> 0]

\* cancelJob() and cancelAll() keep queueProtection until increment() is done.
QueueProtectionFree == \A t \in Threads : call[t].op \in {"none", "release"}

\* increment() keeps _counterMutex from its test to its write.
CounterMutexFree == \A t \in Threads : call[t].op \notin {"subtract", "reset"}

\* Variant: loadOrGenerateChunk() without its lock_guard.
UnlockedLoadingChunks == TRUE

\* Held by loadOrGenerateChunk() and removePlayerFromLoadingChunk() throughout.
LoadingChunksMutexFree == \A c \in Callers : call[c].op = "none"

Init ==
    /\ jobQueue = {}
    /\ totalJobsPushed = 0
    /\ counter = 0
    /\ books = 0
    /\ stayAlive = TRUE
    /\ pc = [w \in Workers |-> "loop"]
    /\ job = [w \in Workers |-> 0]
    /\ call = [t \in Threads |-> Idle]
    /\ main = "initialize"
    /\ waiter = "none"
    /\ finished = {}
    /\ cancelled = {}

-----------------------------------------------------------------------------
(* Calls into the pool                                                     *)

\* addJob(), first half: take the next id and push, under queueProtection.
PushJob(t) ==
    /\ call[t].op = "none"
    /\ QueueProtectionFree
    /\ totalJobsPushed' = totalJobsPushed + 1
    /\ jobQueue' = jobQueue \cup {totalJobsPushed + 1}
    /\ call' = [call EXCEPT ![t] = [op |-> "release", n |-> 1]]
    /\ UNCHANGED <<counter, books, stayAlive, pc, job, main, waiter, finished, cancelled>>

\* Semaphore::release(): a bare atomic addition, without _counterMutex.
Release(t) ==
    /\ call[t].op = "release"
    /\ counter' = counter + call[t].n
    /\ call' = [call EXCEPT ![t] = Idle]
    /\ UNCHANGED <<jobQueue, totalJobsPushed, books, stayAlive, pc, job, main, waiter,
                   finished, cancelled>>

\* loadOrGenerateChunk() of a chunk nobody is loading yet.  Clients are let in
\* once the dimension is initialized and are joined before the world stops.
AddJob(c) ==
    /\ main = "serve"
    /\ waiter = "done"
    /\ LoadingChunksMutexFree
    /\ totalJobsPushed < MaxJobs
    /\ PushJob(c)

\* cancelJob() of a job that is still queued, by removePlayerFromLoadingChunk().
\* For any other id the function returns false and changes nothing.
CancelJob(c, id) ==
    /\ main = "serve"
    /\ waiter = "done"
    /\ LoadingChunksMutexFree
    /\ QueueProtectionFree
    /\ id \in jobQueue
    /\ id > NbSpawn             \* only ids that loadOrGenerateChunk() stored
    /\ jobQueue' = jobQueue \ {id}
    /\ cancelled' = cancelled \cup {id}
    /\ call' = [call EXCEPT ![c] = [op |-> "erased", n |-> 1]]
    /\ UNCHANGED <<totalJobsPushed, counter, books, stayAlive, pc, job, main, waiter, finished>>

\* Semaphore::increment(), which takes permits away: the test ...
IncrementTest(t) ==
    /\ call[t].op = "erased"
    /\ CounterMutexFree
    /\ call' = [call EXCEPT ![t].op = IF counter > call[t].n THEN "subtract" ELSE "reset"]
    /\ UNCHANGED <<jobQueue, totalJobsPushed, counter, books, stayAlive, pc, job, main, waiter,
                   finished, cancelled>>

\* ... and the write.
IncrementWrite(t) ==
    /\ call[t].op \in {"subtract", "reset"}
    /\ counter' = IF call[t].op = "subtract" THEN counter - call[t].n ELSE 0
    /\ call' = [call EXCEPT ![t] = Idle]
    /\ UNCHANGED <<jobQueue, totalJobsPushed, books, stayAlive, pc, job, main, waiter,
                   finished, cancelled>>

-----------------------------------------------------------------------------
(* The life of the world                                                   *)

\* The loop of Overworld::initialize().
AddSpawnJob ==
    /\ main = "initialize"
    /\ totalJobsPushed < NbSpawn
    /\ PushJob(Main)

\* All spawn jobs are in; the task that waits for them is started.
StartWaiter ==
    /\ main = "initialize"
    /\ totalJobsPushed = NbSpawn
    /\ call[Main].op = "none"
    /\ main' = "serve"
    /\ waiter' = "library"
    /\ UNCHANGED <<jobQueue, totalJobsPushed, counter, books, stayAlive, pc, job, call,
                   finished, cancelled>>

\* waitUntilJobsDone(): library.wait() returns once _books is 0 ...
WaiterSeesNoBook ==
    /\ waiter = "library"
    /\ books = 0
    /\ waiter' = "counter"
    /\ UNCHANGED <<jobQueue, totalJobsPushed, counter, books, stayAlive, pc, job, call, main,
                   finished, cancelled>>

\* ... and the loop ends if the semaphore is 0 too; _isInitialized becomes true.
WaiterReadsCounter ==
    /\ waiter = "counter"
    /\ waiter' = IF counter = 0 THEN "done" ELSE "library"
    /\ UNCHANGED <<jobQueue, totalJobsPushed, counter, books, stayAlive, pc, job, call, main,
                   finished, cancelled>>

\* World::stop(): cancelAll() once every client thread has been joined.
CancelAll ==
    /\ main = "serve"
    /\ LoadingChunksMutexFree
    /\ QueueProtectionFree
    /\ main' = "library"
    /\ jobQueue' = {}
    /\ cancelled' = cancelled \cup jobQueue
    /\ call' = [call EXCEPT ![Main] = [op |-> "erased", n |-> Cardinality(jobQueue)]]
    /\ UNCHANGED <<totalJobsPushed, counter, books, stayAlive, pc, job, waiter, finished>>

\* Variant: World::stop() polls the semaphore only.
StopSkipsLibrary ==
    /\ main = "library"
    /\ call[Main].op = "none"
    /\ main' = "counter"
    /\ UNCHANGED <<jobQueue, totalJobsPushed, counter, books, stayAlive, pc, job, call, waiter,
                   finished, cancelled>>

\* World::stop(): waitUntilJobsDone(), the same two steps as above.
StopSeesNoBook ==
    /\ main = "library"
    /\ call[Main].op = "none"
    /\ books = 0
    /\ main' = "counter"
    /\ UNCHANGED <<jobQueue, totalJobsPushed, counter, books, stayAlive, pc, job, call, waiter,
                   finished, cancelled>>

StopReadsCounter ==
    /\ main = "counter"
    /\ main' = IF counter = 0 THEN "clear" ELSE "library"
    /\ UNCHANGED <<jobQueue, totalJobsPushed, counter, books, stayAlive, pc, job, call, waiter,
                   finished, cancelled>>

\* Overworld::stop(): the level is cleared, then the async task is awaited.
StopDimensions ==
    /\ main = "clear"
    /\ waiter = "done"
    /\ main' = "destroy"
    /\ UNCHANGED <<jobQueue, totalJobsPushed, counter, books, stayAlive, pc, job, call, waiter,
                   finished, cancelled>>

\* Variant: the destructor wakes one worker only.
DestroyPoolWakesOne ==
    /\ main = "destroy"
    /\ stayAlive' = FALSE
    /\ call' = [call EXCEPT ![Main] = [op |-> "release", n |-> 1]]
    /\ main' = "join"
    /\ UNCHANGED <<jobQueue, totalJobsPushed, counter, books, pc, job, waiter, finished, cancelled>>

\* ~PriorityThreadPool(): no worker may loop again, and each is woken up.
DestroyPool ==
    /\ main = "destroy"
    /\ stayAlive' = FALSE
    /\ call' = [call EXCEPT ![Main] = [op |-> "release", n |-> Cardinality(Workers)]]
    /\ main' = "join"
    /\ UNCHANGED <<jobQueue, totalJobsPushed, counter, books, pc, job, waiter, finished, cancelled>>

\* The worker list is destroyed, which joins every std::jthread.
JoinWorkers ==
    /\ main = "join"
    /\ call[Main].op = "none"
    /\ \A w \in Workers : pc[w] = "dead"
    /\ main' = "gone"
    /\ UNCHANGED <<jobQueue, totalJobsPushed, counter, books, stayAlive, pc, job, call, waiter,
                   finished, cancelled>>

-----------------------------------------------------------------------------
(* The workers                                                             *)

\* while (stayAlive) doJob();
WorkerLoop(w) ==
    /\ pc[w] = "loop"
    /\ pc' = [pc EXCEPT ![w] = IF stayAlive THEN "acquire" ELSE "dead"]
    /\ UNCHANGED <<jobQueue, totalJobsPushed, counter, books, stayAlive, job, call, main, waiter,
                   finished, cancelled>>

\* Semaphore::acquire(): wait until _counter is not 0, take one permit.
Acquire(w) ==
    /\ pc[w] = "acquire"
    /\ CounterMutexFree
    /\ counter >= 1
    /\ counter' = counter - 1
    /\ pc' = [pc EXCEPT ![w] = "permit"]
    /\ UNCHANGED <<jobQueue, totalJobsPushed, books, stayAlive, job, call, main, waiter,
                   finished, cancelled>>

\* The entries the scan of doJob() can end on: nothing is less than a spawn
\* job's 0, so a spawn job at the front stays; distances change between two
\* comparisons, so without one any entry can be the last that was less.
Selectable ==
    LET spawn == {id \in jobQueue : id <= NbSpawn}
    IN  IF spawn # {} THEN {id \in spawn : \A i \in spawn : id <= i} ELSE jobQueue

\* doJob() under queueProtection: nothing to do, or nothing to do any more.
GiveUp(w) ==
    /\ pc[w] = "permit"
    /\ QueueProtectionFree
    /\ ~stayAlive \/ jobQueue = {}
    /\ pc' = [pc EXCEPT ![w] = "loop"]
    /\ UNCHANGED <<jobQueue, totalJobsPushed, counter, books, stayAlive, job, call, main, waiter,
                   finished, cancelled>>

\* Variant: doJob() without library.increment().
TakeJobUnbooked(w, id) ==
    /\ pc[w] = "permit"
    /\ QueueProtectionFree
    /\ stayAlive
    /\ id \in Selectable
    /\ jobQueue' = jobQueue \ {id}
    /\ job' = [job EXCEPT ![w] = id]
    /\ pc' = [pc EXCEPT ![w] = "run"]
    /\ UNCHANGED <<totalJobsPushed, counter, books, stayAlive, call, main, waiter, finished, cancelled>>

\* Variant: doJob() copies the job and does not erase it.
TakeJobKeepsEntry(w, id) ==
    /\ pc[w] = "permit"
    /\ QueueProtectionFree
    /\ stayAlive
    /\ id \in Selectable
    /\ books' = books + 1
    /\ job' = [job EXCEPT ![w] = id]
    /\ pc' = [pc EXCEPT ![w] = "run"]
    /\ UNCHANGED <<jobQueue, totalJobsPushed, counter, stayAlive, call, main, waiter, finished, cancelled>>

\* doJob() under queueProtection: enter the book, take the job out.
TakeJob(w, id) ==
    /\ pc[w] = "permit"
    /\ QueueProtectionFree
    /\ stayAlive
    /\ id \in Selectable
    /\ books' = books + 1
    /\ jobQueue' = jobQueue \ {id}
    /\ job' = [job EXCEPT ![w] = id]
    /\ pc' = [pc EXCEPT ![w] = "run"]
    /\ UNCHANGED <<totalJobsPushed, counter, stayAlive, call, main, waiter, finished, cancelled>>

\* The job has returned or thrown; library.decrement().
FinishJob(w) ==
    /\ pc[w] = "run"
    /\ finished' = finished \cup {job[w]}
    /\ books' = books - 1
    /\ job' = [job EXCEPT ![w] = 0]
    /\ pc' = [pc EXCEPT ![w] = "loop"]
    /\ UNCHANGED <<jobQueue, totalJobsPushed, counter, stayAlive, call, main, waiter, cancelled>>

-----------------------------------------------------------------------------

CallerStep(c) == AddJob(c) \/ \E id \in jobQueue : CancelJob(c, id)

SemaphoreStep(t) == Release(t) \/ IncrementTest(t) \/ IncrementWrite(t)

WaiterStep == WaiterSeesNoBook \/ WaiterReadsCounter

StopStep == StopSeesNoBook \/ StopReadsCounter \/ StopDimensions \/ DestroyPool \/ JoinWorkers

WorkerStep(w) ==
    \/ WorkerLoop(w)
    \/ Acquire(w)
    \/ GiveUp(w)
    \/ \E id \in jobQueue : TakeJob(w, id)
    \/ FinishJob(w)

\* The process has left World and its pool behind.
Terminated == main = "gone" /\ UNCHANGED vars

Next ==
    \/ \E c \in Callers : CallerStep(c)
    \/ \E t \in Threads : SemaphoreStep(t)
    \/ AddSpawnJob
    \/ StartWaiter
    \/ WaiterStep
    \/ CancelAll
    \/ StopStep
    \/ \E w \in Workers : WorkerStep(w)
    \/ Terminated

(***************************************************************************)
(* Every thread that is not blocked is scheduled and every job returns.    *)
(* Nothing obliges a player to move or an operator to stop the server:     *)
(* CallerStep and CancelAll have no fairness.                              *)
(***************************************************************************)
Fairness ==
    /\ \A t \in Threads : WF_vars(SemaphoreStep(t))
    /\ WF_vars(AddSpawnJob)
    /\ WF_vars(StartWaiter)
    /\ WF_vars(WaiterStep)
    /\ WF_vars(StopStep)
    /\ \A w \in Workers : WF_vars(WorkerStep(w))

Spec == Init /\ [][Next]_vars /\ Fairness

-----------------------------------------------------------------------------
(* Properties                                                              *)

\* Every variable of the pool has its type.
TypeOK ==
    /\ jobQueue \subseteq JobIds
    /\ totalJobsPushed \in 0 .. MaxJobs
    /\ counter \in Nat
    /\ books \in Int
    /\ stayAlive \in BOOLEAN
    /\ pc \in [Workers -> {"loop", "acquire", "permit", "run", "dead"}]
    /\ job \in [Workers -> 0 .. MaxJobs]
    /\ call \in [Threads -> [op : {"none", "release", "erased", "subtract", "reset"}, n : Nat]]
    /\ main \in {"initialize", "serve", "library", "counter", "clear", "destroy", "join", "gone"}
    /\ waiter \in {"none", "library", "counter", "done"}
    /\ finished \subseteq JobIds
    /\ cancelled \subseteq JobIds

\* Workers that hold a permit and have not looked at the queue yet.
PermitHolders == {w \in Workers : pc[w] = "permit"}

\* Threads that have pushed a job and not released the semaphore yet.
Releasing == {t \in Threads : call[t].op = "release"}

\* No job is stranded: for each queued job there is a permit in the semaphore,
\* in the hands of a worker that is about to look at the queue, or about to be
\* released.  increment() tests and writes _counter while release() adds to it
\* without the mutex; only _loadingChunksMutex keeps the two apart.
NoStrandedJob ==
    Cardinality(jobQueue) <= counter + Cardinality(PermitHolders) + Cardinality(Releasing)

\* When World::stop() has come back from waitUntilJobsDone() and clears the
\* levels, no job is queued and no worker is inside one, although library and
\* jobSemaphore are read one after the other and not together.
StopIsQuiescent ==
    main \in {"clear", "destroy", "join", "gone"} =>
        /\ jobQueue = {}
        /\ \A w \in Workers : pc[w] # "run"

\* A job is in one place: queued, in one worker, cancelled or finished.  A
\* cancelJob() that returned true is never followed by a run of that job.
OneOwner ==
    /\ jobQueue \cap (finished \cup cancelled) = {}
    /\ finished \cap cancelled = {}
    /\ \A w \in Workers : pc[w] = "run" => job[w] \notin jobQueue \cup finished \cup cancelled
    /\ \A v, w \in Workers : pc[v] = "run" /\ pc[w] = "run" /\ job[v] = job[w] => v = w

\* A queued job is run or cancelled in the end: no permit is lost for good.
EveryJobLeaves ==
    \A id \in JobIds : id \in jobQueue ~> id \in finished \cup cancelled

\* Once World::stop() is called it gets through: waitUntilJobsDone() returns
\* and the destructor's permits are enough for every worker to end.
StopEnds == main = "library" ~> main = "gone"

\* The pool is a board of jobs each of which runs once or is withdrawn.
BoardState(j) ==
    CASE j \in jobQueue -> "queued"
      [] j \in cancelled -> "cancelled"
      [] j \in finished -> "done"
      [] \E w \in Workers : pc[w] = "run" /\ job[w] = j -> "running"
      [] OTHER -> "new"

Board == INSTANCE JobBoard WITH
    board <- [j \in JobIds |-> BoardState(j)],
    closed <- main \in {"clear", "destroy", "join", "gone"}

\* Every step of the pool is a step of the board or invisible on it: jobs get
\* consecutive ids, leave the queue once, and none is around once it is closed.
KeepsBoard == Board!SafeSpec

=============================================================================
