------------------------------ MODULE JobBoard ------------------------------
(***************************************************************************)
(* What the users of thread_pool::PriorityThreadPool rely on, without the  *)
(* semaphores, the mutexes and the worker threads: a board of numbered     *)
(* jobs.  A job is submitted once, and then either withdrawn before anyone *)
(* started it or run exactly once.  World::stop() closes the board: from   *)
(* then on no job waits and none runs, so Dimension::stop() may clear the  *)
(* level the jobs write to.                                                *)
(***************************************************************************)
EXTENDS Naturals

CONSTANT MaxJobs      \* how many jobs are ever submitted

VARIABLES
    board,            \* job id -> where the job stands
    closed            \* World::stop() has returned from waitUntilJobsDone()

vars == <<board, closed>>

JobIds == 1 .. MaxJobs

Init ==
    /\ board = [j \in JobIds |-> "new"]
    /\ closed = FALSE

\* addJob(): ids are given out in order.
Submit(j) ==
    /\ ~closed
    /\ board[j] = "new"
    /\ \A i \in 1 .. (j - 1) : board[i] # "new"
    /\ board' = [board EXCEPT ![j] = "queued"]
    /\ UNCHANGED closed

\* A worker takes the job out of the queue.
Take(j) ==
    /\ board[j] = "queued"
    /\ board' = [board EXCEPT ![j] = "running"]
    /\ UNCHANGED closed

\* The job's function has returned (or thrown).
Finish(j) ==
    /\ board[j] = "running"
    /\ board' = [board EXCEPT ![j] = "done"]
    /\ UNCHANGED closed

\* cancelJob() and cancelAll(): only jobs nobody has started.
Withdraw(S) ==
    /\ S # {}
    /\ \A j \in S : board[j] = "queued"
    /\ board' = [j \in JobIds |-> IF j \in S THEN "cancelled" ELSE board[j]]
    /\ UNCHANGED closed

Close ==
    /\ ~closed
    /\ \A j \in JobIds : board[j] \notin {"queued", "running"}
    /\ closed' = TRUE
    /\ UNCHANGED board

Next ==
    \/ \E j \in JobIds : Submit(j) \/ Take(j) \/ Finish(j)
    \/ \E S \in SUBSET JobIds : Withdraw(S)
    \/ Close

SafeSpec == Init /\ [][Next]_vars
=============================================================================
