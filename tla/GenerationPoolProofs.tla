------------------------ MODULE GenerationPoolProofs ------------------------
(***************************************************************************)
(* Proofs, for any number of workers, client threads and jobs, of the      *)
(* safety properties of GenerationPool.                                    *)
(***************************************************************************)
EXTENDS GenerationPool, FiniteSetTheorems, TLAPS

Cancelling(t) == call[t].op \in {"erased", "subtract", "reset"}

Running == {w \in Workers : pc[w] = "run"}

\* Pool calls do not overlap, and each belongs to a phase of the world.
CallInv ==
    /\ \A c \in Callers : call[c].op # "none" => main = "serve" /\ waiter = "done"
    /\ \A s, t \in Threads : call[s].op # "none" /\ call[t].op # "none" => s = t
    /\ main = "initialize" => waiter = "none"
    /\ call[Main].op = "release" => main \in {"initialize", "join"}
    /\ Cancelling(Main) => main = "library"
    /\ \A t \in Threads : call[t].op = "subtract" => counter > call[t].n
    /\ ~stayAlive => main \in {"join", "gone"}

\* NoStrandedJob, and the permit too many that a cancelJob() on its way has
\* still to take back.
PermitInv ==
    /\ NoStrandedJob
    /\ \A c \in Callers : Cancelling(c) =>
          /\ call[c].n = 1
          /\ Cardinality(jobQueue) + 1 <= counter + Cardinality(PermitHolders)
    /\ \A c \in Callers : call[c].op = "reset" => counter <= 1
    /\ \A t \in Threads : call[t].op = "release" /\ main # "join" => call[t].n = 1
    /\ main \notin {"initialize", "serve"} => jobQueue = {}

\* Where a job is, and that ids above totalJobsPushed are fresh.
JobInv ==
    /\ OneOwner
    /\ jobQueue \cup finished \cup cancelled \subseteq 1 .. totalJobsPushed
    /\ \A w \in Workers : pc[w] = "run" => job[w] \in 1 .. totalJobsPushed
    /\ \A j \in 1 .. totalJobsPushed :
          \/ j \in jobQueue \cup finished \cup cancelled
          \/ \E w \in Workers : pc[w] = "run" /\ job[w] = j

QuiescenceInv ==
    /\ books = Cardinality(Running)
    /\ main \notin {"initialize", "serve", "library"} => Running = {}

IInv == TypeOK /\ CallInv /\ PermitInv /\ JobInv /\ QuiescenceInv

-----------------------------------------------------------------------------
(* Cardinalities                                                           *)

\* Subsets of finite sets have a natural number of elements.
LEMMA FiniteParts ==
    ASSUME TypeOK
    PROVE  /\ IsFiniteSet(jobQueue) /\ Cardinality(jobQueue) \in Nat
           /\ IsFiniteSet(PermitHolders) /\ Cardinality(PermitHolders) \in Nat
           /\ IsFiniteSet(Running) /\ Cardinality(Running) \in Nat
<1>1. IsFiniteSet(JobIds)
  BY FS_Interval, JobsAssumption DEF JobIds
<1>2. IsFiniteSet(jobQueue) /\ Cardinality(jobQueue) \in Nat
  BY <1>1, FS_Subset, FS_CardinalityType DEF TypeOK
<1>3. PermitHolders \subseteq Workers /\ Running \subseteq Workers
  BY DEF PermitHolders, Running
<1>4. IsFiniteSet(PermitHolders) /\ IsFiniteSet(Running)
  BY <1>3, FS_Subset, WorkersAssumption
<1> QED
  BY <1>2, <1>4, FS_CardinalityType

\* A step of one worker that is about to hold a permit.
LEMMA PermitTaken ==
    ASSUME TypeOK, NEW w \in Workers, pc[w] # "permit", pc' = [pc EXCEPT ![w] = "permit"]
    PROVE  Cardinality(PermitHolders') = Cardinality(PermitHolders) + 1
<1>1. PermitHolders' = PermitHolders \cup {w} /\ w \notin PermitHolders
  BY DEF TypeOK, PermitHolders
<1> QED
  BY <1>1, FiniteParts, FS_AddElement

\* A step of one worker that gives its permit up.
LEMMA PermitUsed ==
    ASSUME TypeOK, NEW w \in Workers, pc[w] = "permit", NEW l, l # "permit",
           pc' = [pc EXCEPT ![w] = l]
    PROVE  /\ Cardinality(PermitHolders') = Cardinality(PermitHolders) - 1
           /\ Cardinality(PermitHolders') \in Nat
<1>1. PermitHolders' = PermitHolders \ {w} /\ w \in PermitHolders
  BY DEF TypeOK, PermitHolders
<1> QED
  BY <1>1, FiniteParts, FS_RemoveElement, FS_CardinalityType

\* A step of one worker that neither takes nor gives up a permit.
LEMMA PermitKept ==
    ASSUME TypeOK, NEW w \in Workers, pc[w] # "permit", NEW l, l # "permit",
           pc' = [pc EXCEPT ![w] = l]
    PROVE  PermitHolders' = PermitHolders
  BY DEF TypeOK, PermitHolders

-----------------------------------------------------------------------------
(* The invariant holds initially                                           *)

\* Before Overworld::initialize() nothing is queued, running or booked.
LEMMA InitIInv == Init => IInv
<1> SUFFICES ASSUME Init PROVE IInv
  OBVIOUS
<1>1. TypeOK
  BY JobsAssumption DEF Init, TypeOK, Idle, JobIds
<1>2. CallInv
  BY DEF Init, CallInv, Cancelling, Idle, Threads
<1>3. PermitInv
  <2>1. Cardinality(jobQueue) = 0
    BY FS_EmptySet DEF Init
  <2>2. Releasing = {}
    BY DEF Init, Releasing, Idle
  <2>3. Cardinality(Releasing) = 0
    BY <2>2, FS_EmptySet
  <2>4. NoStrandedJob
    BY <1>1, <2>1, <2>3, FiniteParts DEF NoStrandedJob, TypeOK
  <2> QED
    BY <2>4 DEF Init, PermitInv, Cancelling, Idle, Threads
<1>4. JobInv
  BY DEF Init, JobInv, OneOwner
<1>5. QuiescenceInv
  <2>1. Running = {}
    BY DEF Init, Running
  <2> QED
    BY <2>1, FS_EmptySet DEF Init, QuiescenceInv
<1> QED
  BY <1>1, <1>2, <1>3, <1>4, <1>5 DEF IInv

-----------------------------------------------------------------------------
(* Types                                                                   *)

\* Every step of the pool keeps the types.
LEMMA TypeStep ==
    ASSUME IInv, [Next]_vars
    PROVE  TypeOK'
<1> USE JobsAssumption DEF TypeOK, JobIds
<1>0. TypeOK /\ CallInv
  BY DEF IInv
<1>1. ASSUME NEW c \in Callers, AddJob(c) PROVE TypeOK'
  BY <1>0, <1>1 DEF AddJob, PushJob, Threads
<1>2. ASSUME NEW c \in Callers, NEW id \in jobQueue, CancelJob(c, id) PROVE TypeOK'
  BY <1>0, <1>2 DEF CancelJob, Threads
<1>3. ASSUME NEW t \in Threads, Release(t) PROVE TypeOK'
  BY <1>0, <1>3 DEF Release, Idle
<1>4. ASSUME NEW t \in Threads, IncrementTest(t) PROVE TypeOK'
  BY <1>0, <1>4 DEF IncrementTest
<1>5. ASSUME NEW t \in Threads, IncrementWrite(t) PROVE TypeOK'
  <2>1. call[t].op = "subtract" => counter > call[t].n
    BY <1>0 DEF CallInv
  <2>2. counter' \in Nat
    BY <1>0, <1>5, <2>1 DEF IncrementWrite
  <2> QED
    BY <1>0, <1>5, <2>2 DEF IncrementWrite, Idle
<1>6. CASE AddSpawnJob
  BY <1>0, <1>6 DEF AddSpawnJob, PushJob, Threads
<1>7. CASE StartWaiter
  BY <1>0, <1>7 DEF StartWaiter
<1>8. CASE WaiterStep
  BY <1>0, <1>8 DEF WaiterStep, WaiterSeesNoBook, WaiterReadsCounter
<1>9. CASE CancelAll
  <2>1. Cardinality(jobQueue) \in Nat
    BY <1>0, FiniteParts
  <2> QED
    BY <1>0, <1>9, <2>1 DEF CancelAll, Threads
<1>10. CASE StopStep
  <2>1. Cardinality(Workers) \in Nat
    BY WorkersAssumption, FS_CardinalityType
  <2>2. CASE DestroyPool
    BY <1>0, <2>1, <2>2 DEF DestroyPool, Threads
  <2>3. CASE StopSeesNoBook \/ StopReadsCounter \/ StopDimensions \/ JoinWorkers
    BY <1>0, <2>3 DEF StopSeesNoBook, StopReadsCounter, StopDimensions, JoinWorkers
  <2> QED
    BY <1>10, <2>2, <2>3 DEF StopStep
<1>11. ASSUME NEW w \in Workers, WorkerLoop(w) \/ Acquire(w) \/ GiveUp(w) PROVE TypeOK'
  <2>1. CASE WorkerLoop(w)
    <3>1. pc' \in [Workers -> {"loop", "acquire", "permit", "run", "dead"}]
      BY <1>0, <2>1 DEF WorkerLoop
    <3> QED
      BY <1>0, <2>1, <3>1 DEF WorkerLoop
  <2>2. CASE Acquire(w)
    BY <1>0, <2>2 DEF Acquire
  <2>3. CASE GiveUp(w)
    BY <1>0, <2>3 DEF GiveUp
  <2> QED
    BY <1>11, <2>1, <2>2, <2>3
<1>12. ASSUME NEW w \in Workers, NEW id \in jobQueue, TakeJob(w, id) PROVE TypeOK'
  BY <1>0, <1>12 DEF TakeJob
<1>13. ASSUME NEW w \in Workers, FinishJob(w) PROVE TypeOK'
  <2>1. job[w] \in 1 .. MaxJobs
    BY <1>0, <1>13 DEF IInv, JobInv, FinishJob
  <2>2. finished' \subseteq JobIds
    BY <1>0, <1>13, <2>1 DEF FinishJob
  <2>3. job' \in [Workers -> 0 .. MaxJobs] /\ books' \in Int
    BY <1>0, <1>13 DEF FinishJob
  <2> QED
    BY <1>0, <1>13, <2>2, <2>3 DEF FinishJob
<1>14. CASE UNCHANGED vars
  BY <1>0, <1>14 DEF vars
<1> QED
  BY <1>1, <1>2, <1>3, <1>4, <1>5, <1>6, <1>7, <1>8, <1>9, <1>10, <1>11, <1>12, <1>13, <1>14
  DEF Next, CallerStep, SemaphoreStep, WorkerStep, Terminated

-----------------------------------------------------------------------------
(* Pool calls                                                              *)

\* Every step keeps the pool calls apart: they are made one at a time.
LEMMA CallStep ==
    ASSUME IInv, [Next]_vars
    PROVE  CallInv'
<1> USE DEF CallInv, Cancelling, Threads
<1>0. TypeOK /\ CallInv
  BY DEF IInv
<1>1. ASSUME NEW c \in Callers, AddJob(c) PROVE CallInv'
  BY <1>0, <1>1, MainAssumption DEF AddJob, PushJob, LoadingChunksMutexFree, TypeOK
<1>2. ASSUME NEW c \in Callers, NEW id \in jobQueue, CancelJob(c, id) PROVE CallInv'
  BY <1>0, <1>2, MainAssumption DEF CancelJob, LoadingChunksMutexFree, TypeOK
<1>3. ASSUME NEW t \in Threads, Release(t) PROVE CallInv'
  BY <1>0, <1>3, MainAssumption DEF Release, Idle, TypeOK
<1>4. ASSUME NEW t \in Threads, IncrementTest(t) PROVE CallInv'
  BY <1>0, <1>4, MainAssumption DEF IncrementTest, TypeOK
<1>5. ASSUME NEW t \in Threads, IncrementWrite(t) PROVE CallInv'
  BY <1>0, <1>5, MainAssumption DEF IncrementWrite, Idle, TypeOK
<1>6. CASE AddSpawnJob
  BY <1>0, <1>6, MainAssumption DEF AddSpawnJob, PushJob, TypeOK
<1>7. CASE StartWaiter
  BY <1>0, <1>7 DEF StartWaiter, TypeOK
<1>8. CASE WaiterStep
  BY <1>0, <1>8 DEF WaiterStep, WaiterSeesNoBook, WaiterReadsCounter, TypeOK
<1>9. CASE CancelAll
  BY <1>0, <1>9, MainAssumption DEF CancelAll, LoadingChunksMutexFree, TypeOK
<1>10. CASE StopStep
  <2>1. CASE DestroyPool
    BY <1>0, <2>1, MainAssumption DEF DestroyPool, TypeOK
  <2>2. CASE StopSeesNoBook \/ StopReadsCounter \/ StopDimensions \/ JoinWorkers
    BY <1>0, <2>2 DEF StopSeesNoBook, StopReadsCounter, StopDimensions, JoinWorkers, TypeOK
  <2> QED
    BY <1>10, <2>1, <2>2 DEF StopStep
<1>11. ASSUME NEW w \in Workers, Acquire(w) PROVE CallInv'
  BY <1>0, <1>11 DEF Acquire, CounterMutexFree, TypeOK
<1>12. ASSUME NEW w \in Workers, WorkerLoop(w) \/ GiveUp(w) \/ FinishJob(w) PROVE CallInv'
  BY <1>0, <1>12 DEF WorkerLoop, GiveUp, FinishJob
<1>13. ASSUME NEW w \in Workers, NEW id \in jobQueue, TakeJob(w, id) PROVE CallInv'
  BY <1>0, <1>13 DEF TakeJob
<1>14. CASE UNCHANGED vars
  BY <1>0, <1>14 DEF vars
<1> QED
  BY <1>1, <1>2, <1>3, <1>4, <1>5, <1>6, <1>7, <1>8, <1>9, <1>10, <1>11, <1>12, <1>13, <1>14
  DEF Next, CallerStep, SemaphoreStep, WorkerStep, Terminated

-----------------------------------------------------------------------------
(* Permits                                                                 *)

\* At most one pushed job waits for its release.
LEMMA ReleasingCount ==
    ASSUME CallInv
    PROVE  Cardinality(Releasing) \in Nat
<1>1. Releasing = {} \/ \E t \in Threads : Releasing = {t}
  BY DEF Releasing, CallInv
<1>2. CASE Releasing = {}
  BY <1>2, FS_EmptySet
<1>3. ASSUME NEW t \in Threads, Releasing = {t} PROVE Cardinality(Releasing) \in Nat
  BY <1>3, FS_Singleton
<1> QED
  BY <1>1, <1>2, <1>3

\* Every step keeps a permit for each queued job.
LEMMA PermitStep ==
    ASSUME IInv, [Next]_vars
    PROVE  PermitInv'
<1> DEFINE Q == Cardinality(jobQueue)
           P == Cardinality(PermitHolders)
           R == Cardinality(Releasing)
<1>0. TypeOK /\ CallInv /\ PermitInv
  BY DEF IInv
<1>1. /\ IsFiniteSet(jobQueue) /\ Q \in Nat
      /\ IsFiniteSet(PermitHolders) /\ P \in Nat
      /\ R \in Nat
  BY <1>0, FiniteParts, ReleasingCount
<1>2. counter \in Nat /\ counter' \in Nat
  BY <1>0, TypeStep DEF TypeOK
<1>3. Q <= counter + P + R
  BY <1>0 DEF PermitInv, NoStrandedJob
\* Adding a job: the new entry is matched by the pending release.
<1>4. ASSUME NEW t \in Threads, PushJob(t),
             \A s \in Threads : call[s].op = "none",
             main \in {"initialize", "serve"}
      PROVE  PermitInv'
  <2>1. Releasing = {} /\ Releasing' = {t}
    BY <1>0, <1>4 DEF PushJob, Releasing, TypeOK
  <2>2. R = 0 /\ R' = 1
    BY <2>1, FS_EmptySet, FS_Singleton
  <2>3. Q' <= Q + 1 /\ Q' \in Nat
    <3>1. jobQueue' = jobQueue \cup {totalJobsPushed + 1}
      BY <1>4 DEF PushJob
    <3>2. Q' = IF totalJobsPushed + 1 \in jobQueue THEN Q ELSE Q + 1
      BY <1>1, <3>1, FS_AddElement
    <3> QED
      BY <1>1, <3>2
  <2>4. UNCHANGED <<P, main, counter>>
    BY <1>4 DEF PushJob, PermitHolders
  <2>5. NoStrandedJob'
    BY <1>1, <1>2, <1>3, <2>2, <2>3, <2>4 DEF NoStrandedJob
  <2>6. \A s \in Threads : call'[s].op # "none" => call'[s].op = "release" /\ call'[s].n = 1
    BY <1>0, <1>4 DEF PushJob, TypeOK
  <2> QED
    BY <1>4, <2>4, <2>5, <2>6 DEF PermitInv, Cancelling, Threads
<1>5. ASSUME NEW t \in Threads, Release(t) PROVE PermitInv'
  <2>1. Releasing = {t} /\ Releasing' = {}
    BY <1>0, <1>5 DEF Release, Releasing, Idle, TypeOK, CallInv
  <2>2. R = 1 /\ R' = 0
    BY <2>1, FS_EmptySet, FS_Singleton
  <2>3. \A s \in Threads : call'[s].op = "none"
    BY <1>0, <1>5 DEF Release, TypeOK, CallInv, Idle
  <2>4. UNCHANGED <<Q, P, main, jobQueue>>
    BY <1>5 DEF Release, PermitHolders
  <2>5. NoStrandedJob'
    <3>1. CASE main = "join"
      <4>1. Q = 0
        BY <1>0, <3>1, FS_EmptySet DEF PermitInv
      <4> QED
        BY <1>1, <1>2, <2>2, <2>4, <4>1 DEF NoStrandedJob
    <3>2. CASE main # "join"
      <4>1. counter' = counter + 1
        BY <1>0, <1>5, <3>2 DEF Release, PermitInv
      <4> QED
        BY <1>1, <1>2, <1>3, <2>2, <2>4, <4>1 DEF NoStrandedJob
    <3> QED
      BY <3>1, <3>2
  <2> QED
    BY <1>0, <2>3, <2>4, <2>5 DEF PermitInv, Cancelling, Threads
\* Cancelling a job: its permit is owed until increment() has written.
<1>6. ASSUME NEW c \in Callers, NEW id \in jobQueue, CancelJob(c, id) PROVE PermitInv'
  <2>1. \A t \in Threads : call[t].op = "none"
    BY <1>0, <1>6 DEF CancelJob, LoadingChunksMutexFree, Threads, CallInv, QueueProtectionFree
  <2>2. Releasing = {} /\ Releasing' = {}
    BY <1>0, <1>6, <2>1 DEF CancelJob, Releasing, TypeOK, Threads
  <2>3. R = 0 /\ R' = 0
    BY <2>2, FS_EmptySet
  <2>4. Q' = Q - 1
    BY <1>1, <1>6, FS_RemoveElement DEF CancelJob
  <2>5. UNCHANGED <<P, counter, main>>
    BY <1>6 DEF CancelJob, PermitHolders
  <2>6. \A t \in Threads : call'[t].op # "none" => call'[t] = [op |-> "erased", n |-> 1]
    BY <1>0, <1>6, <2>1 DEF CancelJob, TypeOK
  <2>7. Q' + 1 <= counter' + P' /\ NoStrandedJob'
    BY <1>1, <1>2, <1>3, <2>3, <2>4, <2>5 DEF NoStrandedJob
  <2>8. main = "serve"
    BY <1>6 DEF CancelJob
  <2> QED
    BY <2>5, <2>6, <2>7, <2>8 DEF PermitInv, Cancelling, Threads
<1>7. ASSUME NEW t \in Threads, IncrementTest(t) PROVE PermitInv'
  <2>1. Releasing' = Releasing
    BY <1>0, <1>7 DEF IncrementTest, Releasing, TypeOK
  <2>2. UNCHANGED <<jobQueue, P, counter, main>>
    BY <1>7 DEF IncrementTest, PermitHolders
  <2>3. \A c \in Callers : Cancelling(c)' => Cancelling(c) /\ call'[c].n = call[c].n
    BY <1>0, <1>7 DEF IncrementTest, Cancelling, Threads, TypeOK
  <2>4. \A c \in Callers : call'[c].op = "reset" => Cancelling(c) /\ counter <= 1
    BY <1>0, <1>2, <1>7 DEF IncrementTest, Threads, TypeOK, Cancelling, PermitInv
  <2>5. \A s \in Threads : call'[s].op = "release" => call'[s] = call[s]
    BY <1>0, <1>7 DEF IncrementTest, TypeOK
  <2>6. NoStrandedJob'
    BY <1>0, <2>1, <2>2 DEF PermitInv, NoStrandedJob
  <2> QED
    BY <1>0, <2>2, <2>3, <2>4, <2>5, <2>6 DEF PermitInv
<1>8. ASSUME NEW t \in Threads, IncrementWrite(t) PROVE PermitInv'
  <2>1. \A s \in Threads : call'[s].op = "none"
    BY <1>0, <1>8 DEF IncrementWrite, CallInv, TypeOK, Idle
  <2>2. Releasing' = {}
    BY <2>1 DEF Releasing
  <2>3. R' = 0
    BY <2>2, FS_EmptySet
  <2>4. UNCHANGED <<jobQueue, P, main>>
    BY <1>8 DEF IncrementWrite, PermitHolders
  <2>5. Q <= counter' + P
    <3>1. CASE t \in Callers
      <4>1. call[t].n = 1 /\ Q + 1 <= counter + P
        BY <1>0, <1>8, <3>1 DEF IncrementWrite, PermitInv, Cancelling
      <4>2. CASE call[t].op = "subtract"
        BY <1>1, <1>2, <1>8, <4>1, <4>2 DEF IncrementWrite
      <4>3. CASE call[t].op = "reset"
        <5>1. counter <= 1 /\ counter' = 0
          BY <1>0, <1>8, <3>1, <4>3 DEF IncrementWrite, PermitInv
        <5> QED
          BY <1>1, <1>2, <4>1, <5>1
      <4> QED
        BY <1>8, <4>2, <4>3 DEF IncrementWrite
    <3>2. CASE t = Main
      <4>1. main = "library"
        BY <1>0, <1>8, <3>2 DEF CallInv, Cancelling, IncrementWrite
      <4>2. Q = 0
        BY <1>0, <4>1, FS_EmptySet DEF PermitInv
      <4> QED
        BY <1>1, <1>2, <4>2
    <3> QED
      BY <3>1, <3>2 DEF Threads
  <2>6. NoStrandedJob'
    BY <1>1, <1>2, <2>3, <2>4, <2>5 DEF NoStrandedJob
  <2> QED
    BY <1>0, <2>1, <2>4, <2>6 DEF PermitInv, Cancelling, Threads
\* Workers: a permit moves from the semaphore to a worker and from there to a job.
<1>9. ASSUME NEW w \in Workers, Acquire(w) PROVE PermitInv'
  <2>1. P' = P + 1
    BY <1>0, <1>9, PermitTaken DEF Acquire
  <2>2. UNCHANGED <<jobQueue, main, call, Releasing>>
    BY <1>9 DEF Acquire, Releasing
  <2>3. counter' = counter - 1 /\ \A c \in Callers : call[c].op # "reset"
    BY <1>9 DEF Acquire, CounterMutexFree, Threads
  <2>4. counter' + P' = counter + P
    BY <1>1, <1>2, <2>1, <2>3
  <2>5. NoStrandedJob'
    BY <1>1, <1>3, <2>2, <2>4 DEF NoStrandedJob
  <2> QED
    BY <1>0, <2>2, <2>3, <2>4, <2>5 DEF PermitInv, Cancelling
<1>10. ASSUME NEW w \in Workers, NEW id \in jobQueue, TakeJob(w, id) PROVE PermitInv'
  <2>1. P' = P - 1
    BY <1>0, <1>10, PermitUsed DEF TakeJob
  <2>2. Q' = Q - 1
    BY <1>1, <1>10, FS_RemoveElement DEF TakeJob
  <2>3. UNCHANGED <<main, call, counter, Releasing>>
    BY <1>10 DEF TakeJob, Releasing
  <2>4. \A c \in Callers : ~Cancelling(c)
    BY <1>10 DEF TakeJob, QueueProtectionFree, Threads, Cancelling
  <2>5. NoStrandedJob'
    BY <1>1, <1>2, <1>3, <2>1, <2>2, <2>3 DEF NoStrandedJob
  <2>6. main \in {"initialize", "serve"}
    BY <1>0, <1>10 DEF PermitInv
  <2> QED
    BY <1>0, <2>3, <2>4, <2>5, <2>6 DEF PermitInv, Cancelling
<1>11. ASSUME NEW w \in Workers, GiveUp(w) PROVE PermitInv'
  <2>1. jobQueue = {}
    BY <1>0, <1>11 DEF GiveUp, PermitInv, CallInv
  <2>2. P' \in Nat
    BY <1>0, <1>11, PermitUsed DEF GiveUp
  <2>3. UNCHANGED <<jobQueue, call, main, counter, Releasing>>
    BY <1>11 DEF GiveUp, Releasing
  <2>4. \A c \in Callers : ~Cancelling(c)
    BY <1>11 DEF GiveUp, QueueProtectionFree, Threads, Cancelling
  <2>5. Q = 0
    BY <2>1, FS_EmptySet
  <2>6. NoStrandedJob'
    BY <1>1, <1>2, <2>2, <2>3, <2>5 DEF NoStrandedJob
  <2> QED
    BY <1>0, <2>3, <2>4, <2>6 DEF PermitInv, Cancelling
<1>12. ASSUME NEW w \in Workers, WorkerLoop(w) \/ FinishJob(w) PROVE PermitInv'
  <2>1. PermitHolders' = PermitHolders
    BY <1>0, <1>12, PermitKept DEF WorkerLoop, FinishJob
  <2>2. UNCHANGED <<jobQueue, call, main, counter, Releasing>>
    BY <1>12 DEF WorkerLoop, FinishJob, Releasing
  <2> QED
    BY <1>0, <2>1, <2>2 DEF PermitInv, NoStrandedJob, Cancelling
\* The world: after cancelAll() there is nothing left to cover.
<1>13. CASE CancelAll
  <2>1. Q' = 0 /\ jobQueue' = {}
    BY <1>13, FS_EmptySet DEF CancelAll
  <2>2. UNCHANGED <<P, counter>>
    BY <1>13 DEF CancelAll, PermitHolders
  <2>3. \A t \in Threads : call'[t].op # "release"
    BY <1>0, <1>13 DEF CancelAll, LoadingChunksMutexFree, TypeOK, Threads
  <2>4. Releasing' = {}
    BY <2>3 DEF Releasing
  <2>5. R' = 0
    BY <2>4, FS_EmptySet
  <2>6. \A c \in Callers : call'[c].op = "none"
    BY <1>0, <1>13, MainAssumption DEF CancelAll, LoadingChunksMutexFree, TypeOK, Threads
  <2>7. NoStrandedJob'
    BY <1>1, <1>2, <2>1, <2>2, <2>5 DEF NoStrandedJob
  <2> QED
    BY <2>1, <2>3, <2>6, <2>7 DEF PermitInv, Cancelling
<1>14. CASE DestroyPool
  <2>1. UNCHANGED <<jobQueue, P, counter>> /\ main' = "join"
    BY <1>14 DEF DestroyPool, PermitHolders
  <2>2. Q = 0 /\ jobQueue = {}
    BY <1>0, <1>14, FS_EmptySet DEF DestroyPool, PermitInv
  <2>3. \A t \in Threads : t # Main => call'[t].op = "none"
    BY <1>0, <1>14, MainAssumption DEF DestroyPool, CallInv, TypeOK, Threads
  <2>4. Releasing' = {Main}
    BY <1>0, <1>14, <2>3 DEF DestroyPool, TypeOK, Threads, Releasing
  <2>5. R' = 1
    BY <2>4, FS_Singleton
  <2>6. NoStrandedJob'
    BY <1>1, <1>2, <2>1, <2>2, <2>5 DEF NoStrandedJob
  <2> QED
    BY <2>1, <2>2, <2>3, <2>6, MainAssumption DEF PermitInv, Cancelling, Threads
<1>15. CASE \/ StartWaiter \/ WaiterStep \/ StopSeesNoBook \/ StopReadsCounter
               \/ StopDimensions \/ JoinWorkers \/ UNCHANGED vars
  <2>1. UNCHANGED <<jobQueue, call, counter, PermitHolders, Releasing>>
    BY <1>15 DEF StartWaiter, WaiterStep, WaiterSeesNoBook, WaiterReadsCounter, StopSeesNoBook,
       StopReadsCounter, StopDimensions, JoinWorkers, vars, PermitHolders, Releasing
  <2>2. main' \notin {"initialize", "serve"} => main' = main \/ main \notin {"initialize", "serve"}
    BY <1>15 DEF StartWaiter, WaiterStep, WaiterSeesNoBook, WaiterReadsCounter, StopSeesNoBook,
       StopReadsCounter, StopDimensions, JoinWorkers, vars
  <2>3. main' # "join" => main # "join" \/ \A t \in Threads : call[t].op # "release"
    BY <1>0, <1>15 DEF StartWaiter, WaiterStep, WaiterSeesNoBook, WaiterReadsCounter,
       StopSeesNoBook, StopReadsCounter, StopDimensions, JoinWorkers, vars, CallInv, Threads
  <2> QED
    BY <1>0, <2>1, <2>2, <2>3 DEF PermitInv, NoStrandedJob, Cancelling
<1>16. ASSUME NEW c \in Callers, AddJob(c) PROVE PermitInv'
  <2>1. \A t \in Threads : call[t].op = "none"
    BY <1>0, <1>16 DEF AddJob, LoadingChunksMutexFree, Threads, CallInv, PushJob,
       QueueProtectionFree
  <2> QED
    BY <1>4, <1>16, <2>1 DEF AddJob, Threads
<1>17. CASE AddSpawnJob
  <2>1. \A t \in Threads : call[t].op = "none"
    BY <1>0, <1>17 DEF AddSpawnJob, PushJob, CallInv, Threads
  <2> QED
    BY <1>4, <1>17, <2>1 DEF AddSpawnJob, Threads
<1> QED
  BY <1>5, <1>6, <1>7, <1>8, <1>9, <1>10, <1>11, <1>12, <1>13, <1>14, <1>15, <1>16, <1>17
  DEF Next, CallerStep, SemaphoreStep, WorkerStep, StopStep, Terminated

-----------------------------------------------------------------------------
(* Jobs                                                                    *)

\* Every step keeps each job in one place.
LEMMA JobStep ==
    ASSUME IInv, [Next]_vars
    PROVE  JobInv'
<1> USE DEF JobInv, OneOwner
<1>0. TypeOK /\ JobInv
  BY DEF IInv
<1>1. ASSUME NEW t \in Threads, PushJob(t) PROVE JobInv'
  BY <1>0, <1>1 DEF PushJob, TypeOK
<1>2. ASSUME NEW c \in Callers, NEW id \in jobQueue, CancelJob(c, id) PROVE JobInv'
  BY <1>0, <1>2 DEF CancelJob, TypeOK
<1>3. CASE CancelAll
  BY <1>0, <1>3 DEF CancelAll, TypeOK
<1>4. ASSUME NEW w \in Workers, WorkerLoop(w) \/ Acquire(w) \/ GiveUp(w) PROVE JobInv'
  BY <1>0, <1>4 DEF WorkerLoop, Acquire, GiveUp, TypeOK
<1>5. ASSUME NEW w \in Workers, NEW id \in jobQueue, TakeJob(w, id) PROVE JobInv'
  BY <1>0, <1>5 DEF TakeJob, TypeOK
<1>6. ASSUME NEW w \in Workers, FinishJob(w) PROVE JobInv'
  BY <1>0, <1>6 DEF FinishJob, TypeOK
<1>7. CASE UNCHANGED <<jobQueue, totalJobsPushed, pc, job, finished, cancelled>>
  BY <1>0, <1>7
<1>8. ASSUME NEW t \in Threads, SemaphoreStep(t)
      PROVE  UNCHANGED <<jobQueue, totalJobsPushed, pc, job, finished, cancelled>>
  BY <1>8 DEF SemaphoreStep, Release, IncrementTest, IncrementWrite
<1>9. CASE StartWaiter \/ WaiterStep \/ StopStep \/ UNCHANGED vars
  BY <1>7, <1>9 DEF StartWaiter, WaiterStep, WaiterSeesNoBook, WaiterReadsCounter, StopStep,
     StopSeesNoBook, StopReadsCounter, StopDimensions, DestroyPool, JoinWorkers, vars
<1> QED
  BY <1>1, <1>2, <1>3, <1>4, <1>5, <1>6, <1>7, <1>8, <1>9
  DEF Next, CallerStep, WorkerStep, Terminated, AddJob, AddSpawnJob, Threads

-----------------------------------------------------------------------------
(* Quiescence                                                              *)

\* Every step keeps the books in step with the running jobs.
LEMMA QuiescenceStep ==
    ASSUME IInv, [Next]_vars
    PROVE  QuiescenceInv'
<1> USE DEF QuiescenceInv
<1>0. TypeOK /\ CallInv /\ PermitInv /\ QuiescenceInv
  BY DEF IInv
<1>1. IsFiniteSet(Running) /\ Cardinality(Running) \in Nat
  BY <1>0, FiniteParts
<1>2. ASSUME NEW w \in Workers, NEW id \in jobQueue, TakeJob(w, id) PROVE QuiescenceInv'
  <2>1. Running' = Running \cup {w} /\ w \notin Running
    BY <1>0, <1>2 DEF TakeJob, TypeOK, Running
  <2>2. Cardinality(Running') = Cardinality(Running) + 1
    BY <1>1, <2>1, FS_AddElement
  <2>3. main \in {"initialize", "serve"}
    BY <1>0, <1>2 DEF PermitInv
  <2> QED
    BY <1>0, <1>2, <2>2, <2>3 DEF TakeJob
<1>3. ASSUME NEW w \in Workers, FinishJob(w) PROVE QuiescenceInv'
  <2>1. Running' = Running \ {w} /\ w \in Running
    BY <1>0, <1>3 DEF FinishJob, TypeOK, Running
  <2>2. Cardinality(Running') = Cardinality(Running) - 1
    BY <1>1, <2>1, FS_RemoveElement
  <2> QED
    BY <1>0, <1>3, <2>1, <2>2 DEF FinishJob
<1>4. CASE StopSeesNoBook
  <2>1. Running = {}
    BY <1>0, <1>1, <1>4, FS_EmptySet DEF StopSeesNoBook
  <2> QED
    BY <1>0, <1>4, <2>1 DEF StopSeesNoBook, Running
<1>5. ASSUME NEW w \in Workers, WorkerLoop(w) \/ Acquire(w) \/ GiveUp(w) PROVE QuiescenceInv'
  <2>1. Running' = Running
    BY <1>0, <1>5 DEF WorkerLoop, Acquire, GiveUp, Running, TypeOK
  <2> QED
    BY <1>0, <1>5, <2>1 DEF WorkerLoop, Acquire, GiveUp
<1>6. CASE UNCHANGED <<books, pc>> /\ (main' = main \/ main' \in {"serve", "library"} \/ main \in {"counter", "clear", "destroy", "join"})
  BY <1>0, <1>6 DEF Running
<1>7. ASSUME NEW t \in Threads, PushJob(t) \/ SemaphoreStep(t) PROVE UNCHANGED <<books, pc, main>>
  BY <1>7 DEF PushJob, SemaphoreStep, Release, IncrementTest, IncrementWrite
<1>8. ASSUME NEW c \in Callers, NEW id \in jobQueue, CancelJob(c, id) PROVE UNCHANGED <<books, pc, main>>
  BY <1>8 DEF CancelJob
<1>9. CASE StartWaiter \/ WaiterStep \/ CancelAll \/ UNCHANGED vars
  BY <1>6, <1>9 DEF StartWaiter, WaiterStep, WaiterSeesNoBook, WaiterReadsCounter, CancelAll, vars
<1>10. CASE StopReadsCounter \/ StopDimensions \/ DestroyPool \/ JoinWorkers
  BY <1>6, <1>10 DEF StopReadsCounter, StopDimensions, DestroyPool, JoinWorkers
<1> QED
  BY <1>2, <1>3, <1>4, <1>5, <1>6, <1>7, <1>8, <1>9, <1>10
  DEF Next, CallerStep, WorkerStep, StopStep, Terminated, AddJob, AddSpawnJob, Threads

-----------------------------------------------------------------------------
(* Theorems                                                                *)

\* The invariant holds in every reachable state.
LEMMA Inductive == Spec => []IInv
<1>1. Init => IInv
  BY InitIInv
<1>2. IInv /\ [Next]_vars => IInv'
  BY TypeStep, CallStep, PermitStep, JobStep, QuiescenceStep DEF IInv
<1> QED
  BY <1>1, <1>2, PTL DEF Spec

\* The pool's variables keep their types; in particular increment() never
\* drives the semaphore below zero.
THEOREM TypeCorrect == Spec => []TypeOK
<1>1. IInv => TypeOK
  BY DEF IInv
<1> QED
  BY <1>1, Inductive, PTL

\* A queued job is always covered by a permit: addJob(), cancelJob(),
\* cancelAll() and the workers never strand one.
THEOREM JobsAreCovered == Spec => []NoStrandedJob
<1>1. IInv => NoStrandedJob
  BY DEF IInv, PermitInv
<1> QED
  BY <1>1, Inductive, PTL

\* World::stop() clears the levels only when no generation job is left.
THEOREM StopSafe == Spec => []StopIsQuiescent
<1>1. IInv => StopIsQuiescent
  BY DEF IInv, PermitInv, QuiescenceInv, StopIsQuiescent, Running, TypeOK
<1> QED
  BY <1>1, Inductive, PTL

\* A job is run at most once, and never after a successful cancelJob().
THEOREM JobsRunOnce == Spec => []OneOwner
<1>1. IInv => OneOwner
  BY DEF IInv, JobInv
<1> QED
  BY <1>1, Inductive, PTL

-----------------------------------------------------------------------------
(* The pool implements the board                                           *)

InWorker(j) == \E w \in Workers : pc[w] = "run" /\ job[w] = j

\* The board, read off the pool: under the invariant the places exclude each
\* other, so the order of BoardState's cases does not matter.
BoardFacts ==
    \A j \in JobIds :
        /\ j \in jobQueue => BoardState(j) = "queued"
        /\ j \in cancelled => BoardState(j) = "cancelled"
        /\ j \in finished => BoardState(j) = "done"
        /\ InWorker(j) => BoardState(j) = "running"
        /\ j > totalJobsPushed => BoardState(j) = "new"
        /\ j <= totalJobsPushed => BoardState(j) # "new"

\* Under the invariant the mapped board says where each job is.
LEMMA BoardRead == IInv => BoardFacts
<1> SUFFICES ASSUME IInv, NEW j \in JobIds
             PROVE  /\ j \in jobQueue => BoardState(j) = "queued"
                    /\ j \in cancelled => BoardState(j) = "cancelled"
                    /\ j \in finished => BoardState(j) = "done"
                    /\ InWorker(j) => BoardState(j) = "running"
                    /\ j > totalJobsPushed => BoardState(j) = "new"
                    /\ j <= totalJobsPushed => BoardState(j) # "new"
  BY DEF BoardFacts
<1>1. JobInv /\ totalJobsPushed \in Nat
  BY DEF IInv, TypeOK
<1>2. j \in jobQueue => BoardState(j) = "queued"
  BY <1>1 DEF BoardState, JobInv, OneOwner
<1>3. j \in cancelled => BoardState(j) = "cancelled"
  BY <1>1 DEF BoardState, JobInv, OneOwner
<1>4. j \in finished => BoardState(j) = "done"
  BY <1>1 DEF BoardState, JobInv, OneOwner
<1>5. InWorker(j) => BoardState(j) = "running"
  BY <1>1 DEF BoardState, JobInv, OneOwner, InWorker
<1>6. j > totalJobsPushed => BoardState(j) = "new"
  <2>1. SUFFICES ASSUME j > totalJobsPushed PROVE BoardState(j) = "new"
    OBVIOUS
  <2>2. j \notin 1 .. totalJobsPushed
    BY <1>1, <2>1 DEF JobIds
  <2>3. j \notin jobQueue /\ j \notin cancelled /\ j \notin finished /\ ~InWorker(j)
    BY <1>1, <2>2 DEF JobInv, InWorker
  <2> QED
    BY <2>3 DEF BoardState, InWorker
<1>7. j <= totalJobsPushed => BoardState(j) # "new"
  BY <1>1, <1>2, <1>3, <1>4, <1>5 DEF JobInv, InWorker, JobIds
<1> QED
  BY <1>2, <1>3, <1>4, <1>5, <1>6, <1>7

\* The abstract variables under the refinement mapping.
AbsBoard == [j \in JobIds |-> BoardState(j)]
AbsClosed == main \in {"clear", "destroy", "join", "gone"}

\* An initial pool maps to an empty open board.
LEMMA BoardInit == Init => Board!Init
<1> SUFFICES ASSUME Init PROVE Board!Init
  OBVIOUS
<1>1. ASSUME NEW j \in JobIds PROVE BoardState(j) = "new"
  BY DEF Init, BoardState
<1> QED
  BY <1>1 DEF Init, Board!Init, Board!JobIds, JobIds

\* Every step of the pool maps to a step of the board or leaves it alone.
LEMMA BoardStep ==
    ASSUME IInv, IInv', BoardFacts, BoardFacts', [Next]_vars
    PROVE  [Board!Next]_(Board!vars)
<1> USE DEF Board!JobIds
<1> DEFINE Quiet == UNCHANGED <<jobQueue, finished, cancelled, totalJobsPushed>>
<1>0. /\ TypeOK /\ CallInv /\ PermitInv /\ JobInv /\ QuiescenceInv
      /\ TypeOK' /\ JobInv' /\ totalJobsPushed \in Nat
  BY DEF IInv, TypeOK
\* What the board shows of a job depends on the four places only.
<1>1. ASSUME NEW j \in JobIds,
             (j \in jobQueue)' <=> j \in jobQueue,
             (j \in finished)' <=> j \in finished,
             (j \in cancelled)' <=> j \in cancelled,
             InWorker(j)' <=> InWorker(j)
      PROVE  BoardState(j)' = BoardState(j)
  BY <1>1 DEF BoardState, InWorker
<1>2. ASSUME Quiet, \A j \in JobIds : InWorker(j)' <=> InWorker(j)
      PROVE  AbsBoard' = AbsBoard
  BY <1>1, <1>2 DEF AbsBoard
<1>3. ASSUME Quiet, UNCHANGED <<pc, job>>, AbsClosed' <=> AbsClosed
      PROVE  UNCHANGED Board!vars
  BY <1>2, <1>3 DEF AbsBoard, AbsClosed, Board!vars, InWorker
<1>4. ASSUME NEW t \in Threads, PushJob(t), main \in {"initialize", "serve"},
             totalJobsPushed < MaxJobs
      PROVE  Board!Next
  <2>0. PICK k \in JobIds : k = totalJobsPushed + 1
    BY <1>0, <1>4, JobsAssumption DEF JobIds
  <2>1. k \in JobIds /\ k \in jobQueue'
    BY <1>4, <2>0 DEF PushJob
  <2>2. BoardState(k) = "new" /\ BoardState(k)' = "queued"
    BY <1>0, <2>0, <2>1 DEF BoardFacts
  <2>3. ASSUME NEW j \in JobIds, j # k PROVE BoardState(j)' = BoardState(j)
    BY <1>1, <1>4, <2>0, <2>3 DEF PushJob, InWorker
  <2>4. \A i \in 1 .. (k - 1) : BoardState(i) # "new"
    BY <1>0, <2>0, JobsAssumption DEF BoardFacts, JobIds
  <2>5. AbsBoard' = [AbsBoard EXCEPT ![k] = "queued"]
    BY <2>1, <2>2, <2>3 DEF AbsBoard
  <2>6. Board!Submit(k)
    BY <1>4, <2>1, <2>2, <2>4, <2>5, JobsAssumption DEF PushJob, Board!Submit, AbsBoard, JobIds
  <2> QED
    BY <2>1, <2>6 DEF Board!Next, JobIds
<1>5. ASSUME NEW c \in Callers, NEW id \in jobQueue, CancelJob(c, id) PROVE Board!Next
  <2>1. id \in JobIds /\ BoardState(id) = "queued" /\ BoardState(id)' = "cancelled"
    BY <1>0, <1>5 DEF CancelJob, BoardFacts, TypeOK
  <2>2. ASSUME NEW j \in JobIds, j # id PROVE BoardState(j)' = BoardState(j)
    BY <1>1, <1>5, <2>2 DEF CancelJob, InWorker
  <2>3. Board!Withdraw({id})
    BY <1>5, <2>1, <2>2 DEF CancelJob, Board!Withdraw, JobIds
  <2> QED
    BY <2>1, <2>3 DEF Board!Next, JobIds
<1>6. CASE CancelAll
  <2>1. ASSUME NEW j \in jobQueue
        PROVE  j \in JobIds /\ BoardState(j) = "queued" /\ BoardState(j)' = "cancelled"
    BY <1>0, <1>6 DEF CancelAll, BoardFacts, TypeOK
  <2>2. ASSUME NEW j \in JobIds, j \notin jobQueue PROVE BoardState(j)' = BoardState(j)
    BY <1>1, <1>6, <2>2 DEF CancelAll, InWorker
  <2>3. CASE jobQueue = {}
    BY <1>6, <2>2, <2>3 DEF CancelAll, Board!vars
  <2>4. CASE jobQueue # {}
    <3>1. Board!Withdraw(jobQueue)
      BY <1>6, <2>1, <2>2, <2>4 DEF CancelAll, Board!Withdraw, JobIds
    <3> QED
      BY <1>0, <3>1 DEF Board!Next, TypeOK, JobIds
  <2> QED
    BY <2>3, <2>4
<1>7. ASSUME NEW w \in Workers, NEW id \in jobQueue, TakeJob(w, id) PROVE Board!Next
  <2>1. id \in JobIds /\ InWorker(id)'
    BY <1>0, <1>7 DEF TakeJob, TypeOK, InWorker
  <2>2. BoardState(id) = "queued" /\ BoardState(id)' = "running"
    BY <2>1 DEF BoardFacts
  <2>3. ASSUME NEW j \in JobIds, j # id PROVE BoardState(j)' = BoardState(j)
    <3>1. InWorker(j)' <=> InWorker(j)
      BY <1>0, <1>7, <2>3 DEF TakeJob, TypeOK, InWorker
    <3> QED
      BY <1>1, <1>7, <2>3, <3>1 DEF TakeJob
  <2>4. AbsBoard' = [AbsBoard EXCEPT ![id] = "running"]
    BY <2>1, <2>2, <2>3 DEF AbsBoard
  <2>5. Board!Take(id)
    BY <1>7, <2>1, <2>2, <2>4 DEF TakeJob, Board!Take, AbsBoard
  <2> QED
    BY <2>1, <2>5 DEF Board!Next, JobIds
<1>8. ASSUME NEW w \in Workers, FinishJob(w) PROVE Board!Next
  <2>0. PICK id \in JobIds : id = job[w]
    BY <1>0, <1>8 DEF FinishJob, TypeOK, JobInv, JobIds
  <2>1. id \in JobIds /\ InWorker(id) /\ id \in finished'
    BY <1>8, <2>0 DEF FinishJob, InWorker
  <2>2. BoardState(id) = "running" /\ BoardState(id)' = "done"
    BY <2>1 DEF BoardFacts
  <2>3. ASSUME NEW j \in JobIds, j # id PROVE BoardState(j)' = BoardState(j)
    <3>1. InWorker(j)' <=> InWorker(j)
      BY <1>0, <1>8, <2>0, <2>3 DEF FinishJob, TypeOK, InWorker
    <3> QED
      BY <1>1, <1>8, <2>0, <2>3, <3>1 DEF FinishJob
  <2>4. AbsBoard' = [AbsBoard EXCEPT ![id] = "done"]
    BY <2>1, <2>2, <2>3 DEF AbsBoard
  <2>5. Board!Finish(id)
    BY <1>8, <2>1, <2>2, <2>4 DEF FinishJob, Board!Finish, AbsBoard
  <2> QED
    BY <2>1, <2>5 DEF Board!Next, JobIds
<1>9. CASE StopReadsCounter
  <2>1. AbsBoard' = AbsBoard
    BY <1>2, <1>9 DEF StopReadsCounter, InWorker
  <2>2. CASE counter = 0
    <3>1. ~AbsClosed /\ AbsClosed'
      BY <1>9, <2>2 DEF StopReadsCounter, AbsClosed
    <3>2. jobQueue = {} /\ Running = {}
      BY <1>0, <1>9 DEF StopReadsCounter, PermitInv, QuiescenceInv
    <3>3. ASSUME NEW j \in JobIds PROVE BoardState(j) \notin {"queued", "running"}
      BY <3>2 DEF BoardState, Running
    <3>4. Board!Close
      BY <2>1, <3>1, <3>3 DEF Board!Close, AbsBoard, AbsClosed, JobIds
    <3> QED
      BY <3>4 DEF Board!Next, JobIds
  <2>3. CASE counter # 0
    BY <1>9, <2>1, <2>3 DEF StopReadsCounter, AbsBoard, Board!vars
  <2> QED
    BY <2>2, <2>3
<1>10. ASSUME NEW w \in Workers, WorkerLoop(w) \/ Acquire(w) \/ GiveUp(w)
       PROVE  UNCHANGED Board!vars
  <2>1. \A j \in JobIds : InWorker(j)' <=> InWorker(j)
    BY <1>0, <1>10 DEF WorkerLoop, Acquire, GiveUp, InWorker, TypeOK
  <2>2. AbsBoard' = AbsBoard /\ main' = main
    BY <1>2, <1>10, <2>1 DEF WorkerLoop, Acquire, GiveUp
  <2> QED
    BY <2>2 DEF AbsBoard, Board!vars
<1>11. ASSUME NEW t \in Threads, SemaphoreStep(t) PROVE UNCHANGED Board!vars
  BY <1>3, <1>11 DEF SemaphoreStep, Release, IncrementTest, IncrementWrite, AbsClosed
<1>12. CASE StartWaiter \/ WaiterStep \/ UNCHANGED vars
  BY <1>3, <1>12 DEF StartWaiter, WaiterStep, WaiterSeesNoBook, WaiterReadsCounter, AbsClosed, vars
<1>13. CASE StopSeesNoBook \/ StopDimensions \/ DestroyPool \/ JoinWorkers
  BY <1>3, <1>13 DEF StopSeesNoBook, StopDimensions, DestroyPool, JoinWorkers, AbsClosed
<1>14. ASSUME NEW c \in Callers, AddJob(c) PROVE Board!Next
  BY <1>4, <1>14 DEF AddJob, Threads
<1>15. CASE AddSpawnJob
  <2>1. totalJobsPushed < MaxJobs
    BY <1>0, <1>15, JobsAssumption DEF AddSpawnJob
  <2> QED
    BY <1>4, <1>15, <2>1 DEF AddSpawnJob, Threads
<1> QED
  BY <1>5, <1>6, <1>7, <1>8, <1>9, <1>10, <1>11, <1>12, <1>13, <1>14, <1>15
  DEF Next, CallerStep, WorkerStep, StopStep, Terminated

\* The pool's queue, semaphores and threads together keep the promise made by
\* JobBoard: ids in order, each job run once or withdrawn before it starts, and
\* nothing left once World::stop() has closed the board.
THEOREM PoolKeepsBoard == Spec => KeepsBoard
<1>1. IInv /\ IInv' /\ BoardFacts /\ BoardFacts' /\ [Next]_vars => [Board!Next]_(Board!vars)
  BY BoardStep
<1>2. Spec => []BoardFacts
  BY Inductive, BoardRead, PTL
<1> QED
  BY <1>1, <1>2, Inductive, BoardInit, PTL DEF Spec, KeepsBoard, Board!SafeSpec
=============================================================================
