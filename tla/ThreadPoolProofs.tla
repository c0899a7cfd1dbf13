-------------------------- MODULE ThreadPoolProofs --------------------------
(***************************************************************************)
(* Machine-checked proofs about ThreadPool, for every number of workers    *)
(* and every set of jobs: the inductive invariant PoolInv, what it implies *)
(* about the mutex, the jobs and the condition variable, and that the pool *)
(* implements the abstract JobQueue.                                       *)
(***************************************************************************)
EXTENDS ThreadPool, TLAPS, FiniteSetTheorems, SequenceTheorems

\* The initial state satisfies the invariant.
LEMMA InitPoolInv == Init => PoolInv
<1> SUFFICES ASSUME Init PROVE PoolInv
  OBVIOUS
<1> USE PoolConstants DEF Init
<1>1. TypeOK /\ QueueUnderMutex /\ HolderInv
  BY DEF TypeOK, QueueUnderMutex, HolderInv
<1>2. EachJobOnce
  BY DEF EachJobOnce, Held
<1>3. SignalInv
  BY DEF SignalInv, Waiting
<1> QED BY <1>1, <1>2, <1>3 DEF PoolInv

\* Coming and Waiting are finite, as there are finitely many workers.
LEMMA WorkersFinite ==
  /\ IsFiniteSet(Worker) /\ IsFiniteSet(Coming) /\ IsFiniteSet(Waiting)
  /\ Cardinality(Coming) \in Nat
BY PoolConstants, FS_Subset, FS_CardinalityType DEF Coming, Waiting

-----------------------------------------------------------------------------
(* One lemma per action. *)

\* A worker that takes the mutex was on its way to the queue and still is.
LEMMA WorkerLock ==
  ASSUME PoolInv, NEW t \in Worker, worker_lock(t)
  PROVE  PoolInv'
<1> USE PoolConstants DEF PoolInv, worker_lock
<1>1. TypeOK' /\ QueueUnderMutex' /\ HolderInv'
  BY DEF TypeOK, QueueUnderMutex, HolderInv
<1>2. EachJobOnce'
  BY DEF EachJobOnce, Held
<1>3. Coming' = Coming /\ Waiting' = Waiting
  BY DEF Coming, Waiting, TypeOK
<1>4. SignalInv'
  BY <1>3 DEF SignalInv
<1> QED BY <1>1, <1>2, <1>4

\* A worker sleeps only when it has seen the queue empty, under the mutex.
LEMMA WorkerWait ==
  ASSUME PoolInv, NEW t \in Worker, worker_wait(t)
  PROVE  PoolInv'
<1> USE PoolConstants DEF PoolInv, worker_wait
<1>1. TypeOK' /\ QueueUnderMutex' /\ HolderInv'
  BY DEF TypeOK, QueueUnderMutex, HolderInv
<1>2. EachJobOnce'
  BY DEF EachJobOnce, Held
<1>3. IsFiniteSet(Coming')
  BY FS_Subset DEF Coming
<1>4. SignalInv'
  <2>1. Len(queue') = 0
    OBVIOUS
  <2>2. Cardinality(Coming') \in Nat
    BY <1>3, FS_CardinalityType
  <2> QED BY <2>1, <2>2 DEF SignalInv
<1> QED BY <1>1, <1>2, <1>4

\* A worker that wakes without a signal is one more on its way.
LEMMA WorkerSpurious ==
  ASSUME PoolInv, NEW t \in Worker, worker_spurious(t)
  PROVE  PoolInv'
<1> USE PoolConstants DEF PoolInv, worker_spurious
<1>1. TypeOK' /\ QueueUnderMutex' /\ HolderInv'
  BY DEF TypeOK, QueueUnderMutex, HolderInv
<1>2. EachJobOnce'
  BY DEF EachJobOnce, Held
<1>3. /\ Coming' = Coming \cup {t} /\ t \notin Coming
      /\ Waiting' = Waiting \ {t} /\ t \in Waiting
  BY DEF Coming, Waiting, TypeOK
<1>4. Cardinality(Coming') = Cardinality(Coming) + 1
  BY <1>3, WorkersFinite, FS_AddElement
<1>5. Len(queue) \in Nat
  BY LenProperties DEF TypeOK
<1>6. SignalInv'
  BY <1>3, <1>4, <1>5, WorkersFinite DEF SignalInv
<1> QED BY <1>1, <1>2, <1>6

\* front() and pop_front(): the job moves from the queue to the worker, one job
\* and one worker less on either side of SignalInv.
LEMMA WorkerTake ==
  ASSUME PoolInv, NEW t \in Worker, worker_take(t)
  PROVE  PoolInv'
<1> USE PoolConstants DEF PoolInv, worker_take
<1>1. /\ Head(queue) \in Job /\ Tail(queue) \in Seq(Job)
      /\ Len(queue) \in Nat \ {0}
      /\ Len(Tail(queue)) = Len(queue) - 1
      /\ Head(queue) = queue[1]
      /\ \A i \in 1 .. Len(queue) - 1 : Tail(queue)[i] = queue[i + 1]
  BY HeadTailProperties, LenProperties, EmptySeq DEF TypeOK
<1>2. TypeOK' /\ QueueUnderMutex' /\ HolderInv'
  BY <1>1 DEF TypeOK, QueueUnderMutex, HolderInv
<1>3. EachJobOnce'
  <2>1. DOMAIN queue = 1 .. Len(queue) /\ DOMAIN queue' = 1 .. Len(queue) - 1
    BY <1>1, LenProperties DEF TypeOK
  <2>2. \A u \in Worker : w'[u] = IF u = t THEN queue[1] ELSE w[u]
    BY <1>1 DEF TypeOK
  <2>3. \A i \in DOMAIN queue' : queue'[i] = queue[i + 1] /\ i + 1 \in DOMAIN queue
    BY <1>1, <2>1
  <2>4. 1 \in DOMAIN queue
    BY <1>1, <2>1
  <2>5. \A i \in DOMAIN queue' :
          /\ runs'[queue'[i]] = 0
          /\ queue'[i] # arg'
          /\ \A k \in DOMAIN queue' : i # k => queue'[i] # queue'[k]
          /\ \A u \in Worker : w'[u] # queue'[i]
    <3> SUFFICES ASSUME NEW i \in DOMAIN queue'
                 PROVE  /\ runs'[queue'[i]] = 0
                        /\ queue'[i] # arg'
                        /\ \A k \in DOMAIN queue' : i # k => queue'[i] # queue'[k]
                        /\ \A u \in Worker : w'[u] # queue'[i]
      OBVIOUS
    <3>1. i + 1 # 1 /\ \A k \in DOMAIN queue' : i # k => i + 1 # k + 1
      BY <2>1, <1>1
    <3> QED BY <2>2, <2>3, <2>4, <3>1 DEF EachJobOnce
  <2>6. \A u \in Held' :
          /\ runs'[w'[u]] = 0
          /\ w'[u] # arg'
          /\ \A v \in Held' : v # u => w'[v] # w'[u]
    BY <2>2, <2>4 DEF EachJobOnce, Held
  <2> QED BY <2>5, <2>6 DEF EachJobOnce
<1>4. /\ Coming' = Coming \ {t} /\ t \in Coming
      /\ Waiting' = Waiting
  BY DEF Coming, Waiting, TypeOK
<1>5. Cardinality(Coming') = Cardinality(Coming) - 1
  BY <1>4, WorkersFinite, FS_RemoveElement
<1>6. SignalInv'
  BY <1>1, <1>4, <1>5, WorkersFinite DEF SignalInv
<1> QED BY <1>2, <1>3, <1>6

\* Releasing the mutex with a job in hand.
LEMMA WorkerUnlock ==
  ASSUME PoolInv, NEW t \in Worker, worker_unlock(t)
  PROVE  PoolInv'
<1> USE PoolConstants DEF PoolInv, worker_unlock
<1>1. TypeOK' /\ QueueUnderMutex' /\ HolderInv'
  BY DEF TypeOK, QueueUnderMutex, HolderInv
<1>2. EachJobOnce'
  BY DEF EachJobOnce, Held
<1>3. Coming' = Coming /\ Waiting' = Waiting
  BY DEF Coming, Waiting, TypeOK
<1>4. SignalInv'
  BY <1>3 DEF SignalInv
<1> QED BY <1>1, <1>2, <1>4

\* The job is run for the first time, and the worker is on its way again.
LEMMA WorkerRun ==
  ASSUME PoolInv, NEW t \in Worker, worker_run(t)
  PROVE  PoolInv'
<1> USE PoolConstants DEF PoolInv, worker_run
<1>1. w[t] # None /\ w[t] \in Job /\ t \in Held
  BY DEF HolderInv, TypeOK, Held
<1>2. TypeOK' /\ QueueUnderMutex' /\ HolderInv'
  BY <1>1 DEF TypeOK, QueueUnderMutex, HolderInv
<1>3. EachJobOnce'
  <2>1. \A u \in Worker : w'[u] = IF u = t THEN None ELSE w[u]
    BY DEF TypeOK
  <2>2. \A j \in Job : runs'[j] = IF j = w[t] THEN 1 ELSE runs[j]
    BY <1>1 DEF TypeOK, EachJobOnce
  <2>3. \A i \in DOMAIN queue : queue[i] \in Job /\ queue[i] # None
    BY ElementOfSeq, LenProperties DEF TypeOK
  <2>4. \A i \in DOMAIN queue' :
          /\ runs'[queue'[i]] = 0
          /\ queue'[i] # arg'
          /\ \A k \in DOMAIN queue' : i # k => queue'[i] # queue'[k]
          /\ \A u \in Worker : w'[u] # queue'[i]
    BY <2>1, <2>2, <2>3 DEF EachJobOnce
  <2>5. \A u \in Held' :
          /\ runs'[w'[u]] = 0
          /\ w'[u] # arg'
          /\ \A v \in Held' : v # u => w'[v] # w'[u]
    BY <1>1, <2>1, <2>2 DEF EachJobOnce, Held, TypeOK
  <2>6. arg' # None => runs'[arg'] = 0
    BY <1>1, <2>2 DEF EachJobOnce, TypeOK
  <2>7. \A j \in Job : runs'[j] <= 1
    BY <2>2 DEF EachJobOnce
  <2> QED BY <2>4, <2>5, <2>6, <2>7 DEF EachJobOnce
<1>4. /\ Coming' = Coming \cup {t} /\ t \notin Coming
      /\ Waiting' = Waiting
  BY DEF Coming, Waiting, TypeOK
<1>5. Cardinality(Coming') = Cardinality(Coming) + 1
  BY <1>4, WorkersFinite, FS_AddElement
<1>6. Len(queue) \in Nat
  BY LenProperties DEF TypeOK
<1>7. SignalInv'
  BY <1>4, <1>5, <1>6, WorkersFinite DEF SignalInv
<1> QED BY <1>2, <1>3, <1>7

\* thread_pool_queue is called with a job that is nowhere in the pool.
LEMMA QueueCall ==
  ASSUME PoolInv, NEW j \in Job, queue_call(j)
  PROVE  PoolInv'
<1> USE PoolConstants DEF PoolInv, queue_call, Fresh
<1>1. TypeOK' /\ QueueUnderMutex' /\ HolderInv'
  BY DEF TypeOK, QueueUnderMutex, HolderInv
<1>2. EachJobOnce'
  BY DEF EachJobOnce, Held
<1>3. SignalInv'
  BY DEF SignalInv, Waiting, Coming
<1> QED BY <1>1, <1>2, <1>3

\* The event loop takes and releases the mutex.
LEMMA QueueLockUnlock ==
  ASSUME PoolInv, queue_lock \/ queue_unlock
  PROVE  PoolInv'
<1> USE PoolConstants DEF PoolInv, queue_lock, queue_unlock
<1>1. TypeOK' /\ QueueUnderMutex' /\ HolderInv'
  BY DEF TypeOK, QueueUnderMutex, HolderInv
<1>2. EachJobOnce'
  BY DEF EachJobOnce, Held
<1>3. SignalInv'
  BY DEF SignalInv, Waiting, Coming
<1> QED BY <1>1, <1>2, <1>3

\* push_back: the queue is one job ahead of the workers until the signal.
LEMMA QueuePush ==
  ASSUME PoolInv, queue_push
  PROVE  PoolInv'
<1> USE PoolConstants DEF PoolInv, queue_push
<1>1. arg \in Job /\ arg # None
  BY DEF HolderInv, TypeOK
<1>2. /\ Len(queue) \in Nat /\ queue' \in Seq(Job)
      /\ Len(queue') = Len(queue) + 1
      /\ \A i \in 1 .. Len(queue) : queue'[i] = queue[i]
      /\ queue'[Len(queue) + 1] = arg
      /\ DOMAIN queue = 1 .. Len(queue) /\ DOMAIN queue' = 1 .. Len(queue) + 1
  BY <1>1, AppendProperties, LenProperties DEF TypeOK
<1>3. TypeOK' /\ QueueUnderMutex' /\ HolderInv'
  BY <1>2 DEF TypeOK, QueueUnderMutex, HolderInv
<1>4. EachJobOnce'
  <2>1. \A i \in DOMAIN queue' :
          \/ i \in DOMAIN queue /\ queue'[i] = queue[i]
          \/ i = Len(queue) + 1 /\ queue'[i] = arg
    BY <1>2
  <2>2. \A i \in DOMAIN queue : queue[i] # None
    BY ElementOfSeq, LenProperties DEF TypeOK
  <2>3. \A t \in Worker : w[t] # arg
    BY <1>1 DEF EachJobOnce, Held
  <2>4. \A i \in DOMAIN queue' :
          /\ runs'[queue'[i]] = 0
          /\ queue'[i] # arg'
          /\ \A k \in DOMAIN queue' : i # k => queue'[i] # queue'[k]
          /\ \A u \in Worker : w'[u] # queue'[i]
    BY <1>1, <2>1, <2>2, <2>3 DEF EachJobOnce
  <2> QED BY <2>4 DEF EachJobOnce, Held
<1>5. SignalInv'
  BY <1>2, WorkersFinite DEF SignalInv, Waiting, Coming, QueueUnderMutex
<1> QED BY <1>3, <1>4, <1>5

\* pthread_cond_signal: if a worker sleeps, one more is on its way.
LEMMA QueueSignal ==
  ASSUME PoolInv, queue_signal
  PROVE  PoolInv'
<1> USE PoolConstants DEF PoolInv, queue_signal
<1>1. PICK S \in SUBSET Waiting :
        /\ Waiting # {} => S # {}
        /\ wpc' = [t \in Worker |-> IF t \in S THEN "woken" ELSE wpc[t]]
  OBVIOUS
<1>2. TypeOK' /\ QueueUnderMutex' /\ HolderInv'
  BY <1>1 DEF TypeOK, QueueUnderMutex, HolderInv, Waiting
<1>3. EachJobOnce'
  BY DEF EachJobOnce, Held
<1>4. SignalInv'
  <2> SUFFICES ASSUME Waiting' # {}
               PROVE  Len(queue) <= Cardinality(Coming') + 0
    BY DEF SignalInv
  <2>1. PICK t \in S : t \in Worker
    BY <1>1 DEF Waiting
  <2>2. Coming \cup {t} \subseteq Coming' /\ t \notin Coming
    BY <1>1, <2>1 DEF Coming, Waiting, TypeOK
  <2>3. IsFiniteSet(Coming')
    BY FS_Subset DEF Coming
  <2>4. Cardinality(Coming \cup {t}) = Cardinality(Coming) + 1
    BY <2>2, WorkersFinite, FS_AddElement
  <2>5. /\ Cardinality(Coming \cup {t}) <= Cardinality(Coming')
        /\ Cardinality(Coming') \in Nat
    BY <2>2, <2>3, FS_Subset, FS_CardinalityType
  <2>6. Waiting # {}
    BY <1>1, <2>1
  <2>7. Len(queue) <= Cardinality(Coming) + 1 /\ Len(queue) \in Nat
    BY <2>6, LenProperties DEF SignalInv, TypeOK
  <2> QED BY <2>4, <2>5, <2>7, WorkersFinite
<1> QED BY <1>2, <1>3, <1>4
-----------------------------------------------------------------------------
\* PoolInv holds in every reachable state.
THEOREM PoolInvariant == Spec => []PoolInv
<1>1. PoolInv /\ [Next]_vars => PoolInv'
  <2> SUFFICES ASSUME PoolInv, [Next]_vars PROVE PoolInv'
    OBVIOUS
  <2>1. ASSUME NEW t \in Worker, WorkerStep(t) PROVE PoolInv'
    BY <2>1, WorkerLock, WorkerWait, WorkerTake, WorkerUnlock, WorkerRun
       DEF WorkerStep
  <2>2. ASSUME NEW t \in Worker, worker_spurious(t) PROVE PoolInv'
    BY <2>2, WorkerSpurious
  <2>3. ASSUME NEW j \in Job, queue_call(j) PROVE PoolInv'
    BY <2>3, QueueCall
  <2>4. CASE QueueStep
    BY <2>4, QueueLockUnlock, QueuePush, QueueSignal DEF QueueStep
  <2>5. CASE UNCHANGED vars
    BY <2>5 DEF vars, PoolInv, TypeOK, QueueUnderMutex, HolderInv, EachJobOnce,
                Held, SignalInv, Waiting, Coming
  <2> QED BY <2>1, <2>2, <2>3, <2>4, <2>5 DEF Next
<1> QED BY InitPoolInv, <1>1, PTL DEF Spec

\* The types of the pool's variables.
THEOREM PoolTypeCorrect == Spec => []TypeOK
<1>1. PoolInv => TypeOK
  BY DEF PoolInv
<1> QED BY <1>1, PoolInvariant, PTL

\* tp->queue is touched only by the thread that holds tp->mu, however many
\* workers there are.
THEOREM MutexProtectsQueue == Spec => []QueueUnderMutex
<1>1. PoolInv => QueueUnderMutex
  BY DEF PoolInv
<1> QED BY <1>1, PoolInvariant, PTL

\* No job is in two places at a time, and none is run twice.
THEOREM JobsRunAtMostOnce == Spec => []EachJobOnce
<1>1. PoolInv => EachJobOnce
  BY DEF PoolInv
<1> QED BY <1>1, PoolInvariant, PTL

\* One pthread_cond_signal per push is enough for any number of workers: while
\* one sleeps, the others on their way suffice for the jobs in the queue.
THEOREM NoLostWakeup == Spec => []NoSleepOnBacklog
<1>1. PoolInv => NoSleepOnBacklog
  <2> SUFFICES ASSUME PoolInv, Waiting # {}, mpc # "signal"
               PROVE  Len(queue) <= Cardinality(Coming)
    BY DEF NoSleepOnBacklog
  <2> QED BY WorkersFinite DEF PoolInv, SignalInv
<1> QED BY <1>1, PoolInvariant, PTL

-----------------------------------------------------------------------------
(* The pool implements JobQueue. *)

\* While a worker has no job in hand, fewer jobs are held than there are
\* workers: each worker holds one.
LEMMA RoomToStart ==
  ASSUME PoolInv, NEW t \in Worker, w[t] = None
  PROVE  Cardinality({w[u] : u \in Held}) < Cardinality(Worker)
<1> DEFINE R == {w[u] : u \in Held}
           f == [u \in Held |-> w[u]]
<1>1. Held \subseteq Worker \ {t}
  BY DEF Held
<1>2. /\ IsFiniteSet(Worker \ {t})
      /\ Cardinality(Worker \ {t}) = Cardinality(Worker) - 1
      /\ Cardinality(Worker) \in Nat
  BY PoolConstants, FS_RemoveElement, FS_CardinalityType
<1>3. IsFiniteSet(Held) /\ Cardinality(Held) <= Cardinality(Worker) - 1
  BY <1>1, <1>2, FS_Subset
<1>4. f \in Surjection(Held, R)
  BY DEF Surjection
<1>5. Cardinality(R) <= Cardinality(Held)
  <2> HIDE DEF R, f
  <2> QED BY <1>3, <1>4, FS_Surjection
<1>6. IsFiniteSet(R)
  <2> HIDE DEF R, f
  <2> QED BY <1>3, <1>4, FS_Surjection
<1>7. Cardinality(R) \in Nat /\ Cardinality(Held) \in Nat
  <2> HIDE DEF R, f
  <2> QED BY <1>3, <1>6, FS_CardinalityType
<1> QED BY <1>2, <1>3, <1>5, <1>7

\* A pushed job is submitted: it is neither queued, nor running, nor finished.
LEMMA PushSubmits ==
  ASSUME PoolInv, queue_push
  PROVE  \E j \in Job : Pool!Submit(j)
<1> USE PoolConstants DEF PoolInv, queue_push
<1>1. arg \in Job /\ arg # None
  BY DEF HolderInv, TypeOK
<1>2. arg \notin Pool!Known
  BY <1>1 DEF EachJobOnce, Held, TypeOK, Pool!Known
<1>3. UNCHANGED <<{w[u] : u \in Held}, {j \in Job : runs[j] > 0}>>
  BY DEF Held
<1>4. Pool!Submit(arg)
  BY <1>2, <1>3 DEF Pool!Submit
<1> QED BY <1>1, <1>4

\* front() and pop_front() start the oldest job.
LEMMA TakeStarts ==
  ASSUME PoolInv, NEW t \in Worker, worker_take(t)
  PROVE  Pool!Start
<1> USE PoolConstants DEF PoolInv, worker_take
<1>1. w[t] = None
  BY DEF HolderInv
<1>2. Cardinality({w[u] : u \in Held}) < Cardinality(Worker)
  BY <1>1, RoomToStart
<1>3. Head(queue) \in Job /\ Head(queue) # None
  BY HeadTailProperties DEF TypeOK
<1>4. \A u \in Worker : w'[u] = IF u = t THEN Head(queue) ELSE w[u]
  BY DEF TypeOK
<1>5. Held' = Held \cup {t} /\ t \notin Held
  BY <1>1, <1>3, <1>4 DEF Held
<1>6. {w[u] : u \in Held}' = {w[u] : u \in Held} \cup {Head(queue)}
  BY <1>4, <1>5 DEF Held
<1>7. Pool!Cardinality({w[u] : u \in Held}) = Cardinality({w[u] : u \in Held})
  BY Zenon DEF Cardinality, Pool!Cardinality
<1> QED BY <1>2, <1>6, <1>7 DEF Pool!Start

\* The end of w.f(w.arg) finishes the job.
LEMMA RunFinishes ==
  ASSUME PoolInv, NEW t \in Worker, worker_run(t)
  PROVE  \E j \in Job : Pool!Finish(j)
<1> USE PoolConstants DEF PoolInv, worker_run
<1>1. w[t] # None /\ w[t] \in Job /\ t \in Held
  BY DEF HolderInv, TypeOK, Held
<1>2. \A u \in Worker : w'[u] = IF u = t THEN None ELSE w[u]
  BY DEF TypeOK
<1>3. Held' = Held \ {t}
  BY <1>2 DEF Held
<1>4. {w[u] : u \in Held}' = {w[u] : u \in Held} \ {w[t]}
  BY <1>1, <1>2, <1>3 DEF EachJobOnce, Held
<1>5. \A j \in Job : runs[j] \in Nat
                    /\ runs'[j] = IF j = w[t] THEN runs[j] + 1 ELSE runs[j]
  BY <1>1 DEF TypeOK
<1>6. {j \in Job : runs[j] > 0}' = {j \in Job : runs[j] > 0} \cup {w[t]}
  BY <1>1, <1>5
<1>7. PICK j \in Job : j = w[t]
  BY <1>1
<1>8. Pool!Finish(j)
  BY <1>1, <1>4, <1>6, <1>7 DEF Pool!Finish
<1> QED BY <1>8

\* The pool, with its mutex, its condition variable and its spurious wakeups,
\* starts every job once, in the order of thread_pool_queue, on as many threads
\* as there are workers.
THEOREM PoolImplementsJobQueue == Spec => ImplementsJobQueue
<1>1. Init => Pool!Init
  BY DEF Init, Held, Pool!Init
<1>2. PoolInv /\ [Next]_vars => [Pool!Next]_(Pool!vars)
  <2> SUFFICES ASSUME PoolInv, [Next]_vars
               PROVE  Pool!Next \/ UNCHANGED Pool!vars
    OBVIOUS
  <2>1. ASSUME UNCHANGED <<queue, w, runs>> PROVE UNCHANGED Pool!vars
    BY <2>1 DEF Pool!vars, Held
  <2>2. ASSUME NEW t \in Worker, WorkerStep(t) \/ worker_spurious(t)
        PROVE  Pool!Next \/ UNCHANGED Pool!vars
    <3>1. CASE worker_take(t)
      BY <3>1, TakeStarts DEF Pool!Next
    <3>2. CASE worker_run(t)
      BY <3>2, RunFinishes DEF Pool!Next
    <3>3. CASE \/ worker_lock(t) \/ worker_wait(t)
               \/ worker_unlock(t) \/ worker_spurious(t)
      BY <3>3, <2>1 DEF worker_lock, worker_wait, worker_unlock, worker_spurious
    <3> QED BY <2>2, <3>1, <3>2, <3>3 DEF WorkerStep
  <2>3. ASSUME NEW j \in Job, queue_call(j) PROVE UNCHANGED Pool!vars
    BY <2>3, <2>1 DEF queue_call
  <2>4. CASE QueueStep
    <3>1. CASE queue_push
      BY <3>1, PushSubmits DEF Pool!Next
    <3>2. CASE queue_lock \/ queue_signal \/ queue_unlock
      BY <3>2, <2>1 DEF queue_lock, queue_signal, queue_unlock
    <3> QED BY <2>4, <3>1, <3>2 DEF QueueStep
  <2>5. CASE UNCHANGED vars
    BY <2>5, <2>1 DEF vars
  <2> QED BY <2>2, <2>3, <2>4, <2>5 DEF Next
<1> QED BY <1>1, <1>2, PoolInvariant, PTL DEF Spec, ImplementsJobQueue, Pool!Spec
=============================================================================
