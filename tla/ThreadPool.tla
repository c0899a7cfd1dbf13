----------------------------- MODULE ThreadPool -----------------------------
(***************************************************************************)
(* thread_pool.cpp: the worker threads and thread_pool_queue, called by    *)
(* the event-loop thread, over one mutex, one condition variable and one   *)
(* queue.  Each step is one call of the pthread library or one access to   *)
(* the queue, so every interleaving the mutex allows is explored.          *)
(*                                                                         *)
(* pthread_cond_wait may return without a signal, and pthread_cond_signal  *)
(* wakes at least one waiting thread (POSIX allows more), if there is one. *)
(***************************************************************************)
EXTENDS Naturals, Sequences, FiniteSets

CONSTANTS
  Worker,     \* tp->threads
  Job,        \* Work items; each is queued once, as an Entry is deleted once
  Main,       \* the event-loop thread
  None        \* no thread, no job

ASSUME PoolConstants ==
  /\ Worker # {} /\ IsFiniteSet(Worker)     \* assert(num_threads > 0)
  /\ Main \notin Worker /\ None \notin Worker \cup {Main}
  /\ None \notin Job

VARIABLES
  mu,         \* the thread that holds tp->mu
  queue,      \* tp->queue
  wpc,        \* where each worker is
  w,          \* the job each worker has taken from the queue (w of worker)
  mpc,        \* where the event-loop thread is in thread_pool_queue
  arg,        \* its argument
  runs        \* how often each job has been run

vars == <<mu, queue, wpc, w, mpc, arg, runs>>

TypeOK ==
  /\ mu \in Worker \cup {Main, None}
  /\ queue \in Seq(Job)
  /\ wpc \in [Worker -> {"lock", "check", "waiting", "woken", "unlock", "run"}]
  /\ w \in [Worker -> Job \cup {None}]
  /\ mpc \in {"out", "lock", "push", "signal", "unlock"}
  /\ arg \in Job \cup {None}
  /\ runs \in [Job -> Nat]

Init ==
  /\ mu = None
  /\ queue = << >>
  /\ wpc = [t \in Worker |-> "lock"]
  /\ w = [t \in Worker |-> None]
  /\ mpc = "out"
  /\ arg = None
  /\ runs = [j \in Job |-> 0]

Waiting == {t \in Worker : wpc[t] = "waiting"}

\* Jobs that have not been handed to thread_pool_queue yet.
Fresh(j) ==
  /\ runs[j] = 0
  /\ arg # j
  /\ \A i \in DOMAIN queue : queue[i] # j
  /\ \A t \in Worker : w[t] # j

-----------------------------------------------------------------------------
(* worker *)
\* Faulty variant of worker_lock: a thread that pthread_cond_wait has woken goes
\* on without having taken the mutex again.
worker_lock_not_again(t) ==
  /\ \/ wpc[t] = "lock" /\ mu = None /\ mu' = t
     \/ wpc[t] = "woken" /\ UNCHANGED mu
  /\ wpc' = [wpc EXCEPT ![t] = "check"]
  /\ UNCHANGED <<queue, w, mpc, arg, runs>>

worker_lock(t) ==
  /\ wpc[t] \in {"lock", "woken"}
  /\ mu = None
  /\ mu' = t
  /\ wpc' = [wpc EXCEPT ![t] = "check"]
  /\ UNCHANGED <<queue, w, mpc, arg, runs>>

\* The queue is empty: pthread_cond_wait releases the mutex and blocks.
worker_wait(t) ==
  /\ wpc[t] = "check"
  /\ queue = << >>
  /\ mu' = None
  /\ wpc' = [wpc EXCEPT ![t] = "waiting"]
  /\ UNCHANGED <<queue, w, mpc, arg, runs>>

\* pthread_cond_wait ends without a signal.
worker_spurious(t) ==
  /\ wpc[t] = "waiting"
  /\ wpc' = [wpc EXCEPT ![t] = "woken"]
  /\ UNCHANGED <<mu, queue, w, mpc, arg, runs>>

\* Faulty variants of worker_take: the job is not popped, or the queue is taken
\* from its back.
worker_take_no_pop(t) ==
  /\ wpc[t] = "check"
  /\ queue # << >>
  /\ w' = [w EXCEPT ![t] = Head(queue)]
  /\ wpc' = [wpc EXCEPT ![t] = "unlock"]
  /\ UNCHANGED <<mu, queue, mpc, arg, runs>>

worker_take_back(t) ==
  /\ wpc[t] = "check"
  /\ queue # << >>
  /\ w' = [w EXCEPT ![t] = queue[Len(queue)]]
  /\ queue' = SubSeq(queue, 1, Len(queue) - 1)
  /\ wpc' = [wpc EXCEPT ![t] = "unlock"]
  /\ UNCHANGED <<mu, mpc, arg, runs>>

worker_take(t) ==
  /\ wpc[t] = "check"
  /\ queue # << >>
  /\ w' = [w EXCEPT ![t] = Head(queue)]
  /\ queue' = Tail(queue)
  /\ wpc' = [wpc EXCEPT ![t] = "unlock"]
  /\ UNCHANGED <<mu, mpc, arg, runs>>

worker_unlock(t) ==
  /\ wpc[t] = "unlock"
  /\ mu' = None
  /\ wpc' = [wpc EXCEPT ![t] = "run"]
  /\ UNCHANGED <<queue, w, mpc, arg, runs>>

\* w.f(w.arg)
worker_run(t) ==
  /\ wpc[t] = "run"
  /\ runs' = [runs EXCEPT ![w[t]] = @ + 1]
  /\ w' = [w EXCEPT ![t] = None]
  /\ wpc' = [wpc EXCEPT ![t] = "lock"]
  /\ UNCHANGED <<mu, queue, mpc, arg>>

-----------------------------------------------------------------------------
(* thread_pool_queue *)
queue_call(j) ==
  /\ mpc = "out"
  /\ Fresh(j)
  /\ arg' = j
  /\ mpc' = "lock"
  /\ UNCHANGED <<mu, queue, wpc, w, runs>>

queue_lock ==
  /\ mpc = "lock"
  /\ mu = None
  /\ mu' = Main
  /\ mpc' = "push"
  /\ UNCHANGED <<queue, wpc, w, arg, runs>>

\* Faulty variant of queue_push: the job is pushed after arg was cleared.
queue_push_cleared ==
  /\ mpc = "push"
  /\ arg' = None
  /\ queue' = Append(queue, arg')
  /\ mpc' = "signal"
  /\ UNCHANGED <<mu, wpc, w, runs>>

queue_push ==
  /\ mpc = "push"
  /\ queue' = Append(queue, arg)
  /\ arg' = None
  /\ mpc' = "signal"
  /\ UNCHANGED <<mu, wpc, w, runs>>

\* Faulty variant of queue_signal: a worker is woken only for the first job.
queue_signal_first ==
  /\ mpc = "signal"
  /\ \E S \in SUBSET Waiting :
       /\ Waiting # {} /\ Len(queue) = 1 => S # {}
       /\ wpc' = [t \in Worker |-> IF t \in S THEN "woken" ELSE wpc[t]]
  /\ mpc' = "unlock"
  /\ UNCHANGED <<mu, queue, w, arg, runs>>

\* Faulty variant of queue_signal: no worker is woken.
queue_signal_never ==
  /\ mpc = "signal"
  /\ mpc' = "unlock"
  /\ UNCHANGED <<mu, queue, wpc, w, arg, runs>>

queue_signal ==
  /\ mpc = "signal"
  /\ \E S \in SUBSET Waiting :
       /\ Waiting # {} => S # {}
       /\ wpc' = [t \in Worker |-> IF t \in S THEN "woken" ELSE wpc[t]]
  /\ mpc' = "unlock"
  /\ UNCHANGED <<mu, queue, w, arg, runs>>

queue_unlock ==
  /\ mpc = "unlock"
  /\ mu' = None
  /\ mpc' = "out"
  /\ UNCHANGED <<queue, wpc, w, arg, runs>>

-----------------------------------------------------------------------------
WorkerStep(t) ==
  \/ worker_lock(t) \/ worker_wait(t)
  \/ worker_take(t) \/ worker_unlock(t) \/ worker_run(t)

QueueStep == queue_lock \/ queue_push \/ queue_signal \/ queue_unlock

Next ==
  \/ \E t \in Worker : WorkerStep(t) \/ worker_spurious(t)
  \/ \E j \in Job : queue_call(j)
  \/ QueueStep

Spec == Init /\ [][Next]_vars

\* Every thread is scheduled.  A thread that waits for the mutex gets it when
\* it is released often enough; the mutex need not be fair to the workers.
FairSpec ==
  /\ Spec
  /\ \A t \in Worker : WF_vars(WorkerStep(t))
  /\ SF_vars(QueueStep)

-----------------------------------------------------------------------------
(***************************************************************************)
(* Properties.                                                             *)
(***************************************************************************)

\* Whoever is between lock and unlock holds the mutex: tp->queue, a std::deque
\* with no locking of its own, is touched by one thread at a time.
QueueUnderMutex ==
  /\ \A t \in Worker : wpc[t] \in {"check", "unlock"} <=> mu = t
  /\ mpc \in {"push", "signal", "unlock"} <=> mu = Main

\* The jobs a worker holds.
Held == {t \in Worker : w[t] # None}

\* A queued job is in one place only and is run at most once: an Entry is
\* destroyed twice if two workers take it, or if it is still queued when it runs.
EachJobOnce ==
  /\ \A i \in DOMAIN queue :
       /\ runs[queue[i]] = 0
       /\ queue[i] # arg
       /\ \A k \in DOMAIN queue : i # k => queue[i] # queue[k]
       /\ \A t \in Worker : w[t] # queue[i]
  /\ \A t \in Held :
       /\ runs[w[t]] = 0
       /\ w[t] # arg
       /\ \A u \in Held : u # t => w[u] # w[t]
  /\ arg # None => runs[arg] = 0
  /\ \A j \in Job : runs[j] <= 1

\* Workers on their way to the queue.
Coming == {t \in Worker : wpc[t] \in {"lock", "woken", "check"}}

\* While a worker sleeps in pthread_cond_wait, there are at least as many
\* workers on their way to the queue as there are jobs in it: one signal per
\* push is enough, and no job waits for a busy worker while another one sleeps.
NoSleepOnBacklog ==
  Waiting # {} /\ mpc # "signal" => Len(queue) <= Cardinality(Coming)

\* Where a job can be: with a worker from front() to the end of the job, and
\* with the event loop until it is pushed.
HolderInv ==
  /\ \A t \in Worker : w[t] # None <=> wpc[t] \in {"unlock", "run"}
  /\ arg # None <=> mpc \in {"lock", "push"}

\* NoSleepOnBacklog at every moment: between the push and the signal the queue
\* may be one job ahead.
SignalInv ==
  Waiting # {} =>
    Len(queue) <= Cardinality(Coming) + (IF mpc = "signal" THEN 1 ELSE 0)

\* The inductive invariant of the pool: whatever the workers and the event loop
\* do next, at whatever point of their loops, it still holds.
PoolInv == TypeOK /\ QueueUnderMutex /\ HolderInv /\ EachJobOnce /\ SignalInv

Pool == INSTANCE JobQueue WITH
          Threads <- Cardinality(Worker),
          pending <- queue,
          running <- {w[t] : t \in Held},
          finished <- {j \in Job : runs[j] > 0}

\* The pool starts the jobs in the order of thread_pool_queue, each once.
ImplementsJobQueue == Pool!Spec

\* Every job handed to thread_pool_queue is run.
JobsGetDone == \A j \in Job : arg = j ~> runs[j] = 1
=============================================================================
