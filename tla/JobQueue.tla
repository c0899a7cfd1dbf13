------------------------------ MODULE JobQueue ------------------------------
(***************************************************************************)
(* What entry_del relies on when it hands a destructor to the thread pool: *)
(* every job that is queued is started once, in the order in which the     *)
(* jobs were queued, by one of a fixed number of threads, and no job runs  *)
(* twice or gets lost.  ThreadPool is shown to implement it.               *)
(***************************************************************************)
EXTENDS Naturals, Sequences, FiniteSets

CONSTANTS
  Job,        \* the Work items
  Threads     \* how many jobs may run at the same time

VARIABLES
  pending,    \* queued and not started
  running,    \* started and not finished
  finished

vars == <<pending, running, finished>>

Known == {pending[i] : i \in DOMAIN pending} \cup running \cup finished

Init ==
  /\ pending = << >>
  /\ running = {}
  /\ finished = {}

Submit(j) ==
  /\ j \notin Known
  /\ pending' = Append(pending, j)
  /\ UNCHANGED <<running, finished>>

Start ==
  /\ pending # << >>
  /\ Cardinality(running) < Threads
  /\ running' = running \cup {Head(pending)}
  /\ pending' = Tail(pending)
  /\ UNCHANGED finished

Finish(j) ==
  /\ j \in running
  /\ running' = running \ {j}
  /\ finished' = finished \cup {j}
  /\ UNCHANGED pending

Next == Start \/ \E j \in Job : Submit(j) \/ Finish(j)

Spec == Init /\ [][Next]_vars
=============================================================================
