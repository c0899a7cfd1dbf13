------------------------------ MODULE TtlQueue ------------------------------
(***************************************************************************)
(* What the rest of the server relies on when it uses g_data.heap: a       *)
(* partial map from entries to deadlines that answers two questions, the   *)
(* deadline of one entry (do_ttl) and an entry with the least deadline     *)
(* (next_timer_ms, process_timers).  TtlHeap is shown to implement it.     *)
(***************************************************************************)
EXTENDS Integers

CONSTANTS
  Entry,      \* the Entry objects (struct Entry, by address)
  Deadline,   \* the values of expire_at, in ms of the monotonic clock
  None        \* no deadline / no answer

VARIABLES
  expire,     \* the deadline of each entry, None when it has no TTL
  answer,     \* the deadline returned by the last ReadTtl
  fired       \* the entry removed by the last FireNext

vars == <<expire, answer, fired>>

Armed == {e \in Entry : expire[e] # None}

TypeOK ==
  /\ expire \in [Entry -> Deadline \cup {None}]
  /\ answer \in Deadline \cup {None}
  /\ fired \in Entry \cup {None}

Init ==
  /\ expire = [e \in Entry |-> None]
  /\ answer = None
  /\ fired = None

\* PEXPIRE with a non-negative time: arm the entry or move its deadline.
SetTtl(e, d) ==
  /\ expire' = [expire EXCEPT ![e] = d]
  /\ answer' = None
  /\ fired' = None

\* PEXPIRE with a negative time, or the deletion of the entry.
ClearTtl(e) ==
  /\ expire[e] # None
  /\ expire' = [expire EXCEPT ![e] = None]
  /\ answer' = None
  /\ fired' = None

\* PTTL of an entry that has a TTL reads that entry's own deadline.
ReadTtl(e) ==
  /\ expire[e] # None
  /\ answer' = expire[e]
  /\ fired' = None
  /\ UNCHANGED expire

\* The timer that fires is one of those that are due first.
FireNext(e) ==
  /\ expire[e] # None
  /\ \A f \in Armed : expire[e] <= expire[f]
  /\ expire' = [expire EXCEPT ![e] = None]
  /\ answer' = None
  /\ fired' = e

Next ==
  \E e \in Entry :
    \/ \E d \in Deadline : SetTtl(e, d)
    \/ ClearTtl(e)
    \/ ReadTtl(e)
    \/ FireNext(e)

Spec == Init /\ [][Next]_vars
=============================================================================
