------------------------------ MODULE EventLoop ------------------------------
(***************************************************************************)
(* The event loop of server.cpp: the table of connections by descriptor,   *)
(* the idle list, poll() and its timeout, accepting, serving and closing   *)
(* connections, and process_timers with its two kinds of timers.           *)
(*                                                                         *)
(* The loop is one thread; the steps below are the points between which    *)
(* the clock may advance or a client may act.  A connection object is an   *)
(* address: `delete conn' frees it and a later `new Conn()' may return the *)
(* same address.  The TTL heap appears as what TtlHeap is shown to         *)
(* implement, a partial map from entries to deadlines.  Requests appear by *)
(* their effect on timers and key ownership; bytes and values do not.      *)
(***************************************************************************)
EXTENDS DList, Integers, Sequences, FiniteSetsExt

\* Conn holds the addresses a Conn object can have; None is also no timer and
\* no entry in poll_args.
CONSTANTS
  Fd,           \* descriptors accept() can return
  Entry,        \* addresses an Entry object can have
  Ttl,          \* the non-negative times a PEXPIRE may give
  k_idle_timeout_ms,
  k_max_works,
  TimeoutMod,   \* 2^32: how many values int32_t has
  MaxNow        \* bound: the clock stops there

ASSUME LoopConstants ==
  /\ Fd \subseteq Nat /\ IsFiniteSet(Fd)
  /\ Ttl \subseteq Nat
  /\ k_idle_timeout_ms \in Nat /\ k_max_works \in Nat /\ MaxNow \in Nat
  /\ TimeoutMod \in Nat /\ k_idle_timeout_ms < TimeoutMod \div 2
  /\ {None, ListHead} \cap Conn = {} /\ None # ListHead /\ None \notin Nat
  /\ IsFiniteSet(Conn)

VARIABLES
  now,          \* CLOCK_MONOTONIC, in ms
  conn,         \* the Conn object at each address, None when it is not allocated
  fd2conn,      \* g_data.fd2conn
  idle_list,    \* the pointers of g_data.idle_list and of the idle_node in each Conn
  db,           \* the entries in conn->db, by address of the Conn
  owner,        \* Entry.owner_conn of the allocated entries, else None
  expire,       \* g_data.heap: the deadline of each entry that has a TTL
  poll_args,    \* what poll() was asked about each descriptor, and its revents
  listening,    \* poll_args[0].revents # 0
  wake,         \* when poll() times out, None for never
  pc,           \* where the loop is
  cur,          \* the descriptor main serves
  now_ms,       \* now_ms of process_timers
  nworks        \* nworks of process_timers

vars == <<now, conn, fd2conn, idle_list, db, owner, expire, poll_args,
          listening, wake, pc, cur, now_ms, nworks>>

ioVars == <<poll_args, listening, wake, cur>>
connVars == <<conn, fd2conn, idle_list>>
keyVars == <<db, owner, expire>>
timerVars == <<now_ms, nworks>>

Event == {"POLLIN", "POLLOUT", "POLLERR"}

ConnObject ==
  [fd : Fd, want : {"read", "write"}, want_close : BOOLEAN,
   outgoing : BOOLEAN,           \* is there an unsent response?
   last_active_ms : Nat]

\* The connection is kept beside the descriptor it was polled under, so that
\* properties can compare it with the one main finds there later.
PollArg == [conn : Conn, revents : SUBSET Event]

\* A null pointer is neither.
ASSUME NullIsNoObject == None \notin ConnObject \cup PollArg

Live == {c \in Conn : conn[c] # None}
Armed == {e \in Entry : expire[e] # None}

TypeOK ==
  /\ now \in Nat
  /\ conn \in [Conn -> ConnObject \cup {None}]
  /\ fd2conn \in [Fd -> Conn \cup {None}]
  /\ LET Ptrs == [Conn \cup {ListHead} -> Conn \cup {ListHead, None}]
     IN  idle_list \in [next : Ptrs, prev : Ptrs]
  /\ db \in [Conn -> SUBSET Entry]
  /\ owner \in [Entry -> Conn \cup {None}]
  /\ expire \in [Entry -> Nat \cup {None}]
  /\ poll_args \in [Fd -> PollArg \cup {None}]
  /\ listening \in BOOLEAN
  /\ wake \in Nat \cup {None}
  /\ pc \in {"prepare", "poll", "accept", "conns", "read", "write", "close",
             "idle_timers", "ttl_timers", "aborted", "killed"}
  /\ cur \in Fd \cup {None}
  /\ now_ms \in Nat
  /\ nworks \in Nat

Init ==
  /\ now = 0
  /\ conn = [c \in Conn |-> None]
  /\ fd2conn = [fd \in Fd |-> None]
  /\ idle_list = dlist_init
  /\ db = [c \in Conn |-> {}]
  /\ owner = [e \in Entry |-> None]
  /\ expire = [e \in Entry |-> None]
  /\ poll_args = [fd \in Fd |-> None]
  /\ listening = FALSE
  /\ wake = None
  /\ pc = "prepare"
  /\ cur = None
  /\ now_ms = 0
  /\ nworks = 0

-----------------------------------------------------------------------------
\* Faulty variant of slot_cleared: the slot of fd2conn is left as it is.
slot_kept(c) == fd2conn

slot_cleared(c) == [fd2conn EXCEPT ![conn[c].fd] = None]

\* close(fd), the slot of fd2conn, the idle list, then `delete conn'.  The
\* entries of conn->db are not freed and keep their owner_conn and their TTL.
conn_destroy(c) ==
  /\ fd2conn' = slot_cleared(c)
  /\ idle_list' = deleted(dlist_detach(idle_list, c), c)
  /\ conn' = [conn EXCEPT ![c] = None]

\* The least recently active connection.
First == idle_list.next[ListHead]

IdleTimers ==
  IF dlist_empty(idle_list) THEN {}
  ELSE {conn[First].last_active_ms + k_idle_timeout_ms}

TtlTimers == {expire[e] : e \in Armed}

\* Faulty variants of timers: only one kind is looked at.
timers_no_heap == IdleTimers
timers_no_idle == TtlTimers

timers == IdleTimers \cup TtlTimers

\* Faulty variant of next_timer_ms: a timer that was missed is taken for one to
\* come.
next_timer_ms_no_missed ==
  LET timeout == (Min(timers) - now) % TimeoutMod
  IN  IF timers = {} \/ 2 * timeout >= TimeoutMod THEN None ELSE now + timeout

\* next_timer_ms, as the moment poll() is to return: None for never.  The
\* difference is truncated to int32_t, and poll() takes a negative timeout for
\* an infinite one.
next_timer_ms ==
  LET next == Min(timers)
      timeout == (next - now) % TimeoutMod
  IN  IF timers = {} THEN None
      ELSE IF next <= now THEN next       \* timeout 0
      ELSE IF 2 * timeout >= TimeoutMod THEN None
      ELSE now + timeout

\* poll_args from fd2conn, then next_timer_ms and the call of poll().
prepare ==
  /\ pc = "prepare"
  /\ poll_args' = [fd \in Fd |-> IF fd2conn[fd] = None THEN None
                                 ELSE [conn |-> fd2conn[fd], revents |-> {}]]
  /\ listening' = FALSE
  /\ wake' = next_timer_ms
  /\ pc' = "poll"
  /\ UNCHANGED <<now, connVars, keyVars, timerVars, cur>>

Polled == {fd \in Fd : poll_args[fd] # None}

\* The events poll() may report for a descriptor: those asked for, and errors.
Reportable(fd) ==
  LET asked == IF conn[fd2conn[fd]].want = "read" THEN "POLLIN" ELSE "POLLOUT"
  IN  {{}, {asked}, {"POLLERR"}, {asked, "POLLERR"}}

\* poll() returns with events on some descriptors.
poll_ready ==
  /\ pc = "poll"
  /\ \E l \in BOOLEAN, r \in [Polled -> SUBSET Event] :
       /\ \A fd \in Polled : r[fd] \in Reportable(fd)
       /\ l \/ \E fd \in Polled : r[fd] # {}
       /\ listening' = l
       /\ poll_args' = [fd \in Fd |-> IF fd \in Polled
                                      THEN [poll_args[fd] EXCEPT !.revents = r[fd]]
                                      ELSE None]
  /\ pc' = "accept"
  /\ UNCHANGED <<now, connVars, keyVars, timerVars, wake, cur>>

\* poll() returns 0 because its timeout has passed.
poll_timeout ==
  /\ pc = "poll"
  /\ wake # None /\ now >= wake
  /\ pc' = "accept"
  /\ UNCHANGED <<now, connVars, keyVars, timerVars, ioVars>>

\* EINTR: the loop starts over without looking at the timers.
poll_interrupted ==
  /\ pc = "poll"
  /\ pc' = "prepare"
  /\ UNCHANGED <<now, connVars, keyVars, timerVars, ioVars>>

\* `new Conn()' at address c, for the lowest descriptor that is free.
handle_accept(c) ==
  LET fd == Min(Fd \ {conn[d].fd : d \in Live})
  IN  /\ conn' = [conn EXCEPT ![c] =
                    [fd |-> fd, want |-> "read", want_close |-> FALSE,
                     outgoing |-> FALSE, last_active_ms |-> now]]
      /\ idle_list' = dlist_insert_before(idle_list, ListHead, c)
      /\ db' = [db EXCEPT ![c] = {}]
      /\ fd2conn' = [fd2conn EXCEPT ![fd] = c]

accept_one ==
  /\ pc = "accept"
  /\ \/ /\ listening
        /\ Fd \ {conn[d].fd : d \in Live} # {}
        /\ \E c \in Conn \ Live : handle_accept(c)
     \/ UNCHANGED <<connVars, db>>       \* not ready, or accept() failed
  /\ pc' = "conns"
  /\ UNCHANGED <<now, owner, expire, timerVars, ioVars>>

\* Faulty variant of accept: idle connections are closed between poll() and
\* the use of its results.
accept_after_idle ==
  \/ accept_one
  \/ /\ pc = "accept" /\ ~dlist_empty(idle_list)
     /\ conn[First].last_active_ms + k_idle_timeout_ms < now
     /\ conn_destroy(First)
     /\ UNCHANGED <<now, keyVars, timerVars, ioVars, pc>>

accept == accept_one

-----------------------------------------------------------------------------
\* The descriptor the loop over poll_args comes to next.
NextFd == Min(Polled)

\* There are events, and the connection was not destroyed in between.
Ready(fd) == poll_args[fd].revents # {} /\ fd2conn[fd] # None

skip_conn ==
  /\ pc = "conns"
  /\ Polled # {}
  /\ ~Ready(NextFd)
  /\ poll_args' = [poll_args EXCEPT ![NextFd] = None]
  /\ UNCHANGED <<now, connVars, keyVars, timerVars, listening, wake, pc, cur>>

\* Faulty variant of moved_to_back: the connection stays where it is.
moved_to_back_not(c) == idle_list

moved_to_back(c) == dlist_insert_before(dlist_detach(idle_list, c), ListHead, c)

\* The connection becomes the most recently active one, then its I/O starts.
touch_conn ==
  LET fd == NextFd
      c == fd2conn[fd]
      ready == poll_args[fd].revents
  IN  /\ pc = "conns"
      /\ Polled # {}
      /\ Ready(fd)
      /\ cur' = fd
      /\ conn' = [conn EXCEPT ![c].last_active_ms = now]
      /\ idle_list' = moved_to_back(c)
      /\ pc' = IF "POLLIN" \in ready THEN "read"
               ELSE IF "POLLOUT" \in ready THEN "write" ELSE "close"
      /\ UNCHANGED <<now, fd2conn, keyVars, timerVars, poll_args, listening, wake>>

Cur == fd2conn[cur]

\* What follows handle_read in main.
AfterRead == IF "POLLOUT" \in poll_args[cur].revents THEN "write" ELSE "close"

\* One request of handle_read's loop, with its response appended.
respond ==
  /\ pc = "read"
  /\ conn' = [conn EXCEPT ![Cur].outgoing = TRUE]
  /\ UNCHANGED <<now, fd2conn, idle_list, ioVars, timerVars, pc>>

\* SET or ZADD of a key that is not there: entry_new and hm_insert.
do_set(e) ==
  /\ respond
  /\ owner[e] = None
  /\ owner' = [owner EXCEPT ![e] = Cur]
  /\ db' = [db EXCEPT ![Cur] = @ \cup {e}]
  /\ UNCHANGED expire

\* hm_delete from owner->db, then entry_del: no TTL, no entry.
entry_del(e) ==
  /\ db' = [db EXCEPT ![owner[e]] = @ \ {e}]
  /\ expire' = [expire EXCEPT ![e] = None]
  /\ owner' = [owner EXCEPT ![e] = None]

do_del(e) ==
  /\ respond
  /\ e \in db[Cur]
  /\ entry_del(e)

expire_at(ttl) == IF ttl < 0 THEN None ELSE now + ttl

\* PEXPIRE of a key that is there; a negative time removes the TTL.
do_expire(e, ttl) ==
  /\ respond
  /\ e \in db[Cur]
  /\ expire' = [expire EXCEPT ![e] = expire_at(ttl)]
  /\ UNCHANGED <<db, owner>>

\* Any request that only reads, or that finds nothing to change.
do_other ==
  /\ respond
  /\ UNCHANGED keyVars

\* A message that is too long or does not parse: an error response is appended
\* and the connection is to be closed.
bad_request ==
  /\ pc = "read"
  /\ conn' = [conn EXCEPT ![Cur].outgoing = TRUE, ![Cur].want = "write",
                          ![Cur].want_close = TRUE]
  /\ pc' = AfterRead
  /\ UNCHANGED <<now, fd2conn, idle_list, keyVars, ioVars, timerVars>>

\* read() returned 0 or failed, before any request was taken.
read_fails ==
  /\ pc = "read"
  /\ ~conn[Cur].outgoing
  /\ conn' = [conn EXCEPT ![Cur].want_close = TRUE]
  /\ pc' = AfterRead
  /\ UNCHANGED <<now, fd2conn, idle_list, keyVars, ioVars, timerVars>>

\* No complete request is left (or EAGAIN): a response turns the connection
\* to writing.
read_ends ==
  /\ pc = "read"
  /\ conn' = [conn EXCEPT ![Cur].want = IF conn[Cur].outgoing THEN "write" ELSE @]
  /\ pc' = AfterRead
  /\ UNCHANGED <<now, fd2conn, idle_list, keyVars, ioVars, timerVars>>

\* Faulty variant of full_socket: the connection goes back to reading.
full_socket_gives_up == [conn EXCEPT ![Cur].want = "read"]

\* EAGAIN: the connection waits for the next writable event.
full_socket == conn

\* handle_write: everything sent, the socket full, an error, or the peer gone.
\* The server neither ignores SIGPIPE nor passes MSG_NOSIGNAL, so a write to a
\* peer that has reset the connection ends the process.
handle_write ==
  /\ pc = "write"
  /\ \/ /\ conn' = [conn EXCEPT ![Cur].outgoing = FALSE, ![Cur].want = "read"]
        /\ pc' = "close"
     \/ /\ conn' = full_socket
        /\ pc' = "close"
     \/ /\ conn' = [conn EXCEPT ![Cur].want_close = TRUE]
        /\ pc' = "close"
     \/ /\ UNCHANGED conn
        /\ pc' = "killed"
  /\ UNCHANGED <<now, fd2conn, idle_list, keyVars, ioVars, timerVars>>

\* The end of the body of main's loop over poll_args.
close_conn ==
  /\ pc = "close"
  /\ IF "POLLERR" \in poll_args[cur].revents \/ conn[Cur].want_close
     THEN conn_destroy(Cur)
     ELSE UNCHANGED connVars
  /\ poll_args' = [poll_args EXCEPT ![cur] = None]
  /\ cur' = None
  /\ pc' = "conns"
  /\ UNCHANGED <<now, keyVars, timerVars, listening, wake>>

-----------------------------------------------------------------------------
\* process_timers reads the clock once.
start_timers ==
  /\ pc = "conns"
  /\ Polled = {}
  /\ now_ms' = now
  /\ nworks' = 0
  /\ pc' = "idle_timers"
  /\ UNCHANGED <<now, connVars, keyVars, ioVars>>

\* The first connection of the idle list has been idle for too long.
IdleExpired ==
  /\ ~dlist_empty(idle_list)
  /\ conn[First].last_active_ms + k_idle_timeout_ms < now_ms

idle_timers ==
  /\ pc = "idle_timers"
  /\ \/ IdleExpired /\ conn_destroy(First) /\ UNCHANGED pc
     \/ ~IdleExpired /\ UNCHANGED connVars /\ pc' = "ttl_timers"
  /\ UNCHANGED <<now, keyVars, ioVars, timerVars>>

\* Entries that can be at heap[0].
Root == {e \in Armed : \A f \in Armed : expire[e] <= expire[f]}
Due(e) == e \in Root /\ expire[e] < now_ms

\* owner_conn is a Conn that still exists and has the entry in its db.
OwnerHolds(e) == owner[e] \in Live /\ e \in db[owner[e]]

\* One iteration of the TTL loop.  The memory of a freed owner may still hold
\* the old db, and hm_delete finds the entry there; if it was given to another
\* connection, or was overwritten, hm_delete does not, and the assertion that
\* follows it ends the process.
expire_key(e) ==
  /\ pc = "ttl_timers"
  /\ Due(e)
  /\ \/ /\ OwnerHolds(e) \/ owner[e] \notin Live
        /\ entry_del(e)
        /\ nworks' = nworks + 1
        /\ pc' = IF nworks >= k_max_works THEN "prepare" ELSE pc
     \/ /\ ~OwnerHolds(e)
        /\ pc' = "aborted"
        /\ UNCHANGED <<keyVars, nworks>>
  /\ UNCHANGED <<now, connVars, ioVars, now_ms>>

timers_done ==
  /\ pc = "ttl_timers"
  /\ \A e \in Entry : ~Due(e)
  /\ pc' = "prepare"
  /\ UNCHANGED <<now, connVars, keyVars, ioVars, timerVars>>

Tick ==
  /\ now < MaxNow
  /\ pc \notin {"aborted", "killed"}
  /\ now' = now + 1
  /\ UNCHANGED <<connVars, keyVars, ioVars, timerVars, pc>>

Request ==
  \/ \E e \in Entry : do_set(e) \/ do_del(e)
  \/ \E e \in Entry, ttl \in Ttl \cup {-1} : do_expire(e, ttl)
  \/ do_other

\* The steps that depend on nobody but the loop itself.
Step ==
  \/ prepare \/ accept \/ skip_conn \/ touch_conn
  \/ bad_request \/ read_fails \/ read_ends \/ handle_write \/ close_conn
  \/ start_timers \/ idle_timers
  \/ \E e \in Entry : expire_key(e)
  \/ timers_done

Next ==
  \/ Step \/ Request
  \/ poll_ready \/ poll_timeout \/ poll_interrupted
  \/ Tick

Spec == Init /\ [][Next]_vars

\* The thread keeps running; a read of at most 4096 bytes holds finitely many
\* requests; a poll() whose timeout has passed returns, and is not interrupted
\* by a signal every single time.
Fairness ==
  /\ WF_vars(Step)
  /\ SF_vars(wake # None /\ now >= wake /\ (poll_ready \/ poll_timeout))

FairSpec == Spec /\ Fairness

-----------------------------------------------------------------------------
(***************************************************************************)
(* Properties.                                                             *)
(***************************************************************************)

\* Every connection that exists is found in fd2conn under its own descriptor,
\* and fd2conn holds nothing else: main dereferences what it finds there
\* without another check, after connections were closed by the loop over
\* poll_args, by an error and by the idle timer.
FdTableExact ==
  /\ TypeOK
  /\ \A c \in Live : fd2conn[conn[c].fd] = c
  /\ \A fd \in Fd : fd2conn[fd] # None =>
       fd2conn[fd] \in Live /\ conn[fd2conn[fd]].fd = fd

\* The idle list holds every connection that exists, once, and no other, from
\* the least to the most recently active, and reads the same backwards:
\* next_timer_ms and process_timers look at its first element only, and
\* conn_destroy relies on the pointers of both neighbours.
IdleListExact ==
  \E list \in [1 .. Cardinality(Live) -> Live] :
    /\ Linked(idle_list, list, Cardinality(Live))
    /\ \A c \in Live : \E i \in DOMAIN list : list[i] = c
    /\ \A i, j \in DOMAIN list : i < j =>
         /\ list[i] # list[j]
         /\ conn[list[i]].last_active_ms <= conn[list[j]].last_active_ms

\* While the loop sleeps in poll(), no idle timeout of any connection and no
\* TTL of a key that a client can still see lies before the moment it wakes up:
\* the idle timeouts keep the sleep of a server with clients so short that
\* int32_t holds it, however long the TTLs are.
SleepCoversTimers ==
  pc = "poll" =>
    /\ \A c \in Live : wake # None /\ wake <= conn[c].last_active_ms + k_idle_timeout_ms
    /\ \A e \in Armed : owner[e] \in Live => wake # None /\ wake <= expire[e]

\* A descriptor that main has still to serve belongs to the connection it was
\* polled for, or to none: events of a closed connection never reach another
\* one that accept() gave the same descriptor.
EventsReachTheirConn ==
  pc \in {"conns", "read", "write", "close"} =>
    \A fd \in Polled : fd2conn[fd] \in {poll_args[fd].conn, None}

\* When the loop polls, a connection waits for writing exactly when a response
\* is waiting to be sent; otherwise the response would never leave, or the
\* connection would never be read again.
WaitsForTheRightEvent ==
  pc = "poll" => \A c \in Live : conn[c].want = "write" <=> conn[c].outgoing

\* A connection that is not being served: it waits for what it needs next, and
\* is not marked to be closed.  This is what the code does, not what it says of
\* a bad request ("still close after responding"): main closes the connection
\* in the turn that marked it, and the response it has queued is not sent.
Settled(c) ==
  /\ conn[c].want = "write" <=> conn[c].outgoing
  /\ ~conn[c].want_close

Serving == pc \in {"read", "write", "close", "killed"}

\* Only the connection that is being served can be unsettled, and it is settled
\* or to be closed when its turn ends: reading and writing never follow each
\* other in one turn, as poll() was asked for one of them.
ServeInv ==
  /\ cur # None <=> Serving
  /\ \A c \in Live : Settled(c) \/ (Serving /\ c = Cur)
  /\ Serving =>
       LET ready == poll_args[cur].revents
       IN  /\ cur \in Polled /\ Cur # None
           /\ pc = "read" => /\ "POLLIN" \in ready /\ "POLLOUT" \notin ready
                             /\ conn[Cur].want = "read" /\ ~conn[Cur].want_close
           /\ pc = "write" => Settled(Cur)
           /\ pc = "close" => Settled(Cur) \/ conn[Cur].want_close

\* What poll() has reported and main has not looked at yet is about the
\* connection that is in fd2conn now, and still fits what that one waits for.
PollInv ==
  /\ pc \in {"poll", "accept"} => \A fd \in Polled : fd2conn[fd] = poll_args[fd].conn
  /\ pc = "poll" => \A fd \in Polled : poll_args[fd].revents = {}
  /\ pc \in {"accept", "conns", "read", "write", "close"} =>
       \A fd \in Polled : fd2conn[fd] # None /\ fd # cur =>
         /\ "POLLIN" \in poll_args[fd].revents => conn[fd2conn[fd]].want = "read"
         /\ "POLLOUT" \in poll_args[fd].revents => conn[fd2conn[fd]].want = "write"

\* The inductive invariant of the loop: the properties above, what holds in the
\* middle of an iteration, and that no activity lies in the future.
LoopInv ==
  /\ FdTableExact /\ IdleListExact /\ SleepCoversTimers /\ EventsReachTheirConn
  /\ ServeInv /\ PollInv
  /\ \A c \in Live : conn[c].last_active_ms <= now

Stopped == pc \in {"aborted", "killed"}

\* The loop sleeps until something happens to a descriptor.
SleepsForever == pc = "poll" /\ wake = None

\* A key whose TTL has passed is removed, or its TTL moved or cleared by a
\* client, however many keys expire at once, unless the process ends.  Every key
\* with a connected owner goes.  A key whose owner is gone need not: when no
\* client is connected and the next deadline is too far away for int32_t, the
\* loop may sleep for ever; a key that is due at any other time goes as well.
DueKeysGo ==
  \A e \in Entry :
    (expire[e] # None /\ expire[e] < now /\ (owner[e] \in Live \/ ~SleepsForever)) ~>
      (expire[e] = None \/ expire[e] >= now \/ Stopped)

\* A connection that has been idle for longer than k_idle_timeout_ms is closed
\* or becomes active again, unless the process ends.
IdleConnsGo ==
  \A c \in Conn :
    (c \in Live /\ conn[c].last_active_ms + k_idle_timeout_ms < now) ~>
      (c \notin Live \/ conn[c].last_active_ms + k_idle_timeout_ms >= now \/ Stopped)

\* The assertion of process_timers: hm_delete finds the expired entry in the db
\* of its owner.
ExpiredKeyIsFound == pc # "aborted"
=============================================================================
