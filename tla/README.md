# TLA+ models of the Redis-like server

The modules in this directory model the server in `src/03`: what its data
structures and its event loop do step by step, what they promise, and why they
keep the promise. TLC checks the models on small instances; TLAPS proves the
results marked *proved* for every value of the constants.

## The system

One process. The event-loop thread owns all sockets, connections, keys and
timers; four worker threads only run destructors.

| Component | State | Operations | Interacts with |
|---|---|---|---|
| Event loop (`main`, `handle_accept`, `conn_destroy`, `handle_read`, `handle_write`) | `fd2conn`, the `Conn` objects, `poll_args` | accept, read, serve, write, close | everything below |
| Timers (`next_timer_ms`, `process_timers`) | `idle_list`, `heap` | compute the poll timeout, close idle connections, expire keys | idle list, TTL heap, keyspace of the owner |
| Idle list (`list.h`) | doubly linked list of `Conn` | detach, insert at the end | event loop |
| TTL heap (`heap.cpp`, `heap_upsert`, `heap_delete`, `entry_set_ttl`) | vector of (deadline, pointer to `Entry.heap_idx`) | set, move, clear a TTL, take the earliest | writes into the entries |
| Keyspace commands (`do_*`, `entry_*`) | `conn->db`, `Entry` | GET, SET, DEL, PEXPIRE, PTTL, KEYS, Z* | hash table, heap, sorted set, thread pool |
| Hash table (`hashtable.cpp`) | two tables, `migrate_pos` | insert, lookup, delete, clear, iterate; every one moves a few nodes | keyspace, sorted set |
| Sorted set, AVL tree (`zset.cpp`, `avl.cpp`) | tree with heights and counts, hash table | insert, update, delete, seek, offset | keyspace |
| Thread pool (`thread_pool.cpp`) | mutex, condition variable, queue | queue a job, run jobs | `entry_del` of large sorted sets |
| Connection I/O and wire format (`try_one_request`, `parse_req`, `out_*`) | `incoming`, `outgoing` | frame, parse, answer | commands, client |
| Client (`client.cpp`) | one request at a time | send, receive, print | server |

What is hard about it, and where (the list `hazards` in `PROJECT.json` gives the
lines): back-references from heap slots into objects that move; descriptors and
object addresses that are reused while older references to them exist; loops
that look only at the first element of an ordered structure; a poll timeout that
must cover every timer; work limits that leave something to do for later; a
resize spread over many operations; a condition variable shared by several
threads; rotations that must keep three kinds of links and two kinds of derived
values right; messages that the stream cuts and joins at any byte; objects that
one thread stops using and another destroys.

What makes each component correct, in a sentence: the heap gives the earliest
deadline and knows where every entry is; while clients are connected the loop never waits past a timer of theirs and it
never hands an event to the wrong connection; the hash table is a set although it
lives in two tables; the pool runs every job once; the sorted set's tree and table
agree and its counts are right; requests and responses survive the stream and the
encoding; a connection sees only its own keys.

## Modules

| Module | Models | Uses |
|---|---|---|
| `TtlQueue` | what the server expects of the TTL heap | |
| `TtlHeap` | `heap.cpp` and the heap operations of `server.cpp` | `TtlQueue` (refinement) |
| `TtlHeapProofs`, `HMapProofs`, `ThreadPoolProofs`, `EventLoopProofs`, `ZSetProofs`, `SessionProofs`, `CommandsProofs`, `ExchangeProofs` | the proofs about the module of that name | the module |
| `DList` | `list.h` on pointer maps | |
| `EventLoop` | the loop of `main`, connections, `process_timers` | `DList`; the map from entries to deadlines that `TtlHeap` implements |
| `NodeSet` | what the server expects of an `HMap` | |
| `HMap` | `hashtable.cpp` | `NodeSet` (refinement) |
| `JobQueue` | what `entry_del` expects of the thread pool | |
| `ThreadPool` | `thread_pool.cpp` | `JobQueue` (refinement) |
| `AvlTree` | `avl.cpp`: links, rotations, one iteration of each loop | |
| `ZSet` | `zset.cpp` and `do_zquery`, step by step | `AvlTree`; the set that `HMap` implements |
| `Session` | one connection from both ends: `query` and the server's buffers | |
| `Bytes` | little-endian words | |
| `RequestWire` | `send_request`, `parse_req` | `Bytes` |
| `ReplyWire` | `out_*`, `response_begin/end`, `read_response`, `print_response` | `Bytes` |
| `ClientLine` | the loop of the client that splits a line | `Bytes` |
| `Exchange` | a command from the typed line to the printed reply | the three above, composed |
| `Replies` | values, arguments and replies of commands | |
| `KeySpace` | what the commands promise: a private map per connection | `Replies` |
| `Commands` | the `do_*` functions and `entry_*` on `Entry` objects | `KeySpace` (refinement), `JobQueue` (composed); the sets and maps that `HMap` and `TtlHeap` implement |
| `MC...` | instances for TLC: constant values and symmetry sets | |

A component that was shown to implement its abstract specification appears in the
others as that specification: a hash table is a set, the heap a map of deadlines,
the pool a queue. So no state space is multiplied by details that another run has
settled.

Each model also contains, next to the definition it varies, a *faulty variant*:
a plausible slip in that piece of code. The list `mutants` in `PROJECT.json`
names for every property a variant that violates it, so that each property is
known to depend on the code it is about.

### TtlHeap

`heap`, `len` are the vector, `idx` is `Entry.heap_idx` of every entry, with -1
for `(size_t)-1`. An operation (`entry_set_ttl` for PEXPIRE, `entry_clear_ttl`
for a negative PEXPIRE and for `entry_del`, `do_ttl` for PTTL, `process_timers`
for the expiry of the root) changes the vector and then `heap_up` or `heap_down`
runs one loop iteration per step. During a sift `t` is the item in the local
variable and slot `pos` is a hole whose content is stale, as in the code.
`victim` is the entry whose `heap_idx` is reset when `entry_set_ttl` returns
from `heap_delete`. `process_timers` here takes one entry; its loop, the clock
and the owner are in `EventLoop`. The two branches of `process_timers` that skip
an item (`ref` null or pointing to -1, `owner_conn` null) are not actions:
`RefsExact` shows that the first cannot be taken, and no code sets `owner_conn`
to null on an entry that is still in the heap.

### EventLoop

`pc` follows the loop of `main`: `prepare` (poll arguments and timeout), `poll`,
`accept`, `conns` (the loop over `poll_args`), `read`/`write`/`close` for one
connection, `idle_timers` and `ttl_timers` of `process_timers`. The clock `now`
may advance between any two steps. `conn` maps addresses to `Conn` objects;
`conn_destroy` frees the address and `handle_accept` may get it back, with the
lowest free descriptor, as `accept(2)` does. `db` and `owner` say which entries a
connection's table holds and where `Entry.owner_conn` points; they are left alone
by `conn_destroy`, as in the code. A use of a freed owner has two outcomes: the
memory is still intact, or it is not and the assertion fails. A write to a peer
that is gone can end the process (SIGPIPE). `poll_args` keeps, beside the
descriptor, the connection that was polled; no action reads it, it is there for
`EventsReachTheirConn`. `idle_list` is the linked list itself, its `next` and
`prev` pointers in the head and in every `Conn`, changed by the assignments of
`list.h`. `want_read` and `want_write` always differ, so they are
one field `want`.

Left out: `die()` on a failing `poll` or `fcntl`, start-up, buffers (a response
is pending or not), the key strings (an entry is its key). The clock does not
advance between `next_timer_ms` and the call of `poll`.

### HMap

`newer` and `older` are the two `HTab`s (slots = mask + 1, 0 for a null table),
chains are sets. `hm_insert`, `hm_lookup` and `hm_delete` start an operation,
`rehash_skip` and `rehash_move` are the iterations of `hm_help_rehashing`, and
`finish` is the rest of the operation. `hcode & mask` is written with `%`, mask + 1
being a power of two. The constants of the code (4 slots, load factor 8, 128 nodes
of work) are parameters.

### ThreadPool

One step per pthread call or queue access. `pthread_cond_wait` may return without
a signal; `pthread_cond_signal` wakes at least one waiter if there is one. `runs`
counts how often each job was run.

### AvlTree and ZSet

`tree` holds the five fields of every `AVLNode`. A ZNode stands for its name.
Updates are one step up to the call of `avl_fix`, then one step per iteration of its
loop, then the rest of the call; `avl_del` of a node with two children detaches the
successor first and swaps it in with `avl_del_swap`. The successor takes the links
of the removed node but keeps its own `height` and `cnt`, which belong to the
place it came from; the history variable `swapped` records that this has happened to the
set. ZQUERY is `zset_seekge`, then one step per iteration of `avl_offset` and one
per member put out. After the removal of the last member `zset->root` points to a
freed node (`Freed`); what follows it has no defined outcome and the model stops.

### Session

Messages are sequences of cells, a header and a body; a cell knows which request or
response it belongs to, so that a property can tell whether the stream is in order.
`query`, `write_all`, `read_full` are the client, one step per system call;
`handle_read`, `try_one_request` (one call per step), `read_done`, `handle_write`,
`close_conn` and `idle_close` are the server. Every `read` and `write` moves any
number of cells that fit. A request is good, malformed (`parse_req` fails) or too
long. The server's close is orderly, or a reset when input was left unread, which
may destroy bytes under way. `window` is 1 for `client.cpp`, which waits for each
answer, and 2 for a client that pipelines. `eof_result` is what `read_full` makes of
an end of file: the buffer stays zero from there on and only the size that
`print_response` finds is checked. Responses other than nil are taken to be shorter
than 256 bytes here; see *Other deviations*.

### RequestWire, ReplyWire, ClientLine, Exchange

Words have `WordLen` bytes of base `Base`; two bytes of base 8 keep the carries
and the bounds of four bytes of base 256. `parse_req` runs one string per step on
*any* byte string. The client prints one element per step from a response of which
`kept` bytes arrived. `Exchange` runs the three after each other: the bytes that
`send_request` makes of the typed line are what `parse_req` reads. A typed line is
given together with the arguments it was written for (`LaidOut` says how: bare or in
quotes, with spaces between); what a user means by other lines is not defined.
`refuse_request` is the line whose request is over `k_max_msg`, which `send_request`
does not send.

### Commands

The `do_*` functions, one action each, with their error returns, on `Entry` objects
that are allocated, reached through a `db` and the heap, handed to the pool or freed
(`life`). An argument is a number, empty, or something else; `str2int` and `str2dbl`
take the empty text for 0. `KeySpace` has no entries, heap or pool: a connection's
keys have values and deadlines, a command changes its own connection's keys only, and
a key disappears by itself only after its deadline. The refinement mapping reads a
key's value and deadline off the entry that the lookup finds. It is stated up to the
first use of freed memory. Connections stay open here; what closing them does to
their entries is in `EventLoop`.

## Runs

| Run | Instance | Shows |
|---|---|---|
| `ttl_heap` | 7 entries, 3 deadlines | `RefsExact`, `RootIsMin`, the inductive invariant `HeapInv` (with `TypeOK`) in every intermediate state, `ImplementsQueue` |
| `event_loop_safety` | 2 addresses, 2 descriptors, 2 entries, TTL 0 or 2, idle timeout 1, clock to 2, timeouts modulo 4 | `FdTableExact` (with `TypeOK`), `IdleListExact`, `SleepCoversTimers`, `EventsReachTheirConn`, `WaitsForTheRightEvent`, and the inductive invariant `LoopInv` |
| `event_loop_live` | 1 connection, 2 entries, TTL 0 or 2, work limit 0 (one key per round), clock to 3, timeouts modulo 4 | `DueKeysGo`, `IdleConnsGo` |
| `event_loop_assertion` | 2 connections, 2 entries, TTL 0 or 1 | a violation: `ExpiredKeyIsFound` |
| `hmap` | 6 nodes with colliding codes, 2 slots at first, load factor 1, 1 node of work | the inductive invariant `HMapInv` (with `TypeOK`), `KeysReplyComplete`, `MigrateInBounds`, `LoadBounded`, `ImplementsSet`, `RehashEnds` |
| `thread_pool` | 3 workers, 4 jobs | the inductive invariant `PoolInv` (with `TypeOK`), `QueueUnderMutex`, `EachJobOnce`, `NoSleepOnBacklog`, `ImplementsJobQueue`, `JobsGetDone` |
| `zset` | 6 members, 2 scores, offsets -2, 0, 3, limits 0, 3 | `TreeHoldsMembers` (with `TypeOK`), `BalancedUntilSwap`, `QueryExact`, `QueriesEnd` |
| `zset_offset_ends` | 7 members, 1 score | a violation: `OffsetEnds` |
| `session` | 4 requests of three kinds, 1 or 2 under way, sockets of 7 cells, reads of 6 | `StreamIntact`, `NoRequestStranded` (with `TypeOK`), `AnswersMatch`, the inductive invariant `SessionInv`, `QueryReturns` |
| `session_pipeline` | 2 requests under way | a violation: `ServedIsAnswered` |
| `commands` | 2 connections, 1 key, 2 members, 2 entries, TTL -1 and 0, empty and bad arguments | `ReferencesLive` (with `TypeOK`), `HandedOverOnce`, `ImplementsKeySpace` |
| `exchange` | all bodies of up to 8 bytes over 3 values, lines of up to 3 arguments and one that is too long to be sent, replies of up to 3 elements, cut at every byte | `ArgumentsExact`, `ParseExact`, `ClientReadsReply`, `ShapeIsRight` |

Why the bounds suffice to see the interesting cases: seven entries give a heap of
three full levels, in which nodes with one child exist on the way and the last item
can move up after a deletion in another subtree, and three deadlines make the choice
between two smaller children matter; two connections with two descriptors and two
addresses allow either to be reused while the other is being served; clock values
up to 2 (3 for liveness) with timeouts of 1 allow a timer to be due and, when missed
by one tick, to be armed again, and a TTL of 2 is negative as a timeout modulo 4
(for `DueKeysGo` too, which fails without its condition on the owner and the sleep); six nodes with load factor 1
go through two resizes (2, 4 and 8 slots), the second one starting with a used
`migrate_pos`; three workers are one sleeping, one busy and one on its way to the
queue; six members make every rotation, single and double, at the root and below
it, and a successor that is not the right child; reads of 6 cells with requests of 3
end inside a header, inside a body and at a boundary, and bring two requests at once;
a socket of 7 cells forces short writes of responses of 4; two entries for one key
of two connections make a key that is deleted while it is being destroyed, and set
anew; eight bytes hold two strings, and every count and length that points past the
end; a reply of three members with their scores exceeds the limit of 20 bytes.

The entries of the heap, the addresses in the event-loop runs, and connections, keys and members in
`commands`, are interchangeable (no definition orders or names them), and only
safety is checked with that symmetry.

Deadlock is not checked where the system may stop: the process of the event loop may
end (failed assertion, SIGPIPE), a `Session` ends with its client, `ZSet` and
`Commands` stop at a use of freed memory, an `Exchange` ends with a refused request
or a connection that broke off. `ttl_heap`, `hmap` and `thread_pool` check it.

Fairness. `HMap`: the loop in progress continues (one thread, no
blocking call in it). `ZSet`: the same for the loop of a query. `EventLoop`: the
thread's own steps continue (weak
fairness); a `poll` whose timeout has passed returns, and is not interrupted by a
signal each time (strong fairness, since EINTR starts it over). Nothing is
assumed of clients or of the clock. `ThreadPool`: every worker is scheduled (weak
fairness: the mutex may be unfair to a single worker); the event-loop thread gets
the mutex if it is free again and again (strong fairness), which is needed because
spurious wakeups may occupy the mutex for ever otherwise. `Session`: a client in
`query` continues with its next system call, and the server serves a connection that
is ready (weak fairness); nobody has to make a request, to leave, or to be idle.

### What the violations show

`event_loop_assertion`. `conn_destroy` neither deletes the connection's entries nor clears their
`owner_conn` or TTL. A client that sets a TTL and disconnects leaves an item in the
heap whose owner is freed memory. When it fires, `process_timers` follows
`owner_conn`: if a new connection was allocated at that address, its `db` does not
hold the entry, `hm_delete` returns null and the assertion at `server.cpp:1004`
ends the process; if the memory was overwritten otherwise, anything may happen.
`src/README.md:78` says that TTLs are scoped per connection.

`zset_offset_ends`. `avl_offset` navigates by `cnt` alone. After `avl_del` has
replaced a node with two children by its successor, the successor's `cnt` is still
that of the place it came from (`avl.cpp:156-158` copies links only), while `avl.h` calls `cnt` the
size of the subtree. With seven members there is a tree on which the loop goes from a
node to its parent and back for ever, and the whole server with it. `QueryExact` and
`QueriesEnd` show that without such a deletion ZQUERY is exact and ends.

`session_pipeline`. `try_one_request` clears `outgoing` before each response
(`server.cpp:842`) and runs in a loop over the requests that one read brought: only the
last of them is answered, and a client that pipelines waits for the others for ever.
`client.cpp` does not pipeline, and for it `QueryReturns` holds.

### Other deviations

Seen while modelling, part of the models, and not claimed otherwise by any property:

- `zset_delete` of the last member leaves `zset->root` pointing to the freed node
  (`zset.cpp:161`); the models stop where it is followed, and `TreeHoldsMembers` shows
  that it happens to empty sets only.
- The error response to a request that is malformed or too long is never sent. It is
  appended to `outgoing`, and `want_close` is set with the words "still close after
  responding" (`server.cpp:836`); but `poll` was asked for POLLIN, so nothing is written in
  that turn, and at its end `main` closes the connection (`server.cpp:1130`). The models
  do the same: `ServeInv` records that no connection with `want_close` outlives its turn,
  and `AnswersMatch` and `QueryReturns` say that a waiting client takes the end of the
  stream for no answer and comes back. No property claims that the response arrives.
- The timeout of `poll` is an `int32_t` (`server.cpp:956`, `1081`): when no client is
  connected and the next deadline is between 2^31 and 2^32 ms away, `poll` sleeps without
  a timeout, and the keys that closed connections left in the heap stay there until
  a client connects or a signal interrupts it. `DueKeysGo` excepts keys without a connected owner in such a sleep,
  and only these; with a client connected its idle timer keeps the timeout short.
- `read_full` returns success at the end of the stream (`client.cpp:69`): a response
  that was cut off after its tags and lengths is printed with zeros in place of the
  missing bytes. `ShapeIsRight` says how far the client can be misled once the header
  has arrived. If only the first byte of the header arrives and the length is 1 modulo
  256, the client prints nil.
- The empty text is a number (`server.cpp:508-513`): `PEXPIRE key ""` sets the TTL 0.
- A `write` to a peer that has reset the connection ends the server by SIGPIPE
  (`server.cpp:897`), and likewise the client.
- An unmatched quote sends the client's inner loop round for ever (`client.cpp:377`).

## Proofs

Each proof is for every value of the constants that satisfies the named assumption
of its module; none of the bounds of the runs is used. The clock bound `MaxNow` is a
constant too: any bound will do.

| Module | Theorem | States |
|---|---|---|
| `TtlHeapProofs` | `HeapInvariant`, `TypeCorrect`, `RefsAlwaysExact`, `RootAlwaysMin`, `HeapImplementsQueue` | `HeapInv`, `TypeOK`, `RefsExact`, `RootIsMin`, `ImplementsQueue` |
| `HMapProofs` | `HMapInvariant`, `KeysReplyAlwaysComplete`, `MigrationInBounds`, `LoadStaysBounded`, `HMapImplementsSet` | `HMapInv`, `KeysReplyComplete`, `MigrateInBounds`, `LoadBounded`, `ImplementsSet` |
| `ThreadPoolProofs` | `PoolInvariant`, `PoolTypeCorrect`, `MutexProtectsQueue`, `JobsRunAtMostOnce`, `NoLostWakeup`, `PoolImplementsJobQueue` | `PoolInv`, `TypeOK`, `QueueUnderMutex`, `EachJobOnce`, `NoSleepOnBacklog`, `ImplementsJobQueue` |
| `EventLoopProofs` | `LoopInvariant`, `TableAlwaysExact`, `IdleListAlwaysExact`, `SleepNeverTooLong`, `EventsNeverMisdelivered`, `AlwaysWaitsRight` | `LoopInv`, `FdTableExact`, `IdleListExact`, `SleepCoversTimers`, `EventsReachTheirConn`, `WaitsForTheRightEvent` |
| `ZSetProofs` | `TreeInvariant`, `TreeIsTheSet`, `BalanceInvariant`, `TreeIsBalanced`, `QueryInvariant`, `QueriesAreExact` | `ZInv`, `TreeHoldsMembers`, `BalanceInv`, `BalancedUntilSwap`, `QueryInv`, `QueryExact` |
| `SessionProofs` | `SessionInvariant`, `StreamAlwaysIntact`, `RequestsNeverStranded`, `AnswersAlwaysMatch` | `SessionInv`, `StreamIntact`, `NoRequestStranded`, `AnswersMatch` |
| `ExchangeProofs` | `RequestInvariant`, `RequestsAreExact`, `TypedIsMeant`, `ReplyInvariant`, `RepliesAreExact`, `AcceptedHasShape` | `RequestInv`, `ParseExact`, `ArgumentsExact`, `ReplyInv`, `ClientReadsReply`, `ShapeIsRight` |
| `CommandsProofs` | `NoDanglingEntry`, `DestroyedOnce`, `CommandsImplementKeySpace` | `ReferencesLive`, `HandedOverOnce`, `ImplementsKeySpace` |

Each has the same shape: an inductive invariant (which a run also checks, but for those
of `ExchangeProofs` and `ZSetProofs`, which quantify over all byte strings and over
families of sets of nodes), one lemma per
action (or per group of actions that change the same things), the properties as its
consequences, and the refinement step by step from the same lemmas. The induction
theorems of the library take a predicate as a parameter, which the provers cannot
instantiate; the modules that need induction begin with what they need of it, stated
for a set of naturals, and with definition by recursion stated for a function.

### TtlHeap

Assumption `HeapConstants`: deadlines are naturals, `None` is neither an entry nor
a number. `RefsExact` and `RootIsMin` speak of the states between operations and are
not inductive. `HeapInv` says what is true in the middle of a sift: every item outside
of the hole is where its entry believes (`RefInv`, with the held item and the
deleted entry as the two exceptions), and every pair of parent and child outside of
the hole is ordered, while around the hole the grandparent is not above the
grandchildren, and `t` is below the children when going up and above the parent
when going down (`OrderInv`). `OpenHoleOrder` is
shared by insertion and deletion, `MoveTypeRef` by both sifts. That an ordered heap
has its minimum at the root (`OrderedRootIsMin`) goes by a least counterexample,
from the well-foundedness of `<` on the naturals. The refinement maps each entry to
the deadline in its slot, or in `t` while it is held; each operation is one step of
`TtlQueue` and each iteration of a sift is a stuttering step.

### HMap

Assumption `HMapConstants`: at least two slots at first (the code has 4), a load factor
and a work limit of at least 1, any hash function. `HMapInv` adds to the type: in each
table a node is in the slot of its code and `size` counts the nodes (`TabInv`); no node
is in both tables and the slots before `migrate_pos` are empty (`DrainInv`); and the
room in the newer table (`LoadInv`). `LoadBounded` is not inductive: whether the next
insertion fits depends on how far the migration has come. A node that is
still to be moved takes one place now and allows one insertion until then, so the
quantity that the steps preserve is `newer.size + 2 * older.size`, below the threshold,
except between an insertion and the first move that follows it. This is why one
node of work per operation already suffices; the code does 128.

### ThreadPool

Assumption `PoolConstants`: finitely many workers, at least one. `PoolInv` adds to the
properties who has a job in hand (`HolderInv`), and `NoSleepOnBacklog` in the moment
between the push and the signal (`SignalInv`): while a worker waits, there are at most
as many jobs queued as workers on their way to the queue, plus the one whose signal is
about to be sent. A signal that wakes one waiter or more, a spurious wakeup, and a
worker that finds the queue empty again each keep it.

### EventLoop

Assumptions: `LoopConstants` (finitely many descriptors, which are naturals, and
finitely many addresses; the idle timeout is below half of the values of `int32_t`,
as 60 000 is) and `NullIsNoObject`. `LoopInv` consists of the first four properties,
`ServeInv`, `PollInv`, and that no last activity lies in the future. The last keeps the idle list
sorted when a connection moves to its end. `ServeInv` says that only the connection
that is being served can have flags that do not fit each other, and that they fit, or it
is to be closed, when its turn ends; it needs that `POLLIN` and `POLLOUT` never come
together, which is in `PollInv`: what `poll` reported for a descriptor that main has not
come to yet is about the connection that is there now and about what that one waits
for. Between `poll` and the loop over its results only `handle_accept` runs, and it
gets a descriptor that no connection has.

The list is handled by three lemmas about `list.h` alone (`DetachLinked`,
`InsertLinked`, `DeletedLinked`: what detaching, inserting and freeing a node do to a
ring of distinct nodes), from which follows that accepting, touching and closing a
connection keep `IdleListExact`. `NextTimer` shows that the truncated timeout is right
whenever there is a connection: the idle timeout of the first one in the list is the
bound, and it does not wrap. Without connections it can wrap, but then no key is
visible; `SleepCoversTimers` is stated accordingly.

### ZSet

Assumption `ZSetConstants`: names and scores are integers, finitely many nodes, `None`
and `Freed` are no nodes. What is below a node is a recursive definition over the
links, which a proof cannot unfold. So a tree is described from outside: `TreeAt` says
of a family `S` of sets of nodes that `S[n]` is `n` and what its two children have
below them, that the children of `n` point back to it and are different nodes, and that what is below
them lies on their side of `n`. `IsTree` is enough to compute with, and unique: the
induction is over the sizes of the sets (`Smallest`).

Each operation of `avl.cpp` has a lemma with the new family: `rot` (`RotateTree`: only
the two nodes that change places have other nodes below them), one iteration of
`avl_fix` (`FixTree`; a single or a double rotation, at the root or below it), the leaf that
`tree_insert` attaches (`InsertPlace`: the walk ends beside the neighbour of the new
pair; `AttachTree`), the node with at most one child that `avl_del_easy` takes out
(`DetachTree`), the successor (`Leftmost`, `Successor`: everything but the node is on
the same side of both) and `avl_del_swap` (`SwapTree`). Walks down the tree are
recursive functions; that they exist follows from the size of what is below
(`WalkExists`, `RankedRecursion`).

`TreeInv` says, between the steps of an update, which nodes are in the tree: all of them
after the insertion, without the node while it is being replaced or removed, and
with the node but without its successor until `avl_del_swap`; and that the successor
still fits in the node's place (`StandsFor`) after all rotations between. Nothing is
assumed of heights: `avl_fix` rotates with whatever they say, and needs only that a side which is
taller by 2 has a node (`NoHeight`), so `TreeHoldsMembers` holds also for the
trees that `avl_del_swap` leaves with wrong heights and counts. At last `SubtreeIs`
shows that `Subtree`, by which the runs look at the tree, gives `S`.

*Heights and counts.* `Right` says of a tree that `height` and `cnt` of every node are
what the fields of its children call for (`Fields`) and that the heights of the children
differ by 1 at most (`Even`). In the middle of an update one node is an exception, the
one where `avl_fix` stands. `Near` says that its own fields may be wrong, that the
heights of its children differ by 2 at most, that the height of its parent goes by the
height `h` the node had before the update, and that all other nodes are right. `Due` ties the
heights of the children to `h` so that whatever `avl_fix` makes of the node is at
most 1 higher or lower than `h`. So the parent becomes the exception (`NearAbove`), and
above the root there is none. The cases
are those of the code: no rotation (`UpdateNear`), a single one (`FixSingle`) and
a double one (`FixDouble`), each with the new heights and counts of the nodes that change places
and the observation that no other node sees a difference (`RotOthers`). A rotation and the
nodes it touches are one predicate there (`Turns`), from which its facts follow. `BalanceInv`
holds until `avl_del_swap` first runs. That the fields of all nodes fit those of
their children makes them the number of nodes and the length of the longest path below
(`CountsExact`, `HeightsExact`), which `BalancedUntilSwap` compares them with.

*Queries.* A subtree is an interval of the order (`Convex`), so the places of a node and of
its child differ by the count of what lies between them (`ChildPlace`). With right
counts, then, one iteration of `avl_offset` changes `pos` by exactly what the place
changes by, and it gives up only if no member has the place it looks for
(`OffsetMoves`). `QueryInv` says that the node plus the way from `pos` to `off` is
the place of the next member of the answer, and that the reply so far holds those from
the first one on; `FoundPlace` is its beginning, that `zset_seekge` finds the member
with as many before it as come before the pair. The offset may be negative or far beyond
the set, and the answer is then empty.

### Session

Assumption `SessionConstants`: lengths, buffer, socket and window are at least 1. The
three properties depend on each other and on what is between the two ends. `Pending`
is all that the client has written or still writes and the server has not consumed:
until the connection is given up it is the tail of the sequence of requests
(`Aligned` gives each cell its place, counted from the end), it begins at a header
whenever the server may look at it, and its first request is later than all responses
in the stream (`PendingInv`). `OutgoingInv` says that the stream consists of whole
responses, and that all of them are in the socket while requests are served; this is
why `outgoing.clear()` drops whole responses and never a part of one, so the stream
stays intact although pipelined requests go unanswered. For `AnswersMatch`, `QueryInv`
says of a client with one request under way that all it has read of the current
response, all it can still read and all the server will look at belongs to a request
for which `query` has not returned. When a response is complete, a further cell would
start the response to a later request, and there is none; so nothing is left of the
stream, and what the next `query` reads is its own. The same argument shows that a
server cannot have written while the client is still sending.

The steps are lemmas about the two concatenations: most move cells from one part to
the next and change neither; `query` and `try_one_request` append and remove a message
(`AlignedAppend`, `AlignedDrop`, `AlignedNext`, `IntactAppend`), `conn_destroy`
cuts the stream off (`IntactPrefix`). Places are compared by division with remainder
(`SameQuotient`, `AddToRemainder`).

### Commands

Assumption `CommandsConstants`: entries are numbered as they are allocated, an argument
is text with a number. `ReferencesLive` and `HandedOverOnce` are inductive together:
entry_del hands over what it takes out of a db, so it must not have been handed over
before. The steps fall into six kinds (nothing changes, a new entry, another value,
another TTL, a deletion, a step of the pool), each with a lemma on the invariant and one on
what the lookups of all connections see afterwards; every command is then one command
of `KeySpace` on the key it names, and nothing for every other key and every other
connection. The deletions of the pool are stuttering steps, since no db leads to
the entry that is destroyed.

### Exchange

Assumptions: `BytesConstants` (a byte has two values or more, a word a byte or more),
`RequestConstants`, `LineConstants` (the lines are laid out as described above),
`ReplyConstants` (an error that says "too big" is itself not too big) and
`ExchangeConstants` (a length up to `k_max_msg` fits in its word). So the results hold
for bytes of 256 values, words of 4, numbers of 8 and a limit of 32 MB.

*Words.* `u32_at` and `u32` are inverse (`ReadBack`, `WriteBack`): the digits of a number
below `weight[WordLen]`, by `SameQuotient` and induction over the bytes. The same
induction shows what a flattened sequence of byte strings has at each offset, where
each of its parts begins, and that an encoded request is the count followed by its
strings.

*Requests.* `ParseInv` says that the strings read so far are those whose encoding the
body begins with (`ReadSoFar`), and that, when the body *is* an encoding, nothing else
has been read (`ReadsSent`). It makes `parse_req` exact in both directions: accepted
means encoded, and encoded, within the limit on arguments, means accepted.

*Lines.* `LineInv` says that the loop of the client stands between two arguments
(`Between`): those before it are in `cmd`, and only spaces lie between the end of the
last one and `pos`. What `find` returns at the beginning of an argument follows from
how it was written (`NextArgument`), and an open quote at the end leaves the loop where
it is, so the line is never taken as read. `RequestInv` joins the two across
`send_request`.

*Replies.* `TokenRead` says what `print_response` makes of the bytes of one element when
`kept` of them arrived: all of it, or, when the end is inside its length field, a length
that is at most the right one, since only the low bytes arrived; after the end it reads
nil (`TagLost`). Hence
`ReplyInv`: once the header has arrived, the client is either on track after the j-th
element (`OnTrack`: it has printed the tags and lengths of the first j, it stands where
the server put the next, and it waits for the ones to come), or it took a length for
a smaller one (`OffTrack`), and then what it still waits for, one byte for each nil, ends before the
response does. `read_response` compares where it stopped with the length in the header, and so accepts the
first only. That a reply is at most one level of arrays (`RepliesWellFormed`), and the
sum in `OffTrack`, are where the argument would fail for nested arrays.

### Only model-checked

Liveness (`DueKeysGo`, `IdleConnsGo`, `RehashEnds`, `JobsGetDone`, `QueriesEnd`,
`QueryReturns`) is out of the prover's reach.

Every invariant and every refinement that the passing runs check is proved.
`QueriesEnd` has its safe half in `QueryInvariant`, that `avl_offset` never loses its
target; that it arrives is only model-checked.

## Plan

All components are modelled, and all safety properties of the runs are proved. What would add
most from here: an abstract sorted set that `ZSet` implements up to its first
`avl_del_swap`, as `HMap` implements `NodeSet`, so that `Commands` could run ZQUERY
against it; and what becomes of ZQUERY after a swap, which today is only known to go
wrong.

## Not modelled

The string hash (`HMap` takes any function), the text of numbers, messages and
logging, the test programs, start-up of server and client, failing allocations, and
the exits by `die()`. See `components` in `PROJECT.json`.
