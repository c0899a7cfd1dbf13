------------------------------ MODULE Commands ------------------------------
(***************************************************************************)
(* do_request and the commands of server.cpp on the Entry objects: they    *)
(* are found through the db of a connection, their TTLs are in one heap    *)
(* that all connections share, and an entry with a large sorted set is     *)
(* destroyed by a thread of the pool while the event loop goes on.         *)
(*                                                                         *)
(* A db is the set of entries in it (HMap implements that), the heap a map *)
(* from entries to deadlines (TtlHeap), the pool a JobQueue (ThreadPool).  *)
(* An Entry is an object, not an address: numbered as allocated.  A sorted *)
(* set that has lost its last member has a root pointer to a freed node    *)
(* (see ZSet); what follows it has no defined outcome, and the model stops *)
(* there.  The connections stay open; EventLoop closes them.               *)
(***************************************************************************)
EXTENDS Replies, Sequences, FiniteSetsExt

CONSTANTS
  Entry,                   \* the Entry objects, in the order of their allocation
  k_large_container_size,
  Threads,                 \* size of the pool
  MaxNow                   \* bound: the clock stops there

ASSUME CommandsConstants ==
  /\ Entry \subseteq Nat /\ IsFiniteSet(Entry) /\ None \notin Conn \cup Nat
  /\ Val \subseteq Nat /\ k_large_container_size \in Nat
  /\ Arg \subseteq [text : {"num", "empty", "junk"}, n : Int]
  /\ Threads \in Nat \ {0} /\ MaxNow \in Nat

VARIABLES
  now,         \* the clock
  reply,       \* the last reply, and whom it went to
  db,          \* conn->db
  ent,         \* the fields of each entry: key, owner_conn, value
  expire,      \* g_data.heap
  life,        \* "fresh", "live", "queued" for destruction, "freed"
  pending, running, finished,    \* the pool's queue and threads
  defined      \* FALSE once freed memory was used

poolVars == <<pending, running, finished>>
cvars == <<now, reply, db, ent, expire, life, poolVars, defined>>

Pool == INSTANCE JobQueue WITH Job <- Entry

\* struct Entry: `drained' is a sorted set whose root was freed.
NoEntry == [key |-> None, owner |-> None, value |-> Absent, drained |-> FALSE]

CInit ==
  /\ now = 0 /\ reply = [to |-> None, tag |-> "none", vals |-> {}]
  /\ db = [c \in Conn |-> {}]
  /\ ent = [e \in Entry |-> NoEntry]
  /\ expire = [e \in Entry |-> None]
  /\ life = [e \in Entry |-> "fresh"]
  /\ Pool!Init
  /\ defined = TRUE

-----------------------------------------------------------------------------
\* Faulty variant of found: one db for all connections.
found_shared(c, k) == {e \in UNION {db[d] : d \in Conn} : ent[e].key = k}

\* hm_lookup(&conn->db, key, &entry_eq)
found(c, k) == {e \in db[c] : ent[e].key = k}
hm_lookup(c, k) == IF found(c, k) = {} THEN None ELSE CHOOSE e \in found(c, k) : TRUE

\* The value behind a lookup; expect_zset treats a missing key as empty.
value(e) == IF e = None THEN Absent ELSE ent[e].value
zset(e) == value(e).zset

\* A command that changes nothing.
answer(r) == reply' = r /\ UNCHANGED <<now, db, ent, expire, life, poolVars, defined>>

\* entry_new, and hm_insert into conn->db.
entry_new(c, k, v) ==
  LET fresh == {e \in Entry : life[e] = "fresh"}
      e == Min(fresh)
  IN  /\ fresh # {}
      /\ life' = [life EXCEPT ![e] = "live"]
      /\ ent' = [ent EXCEPT ![e] = [key |-> k, owner |-> c, value |-> v, drained |-> FALSE]]
      /\ db' = [db EXCEPT ![c] = @ \cup {e}]
      /\ UNCHANGED <<now, expire, poolVars, defined>>

\* Freed memory is used.
undefined ==
  /\ defined' = FALSE
  /\ UNCHANGED <<now, db, ent, expire, life, poolVars>>

\* Faulty variant of ttl_removed: the heap item is left.
ttl_removed_not(e) == expire

\* entry_set_ttl(ent, -1)
ttl_removed(e) == [expire EXCEPT ![e] = None]

\* entry_del_sync: zset_clear, then delete.
entry_del_sync(e) ==
  /\ life' = [life EXCEPT ![e] = "freed"]
  /\ ent' = [ent EXCEPT ![e] = NoEntry]

is_large(e) ==
  /\ ent[e].value.type = "zset"
  /\ Cardinality(DOMAIN ent[e].value.zset) > k_large_container_size

\* Faulty variant of destroyed_here: the `else' is missing.
destroyed_here_too(e) == TRUE

destroyed_here(e) == ~is_large(e)

\* hm_delete from the db of the owner, then entry_del.
entry_del(e) ==
  \/ ent[e].drained /\ undefined
  \/ /\ ~ent[e].drained
     /\ expire' = ttl_removed(e)
     /\ db' = [db EXCEPT ![ent[e].owner] = @ \ {e}]
     /\ IF is_large(e) THEN Pool!Submit(e) ELSE UNCHANGED poolVars
     /\ IF destroyed_here(e) THEN entry_del_sync(e)
        ELSE life' = [life EXCEPT ![e] = "queued"] /\ UNCHANGED ent
     /\ UNCHANGED <<now, defined>>

-----------------------------------------------------------------------------
(* The commands; the event loop runs them one at a time. *)

do_get(c, k) ==
  LET v == value(hm_lookup(c, k))
  IN  answer(CASE v.type = "none" -> Reply(c, "nil", {})
               [] v.type = "str" -> Reply(c, "str", {v.str})
               [] v.type = "zset" -> BadType(c))

do_set(c, k, v) ==
  LET e == hm_lookup(c, k)
  IN  \/ value(e).type = "zset" /\ answer(BadType(c))
      \/ /\ value(e).type = "str"
         /\ ent' = [ent EXCEPT ![e].value.str = v]
         /\ reply' = Reply(c, "str", {1})
         /\ UNCHANGED <<now, db, expire, life, poolVars, defined>>
      \/ /\ e = None
         /\ entry_new(c, k, Value("str", v, << >>))
         /\ reply' = Reply(c, "str", {1})

do_del(c, k) ==
  LET e == hm_lookup(c, k)
  IN  \/ e = None /\ answer(Reply(c, "str", {0}))
      \/ e # None /\ entry_del(e) /\ reply' = IF defined' THEN Reply(c, "str", {1}) ELSE reply

\* A negative time removes the TTL.
entry_set_ttl(e, ttl_ms) ==
  IF ttl_ms < 0 THEN ttl_removed(e) ELSE [expire EXCEPT ![e] = now + ttl_ms]

\* PEXPIRE: entry_set_ttl with the time that str2int has read.
do_expire(c, k, a) ==
  LET e == hm_lookup(c, k)
  IN  \/ ~ParsedOk(a) /\ answer(BadArg(c))
      \/ ParsedOk(a) /\ e = None /\ answer(Reply(c, "int", {0}))
      \/ /\ ParsedOk(a) /\ e # None
         /\ expire' = entry_set_ttl(e, Parsed(a))
         /\ reply' = Reply(c, "int", {1})
         /\ UNCHANGED <<now, db, ent, life, poolVars, defined>>

do_ttl(c, k) ==
  LET e == hm_lookup(c, k)
  IN  answer(Reply(c, "int", {IF e = None THEN -2
                              ELSE IF expire[e] = None THEN -1
                              ELSE IF expire[e] > now THEN expire[e] - now ELSE 0}))

do_keys(c) == answer(Reply(c, "arr", {ent[e].key : e \in db[c]}))

\* zset_insert, on a new entry or on one that is there.
do_zadd(c, k, a, n) ==
  LET e == hm_lookup(c, k)
      added == [m \in DOMAIN zset(e) \cup {n} |-> IF m = n THEN Parsed(a) ELSE zset(e)[m]]
  IN  \/ ~ParsedOk(a) /\ answer(BadArg(c))
      \/ ParsedOk(a) /\ value(e).type = "str" /\ answer(BadType(c))
      \/ /\ ParsedOk(a) /\ e = None
         /\ entry_new(c, k, Value("zset", 0, added))
         /\ reply' = Reply(c, "int", {1})
      \/ /\ ParsedOk(a) /\ value(e).type = "zset" /\ ent[e].drained
         /\ undefined /\ UNCHANGED reply
      \/ /\ ParsedOk(a) /\ value(e).type = "zset" /\ ~ent[e].drained
         /\ ent' = [ent EXCEPT ![e].value.zset = added]
         /\ reply' = Reply(c, "int", {IF n \in DOMAIN zset(e) THEN 0 ELSE 1})
         /\ UNCHANGED <<now, db, expire, life, poolVars, defined>>

\* zset_delete; without its last member the sorted set is drained.
do_zrem(c, k, n) ==
  LET e == hm_lookup(c, k)
      rest == DOMAIN zset(e) \ {n}
  IN  \/ value(e).type = "str" /\ answer(BadType(c))
      \/ value(e).type # "str" /\ n \notin DOMAIN zset(e) /\ answer(Reply(c, "int", {0}))
      \/ /\ n \in DOMAIN zset(e)
         /\ ent' = [ent EXCEPT ![e].value.zset = [m \in rest |-> zset(e)[m]],
                               ![e].drained = rest = {}]
         /\ reply' = Reply(c, "int", {1})
         /\ UNCHANGED <<now, db, expire, life, poolVars, defined>>

do_zscore(c, k, n) ==
  LET e == hm_lookup(c, k)
  IN  answer(IF value(e).type = "str" THEN BadType(c)
             ELSE IF n \in DOMAIN zset(e) THEN Reply(c, "dbl", {zset(e)[n]})
             ELSE Reply(c, "nil", {}))

\* zset_seekge follows the root, unless the limit is not positive.
do_zquery(c, k, a) ==
  LET e == hm_lookup(c, k)
  IN  \/ ~ParsedOk(a) /\ answer(BadArg(c))
      \/ ParsedOk(a) /\ value(e).type = "str" /\ answer(BadType(c))
      \/ /\ ParsedOk(a) /\ value(e).type # "str"
         /\ answer(Reply(c, "arr", {}))
      \/ ParsedOk(a) /\ e # None /\ ent[e].drained /\ undefined /\ UNCHANGED reply

\* "quit", and what do_request does not know.
do_other(c) == \E r \in {Reply(c, "bye", {}), Reply(c, "err", {ERR_UNKNOWN})} : answer(r)

-----------------------------------------------------------------------------
\* One iteration of the TTL loop of process_timers.
expire_key(e) ==
  /\ expire[e] # None /\ expire[e] < now
  /\ \A f \in Entry : expire[f] # None => expire[e] <= expire[f]
  /\ entry_del(e)
  /\ UNCHANGED reply

tick == /\ now < MaxNow
        /\ now' = now + 1
        /\ UNCHANGED <<reply, db, ent, expire, life, poolVars, defined>>

\* A thread of the pool takes an entry.
worker_start == Pool!Start /\ UNCHANGED <<now, reply, db, ent, expire, life, defined>>

\* entry_del_func on a thread of the pool.
entry_del_func(e) ==
  /\ Pool!Finish(e)
  /\ entry_del_sync(e)
  /\ UNCHANGED <<now, reply, db, expire, defined>>

do_request(c) ==
  \/ \E k \in Key : do_get(c, k) \/ do_del(c, k) \/ do_ttl(c, k) \/ \E v \in Val : do_set(c, k, v)
  \/ \E k \in Key, a \in Arg : do_expire(c, k, a) \/ do_zquery(c, k, a)
  \/ \E k \in Key, n \in Name :
       do_zrem(c, k, n) \/ do_zscore(c, k, n) \/ \E a \in Arg : do_zadd(c, k, a, n)
  \/ do_keys(c) \/ do_other(c)

Worker == worker_start \/ \E e \in Entry : entry_del_func(e)

CNext ==
  /\ defined
  /\ \/ \E c \in Conn : do_request(c)
     \/ \E e \in Entry : expire_key(e)
     \/ tick
     \/ Worker

CSpec == CInit /\ [][CNext]_cvars

-----------------------------------------------------------------------------
(***************************************************************************)
(* Properties.                                                             *)
(***************************************************************************)
Scores == UNION {[S -> {Parsed(a) : a \in Arg}] : S \in SUBSET Name}

\* A string has no members, a sorted set no string.
EntryValue ==
  {Absent} \cup [type : {"str"}, str : Val, zset : {<< >>}]
           \cup [type : {"zset"}, str : {0}, zset : Scores]

TypeOK ==
  /\ now \in Nat
  /\ db \in [Conn -> SUBSET Entry]
  /\ ent \in [Entry -> [key : Key \cup {None}, owner : Conn \cup {None},
                        value : EntryValue, drained : BOOLEAN]]
  /\ expire \in [Entry -> Nat \cup {None}]
  /\ life \in [Entry -> {"fresh", "live", "queued", "freed"}]
  /\ pending \in Seq(Entry) /\ running \subseteq Entry /\ finished \subseteq Entry
  /\ defined \in BOOLEAN

\* The event loop reaches an entry through a db or the heap only while it is
\* allocated and no thread of the pool may be destroying it; an entry is in the
\* db of its owner and in no other, with a value and under a key of its own; and
\* no live entry is lost.
ReferencesLive ==
  /\ TypeOK
  /\ \A e \in Entry :
       /\ life[e] = "live" <=> \E c \in Conn : e \in db[c]
       /\ expire[e] # None => life[e] = "live"
  /\ \A c \in Conn : \A e \in db[c] :
       /\ ent[e].owner = c /\ ent[e].key \in Key /\ ent[e].value.type # "none"
       /\ \A f \in db[c] : ent[e].key = ent[f].key => e = f

\* What the pool has or will get is still there to be destroyed, and is in its
\* hands once: no entry is freed by the event loop as well, or twice by the pool.
HandedOverOnce ==
  /\ {e \in Entry : life[e] = "queued"} = {pending[i] : i \in DOMAIN pending} \cup running
  /\ \A i, j \in DOMAIN pending : pending[i] = pending[j] => i = j
  /\ \A i \in DOMAIN pending : pending[i] \notin running
  /\ \A e \in finished : life[e] = "freed"

\* Each client sees the map that its own commands and deadlines make, whatever
\* the other clients and the pool do.
KS == INSTANCE KeySpace WITH
        space <- [c \in Conn |-> [k \in Key |-> value(hm_lookup(c, k))]],
        deadline <- [c \in Conn |-> [k \in Key |->
                      IF hm_lookup(c, k) = None THEN None ELSE expire[hm_lookup(c, k)]]]

ImplementsKeySpace == KS!Spec
=============================================================================
