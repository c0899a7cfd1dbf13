--------------------------- MODULE CommandsProofs ---------------------------
(***************************************************************************)
(* Machine-checked proofs about Commands, for any number of connections,   *)
(* keys, entries and threads: no reference to a freed entry, no entry      *)
(* destroyed twice, and each client sees the key space of its own.         *)
(***************************************************************************)
EXTENDS Commands, TLAPS, WellFoundedInduction, SequenceTheorems

\* Every non-empty set of natural numbers has a least element.
LEMMA LeastNat ==
  ASSUME NEW S \in SUBSET Nat, S # {}
  PROVE  \E m \in S : \A k \in S : m <= k
<1>1. PICK m \in S : \A k \in S : ~(<<k, m>> \in OpToRel(<, Nat))
  BY NatLessThanWellFounded, WFMin, Zenon
<1>2. ASSUME NEW k \in S PROVE m <= k
  <2>1. ~(<<k, m>> \in OpToRel(<, Nat))
    BY <1>1, Zenon
  <2>2. ~(k < m)
    BY <2>1 DEF OpToRel
  <2> QED
    BY <2>2
<1> QED
  BY <1>2

\* Min chooses it.
LEMMA MinIsLeast ==
  ASSUME NEW S \in SUBSET Nat, S # {}
  PROVE  Min(S) \in S /\ \A k \in S : Min(S) <= k
<1>1. \E m \in S : \A k \in S : m <= k
  BY LeastNat
<1> QED BY <1>1 DEF Min

\* The inductive invariant: each of the two needs the other, as entry_del hands
\* over what it takes out of a db.
CInv == ReferencesLive /\ HandedOverOnce

\* struct Entry
EntryRecord ==
  [key : Key \cup {None}, owner : Conn \cup {None}, value : EntryValue, drained : BOOLEAN]

-----------------------------------------------------------------------------
(* Lookups and values. *)

\* A lookup finds the only entry that the connection has under the key.
LEMMA Lookup ==
  ASSUME ReferencesLive, NEW c \in Conn, NEW k
  PROVE  \/ hm_lookup(c, k) = None /\ found(c, k) = {}
         \/ /\ hm_lookup(c, k) \in Entry /\ hm_lookup(c, k) # None
            /\ hm_lookup(c, k) \in db[c] /\ ent[hm_lookup(c, k)].key = k
            /\ life[hm_lookup(c, k)] = "live"
            /\ found(c, k) = {hm_lookup(c, k)}
<1>1. CASE found(c, k) = {}
  BY <1>1 DEF hm_lookup
<1>2. CASE found(c, k) # {}
  <2>1. PICK e : e = hm_lookup(c, k) /\ e \in found(c, k)
    BY <1>2 DEF hm_lookup
  <2>2. e \in Entry /\ e # None /\ e \in db[c] /\ ent[e].key = k /\ life[e] = "live"
    BY <2>1, CommandsConstants DEF ReferencesLive, TypeOK, found
  <2>3. \A f \in found(c, k) : f = e
    BY <2>1, <2>2 DEF ReferencesLive, found
  <2> QED BY <2>1, <2>2, <2>3
<1> QED BY <1>1, <1>2

\* str2int yields an integer.
LEMMA ParsedInt == ASSUME NEW a \in Arg PROVE Parsed(a) \in Int
BY CommandsConstants DEF Parsed

\* The sorted sets that ZADD and ZREM make.
LEMMA ScoresAdd ==
  ASSUME NEW z \in Scores \cup {<< >>}, NEW n \in Name, NEW a \in Arg
  PROVE  [m \in DOMAIN z \cup {n} |-> IF m = n THEN Parsed(a) ELSE z[m]] \in Scores
<1> DEFINE R == {Parsed(b) : b \in Arg}
           new == [m \in DOMAIN z \cup {n} |-> IF m = n THEN Parsed(a) ELSE z[m]]
<1>1. Parsed(a) \in R
  OBVIOUS
<1>2. PICK S \in SUBSET Name : S = DOMAIN z /\ \A m \in S : z[m] \in R
  <2>1. CASE z = << >>
    BY <2>1
  <2>2. CASE z \in Scores
    BY <2>2 DEF Scores
  <2> QED BY <2>1, <2>2
<1> HIDE DEF R
<1>3. new \in [S \cup {n} -> R] /\ S \cup {n} \in SUBSET Name
  BY <1>1, <1>2
<1> QED BY <1>3 DEF Scores, R

\* Fewer members are a sorted set again.
LEMMA ScoresRemove ==
  ASSUME NEW z \in Scores, NEW S \in SUBSET DOMAIN z
  PROVE  [m \in S |-> z[m]] \in Scores
<1> DEFINE R == {Parsed(b) : b \in Arg}
<1>1. PICK T \in SUBSET Name : z \in [T -> R]
  BY DEF Scores
<1> HIDE DEF R
<1>2. [m \in S |-> z[m]] \in [S -> R] /\ S \in SUBSET Name
  BY <1>1
<1> QED BY <1>2 DEF Scores, R

-----------------------------------------------------------------------------
(* The ways in which a step can change the entries. *)

\* The invariant holds when the server starts.
LEMMA InitCInv == CInit => CInv
BY DEF CInit, CInv, ReferencesLive, HandedOverOnce, TypeOK, NoEntry, EntryValue, Pool!Init

\* Nothing but the clock, the reply and `defined' changes.
LEMMA SameStep ==
  ASSUME CInv, UNCHANGED <<db, ent, expire, life, poolVars>>,
         now' \in Nat, defined' \in BOOLEAN
  PROVE  CInv'
BY DEF CInv, ReferencesLive, HandedOverOnce, TypeOK, poolVars

\* A new entry, under a key that the connection does not have.
LEMMA NewStep ==
  ASSUME CInv, NEW c \in Conn, NEW k \in Key, NEW v \in EntryValue, v.type # "none",
         found(c, k) = {}, entry_new(c, k, v)
  PROVE  /\ CInv'
         /\ \E e \in Entry :
              /\ life[e] = "fresh"
              /\ ent' = [ent EXCEPT ![e] = [key |-> k, owner |-> c, value |-> v, drained |-> FALSE]]
              /\ db' = [db EXCEPT ![c] = @ \cup {e}]
              /\ expire[e] = None
<1>1. PICK e \in {f \in Entry : life[f] = "fresh"} : e = Min({f \in Entry : life[f] = "fresh"})
  BY CommandsConstants, MinIsLeast DEF entry_new
<1>2. PICK o : o = [key |-> k, owner |-> c, value |-> v, drained |-> FALSE]
  OBVIOUS
<1>3. /\ e \in Entry /\ life[e] = "fresh"
      /\ life' = [life EXCEPT ![e] = "live"]
      /\ ent' = [ent EXCEPT ![e] = o]
      /\ db' = [db EXCEPT ![c] = @ \cup {e}]
      /\ UNCHANGED <<now, expire, poolVars, defined>>
  BY <1>1, <1>2 DEF entry_new
<1>4. o \in EntryRecord /\ o.key = k /\ o.owner = c /\ o.value = v
  BY <1>2 DEF EntryRecord
<1>5. TypeOK'
  BY <1>3, <1>4 DEF CInv, ReferencesLive, TypeOK, EntryRecord, poolVars
<1>6. /\ \A f \in Entry : life'[f] = IF f = e THEN "live" ELSE life[f]
      /\ \A f \in Entry : ent'[f] = IF f = e THEN o ELSE ent[f]
      /\ \A d \in Conn : db'[d] = IF d = c THEN db[c] \cup {e} ELSE db[d]
      /\ \A d \in Conn : db[d] \subseteq Entry /\ e \notin db[d]
  BY <1>3 DEF CInv, ReferencesLive, TypeOK
<1>7. \A f \in db[c] : ent[f].key # k
  BY DEF found
<1>8. ReferencesLive'
  <2>1. ASSUME NEW f \in Entry
        PROVE  /\ life'[f] = "live" <=> \E d \in Conn : f \in db'[d]
               /\ expire'[f] # None => life'[f] = "live"
    BY <1>3, <1>6 DEF CInv, ReferencesLive
  <2>2. ASSUME NEW d \in Conn, NEW f \in db'[d]
        PROVE  /\ ent'[f].owner = d /\ ent'[f].key \in Key /\ ent'[f].value.type # "none"
               /\ \A g \in db'[d] : ent'[f].key = ent'[g].key => f = g
    <3>1. CASE f = e
      BY <1>4, <1>6, <1>7, <3>1 DEF CInv, ReferencesLive
    <3>2. CASE f # e
      BY <1>4, <1>6, <1>7, <3>2 DEF CInv, ReferencesLive
    <3> QED BY <3>1, <3>2
  <2> QED BY <1>5, <2>1, <2>2 DEF ReferencesLive
<1>9. HandedOverOnce'
  <2>1. {f \in Entry : life'[f] = "queued"} = {f \in Entry : life[f] = "queued"}
    BY <1>3, <1>6
  <2>2. \A f \in finished : f # e
    BY <1>3 DEF CInv, HandedOverOnce
  <2>3. \A f \in finished : life'[f] = "freed"
    BY <1>6, <2>2 DEF CInv, HandedOverOnce, ReferencesLive, TypeOK
  <2> QED BY <1>3, <2>1, <2>3 DEF CInv, HandedOverOnce, poolVars
<1> QED BY <1>2, <1>3, <1>8, <1>9 DEF CInv, ReferencesLive

\* An entry that is there gets another value.
LEMMA ValueStep ==
  ASSUME CInv, NEW c \in Conn, NEW e \in db[c], NEW o \in EntryRecord,
         o.key = ent[e].key, o.owner = ent[e].owner, o.value.type # "none",
         ent' = [ent EXCEPT ![e] = o],
         UNCHANGED <<now, db, expire, life, poolVars, defined>>
  PROVE  CInv'
<1>1. e \in Entry
  BY DEF CInv, ReferencesLive, TypeOK
<1>2. TypeOK'
  BY <1>1 DEF CInv, ReferencesLive, TypeOK, EntryRecord, poolVars
<1>3. \A f \in Entry : ent'[f] = IF f = e THEN o ELSE ent[f]
  BY <1>1 DEF CInv, ReferencesLive, TypeOK
<1>4. ASSUME NEW d \in Conn, NEW f \in db[d]
      PROVE  /\ ent'[f].owner = d /\ ent'[f].key \in Key /\ ent'[f].value.type # "none"
             /\ \A g \in db[d] : ent'[f].key = ent'[g].key => f = g
  <2>1. \A g \in db[d] : g \in Entry /\ ent'[g].key = ent[g].key /\ ent'[g].owner = ent[g].owner
    BY <1>3 DEF CInv, ReferencesLive, TypeOK
  <2> QED BY <1>3, <2>1 DEF CInv, ReferencesLive
<1>5. ReferencesLive'
  BY <1>2, <1>4 DEF CInv, ReferencesLive
<1>6. HandedOverOnce'
  BY DEF CInv, HandedOverOnce, poolVars
<1> QED BY <1>5, <1>6 DEF CInv

\* The TTL of an entry that is there changes.
LEMMA TtlStep ==
  ASSUME CInv, NEW e \in Entry, life[e] = "live", NEW t \in Nat \cup {None},
         expire' = [expire EXCEPT ![e] = t],
         UNCHANGED <<now, db, ent, life, poolVars, defined>>
  PROVE  CInv'
<1>1. TypeOK'
  BY DEF CInv, ReferencesLive, TypeOK, poolVars
<1>2. \A f \in Entry : expire'[f] # None => life[f] = "live"
  BY DEF CInv, ReferencesLive, TypeOK
<1>3. ReferencesLive'
  BY <1>1, <1>2 DEF CInv, ReferencesLive
<1>4. HandedOverOnce'
  BY DEF CInv, HandedOverOnce, poolVars
<1> QED BY <1>3, <1>4 DEF CInv

\* entry_del: the entry leaves the db of its owner and the heap, and is freed or
\* handed to the pool; or freed memory was used, and nothing else counts.
LEMMA DelStep ==
  ASSUME CInv, NEW e \in Entry, life[e] = "live", entry_del(e), defined \in BOOLEAN
  PROVE  /\ CInv'
         /\ \/ ~defined' /\ UNCHANGED <<now, db, ent, expire>>
            \/ /\ defined' = defined /\ UNCHANGED now
               /\ \E c \in Conn : e \in db[c] /\ db' = [db EXCEPT ![c] = @ \ {e}]
               /\ expire' = [expire EXCEPT ![e] = None]
               /\ \A f \in Entry : f # e => ent'[f] = ent[f]
<1>1. CASE ent[e].drained /\ undefined
  <2>1. CInv'
    BY <1>1, SameStep DEF undefined, CInv, ReferencesLive, TypeOK
  <2> QED BY <1>1, <2>1 DEF undefined
<1>2. CASE /\ expire' = ttl_removed(e)
           /\ db' = [db EXCEPT ![ent[e].owner] = @ \ {e}]
           /\ IF is_large(e) THEN Pool!Submit(e) ELSE UNCHANGED poolVars
           /\ IF destroyed_here(e) THEN entry_del_sync(e)
              ELSE life' = [life EXCEPT ![e] = "queued"] /\ UNCHANGED ent
           /\ UNCHANGED <<now, defined>>
  <2>1. PICK c \in Conn : c = ent[e].owner /\ e \in db[c]
    BY DEF CInv, ReferencesLive
  <2>2. /\ expire' = [expire EXCEPT ![e] = None]
        /\ db' = [db EXCEPT ![c] = @ \ {e}]
        /\ UNCHANGED <<now, defined>>
    BY <1>2, <2>1 DEF ttl_removed
  <2>3. \/ /\ UNCHANGED poolVars
           /\ life' = [life EXCEPT ![e] = "freed"]
           /\ ent' = [ent EXCEPT ![e] = NoEntry]
        \/ /\ pending' = Append(pending, e) /\ UNCHANGED <<running, finished>>
           /\ life' = [life EXCEPT ![e] = "queued"] /\ UNCHANGED ent
    BY <1>2 DEF destroyed_here, entry_del_sync, Pool!Submit
  <2>4. NoEntry \in EntryRecord
    BY DEF NoEntry, EntryRecord, EntryValue
  <2>5. /\ ent' \in [Entry -> EntryRecord]
        /\ \A f \in Entry : f # e => ent'[f] = ent[f]
    BY <2>3, <2>4 DEF CInv, ReferencesLive, TypeOK, EntryRecord
  <2>6. /\ life'[e] \in {"queued", "freed"}
        /\ \A f \in Entry : f # e => life'[f] = life[f]
        /\ life' \in [Entry -> {"fresh", "live", "queued", "freed"}]
    BY <2>3 DEF CInv, ReferencesLive, TypeOK
  <2>7. TypeOK'
    <3>1. pending' \in Seq(Entry) /\ running' \subseteq Entry /\ finished' \subseteq Entry
      <4>1. pending \in Seq(Entry) /\ running \subseteq Entry /\ finished \subseteq Entry
        BY DEF CInv, ReferencesLive, TypeOK
      <4>2. Append(pending, e) \in Seq(Entry)
        BY <4>1, AppendProperties
      <4> QED BY <2>3, <4>1, <4>2 DEF poolVars
    <3> QED BY <2>2, <2>5, <2>6, <3>1 DEF CInv, ReferencesLive, TypeOK, EntryRecord
  <2>8. /\ \A d \in Conn : db'[d] = IF d = c THEN db[c] \ {e} ELSE db[d]
        /\ \A d \in Conn : db[d] \subseteq Entry /\ (d # c => e \notin db[d])
        /\ expire'[e] = None /\ \A f \in Entry : f # e => expire'[f] = expire[f]
    BY <2>1, <2>2 DEF CInv, ReferencesLive, TypeOK
  <2>9. ReferencesLive'
    <3>1. ASSUME NEW f \in Entry
          PROVE  /\ life'[f] = "live" <=> \E d \in Conn : f \in db'[d]
                 /\ expire'[f] # None => life'[f] = "live"
      BY <2>6, <2>8 DEF CInv, ReferencesLive
    <3>2. ASSUME NEW d \in Conn, NEW f \in db'[d]
          PROVE  /\ ent'[f].owner = d /\ ent'[f].key \in Key /\ ent'[f].value.type # "none"
                 /\ \A g \in db'[d] : ent'[f].key = ent'[g].key => f = g
      <4>1. \A g \in db'[d] : g \in db[d] /\ ent'[g] = ent[g]
        BY <2>5, <2>8
      <4> QED BY <4>1 DEF CInv, ReferencesLive
    <3> QED BY <2>7, <3>1, <3>2 DEF ReferencesLive
  <2>10. HandedOverOnce'
    <3>1. e \notin finished /\ e \notin running /\ \A i \in DOMAIN pending : pending[i] # e
      BY DEF CInv, HandedOverOnce
    <3>2. CASE UNCHANGED poolVars /\ life' = [life EXCEPT ![e] = "freed"]
      <4>1. {f \in Entry : life'[f] = "queued"} = {f \in Entry : life[f] = "queued"}
        BY <2>6, <3>2 DEF CInv, ReferencesLive, TypeOK
      <4>2. \A f \in finished : life'[f] = "freed"
        BY <2>6, <3>1 DEF CInv, HandedOverOnce, ReferencesLive, TypeOK
      <4> QED BY <3>2, <4>1, <4>2 DEF CInv, HandedOverOnce, poolVars
    <3>3. CASE /\ pending' = Append(pending, e) /\ UNCHANGED <<running, finished>>
               /\ life' = [life EXCEPT ![e] = "queued"]
      <4>1. {f \in Entry : life'[f] = "queued"} = {f \in Entry : life[f] = "queued"} \cup {e}
        BY <2>6, <3>3 DEF CInv, ReferencesLive, TypeOK
      <4>2. PICK n \in Nat : n = Len(pending) /\ DOMAIN pending = 1 .. n
        BY LenProperties DEF CInv, ReferencesLive, TypeOK
      <4>3. /\ DOMAIN pending' = 1 .. n + 1 /\ pending'[n + 1] = e
            /\ \A i \in 1 .. n : pending'[i] = pending[i]
        BY <3>3, <4>2, AppendProperties DEF CInv, ReferencesLive, TypeOK
      <4>4. {pending'[i] : i \in DOMAIN pending'} = {pending[i] : i \in DOMAIN pending} \cup {e}
        <5>1. \A i \in 1 .. n + 1 : i \in 1 .. n \/ i = n + 1
          BY <4>2
        <5>2. \A i \in 1 .. n : i \in 1 .. n + 1
          BY <4>2
        <5>3. n + 1 \in 1 .. n + 1
          BY <4>2
        <5> QED BY <4>2, <4>3, <5>1, <5>2, <5>3
      <4>5. \A i, j \in DOMAIN pending' : pending'[i] = pending'[j] => i = j
        BY <3>1, <4>2, <4>3 DEF CInv, HandedOverOnce
      <4>6. \A i \in DOMAIN pending' : pending'[i] \notin running'
        BY <3>1, <3>3, <4>2, <4>3 DEF CInv, HandedOverOnce
      <4>7. \A f \in finished' : life'[f] = "freed"
        BY <2>6, <3>1, <3>3 DEF CInv, HandedOverOnce, ReferencesLive, TypeOK
      <4>8. {f \in Entry : life'[f] = "queued"} = {pending'[i] : i \in DOMAIN pending'} \cup running'
        BY <3>3, <4>1, <4>4 DEF CInv, HandedOverOnce
      <4> QED BY <4>5, <4>6, <4>7, <4>8 DEF HandedOverOnce
    <3> QED BY <2>3, <3>2, <3>3
  <2> QED BY <2>1, <2>2, <2>5, <2>9, <2>10 DEF CInv
<1> QED BY <1>1, <1>2 DEF entry_del

\* A thread of the pool takes the first entry of the queue.
LEMMA WorkerStartStep ==
  ASSUME CInv, worker_start
  PROVE  CInv'
<1>1. /\ pending # << >>
      /\ running' = running \cup {Head(pending)} /\ pending' = Tail(pending)
      /\ UNCHANGED <<finished, now, db, ent, expire, life, defined>>
  BY DEF worker_start, Pool!Start
<1>2. PICK n \in Nat : n = Len(pending) /\ DOMAIN pending = 1 .. n /\ pending \in Seq(Entry)
  BY LenProperties DEF CInv, ReferencesLive, TypeOK
<1>3. PICK h \in Entry : h = Head(pending) /\ h = pending[1] /\ n >= 1
  BY <1>1, <1>2, HeadTailProperties, EmptySeq
<1>4. /\ pending' \in Seq(Entry) /\ DOMAIN pending' = 1 .. n - 1
      /\ \A i \in 1 .. n - 1 : pending'[i] = pending[i + 1]
  BY <1>1, <1>2, <1>3, HeadTailProperties, LenProperties
<1>5. ReferencesLive'
  BY <1>1, <1>3, <1>4 DEF CInv, ReferencesLive, TypeOK
<1>6. HandedOverOnce'
  <2>1. {pending[i] : i \in DOMAIN pending} = {pending'[i] : i \in DOMAIN pending'} \cup {h}
    <3>1. \A i \in 1 .. n : i = 1 \/ (i - 1 \in 1 .. n - 1 /\ (i - 1) + 1 = i)
      BY <1>2
    <3>2. \A i \in 1 .. n - 1 : i + 1 \in 1 .. n
      BY <1>2
    <3>3. 1 \in 1 .. n
      BY <1>2, <1>3
    <3>4. \A i \in 1 .. n : i # 1 => pending[i] = pending'[i - 1]
      BY <1>4, <3>1
    <3>5. ASSUME NEW i \in 1 .. n
          PROVE  pending[i] \in {pending'[j] : j \in 1 .. n - 1} \cup {h}
      <4>1. CASE i = 1
        BY <1>3, <4>1
      <4>2. CASE i # 1
        BY <3>1, <3>4, <4>2
      <4> QED BY <4>1, <4>2
    <3>6. ASSUME NEW i \in 1 .. n - 1
          PROVE  pending'[i] \in {pending[j] : j \in 1 .. n}
      BY <1>4, <3>2
    <3>7. h \in {pending[j] : j \in 1 .. n}
      BY <1>3, <3>3
    <3>8. {pending[i] : i \in 1 .. n} = {pending'[i] : i \in 1 .. n - 1} \cup {h}
      BY <3>5, <3>6, <3>7
    <3> QED BY <1>2, <1>4, <3>8
  <2>2. \A i, j \in DOMAIN pending' : pending'[i] = pending'[j] => i = j
    <3> SUFFICES ASSUME NEW i \in 1 .. n - 1, NEW j \in 1 .. n - 1, pending'[i] = pending'[j]
                 PROVE  i = j
      BY <1>4
    <3>1. i + 1 \in 1 .. n /\ j + 1 \in 1 .. n /\ pending[i + 1] = pending[j + 1]
      BY <1>2, <1>4
    <3>2. i + 1 = j + 1
      BY <1>2, <3>1 DEF CInv, HandedOverOnce
    <3> QED BY <3>2
  <2>3. \A i \in DOMAIN pending' : pending'[i] \notin running'
    <3> SUFFICES ASSUME NEW i \in 1 .. n - 1 PROVE pending'[i] \notin running'
      BY <1>4
    <3>1. i + 1 \in 1 .. n /\ 1 \in 1 .. n /\ i + 1 # 1 /\ pending'[i] = pending[i + 1]
      BY <1>2, <1>3, <1>4
    <3>2. pending[i + 1] \notin running /\ pending[i + 1] # pending[1]
      BY <1>2, <3>1 DEF CInv, HandedOverOnce
    <3> QED BY <1>1, <1>3, <3>1, <3>2
  <2>4. {f \in Entry : life'[f] = "queued"} = {pending'[i] : i \in DOMAIN pending'} \cup running'
    BY <1>1, <1>3, <2>1 DEF CInv, HandedOverOnce
  <2> QED BY <1>1, <2>2, <2>3, <2>4 DEF CInv, HandedOverOnce
<1> QED BY <1>5, <1>6 DEF CInv

\* The pool destroys an entry that no db and no heap item refers to.
LEMMA DelFuncStep ==
  ASSUME CInv, NEW e \in Entry, entry_del_func(e)
  PROVE  CInv' /\ life[e] = "queued"
<1>1. /\ e \in running /\ running' = running \ {e} /\ finished' = finished \cup {e}
      /\ life' = [life EXCEPT ![e] = "freed"] /\ ent' = [ent EXCEPT ![e] = NoEntry]
      /\ UNCHANGED <<pending, now, db, expire, defined>>
  BY DEF entry_del_func, Pool!Finish, entry_del_sync
<1>2. life[e] = "queued" /\ \A i \in DOMAIN pending : pending[i] # e
  BY <1>1 DEF CInv, HandedOverOnce
<1>3. NoEntry \in EntryRecord
  BY DEF NoEntry, EntryRecord, EntryValue
<1>4. TypeOK'
  BY <1>1, <1>3 DEF CInv, ReferencesLive, TypeOK, EntryRecord
<1>5. \A f \in Entry : f # e => ent'[f] = ent[f] /\ life'[f] = life[f]
  BY <1>1 DEF CInv, ReferencesLive, TypeOK
<1>6. life'[e] = "freed" /\ \A d \in Conn : e \notin db[d] /\ db[d] \subseteq Entry
  BY <1>1, <1>2 DEF CInv, ReferencesLive, TypeOK
<1>7. ReferencesLive'
  <2>1. ASSUME NEW f \in Entry
        PROVE  /\ life'[f] = "live" <=> \E d \in Conn : f \in db'[d]
               /\ expire'[f] # None => life'[f] = "live"
    BY <1>1, <1>2, <1>5, <1>6 DEF CInv, ReferencesLive
  <2>2. ASSUME NEW d \in Conn, NEW f \in db[d]
        PROVE  /\ ent'[f].owner = d /\ ent'[f].key \in Key /\ ent'[f].value.type # "none"
               /\ \A g \in db[d] : ent'[f].key = ent'[g].key => f = g
    <3>1. \A g \in db[d] : ent'[g] = ent[g]
      BY <1>5, <1>6
    <3> QED BY <3>1 DEF CInv, ReferencesLive
  <2> QED BY <1>1, <1>4, <2>1, <2>2 DEF ReferencesLive
<1>8. HandedOverOnce'
  <2>1. {f \in Entry : life'[f] = "queued"} = {f \in Entry : life[f] = "queued"} \ {e}
    BY <1>5, <1>6
  <2>2. {pending[i] : i \in DOMAIN pending} \cup running' =
          ({pending[i] : i \in DOMAIN pending} \cup running) \ {e}
    BY <1>1, <1>2
  <2>3. \A f \in finished' : life'[f] = "freed"
    BY <1>1, <1>5, <1>6 DEF CInv, HandedOverOnce, ReferencesLive, TypeOK
  <2> QED BY <1>1, <2>1, <2>2, <2>3 DEF CInv, HandedOverOnce
<1> QED BY <1>2, <1>7, <1>8 DEF CInv

-----------------------------------------------------------------------------
(* What a client sees: the refinement mapping of KS. *)

Sp(c, k) == value(hm_lookup(c, k))
Dl(c, k) == IF hm_lookup(c, k) = None THEN None ELSE expire[hm_lookup(c, k)]

SpaceView == [c \in Conn |-> [k \in Key |-> Sp(c, k)]]
DeadlineView == [c \in Conn |-> [k \in Key |-> Dl(c, k)]]

\* Key k of connection c looks the same after the step.
SameKey(c, k) == Sp(c, k)' = Sp(c, k) /\ Dl(c, k)' = Dl(c, k)

\* A key whose entry the step leaves alone looks the same.
LEMMA KeyFrame ==
  ASSUME NEW c, NEW k, found(c, k)' = found(c, k),
         \A f \in found(c, k) : ent'[f].value = ent[f].value /\ expire'[f] = expire[f]
  PROVE  SameKey(c, k)
<1>1. hm_lookup(c, k)' = hm_lookup(c, k)
  BY DEF hm_lookup
<1>2. CASE found(c, k) = {}
  <2>1. hm_lookup(c, k) = None
    BY <1>2 DEF hm_lookup
  <2> QED BY <1>1, <2>1 DEF SameKey, Sp, Dl, value
<1>3. CASE found(c, k) # {}
  <2>1. PICK f \in found(c, k) : f = hm_lookup(c, k)
    BY <1>3 DEF hm_lookup
  <2> QED BY <1>1, <2>1 DEF SameKey, Sp, Dl, value
<1> QED BY <1>2, <1>3

\* What a key looks like when there is one entry for it, or none, afterwards.
LEMMA KeyHas ==
  ASSUME NEW c, NEW k, NEW e, e # None, found(c, k)' = {e}
  PROVE  Sp(c, k)' = ent'[e].value /\ Dl(c, k)' = expire'[e]
<1>1. hm_lookup(c, k)' = e
  BY DEF hm_lookup
<1> QED BY <1>1 DEF Sp, Dl, value

\* A key for which there is no entry.
LEMMA KeyHasNot ==
  ASSUME NEW c, NEW k, found(c, k)' = {}
  PROVE  Sp(c, k)' = Absent /\ Dl(c, k)' = None
<1>1. hm_lookup(c, k)' = None
  BY DEF hm_lookup
<1> QED BY <1>1 DEF Sp, Dl, value

\* A step that changes one key of one connection.
LEMMA ViewChange ==
  ASSUME NEW c \in Conn, NEW k \in Key, NEW v, NEW t,
         Sp(c, k)' = v, Dl(c, k)' = t,
         \A d \in Conn : \A q \in Key : d # c \/ q # k => SameKey(d, q)
  PROVE  /\ SpaceView' = [SpaceView EXCEPT ![c][k] = v]
         /\ DeadlineView' = [DeadlineView EXCEPT ![c][k] = t]
<1>1. SpaceView' = [d \in Conn |-> [q \in Key |-> IF d = c /\ q = k THEN v ELSE Sp(d, q)]]
  BY DEF SpaceView, SameKey
<1>2. [SpaceView EXCEPT ![c][k] = v] =
        [d \in Conn |-> [q \in Key |-> IF d = c /\ q = k THEN v ELSE Sp(d, q)]]
  BY DEF SpaceView
<1>3. DeadlineView' = [d \in Conn |-> [q \in Key |-> IF d = c /\ q = k THEN t ELSE Dl(d, q)]]
  BY DEF DeadlineView, SameKey
<1>4. [DeadlineView EXCEPT ![c][k] = t] =
        [d \in Conn |-> [q \in Key |-> IF d = c /\ q = k THEN t ELSE Dl(d, q)]]
  BY DEF DeadlineView
<1> QED BY <1>1, <1>2, <1>3, <1>4

\* A step that changes no key.
LEMMA ViewSame ==
  ASSUME \A d \in Conn : \A q \in Key : SameKey(d, q)
  PROVE  SpaceView' = SpaceView /\ DeadlineView' = DeadlineView
BY DEF SpaceView, DeadlineView, SameKey

\* The operators of KS in terms of the view.
LEMMA ViewLeave ==
  ASSUME NEW c, NEW k, NEW v, NEW t, NEW r,
         SpaceView' = [SpaceView EXCEPT ![c][k] = v],
         DeadlineView' = [DeadlineView EXCEPT ![c][k] = t],
         reply' = r, now' = now
  PROVE  KS!Leave(c, k, v, t, r)
BY DEF KS!Leave, SpaceView, DeadlineView, Sp, Dl

\* A reply without a change is Answer.
LEMMA ViewAnswer ==
  ASSUME NEW r, SpaceView' = SpaceView, DeadlineView' = DeadlineView,
         reply' = r, now' = now
  PROVE  KS!Answer(r)
BY DEF KS!Answer, SpaceView, DeadlineView, Sp, Dl

\* The type and the members that KS reads off the view.
LEMMA ViewOf ==
  ASSUME NEW c \in Conn, NEW k \in Key
  PROVE  /\ KS!Type(c, k) = Sp(c, k).type
         /\ KS!Members(c, k) = DOMAIN Sp(c, k).zset
BY DEF KS!Type, KS!Members, Sp

\* The entries that the dbs refer to are left alone.
LEMMA SameView ==
  ASSUME CInv, UNCHANGED <<db, expire>>,
         \A d \in Conn : \A f \in db[d] : ent'[f] = ent[f]
  PROVE  \A d \in Conn : \A q \in Key : SameKey(d, q)
<1> SUFFICES ASSUME NEW d \in Conn, NEW q \in Key PROVE SameKey(d, q)
  OBVIOUS
<1>1. found(d, q)' = found(d, q)
  BY DEF found
<1>2. \A f \in found(d, q) : ent'[f].value = ent[f].value /\ expire'[f] = expire[f]
  BY DEF found
<1> QED BY <1>1, <1>2, KeyFrame

\* entry_new adds a key.
LEMMA NewView ==
  ASSUME CInv, NEW c \in Conn, NEW k \in Key, NEW v \in EntryValue, v.type # "none",
         found(c, k) = {}, entry_new(c, k, v)
  PROVE  /\ Sp(c, k)' = v /\ Dl(c, k)' = None
         /\ \A d \in Conn : \A q \in Key : d # c \/ q # k => SameKey(d, q)
<1>1. PICK e \in Entry :
        /\ life[e] = "fresh" /\ expire[e] = None
        /\ ent' = [ent EXCEPT ![e] = [key |-> k, owner |-> c, value |-> v, drained |-> FALSE]]
        /\ db' = [db EXCEPT ![c] = @ \cup {e}]
  BY NewStep
<1>2. expire' = expire
  BY DEF entry_new
<1>3. /\ \A d \in Conn : db[d] \subseteq Entry /\ e \notin db[d]
      /\ \A f \in Entry : f # e => ent'[f] = ent[f]
      /\ ent'[e].key = k /\ ent'[e].value = v /\ e # None
      /\ db'[c] = db[c] \cup {e} /\ \A d \in Conn : d # c => db'[d] = db[d]
  BY <1>1, CommandsConstants DEF CInv, ReferencesLive, TypeOK
<1>4. found(c, k)' = {e}
  BY <1>3 DEF found
<1>5. ASSUME NEW d \in Conn, NEW q \in Key, d # c \/ q # k
      PROVE  SameKey(d, q)
  <2>1. found(d, q)' = found(d, q)
    BY <1>3, <1>5 DEF found
  <2>2. \A f \in found(d, q) : ent'[f].value = ent[f].value /\ expire'[f] = expire[f]
    BY <1>2, <1>3 DEF found
  <2> QED BY <2>1, <2>2, KeyFrame
<1>6. Sp(c, k)' = v /\ Dl(c, k)' = None
  BY <1>1, <1>2, <1>3, <1>4, KeyHas
<1> QED BY <1>5, <1>6

\* One entry gets another value or another TTL.
LEMMA ChangeView ==
  ASSUME CInv, NEW c \in Conn, NEW k \in Key, NEW e \in Entry, found(c, k) = {e},
         UNCHANGED db, ent'[e].key = k,
         \A f \in Entry : f # e => ent'[f] = ent[f] /\ expire'[f] = expire[f]
  PROVE  /\ Sp(c, k) = ent[e].value /\ Dl(c, k) = expire[e]
         /\ Sp(c, k)' = ent'[e].value /\ Dl(c, k)' = expire'[e]
         /\ \A d \in Conn : \A q \in Key : d # c \/ q # k => SameKey(d, q)
<1>1. /\ e \in db[c] /\ e # None /\ ent[e].key = k
      /\ \A d \in Conn : db[d] \subseteq Entry /\ (d # c => e \notin db[d])
  BY CommandsConstants DEF CInv, ReferencesLive, TypeOK, found
<1>2. \A d \in Conn : \A q \in Key : found(d, q)' = found(d, q)
  BY <1>1 DEF found
<1>3. ASSUME NEW d \in Conn, NEW q \in Key, d # c \/ q # k
      PROVE  SameKey(d, q)
  <2>1. \A f \in found(d, q) : f \in Entry /\ f # e
    BY <1>1, <1>3 DEF found
  <2> QED BY <1>2, <2>1, KeyFrame
<1>4. Sp(c, k)' = ent'[e].value /\ Dl(c, k)' = expire'[e]
  BY <1>1, <1>2, KeyHas
<1>5. Sp(c, k) = ent[e].value /\ Dl(c, k) = expire[e]
  <2>1. hm_lookup(c, k) = e
    BY DEF hm_lookup
  <2> QED BY <1>1, <2>1 DEF Sp, Dl, value
<1> QED BY <1>3, <1>4, <1>5

\* entry_del removes a key, or freed memory was used and no key changes.
LEMMA DelView ==
  ASSUME CInv, NEW e \in Entry, life[e] = "live", entry_del(e), defined
  PROVE  \/ ~defined' /\ now' = now /\ \A d \in Conn : \A q \in Key : SameKey(d, q)
         \/ /\ defined' /\ now' = now
            /\ \E c \in Conn : \E k \in Key :
                 /\ e \in db[c] /\ ent[e].key = k
                 /\ Sp(c, k)' = Absent /\ Dl(c, k)' = None
                 /\ \A d \in Conn : \A q \in Key : d # c \/ q # k => SameKey(d, q)
<1>1. CASE ~defined' /\ UNCHANGED <<now, db, ent, expire>>
  <2>1. \A d \in Conn : \A q \in Key : SameKey(d, q)
    BY <1>1, SameView
  <2> QED BY <1>1, <2>1
<1>2. CASE /\ defined' = defined /\ UNCHANGED now
           /\ \E c \in Conn : e \in db[c] /\ db' = [db EXCEPT ![c] = @ \ {e}]
           /\ expire' = [expire EXCEPT ![e] = None]
           /\ \A f \in Entry : f # e => ent'[f] = ent[f]
  <2>1. PICK c \in Conn : e \in db[c] /\ db' = [db EXCEPT ![c] = @ \ {e}]
    BY <1>2
  <2>2. PICK k \in Key : ent[e].key = k
    BY <2>1 DEF CInv, ReferencesLive
  <2>3. /\ \A d \in Conn : db[d] \subseteq Entry /\ (d # c => e \notin db[d])
        /\ \A f \in Entry : f # e => expire'[f] = expire[f]
        /\ db'[c] = db[c] \ {e} /\ \A d \in Conn : d # c => db'[d] = db[d]
        /\ \A f \in db[c] : f # e => ent[f].key # k
    BY <1>2, <2>1, <2>2 DEF CInv, ReferencesLive, TypeOK
  <2>4. found(c, k)' = {}
    BY <1>2, <2>3 DEF found
  <2>5. ASSUME NEW d \in Conn, NEW q \in Key, d # c \/ q # k
        PROVE  SameKey(d, q)
    <3>1. \A f \in found(d, q) : f \in Entry /\ f # e
      BY <2>2, <2>3, <2>5 DEF found
    <3>2. found(d, q)' = found(d, q)
      BY <1>2, <2>2, <2>3, <3>1 DEF found
    <3>3. \A f \in found(d, q) : ent'[f].value = ent[f].value /\ expire'[f] = expire[f]
      BY <1>2, <2>3, <3>1
    <3> QED BY <3>2, <3>3, KeyFrame
  <2>6. Sp(c, k)' = Absent /\ Dl(c, k)' = None
    BY <2>4, KeyHasNot
  <2> QED BY <1>2, <2>1, <2>2, <2>5, <2>6
<1>3. defined \in BOOLEAN
  BY DEF CInv, ReferencesLive, TypeOK
<1> QED BY <1>1, <1>2, <1>3, DelStep

-----------------------------------------------------------------------------
(* The commands: each keeps the invariant, and is the command of KeySpace. *)

\* A step that neither changes a key nor replies.
LEMMA ViewStutter ==
  ASSUME SpaceView' = SpaceView, DeadlineView' = DeadlineView, UNCHANGED <<now, reply>>
  PROVE  UNCHANGED KS!vars
BY DEF KS!vars, SpaceView, DeadlineView, Sp, Dl

\* A command that only replies.
LEMMA AnswerStep ==
  ASSUME CInv, NEW r, answer(r)
  PROVE  CInv' /\ KS!Answer(r)
<1>1. /\ UNCHANGED <<db, ent, expire, life, poolVars>>
      /\ reply' = r /\ now' = now /\ defined' = defined
  BY DEF answer
<1>2. CInv'
  BY <1>1, SameStep DEF CInv, ReferencesLive, TypeOK
<1>3. \A d \in Conn : \A q \in Key : SameKey(d, q)
  BY <1>1, SameView
<1> QED BY <1>1, <1>2, <1>3, ViewSame, ViewAnswer

\* Freed memory is used: the model stops, the client has seen nothing of it.
LEMMA UndefinedStep ==
  ASSUME CInv, undefined, UNCHANGED reply
  PROVE  CInv' /\ UNCHANGED KS!vars
<1>1. /\ UNCHANGED <<db, ent, expire, life, poolVars>>
      /\ now' = now /\ defined' = FALSE
  BY DEF undefined
<1>2. CInv'
  BY <1>1, SameStep DEF CInv, ReferencesLive, TypeOK
<1>3. \A d \in Conn : \A q \in Key : SameKey(d, q)
  BY <1>1, SameView
<1> QED BY <1>1, <1>2, <1>3, ViewSame, ViewStutter

\* The value that a lookup leads to.
LEMMA LookupValue ==
  ASSUME CInv, NEW c \in Conn, NEW k \in Key
  PROVE  /\ Sp(c, k) = value(hm_lookup(c, k)) /\ Sp(c, k) \in EntryValue
         /\ hm_lookup(c, k) = None => Sp(c, k) = Absent /\ Dl(c, k) = None /\ found(c, k) = {}
         /\ hm_lookup(c, k) # None =>
              /\ hm_lookup(c, k) \in Entry /\ hm_lookup(c, k) \in db[c]
              /\ found(c, k) = {hm_lookup(c, k)} /\ ent[hm_lookup(c, k)].key = k
              /\ life[hm_lookup(c, k)] = "live"
              /\ Sp(c, k) = ent[hm_lookup(c, k)].value
              /\ Dl(c, k) = expire[hm_lookup(c, k)]
         /\ Sp(c, k).type \in {"none", "str", "zset"}
         /\ Sp(c, k).type = "none" <=> hm_lookup(c, k) = None
         /\ Sp(c, k).type = "str" =>
              Sp(c, k) = Value("str", Sp(c, k).str, << >>) /\ Sp(c, k).str \in Val
         /\ Sp(c, k).type = "zset" =>
              Sp(c, k) = Value("zset", 0, Sp(c, k).zset) /\ Sp(c, k).zset \in Scores
         /\ Sp(c, k).type # "zset" => Sp(c, k).zset = << >>
<1>1. PICK e : e = hm_lookup(c, k)
  OBVIOUS
<1>2. Absent \in EntryValue /\ Absent.type = "none"
  BY DEF Absent, EntryValue, Value
<1>3. Sp(c, k) = IF e = None THEN Absent ELSE ent[e].value
  BY <1>1 DEF Sp, value
<1>4. \/ e = None /\ found(c, k) = {}
      \/ /\ e \in Entry /\ e # None /\ e \in db[c] /\ ent[e].key = k
         /\ life[e] = "live" /\ found(c, k) = {e}
  BY <1>1, Lookup DEF CInv
<1>5. Sp(c, k) \in EntryValue
  BY <1>2, <1>3, <1>4 DEF CInv, ReferencesLive, TypeOK
<1>6. e # None => ent[e].value.type # "none"
  BY <1>4 DEF CInv, ReferencesLive
<1>7. PICK v \in EntryValue : v = Sp(c, k)
  BY <1>5
<1>8. /\ v.type \in {"none", "str", "zset"}
      /\ v.type = "str" => v = Value("str", v.str, << >>) /\ v.str \in Val
      /\ v.type = "zset" => v = Value("zset", 0, v.zset) /\ v.zset \in Scores
      /\ v.type # "zset" => v.zset = << >>
  <2>1. CASE v = Absent
    BY <1>2, <2>1 DEF Absent, Value
  <2>2. CASE v \in [type : {"str"}, str : Val, zset : {<< >>}]
    BY <2>2 DEF Value
  <2>3. CASE v \in [type : {"zset"}, str : {0}, zset : Scores]
    BY <2>3 DEF Value
  <2> QED BY <2>1, <2>2, <2>3 DEF EntryValue
<1>9. Dl(c, k) = IF e = None THEN None ELSE expire[e]
  BY <1>1 DEF Dl
<1>10. /\ e = None => Sp(c, k) = Absent /\ Dl(c, k) = None /\ found(c, k) = {}
       /\ e # None => /\ e \in Entry /\ e \in db[c] /\ found(c, k) = {e} /\ ent[e].key = k
                      /\ life[e] = "live" /\ Sp(c, k) = ent[e].value /\ Dl(c, k) = expire[e]
       /\ Sp(c, k).type = "none" <=> e = None
  BY <1>2, <1>3, <1>4, <1>6, <1>9
<1> QED BY <1>1, <1>5, <1>7, <1>8, <1>10 DEF Sp

\* The replies of KeySpace are those of Commands.
LEMMA SameReplies ==
  /\ KS!Absent = Absent
  /\ \A t, s, z : KS!Value(t, s, z) = Value(t, s, z)
  /\ \A c, t, v : KS!Reply(c, t, v) = Reply(c, t, v)
  /\ \A c : KS!BadType(c) = BadType(c) /\ KS!BadArg(c) = BadArg(c)
  /\ KS!ERR_UNKNOWN = ERR_UNKNOWN
  /\ \A a : (KS!ParsedOk(a) <=> ParsedOk(a)) /\ KS!Parsed(a) = Parsed(a)
BY DEF KS!Absent, Absent, KS!Value, Value, KS!Reply, Reply, KS!BadType, BadType,
       KS!BadArg, BadArg, KS!ERR_UNKNOWN, ERR_UNKNOWN, KS!ERR_BAD_TYP, ERR_BAD_TYP,
       KS!ERR_BAD_ARG, ERR_BAD_ARG, KS!ParsedOk, ParsedOk, KS!Parsed, Parsed

\* The commands that only look.
LEMMA GetStep ==
  ASSUME CInv, NEW c \in Conn, NEW k \in Key, do_get(c, k)
  PROVE  CInv' /\ KS!Get(c, k)
<1>1. PICK v : v = Sp(c, k)
  OBVIOUS
<1>2. PICK r : r = CASE v.type = "none" -> Reply(c, "nil", {})
                     [] v.type = "str" -> Reply(c, "str", {v.str})
                     [] v.type = "zset" -> BadType(c)
  OBVIOUS
<1>3. answer(r)
  BY <1>1, <1>2 DEF do_get, Sp
<1>4. CInv' /\ KS!Answer(r)
  BY <1>3, AnswerStep
<1>5. KS!Get(c, k) <=>
        KS!Answer(CASE v.type = "none" -> Reply(c, "nil", {})
                    [] v.type = "str" -> Reply(c, "str", {v.str})
                    [] v.type = "zset" -> BadType(c))
  BY <1>1, ViewOf, SameReplies DEF KS!Get, Sp
<1> QED BY <1>2, <1>4, <1>5

\* PTTL reads the deadline that the entry has in the heap.
LEMMA TtlReplyStep ==
  ASSUME CInv, NEW c \in Conn, NEW k \in Key, do_ttl(c, k)
  PROVE  CInv' /\ KS!PTtl(c, k)
<1>1. PICK e : e = hm_lookup(c, k)
  OBVIOUS
<1>2. PICK d : d = Dl(c, k)
  OBVIOUS
<1>3. PICK r : r = Reply(c, "int", {IF Sp(c, k).type = "none" THEN -2
                                    ELSE IF d = None THEN -1
                                    ELSE IF d > now THEN d - now ELSE 0})
  OBVIOUS
<1>4. answer(r)
  BY <1>1, <1>2, <1>3, LookupValue DEF do_ttl
<1>5. CInv' /\ KS!Answer(r)
  BY <1>4, AnswerStep
<1>6. KS!PTtl(c, k) <=>
        KS!Answer(Reply(c, "int", {IF Sp(c, k).type = "none" THEN -2
                                   ELSE IF d = None THEN -1
                                   ELSE IF d > now THEN d - now ELSE 0}))
  BY <1>2, ViewOf, SameReplies DEF KS!PTtl, Dl
<1> QED BY <1>3, <1>5, <1>6

\* KEYS lists the keys of its own connection, each one once.
LEMMA KeysStep ==
  ASSUME CInv, NEW c \in Conn, do_keys(c)
  PROVE  CInv' /\ KS!Keys(c)
<1>1. PICK ks : ks = {ent[e].key : e \in db[c]}
  OBVIOUS
<1>2. ks = {k \in Key : Sp(c, k).type # "none"}
  <2>1. \A e \in db[c] : ent[e].key \in Key /\ Sp(c, ent[e].key).type # "none"
    <3> SUFFICES ASSUME NEW e \in db[c]
                 PROVE  ent[e].key \in Key /\ Sp(c, ent[e].key).type # "none"
      OBVIOUS
    <3>1. PICK k \in Key : k = ent[e].key
      BY DEF CInv, ReferencesLive
    <3>2. found(c, k) # {}
      BY <3>1 DEF found
    <3> QED BY <3>1, <3>2, LookupValue
  <2>2. \A k \in Key : Sp(c, k).type # "none" => \E e \in db[c] : ent[e].key = k
    BY LookupValue
  <2> QED BY <1>1, <2>1, <2>2
<1>3. PICK r : r = Reply(c, "arr", ks)
  OBVIOUS
<1>4. CInv' /\ KS!Answer(r)
  BY <1>1, <1>3, AnswerStep DEF do_keys
<1>5. KS!Keys(c) <=> KS!Answer(Reply(c, "arr", {k \in Key : KS!Type(c, k) # "none"}))
  BY SameReplies DEF KS!Keys
<1>6. {k \in Key : KS!Type(c, k) # "none"} = ks
  BY <1>2, ViewOf
<1> QED BY <1>3, <1>4, <1>5, <1>6

\* ZSCORE of a string, of a member and of none.
LEMMA ScoreStep ==
  ASSUME CInv, NEW c \in Conn, NEW k \in Key, NEW n \in Name, do_zscore(c, k, n)
  PROVE  CInv' /\ KS!ZScore(c, k, n)
<1>1. PICK v : v = Sp(c, k)
  OBVIOUS
<1>2. PICK r : r = IF v.type = "str" THEN BadType(c)
                   ELSE IF n \in DOMAIN v.zset THEN Reply(c, "dbl", {v.zset[n]})
                   ELSE Reply(c, "nil", {})
  OBVIOUS
<1>3. CInv' /\ KS!Answer(r)
  BY <1>1, <1>2, AnswerStep DEF do_zscore, zset, Sp
<1>4. KS!ZScore(c, k, n) <=>
        KS!Answer(IF v.type = "str" THEN BadType(c)
                  ELSE IF n \in DOMAIN v.zset THEN Reply(c, "dbl", {v.zset[n]})
                  ELSE Reply(c, "nil", {}))
  BY <1>1, ViewOf, SameReplies DEF KS!ZScore, Sp
<1> QED BY <1>2, <1>3, <1>4

\* QUIT and unknown commands.
LEMMA OtherStep ==
  ASSUME CInv, NEW c \in Conn, do_other(c)
  PROVE  CInv' /\ KS!Other(c)
<1>1. PICK r \in {Reply(c, "bye", {}), Reply(c, "err", {ERR_UNKNOWN})} : answer(r)
  BY DEF do_other
<1>2. CInv' /\ KS!Answer(r)
  BY <1>1, AnswerStep
<1> QED BY <1>1, <1>2, SameReplies DEF KS!Other

\* The commands that change one key.
LEMMA LeaveStep ==
  ASSUME NEW c \in Conn, NEW k \in Key, NEW v, NEW t, NEW r,
         Sp(c, k)' = v, Dl(c, k)' = t,
         \A d \in Conn : \A q \in Key : d # c \/ q # k => SameKey(d, q),
         reply' = r, now' = now
  PROVE  KS!Leave(c, k, v, t, r)
BY ViewChange, ViewLeave

\* SET and ZADD of a key that is not there.
LEMMA CreateStep ==
  ASSUME CInv, NEW c \in Conn, NEW k \in Key, NEW v \in EntryValue, v.type # "none",
         hm_lookup(c, k) = None, entry_new(c, k, v), NEW r, reply' = r
  PROVE  CInv' /\ KS!Leave(c, k, v, Dl(c, k), r)
<1>1. found(c, k) = {} /\ Dl(c, k) = None
  BY LookupValue
<1>2. CInv'
  BY <1>1, NewStep
<1>3. /\ Sp(c, k)' = v /\ Dl(c, k)' = None
      /\ \A d \in Conn : \A q \in Key : d # c \/ q # k => SameKey(d, q)
  BY <1>1, NewView
<1>4. now' = now
  BY DEF entry_new
<1> QED BY <1>1, <1>2, <1>3, <1>4, LeaveStep

\* SET, ZADD and ZREM of a key that is there.
LEMMA UpdateStep ==
  ASSUME CInv, NEW c \in Conn, NEW k \in Key, NEW e, e = hm_lookup(c, k), e # None,
         NEW o \in EntryRecord, o.key = ent[e].key, o.owner = ent[e].owner,
         o.value.type # "none",
         ent' = [ent EXCEPT ![e] = o],
         UNCHANGED <<now, db, expire, life, poolVars, defined>>, NEW r, reply' = r
  PROVE  CInv' /\ KS!Leave(c, k, o.value, Dl(c, k), r)
<1>1. /\ e \in Entry /\ e \in db[c] /\ found(c, k) = {e} /\ ent[e].key = k
      /\ Dl(c, k) = expire[e]
  BY LookupValue
<1>2. CInv'
  BY <1>1, ValueStep
<1>3. ent'[e] = o /\ \A f \in Entry : f # e => ent'[f] = ent[f]
  BY <1>1 DEF CInv, ReferencesLive, TypeOK
<1>4. /\ Sp(c, k)' = o.value /\ Dl(c, k)' = expire[e]
      /\ \A d \in Conn : \A q \in Key : d # c \/ q # k => SameKey(d, q)
  <2>1. /\ Sp(c, k)' = ent'[e].value /\ Dl(c, k)' = expire'[e]
        /\ \A d \in Conn : \A q \in Key : d # c \/ q # k => SameKey(d, q)
    BY <1>1, <1>3, ChangeView
  <2> QED BY <1>3, <2>1
<1> QED BY <1>1, <1>2, <1>4, LeaveStep

\* SET: a type error, a new value, or a new entry.
LEMMA SetStep ==
  ASSUME CInv, NEW c \in Conn, NEW k \in Key, NEW v \in Val, do_set(c, k, v)
  PROVE  CInv' /\ KS!Set(c, k, v)
<1>1. PICK e : e = hm_lookup(c, k)
  OBVIOUS
<1>2. PICK r : r = Reply(c, "str", {1})
  OBVIOUS
<1>3. PICK w \in EntryValue : w = Value("str", v, << >>) /\ w.type # "none"
  <2>1. Value("str", v, << >>) \in EntryValue /\ Value("str", v, << >>).type # "none"
    BY DEF EntryValue, Value
  <2> QED BY <2>1
<1>4. KS!Set(c, k, v) <=>
        \/ Sp(c, k).type = "zset" /\ KS!Answer(BadType(c))
        \/ Sp(c, k).type # "zset" /\ KS!Leave(c, k, w, Dl(c, k), r)
  BY <1>2, <1>3, ViewOf, SameReplies DEF KS!Set, Dl
<1>5. CASE value(e).type = "zset" /\ answer(BadType(c))
  BY <1>1, <1>4, <1>5, AnswerStep DEF Sp
<1>6. CASE /\ value(e).type = "str"
           /\ ent' = [ent EXCEPT ![e].value.str = v]
           /\ reply' = Reply(c, "str", {1})
           /\ UNCHANGED <<now, db, expire, life, poolVars, defined>>
  <2>1. /\ e # None /\ e \in Entry /\ ent[e].value = Value("str", ent[e].value.str, << >>)
        /\ Sp(c, k).type = "str" /\ ent[e] \in EntryRecord
    BY <1>1, <1>6, LookupValue DEF CInv, ReferencesLive, TypeOK, EntryRecord
  <2>2. PICK o : o = [ent[e] EXCEPT !.value.str = v]
    OBVIOUS
  <2>3. o.value = w /\ o.key = ent[e].key /\ o.owner = ent[e].owner /\ o \in EntryRecord
    <3>1. [ent[e].value EXCEPT !.str = v] = w
      BY <1>3, <2>1 DEF Value
    <3> QED BY <1>3, <2>1, <2>2, <3>1 DEF EntryRecord
  <2>4. ent' = [ent EXCEPT ![e] = o]
    BY <1>6, <2>1, <2>2 DEF CInv, ReferencesLive, TypeOK
  <2>5. /\ UNCHANGED <<now, db, expire, life, poolVars, defined>>
        /\ reply' = r /\ o.value.type # "none"
    BY <1>2, <1>3, <1>6, <2>3
  <2>6. CInv' /\ KS!Leave(c, k, o.value, Dl(c, k), r)
    BY <1>1, <2>1, <2>3, <2>4, <2>5, UpdateStep
  <2> QED BY <1>4, <2>1, <2>3, <2>6
<1>7. CASE e = None /\ entry_new(c, k, Value("str", v, << >>)) /\ reply' = Reply(c, "str", {1})
  <2>1. CInv' /\ KS!Leave(c, k, w, Dl(c, k), r)
    BY <1>1, <1>2, <1>3, <1>7, CreateStep
  <2>2. Sp(c, k).type # "zset"
    BY <1>1, <1>7, LookupValue DEF Absent, Value
  <2> QED BY <1>4, <2>1, <2>2
<1> QED BY <1>1, <1>5, <1>6, <1>7 DEF do_set

\* DEL of a key that is there, or not.
LEMMA DelCommand ==
  ASSUME CInv, defined, NEW c \in Conn, NEW k \in Key, do_del(c, k)
  PROVE  CInv' /\ (KS!Del(c, k) \/ UNCHANGED KS!vars)
<1>1. PICK e : e = hm_lookup(c, k)
  OBVIOUS
<1>2. PICK r : r = Reply(c, "str", {IF Sp(c, k).type = "none" THEN 0 ELSE 1})
  OBVIOUS
<1>3. KS!Del(c, k) <=> KS!Leave(c, k, Absent, None, r)
  BY <1>2, ViewOf, SameReplies DEF KS!Del
<1>4. CASE e = None /\ answer(Reply(c, "str", {0}))
  <2>1. answer(r) /\ Sp(c, k) = Absent /\ Dl(c, k) = None
    <3>1. hm_lookup(c, k) = None
      BY <1>1, <1>4
    <3>2. Sp(c, k) = Absent /\ Dl(c, k) = None
      BY <3>1, LookupValue
    <3>3. Sp(c, k).type = "none"
      BY <3>2 DEF Absent, Value
    <3>4. r = Reply(c, "str", {0})
      BY <1>2, <3>3
    <3> QED BY <1>4, <3>2, <3>4
  <2>2. CInv'
    BY <2>1, AnswerStep
  <2>3. \A d \in Conn : \A q \in Key : SameKey(d, q)
    BY <2>1, SameView DEF answer
  <2>4. KS!Leave(c, k, Absent, None, r)
    <3>1. Sp(c, k)' = Absent /\ Dl(c, k)' = None
      BY <2>1, <2>3 DEF SameKey
    <3>2. reply' = r /\ now' = now
      BY <2>1 DEF answer
    <3> QED BY <2>3, <3>1, <3>2, LeaveStep
  <2> QED BY <1>3, <2>2, <2>4
<1>5. CASE e # None /\ entry_del(e) /\ reply' = IF defined' THEN Reply(c, "str", {1}) ELSE reply
  <2>1. /\ e \in Entry /\ e \in db[c] /\ ent[e].key = k /\ life[e] = "live"
        /\ Sp(c, k).type # "none"
    BY <1>1, <1>5, LookupValue
  <2>2. CInv'
    BY <1>5, <2>1, DelStep
  <2>3. CASE ~defined' /\ now' = now /\ \A d \in Conn : \A q \in Key : SameKey(d, q)
    BY <1>5, <2>2, <2>3, ViewSame, ViewStutter
  <2>4. CASE /\ defined' /\ now' = now
             /\ \E b \in Conn : \E p \in Key :
                  /\ e \in db[b] /\ ent[e].key = p
                  /\ Sp(b, p)' = Absent /\ Dl(b, p)' = None
                  /\ \A d \in Conn : \A q \in Key : d # b \/ q # p => SameKey(d, q)
    <3>1. PICK b \in Conn, p \in Key :
            /\ e \in db[b] /\ ent[e].key = p
            /\ Sp(b, p)' = Absent /\ Dl(b, p)' = None
            /\ \A d \in Conn : \A q \in Key : d # b \/ q # p => SameKey(d, q)
      BY <2>4
    <3>2. b = c /\ p = k
      BY <2>1, <3>1 DEF CInv, ReferencesLive
    <3>3. reply' = r /\ now' = now
      BY <1>2, <1>5, <2>1, <2>4
    <3>4. KS!Leave(c, k, Absent, None, r)
      BY <3>1, <3>2, <3>3, LeaveStep
    <3> QED BY <1>3, <2>2, <3>4
  <2> QED BY <1>5, <2>1, <2>3, <2>4, DelView
<1> QED BY <1>1, <1>4, <1>5 DEF do_del

\* PEXPIRE: a bad argument, no key, or a deadline set or removed.
LEMMA ExpireCommand ==
  ASSUME CInv, NEW c \in Conn, NEW k \in Key, NEW a \in Arg, do_expire(c, k, a)
  PROVE  CInv' /\ KS!PExpire(c, k, a)
<1>1. PICK e : e = hm_lookup(c, k)
  OBVIOUS
<1>2. PICK t : t = IF Parsed(a) < 0 THEN None ELSE now + Parsed(a)
  OBVIOUS
<1>3. PICK r : r = Reply(c, "int", {1})
  OBVIOUS
<1>4. KS!PExpire(c, k, a) <=>
        \/ ~ParsedOk(a) /\ KS!Answer(BadArg(c))
        \/ ParsedOk(a) /\ Sp(c, k).type = "none" /\ KS!Answer(Reply(c, "int", {0}))
        \/ ParsedOk(a) /\ Sp(c, k).type # "none" /\ KS!Leave(c, k, Sp(c, k), t, r)
  BY <1>2, <1>3, ViewOf, SameReplies DEF KS!PExpire, Sp
<1>5. CASE ~ParsedOk(a) /\ answer(BadArg(c))
  BY <1>4, <1>5, AnswerStep
<1>6. CASE ParsedOk(a) /\ e = None /\ answer(Reply(c, "int", {0}))
  BY <1>1, <1>4, <1>6, AnswerStep, LookupValue
<1>7. CASE /\ ParsedOk(a) /\ e # None
           /\ expire' = entry_set_ttl(e, Parsed(a))
           /\ reply' = Reply(c, "int", {1})
           /\ UNCHANGED <<now, db, ent, life, poolVars, defined>>
  <2>1. /\ e \in Entry /\ e \in db[c] /\ found(c, k) = {e} /\ ent[e].key = k
        /\ life[e] = "live" /\ Sp(c, k) = ent[e].value /\ Sp(c, k).type # "none"
    BY <1>1, <1>7, LookupValue
  <2>2. t \in Nat \cup {None}
    BY <1>2, ParsedInt DEF CInv, ReferencesLive, TypeOK
  <2>3. expire' = [expire EXCEPT ![e] = t]
    BY <1>2, <1>7 DEF entry_set_ttl, ttl_removed
  <2>4. CInv'
    BY <1>7, <2>1, <2>2, <2>3, TtlStep
  <2>5. /\ expire'[e] = t /\ ent'[e].key = k
        /\ \A f \in Entry : f # e => ent'[f] = ent[f] /\ expire'[f] = expire[f]
    BY <1>7, <2>1, <2>3 DEF CInv, ReferencesLive, TypeOK
  <2>6. /\ Sp(c, k)' = ent'[e].value /\ Dl(c, k)' = expire'[e]
        /\ \A d \in Conn : \A q \in Key : d # c \/ q # k => SameKey(d, q)
    BY <1>7, <2>1, <2>5, ChangeView
  <2>7. Sp(c, k)' = ent[e].value /\ Dl(c, k)' = t
    BY <1>7, <2>5, <2>6
  <2>8. KS!Leave(c, k, ent[e].value, t, r)
    BY <1>3, <1>7, <2>6, <2>7, LeaveStep
  <2> QED BY <1>4, <1>7, <2>1, <2>4, <2>8
<1> QED BY <1>1, <1>5, <1>6, <1>7 DEF do_expire

\* ZADD: errors, a new entry, or a member set in one that is there.
LEMMA AddStep ==
  ASSUME CInv, NEW c \in Conn, NEW k \in Key, NEW a \in Arg, NEW n \in Name,
         do_zadd(c, k, a, n)
  PROVE  CInv' /\ (KS!ZAdd(c, k, a, n) \/ UNCHANGED KS!vars)
<1>1. PICK e : e = hm_lookup(c, k)
  OBVIOUS
<1>2. PICK z : z = Sp(c, k).zset /\ z = zset(e)
  BY <1>1 DEF Sp, zset
<1>3. PICK added : added = [m \in DOMAIN z \cup {n} |-> IF m = n THEN Parsed(a) ELSE z[m]]
  OBVIOUS
<1>4. PICK r : r = Reply(c, "int", {IF n \in DOMAIN z THEN 0 ELSE 1})
  OBVIOUS
<1>5. PICK w : w = Value("zset", 0, added)
  OBVIOUS
<1>6. KS!ZAdd(c, k, a, n) <=>
        \/ ~ParsedOk(a) /\ KS!Answer(BadArg(c))
        \/ ParsedOk(a) /\ Sp(c, k).type = "str" /\ KS!Answer(BadType(c))
        \/ ParsedOk(a) /\ Sp(c, k).type # "str" /\ KS!Leave(c, k, w, Dl(c, k), r)
  BY <1>2, <1>3, <1>4, <1>5, ViewOf, SameReplies DEF KS!ZAdd, Sp, Dl
<1>7. Sp(c, k).type # "str" => z \in Scores \cup {<< >>}
  BY <1>2, LookupValue
<1>8. Sp(c, k).type # "str" => w \in EntryValue /\ w.type = "zset"
  <2>1. Sp(c, k).type # "str" => added \in Scores
    BY <1>3, <1>7, ScoresAdd
  <2> QED BY <1>5, <2>1 DEF EntryValue, Value
<1>9. CASE ~ParsedOk(a) /\ answer(BadArg(c))
  BY <1>6, <1>9, AnswerStep
<1>10. CASE ParsedOk(a) /\ value(e).type = "str" /\ answer(BadType(c))
  BY <1>1, <1>6, <1>10, AnswerStep DEF Sp
<1>11. CASE /\ ParsedOk(a) /\ e = None
            /\ entry_new(c, k, Value("zset", 0, added))
            /\ reply' = Reply(c, "int", {1})
  <2>1. Sp(c, k) = Absent /\ Absent.type = "none" /\ Absent.zset = << >>
    BY <1>1, <1>11, LookupValue DEF Absent, Value
  <2>2. w \in EntryValue /\ w.type # "none" /\ Sp(c, k).type # "str"
    BY <1>8, <2>1
  <2>3. reply' = r
    <3>1. z = << >>
      BY <1>2, <2>1, LookupValue
    <3>2. n \notin DOMAIN z
      BY <3>1
    <3> QED BY <1>4, <1>11, <3>2
  <2>4. entry_new(c, k, w)
    BY <1>5, <1>11
  <2>5. CInv' /\ KS!Leave(c, k, w, Dl(c, k), r)
    BY <1>1, <1>11, <2>2, <2>3, <2>4, CreateStep
  <2> QED BY <1>6, <1>11, <2>2, <2>5
<1>12. CASE undefined /\ UNCHANGED reply
  BY <1>12, UndefinedStep
<1>13. CASE /\ ParsedOk(a) /\ value(e).type = "zset" /\ ~ent[e].drained
            /\ ent' = [ent EXCEPT ![e].value.zset = added]
            /\ reply' = Reply(c, "int", {IF n \in DOMAIN zset(e) THEN 0 ELSE 1})
            /\ UNCHANGED <<now, db, expire, life, poolVars, defined>>
  <2>1. /\ e # None /\ e \in Entry /\ Sp(c, k).type = "zset"
        /\ ent[e].value = Value("zset", 0, z) /\ ent[e] \in EntryRecord
    <3>1. Sp(c, k).type = "zset"
      BY <1>1, <1>13 DEF Sp
    <3>2. e # None /\ e \in Entry /\ Sp(c, k) = ent[e].value
      BY <1>1, <3>1, LookupValue
    <3>3. Sp(c, k) = Value("zset", 0, Sp(c, k).zset)
      BY <3>1, LookupValue
    <3>4. ent[e] \in EntryRecord
      BY <3>2 DEF CInv, ReferencesLive, TypeOK, EntryRecord
    <3> QED BY <1>2, <3>1, <3>2, <3>3, <3>4
  <2>2. PICK o : o = [ent[e] EXCEPT !.value.zset = added]
    OBVIOUS
  <2>3. /\ o.value = w /\ o.key = ent[e].key /\ o.owner = ent[e].owner /\ o \in EntryRecord
        /\ o.value.type # "none"
    <3>1. [ent[e].value EXCEPT !.zset = added] = w
      BY <1>5, <2>1 DEF Value
    <3>2. w \in EntryValue /\ w.type = "zset"
      BY <1>8, <2>1
    <3> QED BY <2>1, <2>2, <3>1, <3>2 DEF EntryRecord
  <2>4. ent' = [ent EXCEPT ![e] = o]
    BY <1>13, <2>1, <2>2 DEF CInv, ReferencesLive, TypeOK
  <2>5. /\ UNCHANGED <<now, db, expire, life, poolVars, defined>>
        /\ reply' = r
    BY <1>2, <1>4, <1>13
  <2>6. CInv' /\ KS!Leave(c, k, o.value, Dl(c, k), r)
    BY <1>1, <2>1, <2>3, <2>4, <2>5, UpdateStep
  <2> QED BY <1>6, <1>13, <2>1, <2>3, <2>6
<1> QED BY <1>1, <1>2, <1>3, <1>9, <1>10, <1>11, <1>12, <1>13 DEF do_zadd

\* ZREM: a type error, no such member, or one member less.
LEMMA RemStep ==
  ASSUME CInv, NEW c \in Conn, NEW k \in Key, NEW n \in Name, do_zrem(c, k, n)
  PROVE  CInv' /\ KS!ZRem(c, k, n)
<1>1. PICK e : e = hm_lookup(c, k)
  OBVIOUS
<1>2. PICK z : z = Sp(c, k).zset /\ z = zset(e)
  BY <1>1 DEF Sp, zset
<1>3. PICK rest : rest = [m \in DOMAIN z \ {n} |-> z[m]]
  OBVIOUS
<1>4. PICK r : r = Reply(c, "int", {1})
  OBVIOUS
<1>5. PICK w : w = Value("zset", 0, rest)
  OBVIOUS
<1>6. KS!ZRem(c, k, n) <=>
        \/ Sp(c, k).type = "str" /\ KS!Answer(BadType(c))
        \/ Sp(c, k).type # "str" /\ n \notin DOMAIN z /\ KS!Answer(Reply(c, "int", {0}))
        \/ n \in DOMAIN z /\ KS!Leave(c, k, w, Dl(c, k), r)
  BY <1>2, <1>3, <1>4, <1>5, ViewOf, SameReplies DEF KS!ZRem, Sp, Dl
<1>7. CASE value(e).type = "str" /\ answer(BadType(c))
  BY <1>1, <1>6, <1>7, AnswerStep DEF Sp
<1>8. CASE value(e).type # "str" /\ n \notin DOMAIN zset(e) /\ answer(Reply(c, "int", {0}))
  BY <1>1, <1>2, <1>6, <1>8, AnswerStep DEF Sp
<1>9. CASE /\ n \in DOMAIN zset(e)
           /\ ent' = [ent EXCEPT ![e].value.zset = [m \in DOMAIN zset(e) \ {n} |-> zset(e)[m]],
                                 ![e].drained = (DOMAIN zset(e) \ {n} = {})]
           /\ reply' = Reply(c, "int", {1})
           /\ UNCHANGED <<now, db, expire, life, poolVars, defined>>
  <2>1. n \in DOMAIN z /\ Sp(c, k).type = "zset"
    <3>1. Sp(c, k).type # "zset" => z = << >>
      BY <1>2, LookupValue
    <3>2. DOMAIN << >> = {}
      OBVIOUS
    <3> QED BY <1>2, <1>9, <3>1, <3>2
  <2>2. /\ e # None /\ e \in Entry /\ z \in Scores
        /\ ent[e].value = Value("zset", 0, z) /\ ent[e] \in EntryRecord
    <3>1. e # None /\ e \in Entry /\ Sp(c, k) = ent[e].value
      BY <1>1, <2>1, LookupValue
    <3>2. Sp(c, k) = Value("zset", 0, Sp(c, k).zset) /\ Sp(c, k).zset \in Scores
      BY <2>1, LookupValue
    <3>3. ent[e] \in EntryRecord
      BY <3>1 DEF CInv, ReferencesLive, TypeOK, EntryRecord
    <3> QED BY <1>2, <3>1, <3>2, <3>3
  <2>3. PICK o : o = [ent[e] EXCEPT !.value.zset = rest, !.drained = (DOMAIN z \ {n} = {})]
    OBVIOUS
  <2>4. /\ o.value = w /\ o.key = ent[e].key /\ o.owner = ent[e].owner /\ o \in EntryRecord
        /\ o.value.type # "none"
    <3>1. [ent[e].value EXCEPT !.zset = rest] = w
      BY <1>5, <2>2 DEF Value
    <3>2. rest \in Scores
      BY <1>3, <2>2, ScoresRemove
    <3>3. w \in EntryValue /\ w.type = "zset"
      BY <1>5, <3>2 DEF EntryValue, Value
    <3> QED BY <2>2, <2>3, <3>1, <3>3 DEF EntryRecord
  <2>5. ent' = [ent EXCEPT ![e] = o]
    <3>1. PICK b : b = (DOMAIN z \ {n} = {})
      OBVIOUS
    <3>2. ent' = [ent EXCEPT ![e].value.zset = rest, ![e].drained = b]
      BY <1>2, <1>3, <1>9, <3>1
    <3>3. o = [ent[e] EXCEPT !.value.zset = rest, !.drained = b]
      BY <2>3, <3>1
    <3>4. e \in DOMAIN ent
      BY <2>2 DEF CInv, ReferencesLive, TypeOK
    <3>5. PICK m : m = ent /\ e \in DOMAIN m
      BY <3>4
    <3>6. [m EXCEPT ![e].value.zset = rest, ![e].drained = b]
            = [m EXCEPT ![e] = [m[e] EXCEPT !.value.zset = rest, !.drained = b]]
      BY <3>5
    <3> QED BY <3>2, <3>3, <3>5, <3>6
  <2>6. /\ UNCHANGED <<now, db, expire, life, poolVars, defined>>
        /\ reply' = r
    BY <1>4, <1>9
  <2>7. CInv' /\ KS!Leave(c, k, o.value, Dl(c, k), r)
    BY <1>1, <2>2, <2>4, <2>5, <2>6, UpdateStep
  <2> QED BY <1>6, <2>1, <2>4, <2>7
<1> QED BY <1>1, <1>7, <1>8, <1>9 DEF do_zrem

\* ZQUERY changes nothing.
LEMMA QueryStep ==
  ASSUME CInv, NEW c \in Conn, NEW k \in Key, NEW a \in Arg, do_zquery(c, k, a)
  PROVE  CInv' /\ (KS!ZQuery(c, k, a) \/ UNCHANGED KS!vars)
<1>1. CASE undefined /\ UNCHANGED reply
  BY <1>1, UndefinedStep
<1>2. CASE ~(undefined /\ UNCHANGED reply)
  <2>1. PICK r : r = IF ~ParsedOk(a) THEN BadArg(c)
                     ELSE IF Sp(c, k).type = "str" THEN BadType(c)
                     ELSE Reply(c, "arr", {})
    OBVIOUS
  <2>2. answer(r)
    BY <1>2, <2>1 DEF do_zquery, Sp
  <2>3. CInv' /\ KS!Answer(r)
    BY <2>2, AnswerStep
  <2>4. KS!ZQuery(c, k, a) <=>
          KS!Answer(IF ~ParsedOk(a) THEN BadArg(c)
                    ELSE IF Sp(c, k).type = "str" THEN BadType(c)
                    ELSE Reply(c, "arr", {}))
    BY ViewOf, SameReplies DEF KS!ZQuery
  <2> QED BY <2>1, <2>3, <2>4
<1> QED BY <1>1, <1>2

\* A TTL that has passed removes the key.
LEMMA ExpireStep ==
  ASSUME CInv, defined, NEW e \in Entry, expire_key(e)
  PROVE  /\ CInv'
         /\ (\E c \in Conn : \E k \in Key : KS!Expire(c, k)) \/ UNCHANGED KS!vars
<1>1. /\ expire[e] # None /\ expire[e] < now /\ entry_del(e) /\ reply' = reply
      /\ life[e] = "live"
  BY DEF expire_key, CInv, ReferencesLive
<1>2. CInv'
  BY <1>1, DelStep
<1>3. CASE ~defined' /\ now' = now /\ \A d \in Conn : \A q \in Key : SameKey(d, q)
  BY <1>1, <1>2, <1>3, ViewSame, ViewStutter
<1>4. CASE /\ defined' /\ now' = now
           /\ \E c \in Conn : \E k \in Key :
                /\ e \in db[c] /\ ent[e].key = k
                /\ Sp(c, k)' = Absent /\ Dl(c, k)' = None
                /\ \A d \in Conn : \A q \in Key : d # c \/ q # k => SameKey(d, q)
  <2>1. PICK c \in Conn, k \in Key :
          /\ e \in db[c] /\ ent[e].key = k
          /\ Sp(c, k)' = Absent /\ Dl(c, k)' = None
          /\ \A d \in Conn : \A q \in Key : d # c \/ q # k => SameKey(d, q)
    BY <1>4
  <2>2. Dl(c, k) = expire[e]
    <3>1. e \in found(c, k)
      BY <2>1 DEF found
    <3>2. hm_lookup(c, k) = e
      BY <3>1, LookupValue
    <3>3. hm_lookup(c, k) # None
      BY <3>1, LookupValue
    <3> QED BY <3>2, <3>3 DEF Dl
  <2>3. PICK r : r = reply
    OBVIOUS
  <2>4. KS!Leave(c, k, Absent, None, r)
    BY <1>1, <1>4, <2>1, <2>3, LeaveStep
  <2>5. KS!Expire(c, k) <=>
          Dl(c, k) # None /\ Dl(c, k) < now /\ KS!Leave(c, k, Absent, None, reply)
    BY SameReplies DEF KS!Expire, Dl
  <2> QED BY <1>1, <1>2, <2>2, <2>3, <2>4, <2>5
<1> QED BY <1>1, <1>3, <1>4, DelView

\* The clock and the pool: no key of any connection changes.
LEMMA TickStep ==
  ASSUME CInv, tick
  PROVE  CInv' /\ KS!Tick
<1>1. /\ UNCHANGED <<reply, db, ent, expire, life, poolVars, defined>>
      /\ now' = now + 1 /\ now' \in Nat
  BY DEF tick, CInv, ReferencesLive, TypeOK
<1>2. CInv'
  BY <1>1, SameStep DEF CInv, ReferencesLive, TypeOK
<1>3. SpaceView' = SpaceView /\ DeadlineView' = DeadlineView
  BY <1>1, SameView, ViewSame
<1> QED BY <1>1, <1>2, <1>3 DEF KS!Tick, SpaceView, DeadlineView, Sp, Dl

\* Taking and destroying an entry is invisible to every client.
LEMMA WorkerStep ==
  ASSUME CInv, Worker
  PROVE  CInv' /\ UNCHANGED KS!vars
<1>1. CASE worker_start
  <2>1. CInv'
    BY <1>1, WorkerStartStep
  <2>2. SpaceView' = SpaceView /\ DeadlineView' = DeadlineView
    BY <1>1, SameView, ViewSame DEF worker_start
  <2> QED BY <1>1, <2>1, <2>2, ViewStutter DEF worker_start
<1>2. CASE \E e \in Entry : entry_del_func(e)
  <2>1. PICK e \in Entry : entry_del_func(e)
    BY <1>2
  <2>2. CInv' /\ life[e] = "queued"
    BY <2>1, DelFuncStep
  <2>3. /\ ent' = [ent EXCEPT ![e] = NoEntry]
        /\ UNCHANGED <<now, reply, db, expire>>
    BY <2>1 DEF entry_del_func, entry_del_sync
  <2>4. \A d \in Conn : \A f \in db[d] : ent'[f] = ent[f]
    BY <2>2, <2>3 DEF CInv, ReferencesLive, TypeOK
  <2>5. SpaceView' = SpaceView /\ DeadlineView' = DeadlineView
    BY <2>3, <2>4, SameView, ViewSame
  <2> QED BY <2>2, <2>3, <2>5, ViewStutter
<1> QED BY <1>1, <1>2 DEF Worker

\* A command of a client.
LEMMA RequestStep ==
  ASSUME CInv, defined, NEW c \in Conn, do_request(c)
  PROVE  CInv' /\ (KS!Command(c) \/ UNCHANGED KS!vars)
<1>1. ASSUME NEW k \in Key, do_get(c, k)
      PROVE  CInv' /\ KS!Command(c)
  BY <1>1, GetStep DEF KS!Command
<1>2. ASSUME NEW k \in Key, do_del(c, k)
      PROVE  CInv' /\ (KS!Command(c) \/ UNCHANGED KS!vars)
  BY <1>2, DelCommand DEF KS!Command
<1>3. ASSUME NEW k \in Key, do_ttl(c, k)
      PROVE  CInv' /\ KS!Command(c)
  BY <1>3, TtlReplyStep DEF KS!Command
<1>4. ASSUME NEW k \in Key, NEW v \in Val, do_set(c, k, v)
      PROVE  CInv' /\ KS!Command(c)
  BY <1>4, SetStep DEF KS!Command
<1>5. ASSUME NEW k \in Key, NEW a \in Arg, do_expire(c, k, a)
      PROVE  CInv' /\ KS!Command(c)
  BY <1>5, ExpireCommand DEF KS!Command
<1>6. ASSUME NEW k \in Key, NEW a \in Arg, do_zquery(c, k, a)
      PROVE  CInv' /\ (KS!Command(c) \/ UNCHANGED KS!vars)
  BY <1>6, QueryStep DEF KS!Command
<1>7. ASSUME NEW k \in Key, NEW n \in Name, do_zrem(c, k, n)
      PROVE  CInv' /\ KS!Command(c)
  BY <1>7, RemStep DEF KS!Command
<1>8. ASSUME NEW k \in Key, NEW n \in Name, do_zscore(c, k, n)
      PROVE  CInv' /\ KS!Command(c)
  BY <1>8, ScoreStep DEF KS!Command
<1>9. ASSUME NEW k \in Key, NEW n \in Name, NEW a \in Arg, do_zadd(c, k, a, n)
      PROVE  CInv' /\ (KS!Command(c) \/ UNCHANGED KS!vars)
  BY <1>9, AddStep DEF KS!Command
<1>10. CASE do_keys(c)
  BY <1>10, KeysStep DEF KS!Command
<1>11. CASE do_other(c)
  BY <1>11, OtherStep DEF KS!Command
<1> QED BY <1>1, <1>2, <1>3, <1>4, <1>5, <1>6, <1>7, <1>8, <1>9, <1>10, <1>11
        DEF do_request

\* Every step keeps the invariant, and is a step of KeySpace or none.
LEMMA CommandsNext ==
  ASSUME CInv, [CNext]_cvars
  PROVE  CInv' /\ [KS!Next]_KS!vars
<1>1. ASSUME NEW c \in Conn, defined, do_request(c)
      PROVE  CInv' /\ [KS!Next]_KS!vars
  BY <1>1, RequestStep DEF KS!Next
<1>2. ASSUME NEW e \in Entry, defined, expire_key(e)
      PROVE  CInv' /\ [KS!Next]_KS!vars
  BY <1>2, ExpireStep DEF KS!Next
<1>3. CASE tick
  BY <1>3, TickStep DEF KS!Next
<1>4. CASE Worker
  BY <1>4, WorkerStep
<1>5. CASE UNCHANGED cvars
  <2>1. /\ UNCHANGED <<db, ent, expire, life, poolVars, now, reply, defined>>
        /\ now' \in Nat /\ defined' \in BOOLEAN
    BY <1>5 DEF cvars, CInv, ReferencesLive, TypeOK
  <2>2. CInv'
    BY <2>1, SameStep
  <2>3. SpaceView' = SpaceView /\ DeadlineView' = DeadlineView
    BY <2>1, SameView, ViewSame
  <2> QED BY <2>1, <2>2, <2>3, ViewStutter
<1> QED BY <1>1, <1>2, <1>3, <1>4, <1>5 DEF CNext

\* No client has a key when the server starts.
LEMMA CommandsInit == CInit => KS!Init
<1> SUFFICES ASSUME CInit PROVE KS!Init
  OBVIOUS
<1>1. \A c \in Conn : \A k \in Key : hm_lookup(c, k) = None
  BY DEF CInit, hm_lookup, found
<1>2. \A c \in Conn : \A k \in Key : value(hm_lookup(c, k)) = Absent
  BY <1>1 DEF value
<1> QED BY <1>1, <1>2, SameReplies DEF CInit, KS!Init

-----------------------------------------------------------------------------
(* The theorems. *)

\* The two properties together are an invariant.
LEMMA CommandsInvariant == CSpec => []CInv
<1>1. CInv /\ [CNext]_cvars => CInv'
  BY CommandsNext
<1> QED BY <1>1, InitCInv, PTL DEF CSpec

\* The event loop never reaches a freed entry, or one that a thread of the pool
\* may be destroying, through conn->db or g_data.heap: entry_del takes an entry
\* out of both before it frees it or hands it over, whatever commands, timers and
\* threads do in between.
THEOREM NoDanglingEntry == CSpec => []ReferencesLive
<1>1. CInv => ReferencesLive
  BY DEF CInv
<1> QED BY <1>1, CommandsInvariant, PTL

\* Each entry with a large sorted set is in the hands of the pool once, and what
\* the pool has finished is freed for good: entry_del and entry_del_func together
\* destroy no entry twice.
THEOREM DestroyedOnce == CSpec => []HandedOverOnce
<1>1. CInv => HandedOverOnce
  BY DEF CInv
<1> QED BY <1>1, CommandsInvariant, PTL

\* do_request, process_timers and the pool implement KeySpace: every reply and
\* every change that a client can see is the one that its own commands and
\* deadlines ask for, with any number of clients, keys, entries and threads.
THEOREM CommandsImplementKeySpace == CSpec => ImplementsKeySpace
<1>1. CInv /\ [CNext]_cvars => [KS!Next]_KS!vars
  BY CommandsNext
<1> QED BY <1>1, CommandsInit, CommandsInvariant, PTL DEF CSpec, ImplementsKeySpace, KS!Spec
=============================================================================
