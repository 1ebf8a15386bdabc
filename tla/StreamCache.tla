---------------------------- MODULE StreamCache ----------------------------
(***************************************************************************)
(* The streams part of DatabaseCache (gl_db/src/cache.rs): an LruCache that *)
(* keeps entries for TTL and at most MaxSize of them.  As in the code the   *)
(* entries (`data`) and the order of their use (`access_order`, least       *)
(* recently used first) are two collections that every operation has to     *)
(* keep in step.  The operators return the pair [data, order] an operation  *)
(* leaves behind; each operation runs under the cache's write lock and is   *)
(* one step of its caller.                                                  *)
(***************************************************************************)
EXTENDS Naturals, Sequences, FiniteSets, SequencesExt

CONSTANTS
    Streams,    \* stream ids; an id is never used twice
    MaxSize,    \* LruCache::max_size (200 for streams)
    TTL,        \* LruCache::ttl (180 s), in ticks
    NoEntry     \* a model value: no entry for a key

ASSUME CacheAssumption == MaxSize \in Nat \ {0} /\ TTL \in Nat \ {0}

EmptyCache == [data |-> [s \in Streams |-> NoEntry], order |-> <<>>]

Cached(d) == {s \in Streams : d[s] # NoEntry}

(* CacheEntry::is_expired: the entry has been there for TTL.  A hit does    *)
(* not lengthen its life.                                                   *)
Expired(entry) == entry.age = TTL

\* Faulty: whatever is in the cache is served, however old.
HitAny(ca, s) == ca.data[s] # NoEntry

Hit(ca, s) == ca.data[s] # NoEntry /\ ~Expired(ca.data[s])

\* Faulty: an expired entry goes, its place in the order of use stays.
InvalidateData(ca, s) ==
    [ca EXCEPT !.data = [ca.data EXCEPT ![s] = NoEntry]]

(* LruCache::invalidate.                                                    *)
Invalidate(ca, s) ==
    IF ca.data[s] = NoEntry THEN ca
    ELSE [data |-> [ca.data EXCEPT ![s] = NoEntry], order |-> RemoveFirst(ca.order, s)]

(* LruCache::get: a hit moves the key to the back, an expired entry goes.   *)
Lookup(ca, s) ==
    IF Hit(ca, s) THEN [ca EXCEPT !.order = Append(RemoveFirst(ca.order, s), s)]
    ELSE Invalidate(ca, s)

(* The loop of LruCache::put: keys leave the front of the order until there *)
(* is room, or until the order is empty.                                    *)
Evict(ca) ==
    LET left(n) == Cached(ca.data) \ ToSet(SubSeq(ca.order, 1, n))
        n == CHOOSE n \in 0 .. Len(ca.order) :
                /\ n = Len(ca.order) \/ Cardinality(left(n)) < MaxSize
                /\ \A m \in 0 .. n - 1 : Cardinality(left(m)) >= MaxSize
    IN  [data |-> [s \in Streams |-> IF s \in left(n) THEN ca.data[s] ELSE NoEntry],
         order |-> SubSeq(ca.order, n + 1, Len(ca.order))]

(* LruCache::put.                                                           *)
Put(ca, s, row) ==
    LET room == Evict(Invalidate(ca, s))
    IN  [data |-> [room.data EXCEPT ![s] = [row |-> row, age |-> 0]],
         order |-> Append(room.order, s)]

(* Time passes for every entry alike.                                       *)
Aged(ca) ==
    [ca EXCEPT !.data =
        [s \in Streams |-> IF ca.data[s] # NoEntry /\ ~Expired(ca.data[s])
                           THEN [ca.data[s] EXCEPT !.age = @ + 1]
                           ELSE ca.data[s]]]
=============================================================================
