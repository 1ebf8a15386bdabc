----------------------------- MODULE WebApiProofs -----------------------------
(***************************************************************************)
(* For any streams, clients, accounts, limits, notifications and            *)
(* thresholds: the ETag of a stream identifies its row and every stale      *)
(* entry of the cache is explained; the first account is made once and a    *)
(* limiter admits no more than its due; an open circuit can recover, and a  *)
(* send that succeeds has reached every channel.                            *)
(***************************************************************************)
EXTENDS MCWebApi, FiniteSetTheorems, SequenceTheorems, TLAPS

-----------------------------------------------------------------------------
(* The streams table and its cache: StreamCache and StreamRoutes.           *)

(* A list that names every member of a set once.                            *)
Ordered(q, T) ==
    /\ q \in Seq(Streams) /\ T \subseteq Streams
    /\ \A i, j \in 1 .. Len(q) : q[i] = q[j] => i = j
    /\ \A t \in T : \E i \in 1 .. Len(q) : q[i] = t
    /\ \A i \in 1 .. Len(q) : q[i] \in T

Entries == [row : Row, age : 0 .. TTL]

(* What the cache looks like, and that its two collections agree: the order *)
(* of use names each cached stream once, and there is never one too many.   *)
CacheOK(ca) ==
    /\ ca \in [data : [Streams -> Entries \cup {NoEntry}], order : Seq(Streams)]
    /\ \A s \in Cached(ca.data) : ca.data[s].row.id = s
    /\ Ordered(ca.order, Cached(ca.data))
    /\ Cardinality(Cached(ca.data)) <= MaxSize

(* What a request holds at each of its stages.                              *)
Cachers == {"get", "update", "delete"}
ETags == 0 .. MaxWrites + 1
Looking == [at : {"fetch"}, op : Cachers, id : Streams, etag : ETags, fields : SUBSET Fields]
Storing == [at : {"store"}, op : Cachers, id : Streams, etag : ETags, fields : SUBSET Fields, row : Row]
Listing == [at : {"page"}, rows : SUBSET Row]
Reading == [at : {"read"}, op : {"update"}, id : Streams, etag : ETags, fields : SUBSET Fields]
             \cup [at : {"read"}, op : {"admin"}, id : Streams, fields : SUBSET Fields]
Dropping == [at : {"drop"}, op : {"delete"}, id : Streams, etag : ETags, fields : SUBSET Fields]
             \cup [at : {"drop"}, op : {"admin", "import"}, id : Streams]
Inserting == [at : {"insert"}, op : {"create", "admin"}]
Writing == [at : {"write"}, op : {"update", "admin"}, id : Streams, fields : SUBSET Fields,
            row : Row, stamp : Stamps]
Returning == [at : {"cache"}, op : {"create", "update"}, id : Streams, row : Row]
Forgetting == [at : {"forget"}, id : Streams]
RequestStages ==
    {Idle} \cup Looking \cup Storing \cup Listing \cup Reading \cup Dropping \cup Inserting
        \cup Writing \cup Returning \cup Forgetting

(* A row a request holds under an id is that stream's.                      *)
OwnRow(r) == r.at \in {"store", "write", "cache"} => r.row.id = r.id

RoutesShape ==
    /\ db \in [Streams -> Row \cup {NoRow}] /\ \A s \in Streams : db[s] # NoRow => db[s].id = s
    /\ req \in [Clients -> RequestStages] /\ \A c \in Clients : OwnRow(req[c])
    /\ seen \in [Clients -> Row \cup {NoRow}]
    /\ clock \in Stamps /\ unused \subseteq Streams

(* Every row there is has been brought by a write that took its timestamp,  *)
(* and belongs to a stream whose id has been given out.                     *)
RowsInv ==
    /\ \A r \in ServerRows : r.upd <= clock /\ r.id \notin unused
    /\ \A c \in Clients : seen[c] # NoRow => seen[c].upd <= clock

(* An update that has its timestamp and not yet written: nobody else has it.*)
Pending(c) == req[c].at = "write"
StampsInv ==
    \A c \in Clients : Pending(c) =>
        /\ req[c].stamp <= clock
        /\ \A d \in Clients \ {c} : Pending(d) => req[d].stamp # req[c].stamp
        /\ \A r \in ServerRows : r.upd # req[c].stamp
        /\ \A d \in Clients : seen[d] # NoRow => seen[d].upd # req[c].stamp

RoutesInv ==
    /\ RoutesShape /\ CacheOK(cache)
    /\ RowsInv /\ StampsInv /\ EtagIdentifiesRow
    /\ StaleIsExplained

-----------------------------------------------------------------------------
LEMMA OrderedIsLong ==
    ASSUME NEW q, NEW T, Ordered(q, T)
    PROVE  IsFiniteSet(T) /\ Cardinality(T) = Len(q) /\ Len(q) \in Nat /\ ToSet(q) = T
<1>1. Len(q) \in Nat /\ DOMAIN q = 1 .. Len(q) /\ q \in [1 .. Len(q) -> Streams]
  BY LenProperties DEF Ordered
<1>2. q \in Surjection(1 .. Len(q), T) /\ q \in Injection(1 .. Len(q), T)
  BY <1>1 DEF Ordered, Surjection, Injection, IsInjective
<1>3. IsFiniteSet(1 .. Len(q)) /\ Cardinality(1 .. Len(q)) \in {Len(q)}
  <2> DEFINE n == Len(q)
  <2>1. n \in Nat
    BY <1>1
  <2> HIDE DEF n
  <2>2. IsFiniteSet(1 .. n) /\ Cardinality(1 .. n) = IF 1 > n THEN 0 ELSE n - 1 + 1
    BY <2>1, FS_Interval
  <2>3. IsFiniteSet(1 .. n) /\ Cardinality(1 .. n) = n
    BY <2>1, <2>2
  <2> QED
    BY <2>3 DEF n
<1>4. IsFiniteSet(T) /\ Cardinality(T) = Cardinality(1 .. Len(q))
  BY <1>2, <1>3, FS_Surjection
<1>5. ToSet(q) = T
  BY <1>1 DEF ToSet, Ordered
<1> QED
  BY <1>1, <1>3, <1>4, <1>5

LEMMA RemovedFromOrder ==
    ASSUME NEW q, NEW T, Ordered(q, T), NEW s \in T
    PROVE  Ordered(RemoveFirst(q, s), T \ {s})
<1>1. Len(q) \in Nat /\ q \in Seq(Streams) /\ \A i \in 1 .. Len(q) : q[i] \in Streams
  BY LenProperties DEF Ordered
<1>2. PICK k \in 1 .. Len(q) : q[k] = s
  BY DEF Ordered
<1>3. {i \in 1 .. Len(q) : q[i] = s} = {k}
  BY <1>2 DEF Ordered
<1>4. SelectInSeq(q, LAMBDA v : v = s) = k
  BY <1>1, <1>2, <1>3 DEF SelectInSeq, Min
<1> DEFINE a == SubSeq(q, 1, k - 1)  b == SubSeq(q, k + 1, Len(q))  n == Len(q)
<1>5. RemoveFirst(q, s) = a \o b
  BY <1>2, <1>4 DEF RemoveFirst, RemoveAt
<1>6. n \in Nat /\ k \in 1 .. n /\ k - 1 \in Int /\ k + 1 \in Int /\ n \in Int
  BY <1>1, <1>2
<1>7. a \in Seq(Streams) /\ Len(a) = k - 1 /\ \A i \in 1 .. k - 1 : a[i] = q[i]
  <2>1. \A i \in 1 .. k - 1 : q[i] \in Streams
    BY <1>1, <1>6
  <2>2. /\ a \in Seq(Streams) /\ Len(a) = IF 1 <= k - 1 THEN k - 1 - 1 + 1 ELSE 0
        /\ \A i \in 1 .. k - 1 - 1 + 1 : a[i] = q[1 + i - 1]
    BY <1>6, <2>1, SubSeqProperties
  <2> QED
    BY <1>6, <2>2
<1>8. b \in Seq(Streams) /\ Len(b) = n - k /\ \A i \in 1 .. n - k : b[i] = q[k + i]
  <2>1. \A i \in k + 1 .. n : q[i] \in Streams
    BY <1>1, <1>6
  <2>2. /\ b \in Seq(Streams) /\ Len(b) = IF k + 1 <= n THEN n - (k + 1) + 1 ELSE 0
        /\ \A i \in 1 .. n - (k + 1) + 1 : b[i] = q[k + 1 + i - 1]
    BY <1>6, <2>1, SubSeqProperties
  <2> QED
    BY <1>6, <2>2
<1> HIDE DEF a, b
<1>9. /\ a \o b \in Seq(Streams) /\ Len(a \o b) = n - 1
      /\ \A i \in 1 .. n - 1 : (a \o b)[i] = IF i < k THEN q[i] ELSE q[i + 1]
  <2>1. /\ a \o b \in Seq(Streams) /\ Len(a \o b) = Len(a) + Len(b)
        /\ \A i \in 1 .. Len(a) + Len(b) : (a \o b)[i] = IF i <= Len(a) THEN a[i] ELSE b[i - Len(a)]
    BY <1>7, <1>8, ConcatProperties
  <2>2. Len(a) + Len(b) = n - 1
    BY <1>6, <1>7, <1>8
  <2>3. ASSUME NEW i \in 1 .. n - 1 PROVE (a \o b)[i] = IF i < k THEN q[i] ELSE q[i + 1]
    <3>1. CASE i < k
      BY <1>6, <1>7, <1>8, <2>1, <2>2, <3>1
    <3>2. CASE ~(i < k)
      <4>1. (a \o b)[i] = b[i - (k - 1)]
        BY <1>6, <1>7, <1>8, <2>1, <2>2, <3>2
      <4>2. i - (k - 1) \in 1 .. n - k /\ k + (i - (k - 1)) = i + 1
        BY <1>6, <3>2
      <4> QED
        BY <1>8, <3>2, <4>1, <4>2
    <3> QED
      BY <3>1, <3>2
  <2> QED
    BY <2>1, <2>2, <2>3
<1> DEFINE r == a \o b  place(i) == IF i < k THEN i ELSE i + 1
<1>10. \A i \in 1 .. n - 1 : place(i) \in 1 .. n /\ place(i) # k
  BY <1>6
<1>11. \A i, j \in 1 .. n - 1 : place(i) = place(j) => i = j
  BY <1>6
<1>12. \A j \in 1 .. n : j # k => \E i \in 1 .. n - 1 : place(i) = j
  <2> SUFFICES ASSUME NEW j \in 1 .. n, j # k PROVE \E i \in 1 .. n - 1 : place(i) = j
    OBVIOUS
  <2>1. CASE j < k
    BY <1>6, <2>1
  <2>2. CASE j > k
    <3>1. j - 1 \in 1 .. n - 1 /\ ~(j - 1 < k) /\ j - 1 + 1 = j
      BY <1>6, <2>2
    <3> QED
      BY <3>1
  <2> QED
    BY <1>6, <2>1, <2>2
<1>13. r \in Seq(Streams) /\ Len(r) = n - 1 /\ \A i \in 1 .. n - 1 : r[i] = q[place(i)]
  BY <1>9
<1>14. /\ \A i, j \in 1 .. n : q[i] = q[j] => i = j
       /\ \A i \in 1 .. n : q[i] \in T
       /\ \A t \in T : \E i \in 1 .. n : q[i] = t
  BY DEF Ordered
<1> HIDE DEF r, n, place
<1>15. /\ \A i, j \in 1 .. n - 1 : r[i] = r[j] => i = j
       /\ \A i \in 1 .. n - 1 : r[i] \in T \ {s}
       /\ \A t \in T \ {s} : \E i \in 1 .. n - 1 : r[i] = t
  <2>1. \A i, j \in 1 .. n - 1 : r[i] = r[j] => i = j
    BY <1>10, <1>11, <1>13, <1>14
  <2>2. ASSUME NEW i \in 1 .. n - 1 PROVE r[i] \in T \ {s}
    <3>1. place(i) \in 1 .. n /\ place(i) # k /\ r[i] = q[place(i)]
      BY <1>10, <1>13
    <3> QED
      BY <1>2, <1>6, <1>14, <3>1
  <2>3. ASSUME NEW t \in T \ {s} PROVE \E i \in 1 .. n - 1 : r[i] = t
    <3>1. PICK j \in 1 .. n : q[j] = t
      BY <1>14
    <3>2. j # k
      BY <1>2, <3>1
    <3> QED
      BY <1>12, <1>13, <3>1, <3>2
  <2> QED
    BY <2>1, <2>2, <2>3
<1>16. T \ {s} \subseteq Streams
  BY DEF Ordered
<1> QED
  BY <1>5, <1>13, <1>15, <1>16 DEF r, Ordered

LEMMA AppendedToOrder ==
    ASSUME NEW q, NEW T, Ordered(q, T), NEW s \in Streams \ T
    PROVE  Ordered(Append(q, s), T \cup {s})
<1> DEFINE n == Len(q)  r == Append(q, s)
<1>1. /\ n \in Nat /\ r \in Seq(Streams) /\ Len(r) = n + 1
      /\ \A i \in 1 .. n : r[i] = q[i]
      /\ r[n + 1] = s
  BY LenProperties, AppendProperties DEF Ordered
<1>2. /\ \A i, j \in 1 .. n : q[i] = q[j] => i = j
      /\ \A t \in T : \E i \in 1 .. n : q[i] = t
      /\ \A i \in 1 .. n : q[i] \in T
      /\ T \cup {s} \subseteq Streams
  BY DEF Ordered
<1> HIDE DEF n, r
<1>3. \A i \in 1 .. n + 1 : i \in 1 .. n \/ i = n + 1
  BY <1>1
<1>4. \A i \in 1 .. n : i \in 1 .. n + 1 /\ i # n + 1
  BY <1>1
<1>5. n + 1 \in 1 .. n + 1
  BY <1>1
<1>6. \A i, j \in 1 .. n + 1 : r[i] = r[j] => i = j
  BY <1>1, <1>2, <1>3
<1>7. \A i \in 1 .. n + 1 : r[i] \in T \cup {s}
  BY <1>1, <1>2, <1>3
<1>8. \A t \in T \cup {s} : \E i \in 1 .. n + 1 : r[i] = t
  BY <1>1, <1>2, <1>4, <1>5
<1>9. Ordered(r, T \cup {s})
  BY <1>1, <1>2, <1>6, <1>7, <1>8 DEF Ordered
<1> QED
  BY <1>9 DEF r

LEMMA FrontOfOrder ==
    ASSUME NEW q, NEW T, Ordered(q, T), Len(q) # 0
    PROVE  q[1] \in T /\ Ordered(SubSeq(q, 2, Len(q)), T \ {q[1]})
<1> DEFINE n == Len(q)  r == SubSeq(q, 2, Len(q))
<1>1. n \in Nat \ {0} /\ q \in Seq(Streams) /\ \A i \in 1 .. n : q[i] \in Streams
  BY LenProperties DEF Ordered
<1>2. /\ \A i, j \in 1 .. n : q[i] = q[j] => i = j
      /\ \A t \in T : \E i \in 1 .. n : q[i] = t
      /\ \A i \in 1 .. n : q[i] \in T
      /\ T \subseteq Streams
  BY DEF Ordered
<1>3. r \in Seq(Streams) /\ Len(r) = n - 1 /\ \A i \in 1 .. n - 1 : r[i] = q[i + 1]
  <2>1. \A i \in 2 .. n : q[i] \in Streams
    BY <1>1
  <2>2. /\ r \in Seq(Streams) /\ Len(r) = IF 2 <= n THEN n - 2 + 1 ELSE 0
        /\ \A i \in 1 .. n - 2 + 1 : r[i] = q[2 + i - 1]
    BY <1>1, <2>1, SubSeqProperties
  <2>3. Len(r) = n - 1
    <3> DEFINE m == Len(r)
    <3>1. m = IF 2 <= n THEN n - 2 + 1 ELSE 0
      BY <2>2
    <3> HIDE DEF m, n, r
    <3>2. m = n - 1
      BY <1>1, <3>1
    <3> QED
      BY <3>2 DEF m
  <2>4. \A i \in 1 .. n - 1 : i \in 1 .. n - 2 + 1 /\ 2 + i - 1 = i + 1
    BY <1>1
  <2> QED
    BY <2>2, <2>3, <2>4
<1> HIDE DEF n, r
<1>4. \A i \in 1 .. n - 1 : i + 1 \in 1 .. n /\ i + 1 # 1
  BY <1>1
<1>5. 1 \in 1 .. n
  BY <1>1
<1>6. ASSUME NEW i \in 1 .. n - 1, NEW j \in 1 .. n - 1, r[i] = r[j] PROVE i = j
  <2>1. i + 1 = j + 1
    BY <1>2, <1>3, <1>4, <1>6
  <2> QED
    BY <2>1
<1>7. \A i \in 1 .. n - 1 : r[i] \in T \ {q[1]}
  BY <1>2, <1>3, <1>4, <1>5
<1>8. ASSUME NEW t \in T \ {q[1]} PROVE \E i \in 1 .. n - 1 : r[i] = t
  <2>1. PICK j \in 1 .. n : q[j] = t
    BY <1>2
  <2>2. j # 1
    BY <2>1
  <2>3. j - 1 \in 1 .. n - 1 /\ j - 1 + 1 = j
    BY <1>1, <2>2
  <2> QED
    BY <1>3, <2>1, <2>3
<1>9. Ordered(r, T \ {q[1]})
  BY <1>2, <1>3, <1>6, <1>7, <1>8 DEF Ordered
<1> QED
  BY <1>2, <1>5, <1>9 DEF r

(* The entries an operation leaves are those it found, or fewer.            *)
Fewer(new, old) == \A s \in Streams : new.data[s] \in {old.data[s], NoEntry}

LEMMA InvalidateOK ==
    ASSUME NEW ca, CacheOK(ca), NEW s \in Streams
    PROVE  /\ CacheOK(Invalidate(ca, s)) /\ Fewer(Invalidate(ca, s), ca)
           /\ Invalidate(ca, s).data = [ca.data EXCEPT ![s] = NoEntry]
<1>1. CASE ca.data[s] = NoEntry
  BY <1>1 DEF Invalidate, CacheOK, Fewer
<1>2. CASE ca.data[s] # NoEntry
  <2> DEFINE entries == [ca.data EXCEPT ![s] = NoEntry]
             order == RemoveFirst(ca.order, s)
  <2>1. Invalidate(ca, s) = [data |-> entries, order |-> order]
    BY <1>2 DEF Invalidate
  <2>2. entries \in [Streams -> Entries \cup {NoEntry}] /\ Cached(entries) = Cached(ca.data) \ {s}
    BY DEF CacheOK, Cached
  <2>3. s \in Cached(ca.data)
    BY <1>2 DEF Cached
  <2>4. Ordered(order, Cached(entries))
    BY <2>2, <2>3, RemovedFromOrder DEF CacheOK
  <2>5. order \in Seq(Streams)
    BY <2>4 DEF Ordered
  <2>6. Cardinality(Cached(entries)) <= MaxSize
    <3>1. IsFiniteSet(Cached(ca.data)) /\ Cardinality(Cached(ca.data)) \in Nat
      BY OrderedIsLong DEF CacheOK
    <3>2. Cardinality(Cached(entries)) = Cardinality(Cached(ca.data)) - 1
      BY <2>2, <2>3, <3>1, FS_RemoveElement
    <3> QED
      BY <3>1, <3>2, CacheAssumption DEF CacheOK
  <2>7. \A t \in Cached(entries) : entries[t].row.id = t
    BY <2>2 DEF CacheOK, Cached
  <2>8. \A t \in Streams : entries[t] \in {ca.data[t], NoEntry}
    BY DEF CacheOK
  <2>9. CacheOK([data |-> entries, order |-> order])
    BY <2>2, <2>4, <2>5, <2>6, <2>7 DEF CacheOK
  <2> QED
    BY <2>1, <2>8, <2>9 DEF Fewer
<1> QED
  BY <1>1, <1>2

LEMMA LookupOK ==
    ASSUME NEW ca, CacheOK(ca), NEW s \in Streams
    PROVE  CacheOK(Lookup(ca, s)) /\ Fewer(Lookup(ca, s), ca)
<1>1. CASE Hit(ca, s)
  <2> DEFINE order == Append(RemoveFirst(ca.order, s), s)
  <2>1. Lookup(ca, s) = [ca EXCEPT !.order = order]
    BY <1>1 DEF Lookup
  <2>2. s \in Cached(ca.data) /\ Cached(ca.data) = (Cached(ca.data) \ {s}) \cup {s}
    BY <1>1 DEF Hit, Cached
  <2>3. Ordered(RemoveFirst(ca.order, s), Cached(ca.data) \ {s})
    BY <2>2, RemovedFromOrder DEF CacheOK
  <2>4. Ordered(order, (Cached(ca.data) \ {s}) \cup {s})
    BY <2>3, AppendedToOrder
  <2>5. order \in Seq(Streams) /\ Ordered(order, Cached(ca.data))
    BY <2>2, <2>4 DEF Ordered
  <2> HIDE DEF order
  <2>6. [ca EXCEPT !.order = order] = [data |-> ca.data, order |-> order]
    BY DEF CacheOK
  <2>7. CacheOK([data |-> ca.data, order |-> order])
    BY <2>5 DEF CacheOK
  <2> QED
    BY <2>1, <2>6, <2>7 DEF Fewer
<1>2. CASE ~Hit(ca, s)
  BY <1>2, InvalidateOK DEF Lookup
<1> QED
  BY <1>1, <1>2

(* The loop of put needs at most one round: there is never one too many.    *)
LEMMA EvictOK ==
    ASSUME NEW ca, CacheOK(ca)
    PROVE  /\ CacheOK(Evict(ca)) /\ Fewer(Evict(ca), ca)
           /\ Cardinality(Cached(Evict(ca).data)) < MaxSize
<1> DEFINE q == ca.order
           T == Cached(ca.data)
           left(n) == T \ ToSet(SubSeq(q, 1, n))
           P(n) == /\ n = Len(q) \/ Cardinality(left(n)) < MaxSize
                   /\ \A m \in 0 .. n - 1 : Cardinality(left(m)) >= MaxSize
           n == CHOOSE n \in 0 .. Len(q) : P(n)
<1>1. Evict(ca) = [data |-> [s \in Streams |-> IF s \in left(n) THEN ca.data[s] ELSE NoEntry],
                   order |-> SubSeq(q, n + 1, Len(q))]
  BY Zenon DEF Evict
<1>2. /\ Ordered(q, T) /\ q \in Seq(Streams) /\ Len(q) \in Nat /\ IsFiniteSet(T)
      /\ Cardinality(T) = Len(q) /\ Len(q) <= MaxSize /\ T \subseteq Streams
  <2>1. Ordered(q, T) /\ Cardinality(T) <= MaxSize
    BY DEF CacheOK
  <2>2. q \in Seq(Streams) /\ T \subseteq Streams
    BY <2>1 DEF Ordered
  <2> HIDE DEF q, T
  <2>3. Len(q) \in Nat /\ IsFiniteSet(T) /\ Cardinality(T) = Len(q)
    BY <2>1, OrderedIsLong
  <2> QED
    BY <2>1, <2>2, <2>3
<1>3. left(0) = T
  <2>1. SubSeq(q, 1, 0) = <<>>
    BY <1>2, SubSeqEmpty
  <2>2. ToSet(<<>>) = {}
    BY DEF ToSet
  <2> QED
    BY <2>1, <2>2
<1>4. ASSUME Len(q) # 0
      PROVE  left(1) = T \ {q[1]} /\ q[1] \in T /\ Cardinality(left(1)) = Len(q) - 1
  <2>1. q[1] \in T
    BY <1>2, <1>4, FrontOfOrder
  <2>2. SubSeq(q, 1, 1) = <<q[1]>>
    <3>1. q[1] \in Streams /\ \A i \in 1 .. 1 : q[i] \in Streams
      BY <1>2, <2>1
    <3>2. /\ SubSeq(q, 1, 1) \in Seq(Streams) /\ Len(SubSeq(q, 1, 1)) = 1
          /\ SubSeq(q, 1, 1)[1] = q[1]
      <4> HIDE DEF q
      <4>1. /\ SubSeq(q, 1, 1) \in Seq(Streams)
            /\ Len(SubSeq(q, 1, 1)) = IF 1 <= 1 THEN 1 - 1 + 1 ELSE 0
            /\ \A i \in 1 .. 1 - 1 + 1 : SubSeq(q, 1, 1)[i] = q[1 + i - 1]
        BY <3>1, SubSeqProperties
      <4>2. 1 \in 1 .. 1 - 1 + 1 /\ 1 + 1 - 1 = 1
        OBVIOUS
      <4> QED
        BY <4>1, <4>2
    <3> HIDE DEF q
    <3>3. <<q[1]>> \in Seq(Streams) /\ Len(<<q[1]>>) = 1 /\ <<q[1]>>[1] = q[1]
      BY <3>1
    <3> DEFINE a == SubSeq(q, 1, 1)  b == <<q[1]>>
    <3>4. a \in Seq(Streams) /\ b \in Seq(Streams) /\ Len(a) = 1 /\ Len(b) = 1 /\ a[1] = b[1]
      BY <3>2, <3>3
    <3> HIDE DEF a, b
    <3>5. Len(a) = Len(b) /\ \A i \in 1 .. Len(a) : a[i] = b[i]
      BY <3>4
    <3>6. a = b
      BY <3>4, <3>5, SeqEqual
    <3> QED
      BY <3>6 DEF a, b
  <2>3. ToSet(<<q[1]>>) = {q[1]}
    BY DEF ToSet
  <2>4. left(1) = T \ {q[1]}
    BY <2>2, <2>3
  <2>5. Cardinality(T \ {q[1]}) \in {Len(q) - 1}
    BY <1>2, <2>1, FS_RemoveElement, Zenon
  <2> QED
    BY <2>1, <2>4, <2>5
<1>5. MaxSize \in Nat \ {0}
  BY CacheAssumption
<1> DEFINE size == Len(q)  room == CHOOSE m \in 0 .. size : P(m)
<1>6. n = IF size < MaxSize THEN 0 ELSE 1
  <2>1. CASE size < MaxSize
    <3>1. P(0)
      <4>1. Cardinality(left(0)) < MaxSize
        BY <1>2, <1>3, <2>1
      <4> HIDE DEF left, q
      <4> QED
        BY <4>1
    <3>2. ASSUME NEW m \in 0 .. size, P(m) PROVE m = 0
      <4>1. 0 \in 0 .. m - 1 => Cardinality(left(0)) >= MaxSize
        BY <3>2
      <4> HIDE DEF left
      <4> QED
        BY <1>2, <1>3, <1>5, <2>1, <3>2, <4>1
    <3> HIDE DEF P
    <3> QED
      BY <1>2, <2>1, <3>1, <3>2
  <2>2. CASE ~(size < MaxSize)
    <3>1. size = MaxSize /\ size # 0
      BY <1>2, <1>5, <2>2
    <3>2. Cardinality(left(1)) < MaxSize /\ Cardinality(left(0)) >= MaxSize /\ ~(Cardinality(left(1)) >= MaxSize)
      <4>1. Cardinality(left(1)) = Len(q) - 1
        BY <1>4, <3>1
      <4>2. Cardinality(left(0)) = Len(q)
        BY <1>2, <1>3
      <4> HIDE DEF left, q
      <4> QED
        BY <1>2, <1>5, <3>1, <4>1, <4>2
    <3> HIDE DEF left
    <3>3. P(1)
      BY <1>2, <3>1, <3>2
    <3>4. ASSUME NEW m \in 0 .. size, P(m) PROVE m = 1
      <4>1. m # 0
        BY <1>2, <1>3, <1>5, <3>1, <3>4
      <4>2. 1 \in 0 .. m - 1 => Cardinality(left(1)) >= MaxSize
        BY <3>4
      <4> QED
        BY <1>2, <3>2, <4>1, <4>2
    <3> HIDE DEF P
    <3> QED
      BY <1>2, <2>2, <3>1, <3>3, <3>4
  <2> QED
    BY <2>1, <2>2
<1> DEFINE entries == [s \in Streams |-> IF s \in left(n) THEN ca.data[s] ELSE NoEntry]
           order == SubSeq(q, n + 1, Len(q))
<1>7. left(n) \subseteq T /\ Cardinality(left(n)) < MaxSize /\ Ordered(order, left(n))
  <2>1. CASE size < MaxSize
    <3>1. n = 0
      BY <1>6, <2>1
    <3>2. order = q
      <4>1. order = SubSeq(q, 1, Len(q))
        <5> HIDE DEF n, q
        <5> QED
          BY <3>1
      <4> QED
        BY <1>2, <4>1, SubSeqFull
    <3>3. left(n) = T
      BY <1>3, <3>1
    <3> HIDE DEF left, n, order, T
    <3> QED
      BY <1>2, <2>1, <3>2, <3>3
  <2>2. CASE ~(size < MaxSize)
    <3>1. n = 1 /\ size # 0 /\ size \in Nat
      <4>1. size \in Nat
        BY <1>2
      <4>2. n = 1
        BY <1>6, <2>2
      <4> HIDE DEF n, size
      <4> QED
        BY <1>5, <2>2, <4>1, <4>2
    <3>2. Ordered(SubSeq(q, 2, Len(q)), T \ {q[1]})
      BY <1>2, <3>1, FrontOfOrder
    <3>3. order = SubSeq(q, 2, Len(q))
      <4> HIDE DEF n, q
      <4> QED
        BY <3>1
    <3>4. left(n) = left(1)
      BY <3>1
    <3> HIDE DEF left, n, order
    <3>5. left(n) = T \ {q[1]} /\ Cardinality(left(n)) = size - 1
      BY <1>4, <3>1, <3>4
    <3>6. size <= MaxSize
      BY <1>2
    <3> HIDE DEF T, q, size
    <3> QED
      BY <1>5, <3>1, <3>2, <3>3, <3>5, <3>6
  <2> QED
    BY <2>1, <2>2
<1> DEFINE kept == left(n)
<1>8. kept \subseteq T /\ Cardinality(kept) < MaxSize /\ Ordered(order, kept)
  BY <1>7
<1>9. entries = [s \in Streams |-> IF s \in kept THEN ca.data[s] ELSE NoEntry]
  OBVIOUS
<1>10. Evict(ca) = [data |-> entries, order |-> order]
  BY <1>1
<1> HIDE DEF n, kept, order, entries
<1>11. Cached(entries) = kept /\ entries \in [Streams -> Entries \cup {NoEntry}]
  BY <1>2, <1>8, <1>9 DEF Cached, CacheOK
<1>12. \A s \in kept : entries[s].row.id = s
  BY <1>2, <1>8, <1>9 DEF CacheOK
<1>13. \A s \in Streams : entries[s] \in {ca.data[s], NoEntry}
  BY <1>9
<1>14. Cardinality(kept) <= MaxSize
  <2>1. Cardinality(kept) \in Nat
    BY <1>8, OrderedIsLong
  <2> QED
    BY <1>5, <1>8, <2>1
<1>15. order \in Seq(Streams)
  BY <1>8 DEF Ordered
<1>16. CacheOK([data |-> entries, order |-> order])
  BY <1>8, <1>11, <1>12, <1>14, <1>15 DEF CacheOK
<1> QED
  BY <1>8, <1>10, <1>11, <1>13, <1>16 DEF Fewer

LEMMA PutOK ==
    ASSUME NEW ca, CacheOK(ca), NEW s \in Streams, NEW row \in Row, row.id = s
    PROVE  /\ CacheOK(Put(ca, s, row))
           /\ Put(ca, s, row).data[s] = [row |-> row, age |-> 0]
           /\ \A t \in Streams \ {s} : Put(ca, s, row).data[t] \in {ca.data[t], NoEntry}
<1> DEFINE less == Invalidate(ca, s)
           room == Evict(less)
           new == [row |-> row, age |-> 0]
           entries == [room.data EXCEPT ![s] = new]
           order == Append(room.order, s)
<1>1. CacheOK(less) /\ less.data = [ca.data EXCEPT ![s] = NoEntry] /\ Fewer(less, ca)
  BY InvalidateOK
<1>2. CacheOK(room) /\ Fewer(room, less) /\ Cardinality(Cached(room.data)) < MaxSize
  <2> HIDE DEF less
  <2> QED
    BY <1>1, EvictOK
<1>3. Put(ca, s, row) = [data |-> entries, order |-> order]
  BY DEF Put
<1> HIDE DEF less, room
<1>4. room.data[s] = NoEntry /\ \A t \in Streams : room.data[t] \in {ca.data[t], NoEntry}
  BY <1>1, <1>2 DEF Fewer, CacheOK
<1>5. new \in Entries /\ new # NoEntry
  BY CacheAssumption, RoutesAssumption DEF Entries
<1>6. s \notin Cached(room.data) /\ Ordered(room.order, Cached(room.data))
  BY <1>2, <1>4 DEF Cached, CacheOK
<1>7. /\ entries \in [Streams -> Entries \cup {NoEntry}]
      /\ entries[s] = new /\ \A t \in Streams \ {s} : entries[t] = room.data[t]
  BY <1>2, <1>5 DEF CacheOK
<1> HIDE DEF entries
<1>8. Cached(entries) = Cached(room.data) \cup {s}
  BY <1>5, <1>7 DEF Cached
<1>9. Ordered(order, Cached(entries))
  BY <1>6, <1>8, AppendedToOrder
<1>10. order \in Seq(Streams)
  BY <1>9 DEF Ordered
<1>11. Cardinality(Cached(entries)) <= MaxSize
  <2>1. IsFiniteSet(Cached(room.data)) /\ Cardinality(Cached(room.data)) \in Nat
    BY <1>6, OrderedIsLong
  <2>2. Cardinality(Cached(entries)) = Cardinality(Cached(room.data)) + 1
    BY <1>6, <1>8, <2>1, FS_AddElement
  <2> QED
    BY <1>2, <2>1, <2>2, CacheAssumption
<1>12. \A t \in Cached(entries) : entries[t].row.id = t
  <2>1. ASSUME NEW t \in Cached(entries) PROVE entries[t].row.id = t
    <3>1. CASE t = s
      BY <1>7, <3>1
    <3>2. CASE t # s
      BY <1>2, <1>7, <1>8, <2>1, <3>2 DEF CacheOK, Cached
    <3> QED
      BY <3>1, <3>2
  <2> QED
    BY <2>1
<1> HIDE DEF order
<1>13. CacheOK([data |-> entries, order |-> order])
  BY <1>7, <1>9, <1>10, <1>11, <1>12 DEF CacheOK
<1> QED
  BY <1>3, <1>4, <1>7, <1>13

(* Time changes no row and no key.                                          *)
LEMMA AgedOK ==
    ASSUME NEW ca, CacheOK(ca)
    PROVE  /\ CacheOK(Aged(ca)) /\ Cached(Aged(ca).data) = Cached(ca.data)
           /\ \A s \in Cached(ca.data) : Aged(ca).data[s].row = ca.data[s].row
<1> DEFINE entries == Aged(ca).data
<1>1. Aged(ca) = [data |-> entries, order |-> ca.order]
  BY DEF Aged, CacheOK
<1>2. ASSUME NEW s \in Streams
      PROVE  /\ entries[s] \in Entries \cup {NoEntry}
             /\ entries[s] = NoEntry <=> ca.data[s] = NoEntry
             /\ ca.data[s] # NoEntry => entries[s].row = ca.data[s].row
  <2>1. CASE ca.data[s] # NoEntry /\ ~Expired(ca.data[s])
    <3> DEFINE e == ca.data[s]
    <3>1. e \in Entries /\ e.row \in Row /\ e.age \in 0 .. TTL /\ e.age # TTL
      BY <2>1 DEF CacheOK, Entries, Expired
    <3>2. entries[s] = [e EXCEPT !.age = @ + 1]
      BY <2>1 DEF Aged, CacheOK
    <3> HIDE DEF e
    <3>3. [e EXCEPT !.age = @ + 1] = [row |-> e.row, age |-> e.age + 1]
      BY <3>1 DEF Entries
    <3>4. e.age + 1 \in 0 .. TTL
      BY <3>1, CacheAssumption
    <3>5. [row |-> e.row, age |-> e.age + 1] \in Entries
      BY <3>1, <3>4 DEF Entries
    <3>6. [row |-> e.row, age |-> e.age + 1] # NoEntry
      BY <3>5, RoutesAssumption DEF Entries
    <3> QED
      BY <2>1, <3>2, <3>3, <3>5, <3>6 DEF e
  <2>2. CASE ~(ca.data[s] # NoEntry /\ ~Expired(ca.data[s]))
    <3>1. entries[s] = ca.data[s]
      BY <2>2 DEF Aged, CacheOK
    <3> QED
      BY <3>1 DEF CacheOK
  <2> QED
    BY <2>1, <2>2
<1>3. entries \in [Streams -> Entries \cup {NoEntry}]
  <2>1. entries = [s \in Streams |-> entries[s]]
    BY DEF Aged, CacheOK
  <2> HIDE DEF entries
  <2> QED
    BY <1>2, <2>1
<1> HIDE DEF entries
<1>4. Cached(entries) = Cached(ca.data)
  BY <1>2 DEF Cached
<1>5. \A s \in Cached(ca.data) : entries[s].row = ca.data[s].row
  BY <1>2 DEF Cached
<1>6. CacheOK([data |-> entries, order |-> ca.order])
  BY <1>3, <1>4, <1>5 DEF CacheOK
<1> QED
  BY <1>1, <1>4, <1>5, <1>6 DEF entries

LEMMA EmptyOK == CacheOK(EmptyCache) /\ Cached(EmptyCache.data) = {}
<1> DEFINE entries == [s \in Streams |-> NoEntry]
<1>1. Cached(entries) = {} /\ entries \in [Streams -> Entries \cup {NoEntry}]
  BY DEF Cached
<1>2. <<>> \in Seq(Streams) /\ Len(<<>>) = 0
  BY EmptySeq
<1>3. 1 .. 0 = {}
  OBVIOUS
<1>4. Ordered(<<>>, {})
  BY <1>2, <1>3 DEF Ordered
<1>5. Cardinality({}) = 0 /\ Cardinality({}) <= MaxSize
  BY FS_EmptySet, CacheAssumption
<1> HIDE DEF entries
<1>6. CacheOK([data |-> entries, order |-> <<>>])
  BY <1>1, <1>2, <1>4, <1>5 DEF CacheOK
<1> QED
  BY <1>1, <1>6 DEF EmptyCache, entries

-----------------------------------------------------------------------------
LEMMA StageOf ==
    ASSUME NEW r \in RequestStages
    PROVE  /\ r.at = "idle" => r = Idle
           /\ r.at = "fetch" => r \in Looking
           /\ r.at = "store" => r \in Storing
           /\ r.at = "page" => r \in Listing
           /\ r.at = "read" => r \in Reading
           /\ r.at = "drop" => r \in Dropping
           /\ r.at = "insert" => r \in Inserting
           /\ r.at = "write" => r \in Writing
           /\ r.at = "cache" => r \in Returning
           /\ r.at = "forget" => r \in Forgetting
  BY DEF RequestStages, Idle, Looking, Storing, Listing, Reading, Dropping, Inserting, Writing,
         Returning, Forgetting

LEMMA RowsOfRequest ==
    ASSUME NEW r \in RequestStages
    PROVE  RowsOf(r) \subseteq Row
<1>1. r.at = "store" => r.row \in Row
  BY StageOf DEF Storing
<1>2. r.at = "write" => r.row \in Row
  BY StageOf DEF Writing
<1>3. r.at = "cache" => r.row \in Row
  BY StageOf DEF Returning
<1>4. r.at = "page" => r.rows \subseteq Row
  BY StageOf DEF Listing
<1> QED
  BY <1>1, <1>2, <1>3, <1>4 DEF RowsOf

(* The rows the server holds are the table's, the cached and the requests'. *)
LEMMA ServerRowsAre ==
    ASSUME RoutesShape, CacheOK(cache)
    PROVE  /\ ServerRows \subseteq Row
           /\ \A s \in Streams : db[s] # NoRow => db[s] \in ServerRows
           /\ \A s \in Cached(cache.data) : cache.data[s].row \in ServerRows
           /\ \A c \in Clients : RowsOf(req[c]) \subseteq ServerRows
<1>1. \A c \in Clients : RowsOf(req[c]) \subseteq Row
  BY RowsOfRequest DEF RoutesShape
<1>2. \A s \in Cached(cache.data) : cache.data[s].row \in Row
  BY DEF CacheOK, Cached, Entries
<1>3. \A s \in Streams : db[s] # NoRow => db[s] \in Row
  BY DEF RoutesShape
<1> QED
  BY <1>1, <1>2, <1>3 DEF ServerRows

Shaped == RoutesShape /\ CacheOK(cache)
RowsTyped == ServerRows \subseteq Row

LEMMA ServerRowsTyped == Shaped => RowsTyped
  BY ServerRowsAre DEF Shaped, RowsTyped

Tells(r, s) == r.at \in {"cache", "forget"} /\ r.id = s

(* What a step has to respect, whichever step it is: `c` is the client whose *)
(* request goes on, and `new` are the rows the step has written.            *)
FreshStamp(u, c) ==
    /\ \A r \in ServerRows : r.upd # u
    /\ \A d \in Clients : seen[d] # NoRow => seen[d].upd # u
    /\ \A d \in Clients \ {c} : Pending(d) => req[d].stamp # u

Written(new, c) ==
    /\ new \subseteq Row
    /\ \A n \in new : n.id \notin unused' /\ n.upd <= clock' /\ FreshStamp(n.upd, c)
    /\ \A m, n \in new : m = n
    /\ db' \in [Streams -> Row \cup {NoRow}]
    /\ \A s \in Streams : db'[s] \in {db[s], NoRow} \/ (db'[s] \in new /\ db'[s].id = s)

GoesOn(new, c) ==
    /\ req' \in [Clients -> RequestStages]
    /\ \A d \in Clients \ {c} : req'[d] = req[d]
    /\ c \in Clients =>
          /\ OwnRow(req'[c]) /\ RowsOf(req'[c]) \subseteq ServerRows \cup new
          /\ req'[c].at = "write" =>
                /\ req'[c].stamp = clock + 1 /\ clock' = clock + 1 /\ new = {}
    /\ seen' \in [Clients -> Row \cup {NoRow}]
    /\ \A d \in Clients : seen'[d] \in {seen[d]} \cup ServerRows
    /\ clock' \in {clock, clock + 1} /\ clock' \in Stamps /\ unused' \subseteq unused

CacheGoesOn(c) ==
    /\ CacheOK(cache')
    /\ \A s \in Cached(cache'.data) :
        \/ /\ s \in Cached(cache.data) /\ cache'.data[s].row = cache.data[s].row
           /\ db'[s] = db[s] /\ (s \in excused => s \in excused')
           /\ c \in Clients /\ Tells(req[c], s) => Tells(req'[c], s)
        \/ /\ cache'.data[s].row \in ServerRows
           /\ \/ cache'.data[s].row = db'[s]
              \/ s \in excused'
              \/ c \in Clients /\ Tells(req'[c], s)

LEMMA RoutesStep ==
    ASSUME RoutesInv, NEW c, NEW new, Written(new, c), GoesOn(new, c), CacheGoesOn(c)
    PROVE  RoutesInv'
<1> USE DEF RoutesInv
<1>1. RoutesShape'
  <2>1. \A s \in Streams : db'[s] # NoRow => db'[s].id = s
    BY DEF Written, RoutesShape
  <2>2. \A d \in Clients : OwnRow(req'[d])
    BY DEF GoesOn, RoutesShape
  <2> QED
    BY <2>1, <2>2 DEF RoutesShape, Written, GoesOn
<1>2. CacheOK(cache)' /\ Shaped'
  BY <1>1 DEF CacheGoesOn, Shaped
<1>3. ServerRows \subseteq Row /\ ServerRows' \subseteq Row
  <2>1. Shaped
    BY DEF Shaped
  <2>2. RowsTyped /\ RowsTyped'
    BY <1>2, <2>1, ServerRowsTyped, PTL
  <2> QED
    BY <2>2 DEF RowsTyped
<1>4. ServerRows' \subseteq ServerRows \cup new
  <2>1. \A s \in Streams : db'[s] # NoRow => db'[s] \in ServerRows \cup new
    BY ServerRowsAre DEF Written
  <2>2. \A s \in Cached(cache'.data) : cache'.data[s].row \in ServerRows
    BY ServerRowsAre DEF CacheGoesOn
  <2>3. ASSUME NEW d \in Clients PROVE RowsOf(req'[d]) \subseteq ServerRows \cup new
    <3>1. CASE d = c
      BY <3>1 DEF GoesOn
    <3>2. CASE d # c
      BY <3>2, ServerRowsAre DEF GoesOn
    <3> QED
      BY <3>1, <3>2
  <2> HIDE DEF RoutesInv
  <2>4. ServerRows' = ({db'[s] : s \in Streams} \ {NoRow})
                        \cup {cache'.data[s].row : s \in Cached(cache'.data)}
                        \cup UNION {RowsOf(req'[d]) : d \in Clients}
    BY DEF ServerRows, RowsOf
  <2> QED
    BY <2>1, <2>2, <2>3, <2>4
<1>5. clock \in Nat /\ clock' \in Nat /\ clock <= clock' /\ \A r \in Row : r.upd \in Nat
  BY RoutesAssumption DEF GoesOn, RoutesShape, Stamps, Row
<1>6. ASSUME NEW r \in ServerRows' PROVE r.upd <= clock' /\ r.id \notin unused'
  BY <1>3, <1>4, <1>5, <1>6 DEF Written, GoesOn, RowsInv
<1>7. ASSUME NEW d \in Clients, seen'[d] # NoRow
      PROVE  seen'[d].upd <= clock' /\ (seen'[d] = seen[d] \/ seen'[d] \in ServerRows)
  <2>1. seen'[d] \in Row
    BY <1>7 DEF GoesOn
  <2> QED
    BY <1>3, <1>5, <1>7, <2>1 DEF GoesOn, RowsInv
<1>8. RowsInv'
  BY <1>6, <1>7 DEF RowsInv
<1>9. StampsInv'
  <2> SUFFICES ASSUME NEW d \in Clients, Pending(d)'
               PROVE  /\ req'[d].stamp <= clock'
                      /\ \A e \in Clients \ {d} : Pending(e)' => req'[e].stamp # req'[d].stamp
                      /\ \A r \in ServerRows' : r.upd # req'[d].stamp
                      /\ \A e \in Clients : seen'[e] # NoRow => seen'[e].upd # req'[d].stamp
    BY DEF StampsInv
  <2>1. \A e \in Clients \ {c} : Pending(e)' => Pending(e) /\ req'[e].stamp = req[e].stamp
    BY DEF GoesOn, Pending
  <2>2. \A e \in Clients : Pending(e) => req[e].stamp \in Nat /\ req[e].stamp <= clock
    <3>1. \A e \in Clients : Pending(e) => req[e] \in Writing
      BY StageOf DEF Pending, RoutesShape
    <3> QED
      BY <3>1, RoutesAssumption DEF StampsInv, Writing, Stamps
  <2>3. CASE d = c
    <3>1. req'[d].stamp = clock + 1 /\ clock' = clock + 1 /\ new = {}
      BY <2>3 DEF GoesOn, Pending
    <3>2. \A e \in Clients \ {d} : Pending(e)' => req'[e].stamp # req'[d].stamp
      BY <1>5, <2>1, <2>2, <2>3, <3>1
    <3>3. \A r \in ServerRows' : r.upd # req'[d].stamp
      <4>1. \A r \in ServerRows' : r.upd \in Nat /\ r.upd <= clock
        BY <1>3, <1>4, <1>5, <3>1 DEF RowsInv
      <4> QED
        BY <1>5, <3>1, <4>1
    <3>4. \A e \in Clients : seen'[e] # NoRow => seen'[e].upd # req'[d].stamp
      <4>1. \A e \in Clients : seen'[e] # NoRow => seen'[e].upd \in Nat /\ seen'[e].upd <= clock
        <5>1. \A e \in Clients : seen'[e] # NoRow => seen'[e] \in Row
          BY DEF GoesOn
        <5> QED
          BY <1>5, <1>7, <5>1 DEF RowsInv
      <4> QED
        BY <1>5, <3>1, <4>1
    <3> QED
      BY <1>5, <3>1, <3>2, <3>3, <3>4
  <2>4. CASE d # c
    <3>1. Pending(d) /\ req'[d].stamp = req[d].stamp
      BY <2>1, <2>4
    <3>2. ASSUME NEW e \in Clients \ {d}, Pending(e)' PROVE req'[e].stamp # req'[d].stamp
      <4>1. CASE e = c
        <5>1. req'[e].stamp = clock + 1
          BY <3>2, <4>1 DEF GoesOn, Pending
        <5> QED
          BY <1>5, <2>2, <3>1, <5>1
      <4>2. CASE e # c
        BY <2>1, <3>1, <3>2, <4>2 DEF StampsInv
      <4> QED
        BY <4>1, <4>2
    <3>3. \A r \in ServerRows' : r.upd # req'[d].stamp
      BY <1>4, <2>4, <3>1 DEF StampsInv, Written, FreshStamp
    <3>4. \A e \in Clients : seen'[e] # NoRow => seen'[e].upd # req'[d].stamp
      BY <1>7, <3>1 DEF StampsInv
    <3>5. req'[d].stamp <= clock'
      BY <1>5, <2>2, <3>1
    <3> QED
      BY <3>2, <3>3, <3>4, <3>5
  <2> QED
    BY <2>3, <2>4
<1>10. EtagIdentifiesRow'
  <2>1. \A r1, r2 \in ServerRows' : r1.id = r2.id /\ r1.upd = r2.upd => r1 = r2
    BY <1>4 DEF EtagIdentifiesRow, Written, FreshStamp
  <2>2. ASSUME NEW r \in ServerRows', NEW d \in Clients, seen'[d] # NoRow,
               seen'[d].id = r.id, seen'[d].upd = r.upd
        PROVE  seen'[d].name = r.name /\ seen'[d].config = r.config
    <3>1. r \in ServerRows
      BY <1>4, <1>7, <2>2 DEF Written, FreshStamp
    <3>2. CASE seen'[d] = seen[d]
      BY <2>2, <3>1, <3>2 DEF EtagIdentifiesRow
    <3>3. CASE seen'[d] \in ServerRows
      BY <2>2, <3>1, <3>3 DEF EtagIdentifiesRow
    <3> QED
      BY <1>7, <2>2, <3>2, <3>3
  <2> QED
    BY <2>1, <2>2 DEF EtagIdentifiesRow
<1>11. StaleIsExplained'
  <2> SUFFICES ASSUME NEW s \in Cached(cache'.data),
                      s \notin excused', cache'.data[s].row # db'[s]
               PROVE  \E d \in Clients : Tells(req'[d], s)
    BY DEF StaleIsExplained, Tells
  <2>1. CASE c \in Clients /\ Tells(req'[c], s)
    BY <2>1
  <2>2. CASE ~(c \in Clients /\ Tells(req'[c], s))
    <3>1. /\ s \in Cached(cache.data) /\ cache.data[s].row # db[s] /\ s \notin excused
          /\ ~(c \in Clients /\ Tells(req[c], s))
      BY <2>2 DEF CacheGoesOn
    <3>2. PICK d \in Clients : Tells(req[d], s)
      BY <3>1 DEF StaleIsExplained, Tells
    <3> QED
      BY <3>1, <3>2 DEF GoesOn
  <2> QED
    BY <2>1, <2>2
<1> QED
  BY <1>1, <1>2, <1>8, <1>9, <1>10, <1>11

-----------------------------------------------------------------------------
LEMMA NothingWritten == ASSUME RoutesInv, NEW c, db' = db PROVE Written({}, c)
<1>1. db' \in [Streams -> Row \cup {NoRow}]
  BY DEF RoutesInv, RoutesShape
<1> QED
  BY <1>1 DEF Written

(* What one request of a client leaves behind, and what it leaves behind    *)
(* when it writes no row and takes no timestamp.                            *)
LEMMA AnyRequestGoesOn ==
    ASSUME RoutesInv, NEW c \in Clients, NEW r \in RequestStages, NEW new,
           req' = [req EXCEPT ![c] = r], OwnRow(r), RowsOf(r) \subseteq ServerRows \cup new,
           r.at = "write" => r.stamp = clock + 1 /\ clock' = clock + 1 /\ new = {},
           seen' \in [Clients -> Row \cup {NoRow}],
           \A d \in Clients : seen'[d] \in {seen[d]} \cup ServerRows,
           clock' \in {clock, clock + 1}, clock' \in Stamps, unused' \subseteq unused
    PROVE  GoesOn(new, c) /\ req'[c] = r
<1>1. req' \in [Clients -> RequestStages] /\ req'[c] = r /\ \A d \in Clients \ {c} : req'[d] = req[d]
  BY DEF RoutesInv, RoutesShape
<1> QED
  BY <1>1 DEF GoesOn

LEMMA RequestGoesOn ==
    ASSUME RoutesInv, NEW c \in Clients, NEW r \in RequestStages,
           req' = [req EXCEPT ![c] = r], OwnRow(r), r.at # "write",
           RowsOf(r) \subseteq ServerRows,
           seen' \in [Clients -> Row \cup {NoRow}],
           \A d \in Clients : seen'[d] \in {seen[d]} \cup ServerRows,
           UNCHANGED <<clock, unused>>
    PROVE  GoesOn({}, c) /\ req'[c] = r
<1>1. clock' \in {clock, clock + 1} /\ clock' \in Stamps /\ unused' \subseteq unused
  BY DEF RoutesInv, RoutesShape
<1>2. RowsOf(r) \subseteq ServerRows \cup {}
  OBVIOUS
<1> QED
  BY <1>1, <1>2, AnyRequestGoesOn

LEMMA SeenStays ==
    ASSUME RoutesInv, UNCHANGED seen
    PROVE  /\ seen' \in [Clients -> Row \cup {NoRow}]
           /\ \A d \in Clients : seen'[d] \in {seen[d]} \cup ServerRows
  BY DEF RoutesInv, RoutesShape

LEMMA SeenChanges ==
    ASSUME RoutesInv, NEW c \in Clients, NEW row \in ServerRows, seen' = [seen EXCEPT ![c] = row]
    PROVE  /\ seen' \in [Clients -> Row \cup {NoRow}]
           /\ \A d \in Clients : seen'[d] \in {seen[d]} \cup ServerRows
<1>1. row \in Row
  BY ServerRowsAre DEF RoutesInv
<1> QED
  BY <1>1 DEF RoutesInv, RoutesShape

LEMMA IdleHoldsNothing ==
    Idle \in RequestStages /\ OwnRow(Idle) /\ Idle.at = "idle" /\ RowsOf(Idle) = {}
  BY DEF RequestStages, Idle, OwnRow, RowsOf

LEMMA DoneGoesOn ==
    ASSUME RoutesInv, NEW c \in Clients, Done(c), UNCHANGED <<seen, clock, unused>>
    PROVE  GoesOn({}, c) /\ req'[c] = Idle
<1>1. req' = [req EXCEPT ![c] = Idle] /\ UNCHANGED <<clock, unused>>
  BY DEF Done
<1>2. RowsOf(Idle) \subseteq ServerRows /\ Idle.at # "write"
  BY IdleHoldsNothing
<1> QED
  BY <1>1, <1>2, SeenStays, IdleHoldsNothing, RequestGoesOn

LEMMA CacheStays ==
    ASSUME RoutesInv, NEW c, UNCHANGED <<db, cache, excused>>,
           \A s \in Streams : c \in Clients /\ Tells(req[c], s) => Tells(req'[c], s)
    PROVE  CacheGoesOn(c)
  BY DEF RoutesInv, CacheGoesOn, Cached

LEMMA SetCacheGoesOn ==
    ASSUME RoutesInv, NEW c, NEW ca, SetCache(ca), CacheOK(ca), UNCHANGED db,
           \A s \in Cached(ca.data) :
               s \in Cached(cache.data) /\ ca.data[s].row = cache.data[s].row,
           \A s \in Cached(ca.data) : c \in Clients /\ Tells(req[c], s) => Tells(req'[c], s)
    PROVE  CacheGoesOn(c)
  BY DEF SetCache, CacheGoesOn

LEMMA FewerCached ==
    ASSUME NEW new, NEW old, Fewer(new, old)
    PROVE  \A s \in Cached(new.data) : s \in Cached(old.data) /\ new.data[s].row = old.data[s].row
  BY DEF Fewer, Cached

LEMMA CachesGoesOn ==
    ASSUME RoutesInv, NEW c, NEW row \in ServerRows, row.id \in Streams, Caches(row.id, row), UNCHANGED db,
           \A s \in Streams \ {row.id} : c \in Clients /\ Tells(req[c], s) => Tells(req'[c], s)
    PROVE  CacheGoesOn(c)
<1>1. row \in Row /\ CacheOK(cache)
  BY ServerRowsAre DEF RoutesInv
<1> DEFINE ca == Put(cache, row.id, row)
<1>2. /\ CacheOK(ca) /\ ca.data[row.id].row = row
      /\ \A t \in Streams \ {row.id} : ca.data[t] \in {cache.data[t], NoEntry}
  <2>1. /\ CacheOK(ca) /\ ca.data[row.id] = [row |-> row, age |-> 0]
        /\ \A t \in Streams \ {row.id} : ca.data[t] \in {cache.data[t], NoEntry}
    BY <1>1, PutOK
  <2> HIDE DEF ca
  <2> QED
    BY <2>1
<1>3. cache' = ca
  BY DEF Caches
<1> HIDE DEF ca
<1>4. excused' = ((excused \ {row.id}) \cap Cached(ca.data)) \cup (IF row = db[row.id] THEN {} ELSE {row.id})
  BY <1>3 DEF Caches
<1>5. ASSUME NEW s \in Cached(ca.data), s # row.id
      PROVE  s \in Cached(cache.data) /\ ca.data[s] = cache.data[s] /\ (s \in excused => s \in excused')
  BY <1>2, <1>4, <1>5 DEF Cached
<1>6. ca.data[row.id].row = db'[row.id] \/ row.id \in excused'
  BY <1>2, <1>4
<1> QED
  BY <1>2, <1>3, <1>5, <1>6 DEF CacheGoesOn, Cached

LEMMA FoundGoesOn ==
    ASSUME RoutesInv, NEW c \in Clients, NEW r \in Looking, NEW row \in ServerRows,
           Found(c, r, row), UNCHANGED <<clock, unused>>
    PROVE  GoesOn({}, c)
<1>1. CASE r.op = "get" /\ FoundByGet(c, r, row)
  <2>1. /\ seen' \in [Clients -> Row \cup {NoRow}]
        /\ \A d \in Clients : seen'[d] \in {seen[d]} \cup ServerRows
    BY <1>1, SeenStays, SeenChanges DEF FoundByGet
  <2>2. req' = [req EXCEPT ![c] = Idle] /\ RowsOf(Idle) \subseteq ServerRows /\ Idle.at # "write"
    BY <1>1, IdleHoldsNothing DEF FoundByGet, Done
  <2> QED
    BY <2>1, <2>2, IdleHoldsNothing, RequestGoesOn
<1>2. CASE r.op = "update" /\ FoundByUpdate(c, r, row)
  <2>1. r = [at |-> "fetch", op |-> "update", id |-> r.id, etag |-> r.etag, fields |-> r.fields]
        /\ r.id \in Streams /\ r.etag \in ETags /\ r.fields \subseteq Fields
    BY <1>2 DEF Looking
  <2>2. [r EXCEPT !.at = "read"] =
            [at |-> "read", op |-> "update", id |-> r.id, etag |-> r.etag, fields |-> r.fields]
    BY <2>1
  <2> DEFINE g == IF r.etag \in {NoTag, row.upd} THEN [r EXCEPT !.at = "read"] ELSE Idle
  <2>3. [r EXCEPT !.at = "read"] \in RequestStages /\ [r EXCEPT !.at = "read"].at = "read"
    BY <2>1, <2>2 DEF Reading, RequestStages
  <2>4. g \in RequestStages /\ g.at \in {"read", "idle"}
    BY <2>3, IdleHoldsNothing
  <2>5. req' = [req EXCEPT ![c] = g] /\ UNCHANGED seen
    BY <1>2 DEF FoundByUpdate
  <2> HIDE DEF g
  <2>6. OwnRow(g) /\ g.at # "write" /\ RowsOf(g) \subseteq ServerRows
    BY <2>4 DEF OwnRow, RowsOf
  <2> QED
    BY <2>4, <2>5, <2>6, SeenStays, RequestGoesOn
<1>3. CASE r.op = "delete" /\ FoundByDelete(c, r)
  <2>1. r = [at |-> "fetch", op |-> "delete", id |-> r.id, etag |-> r.etag, fields |-> r.fields]
        /\ r.id \in Streams /\ r.etag \in ETags /\ r.fields \subseteq Fields
    BY <1>3 DEF Looking
  <2> DEFINE g == [r EXCEPT !.at = "drop"]
  <2>2. g = [at |-> "drop", op |-> "delete", id |-> r.id, etag |-> r.etag, fields |-> r.fields]
    BY <2>1
  <2>3. g \in RequestStages /\ g.at = "drop"
    BY <2>1, <2>2 DEF Dropping, RequestStages
  <2>4. req' = [req EXCEPT ![c] = g] /\ UNCHANGED seen
    BY <1>3 DEF FoundByDelete
  <2> HIDE DEF g
  <2>5. OwnRow(g) /\ g.at # "write" /\ RowsOf(g) \subseteq ServerRows
    BY <2>3 DEF OwnRow, RowsOf
  <2> QED
    BY <2>3, <2>4, <2>5, SeenStays, RequestGoesOn
<1> QED
  BY <1>1, <1>2, <1>3 DEF Found

LEMMA BeginStep == ASSUME RoutesInv, NEW c \in Clients, Begin(c) PROVE RoutesInv'
<1>1. PICK s \in Streams \ unused, op \in Cachers, f \in Fields : \E e \in Tags(c, s) :
         LET r == [at |-> "fetch", op |-> op, id |-> s, etag |-> e, fields |-> {f}]
         IN  /\ op = "update" \/ f = "name"
             /\ op = "delete" => e = NoTag
             /\ SetCache(Lookup(cache, s))
             /\ IF Hit(cache, s) THEN Found(c, r, cache.data[s].row)
                ELSE req' = [req EXCEPT ![c] = r] /\ UNCHANGED seen
  BY Zenon DEF Begin, Cachers
<1>2. PICK e \in Tags(c, s) :
         LET r == [at |-> "fetch", op |-> op, id |-> s, etag |-> e, fields |-> {f}]
         IN  /\ SetCache(Lookup(cache, s))
             /\ IF Hit(cache, s) THEN Found(c, r, cache.data[s].row)
                ELSE req' = [req EXCEPT ![c] = r] /\ UNCHANGED seen
  BY <1>1
<1>3. At(c, "idle") /\ UNCHANGED <<db, clock, unused>>
  BY DEF Begin
<1> DEFINE r == [at |-> "fetch", op |-> op, id |-> s, etag |-> e, fields |-> {f}]
<1>4. e \in ETags
  <2>1. NoTag \in ETags
    BY RoutesAssumption DEF NoTag, ETags
  <2>2. seen[c] # NoRow => seen[c].upd \in ETags
    BY RoutesAssumption DEF RoutesInv, RoutesShape, Row, Stamps, ETags
  <2> QED
    BY <2>1, <2>2 DEF Tags
<1>5. r \in Looking /\ r.at = "fetch"
  BY <1>4 DEF Looking
<1>6. SetCache(Lookup(cache, s)) /\ CacheOK(Lookup(cache, s)) /\ Fewer(Lookup(cache, s), cache)
  BY <1>2, LookupOK DEF RoutesInv
<1>7. \A t \in Streams : ~Tells(req[c], t)
  BY <1>3 DEF At, Tells
<1>8. CacheGoesOn(c)
  BY <1>3, <1>6, <1>7, FewerCached, SetCacheGoesOn DEF Cached
<1>9. GoesOn({}, c)
  <2> HIDE DEF r
  <2>1. CASE Hit(cache, s)
    <3>1. cache.data[s].row \in ServerRows
      BY <2>1, ServerRowsAre DEF Hit, Cached, RoutesInv
    <3>2. Found(c, r, cache.data[s].row)
      BY <1>2, <2>1 DEF r
    <3> QED
      BY <1>3, <1>5, <3>1, <3>2, FoundGoesOn
  <2>2. CASE ~Hit(cache, s)
    <3>1. req' = [req EXCEPT ![c] = r] /\ UNCHANGED seen
      BY <1>2, <2>2 DEF r
    <3>2. r \in RequestStages /\ OwnRow(r) /\ r.at # "write" /\ RowsOf(r) \subseteq ServerRows
      BY <1>5 DEF RequestStages, OwnRow, RowsOf
    <3> QED
      BY <1>3, <3>1, <3>2, SeenStays, RequestGoesOn
  <2> QED
    BY <2>1, <2>2
<1> QED
  BY <1>3, <1>8, <1>9, NothingWritten, RoutesStep

LEMMA FetchStep == ASSUME RoutesInv, NEW c \in Clients, Fetch(c) PROVE RoutesInv'
<1> DEFINE r == req[c]  row == db[r.id]
           stored == [at |-> "store", op |-> r.op, id |-> r.id, etag |-> r.etag,
                      fields |-> r.fields, row |-> row]
           g == IF row = NoRow THEN Idle ELSE stored
<1>1. /\ At(c, "fetch") /\ UNCHANGED <<db, cache, seen, clock, unused, excused>>
      /\ req' = [req EXCEPT ![c] = g]
  BY DEF Fetch, RoutesInv, RoutesShape
<1>2. r \in Looking
  BY <1>1, StageOf DEF At, RoutesInv, RoutesShape
<1>3. g \in RequestStages /\ OwnRow(g) /\ g.at # "write" /\ RowsOf(g) \subseteq ServerRows
  <2>1. CASE row = NoRow
    BY <2>1, IdleHoldsNothing
  <2>2. CASE row # NoRow
    <3>1. row \in Row /\ row.id = r.id /\ row \in ServerRows
      BY <1>2, <2>2, ServerRowsAre DEF Looking, RoutesInv, RoutesShape
    <3>2. stored \in Storing
      BY <1>2, <3>1 DEF Looking, Storing
    <3>3. stored \in RequestStages
      BY <3>2 DEF RequestStages
    <3>4. OwnRow(stored) /\ stored.at # "write" /\ RowsOf(stored) = {row}
      BY <3>1 DEF OwnRow, RowsOf
    <3> QED
      BY <2>2, <3>1, <3>3, <3>4
  <2> QED
    BY <2>1, <2>2
<1> HIDE DEF g
<1>4. GoesOn({}, c)
  BY <1>1, <1>3, SeenStays, RequestGoesOn
<1>5. CacheGoesOn(c)
  BY <1>1, CacheStays DEF At, Tells
<1> QED
  BY <1>1, <1>4, <1>5, NothingWritten, RoutesStep

LEMMA StoreStep == ASSUME RoutesInv, NEW c \in Clients, Store(c) PROVE RoutesInv'
<1> DEFINE r == req[c]
           g == [at |-> "fetch", op |-> r.op, id |-> r.id, etag |-> r.etag, fields |-> r.fields]
<1>1. /\ At(c, "store") /\ UNCHANGED <<db, clock, unused>>
      /\ Caches(r.id, r.row) /\ Found(c, g, r.row)
  BY DEF Store
<1>2. r \in Storing /\ OwnRow(r)
  BY <1>1, StageOf DEF At, RoutesInv, RoutesShape
<1>3. r.row.id = r.id /\ r.id \in Streams /\ r.row \in ServerRows
  BY <1>1, <1>2, ServerRowsAre DEF OwnRow, Storing, RowsOf, At, RoutesInv
<1>4. g \in Looking
  BY <1>2 DEF Looking, Storing
<1> HIDE DEF g, r
<1>5. GoesOn({}, c)
  BY <1>1, <1>3, <1>4, FoundGoesOn
<1>6. CacheGoesOn(c)
  BY <1>1, <1>3, CachesGoesOn DEF At, Tells
<1> QED
  BY <1>1, <1>5, <1>6, NothingWritten, RoutesStep

LEMMA ListStep == ASSUME RoutesInv, NEW c \in Clients, List(c) PROVE RoutesInv'
<1>1. PICK page \in SUBSET {s \in Streams : db[s] # NoRow} :
        req' = [req EXCEPT ![c] = [at |-> "page", rows |-> {db[s] : s \in page}]]
  BY DEF List
<1>2. At(c, "idle") /\ UNCHANGED <<db, cache, seen, clock, unused, excused>>
  BY DEF List
<1> DEFINE rows == {db[s] : s \in page}  g == [at |-> "page", rows |-> rows]
<1>3. rows \subseteq ServerRows /\ rows \subseteq Row
  BY ServerRowsAre DEF RoutesInv
<1> HIDE DEF rows
<1>4. g \in RequestStages /\ OwnRow(g) /\ g.at # "write" /\ RowsOf(g) \subseteq ServerRows
  BY <1>3 DEF Listing, RequestStages, OwnRow, RowsOf
<1>5. req' = [req EXCEPT ![c] = g]
  BY <1>1 DEF rows
<1> HIDE DEF g
<1>6. GoesOn({}, c)
  BY <1>2, <1>4, <1>5, SeenStays, RequestGoesOn
<1>7. CacheGoesOn(c)
  BY <1>2, CacheStays DEF At, Tells
<1> QED
  BY <1>2, <1>6, <1>7, NothingWritten, RoutesStep

LEMMA StoreListedStep == ASSUME RoutesInv, NEW c \in Clients, StoreListed(c) PROVE RoutesInv'
<1>1. PICK row \in req[c].rows :
         /\ Caches(row.id, row)
         /\ req' = [req EXCEPT ![c] = IF @.rows = {row} THEN Idle
                                      ELSE [at |-> "page", rows |-> @.rows \ {row}]]
  BY DEF StoreListed
<1>2. At(c, "page") /\ UNCHANGED <<db, seen, clock, unused>>
  BY DEF StoreListed
<1> DEFINE r == req[c]  left == r.rows \ {row}
           g == IF r.rows = {row} THEN Idle ELSE [at |-> "page", rows |-> left]
<1>3. r \in Listing /\ r.rows \subseteq ServerRows /\ r.rows \subseteq Row
  <2>1. r \in Listing
    BY <1>2, StageOf DEF At, RoutesInv, RoutesShape
  <2> QED
    BY <1>2, <2>1, ServerRowsAre DEF RowsOf, At, RoutesInv, Listing
<1>4. req' = [req EXCEPT ![c] = g]
  BY <1>1
<1>6. g \in RequestStages /\ OwnRow(g) /\ g.at # "write" /\ RowsOf(g) \subseteq ServerRows
  BY <1>3, IdleHoldsNothing DEF Listing, RequestStages, OwnRow, RowsOf
<1> HIDE DEF g
<1>7. GoesOn({}, c)
  BY <1>2, <1>4, <1>6, SeenStays, RequestGoesOn
<1>8. row \in ServerRows /\ row.id \in Streams
  BY <1>1, <1>3 DEF Row
<1>9. CacheGoesOn(c)
  BY <1>1, <1>2, <1>8, CachesGoesOn DEF At, Tells
<1> QED
  BY <1>2, <1>7, <1>9, NothingWritten, RoutesStep

LEMMA UncachedStep ==
    ASSUME RoutesInv, NEW c \in Clients, NEW r \in Inserting \cup Reading \cup Dropping, BeginUncached(c, r)
    PROVE  RoutesInv'
<1>1. /\ At(c, "idle") /\ UNCHANGED <<db, cache, seen, clock, unused, excused>>
      /\ req' = [req EXCEPT ![c] = r]
  BY DEF BeginUncached
<1>2. r \in RequestStages /\ r.at \in {"insert", "read", "drop"}
  BY DEF Inserting, Reading, Dropping, RequestStages
<1>3. OwnRow(r) /\ r.at # "write" /\ RowsOf(r) \subseteq ServerRows
  BY <1>2 DEF OwnRow, RowsOf
<1>4. GoesOn({}, c)
  BY <1>1, <1>2, <1>3, SeenStays, RequestGoesOn
<1>5. CacheGoesOn(c)
  BY <1>1, CacheStays DEF At, Tells
<1> QED
  BY <1>1, <1>4, <1>5, NothingWritten, RoutesStep

LEMMA AdminStep ==
    ASSUME RoutesInv, NEW c \in Clients, BeginCreate(c) \/ Uncached(c)
    PROVE  RoutesInv'
<1>1. PICK r \in Inserting \cup Reading \cup Dropping : BeginUncached(c, r)
  <2>1. /\ [at |-> "insert", op |-> "create"] \in Inserting
        /\ [at |-> "insert", op |-> "admin"] \in Inserting
    BY DEF Inserting
  <2>2. \A s \in Streams, f \in SUBSET Fields :
          [at |-> "read", op |-> "admin", id |-> s, fields |-> f] \in Reading
    BY DEF Reading
  <2>3. \A s \in Streams, op \in {"admin", "import"} : [at |-> "drop", op |-> op, id |-> s] \in Dropping
    BY DEF Dropping
  <2>4. ASSUME Replace(c) PROVE \E r \in Dropping : BeginUncached(c, r)
    BY <2>3, <2>4 DEF Replace
  <2>5. ASSUME UpdateHandler(c) \/ UpdateForm(c) PROVE \E r \in Reading : BeginUncached(c, r)
    <3>1. \A f \in Fields : {f} \in SUBSET Fields
      OBVIOUS
    <3> QED
      BY <2>2, <2>5, <3>1 DEF UpdateHandler, UpdateForm
  <2>6. ASSUME DeleteHandler(c) PROVE \E r \in Dropping : BeginUncached(c, r)
    BY <2>3, <2>6 DEF DeleteHandler
  <2>7. ASSUME BeginCreate(c) \/ CreateHandler(c) \/ CreateForm(c)
        PROVE  \E r \in Inserting : BeginUncached(c, r)
    BY <2>1, <2>7 DEF BeginCreate, CreateHandler, CreateForm
  <2>8. ASSUME Import(c) \/ ImportPage(c) PROVE \E r \in Inserting \cup Dropping : BeginUncached(c, r)
    <3>1. CASE Replace(c)
      BY <2>4, <3>1
    <3>2. CASE BeginUncached(c, [at |-> "insert", op |-> "admin"])
      BY <2>1, <3>2
    <3> QED
      BY <2>8, <3>1, <3>2 DEF Import, ImportPage
  <2> QED
    BY <2>5, <2>6, <2>7, <2>8 DEF Uncached
<1> QED
  BY <1>1, UncachedStep

(* The timestamp now_iso8601 gives next is nobody's yet.                    *)
LEMMA NextStampIsFresh ==
    ASSUME RoutesInv, NEW c
    PROVE  FreshStamp(clock + 1, c) /\ clock \in Nat
<1>1. clock \in Nat
  BY RoutesAssumption DEF RoutesInv, RoutesShape, Stamps
<1>2. \A r \in Row : r.upd \in Nat
  BY RoutesAssumption DEF Row, Stamps
<1>3. \A r \in ServerRows : r.upd \in Nat /\ r.upd <= clock
  BY <1>2, ServerRowsAre DEF RoutesInv, RowsInv
<1>4. \A d \in Clients : seen[d] # NoRow => seen[d].upd \in Nat /\ seen[d].upd <= clock
  BY <1>2 DEF RoutesInv, RoutesShape, RowsInv
<1>5. \A d \in Clients : Pending(d) => req[d].stamp \in Nat /\ req[d].stamp <= clock
  <2>1. \A d \in Clients : Pending(d) => req[d] \in Writing
    BY StageOf DEF Pending, RoutesInv, RoutesShape
  <2> QED
    BY <2>1, RoutesAssumption DEF RoutesInv, StampsInv, Writing, Stamps
<1> QED
  BY <1>1, <1>3, <1>4, <1>5 DEF FreshStamp

LEMMA NextStamp == ASSUME RoutesInv, clock < MaxWrites PROVE clock + 1 \in Stamps
  BY RoutesAssumption DEF RoutesInv, RoutesShape, Stamps

(* An update that finds no row: what the request does to the cache.         *)
LEMMA MissingGoesOn ==
    ASSUME RoutesInv, NEW c \in Clients, req[c].at \in {"read", "write"}, Missing(c),
           clock' \in {clock, clock + 1}, clock' \in Stamps
    PROVE  RoutesInv'
<1>1. req' = [req EXCEPT ![c] = Idle] /\ UNCHANGED <<db, seen, unused>>
  BY DEF Missing, Done
<1>2. RowsOf(Idle) \subseteq ServerRows \cup {} /\ Idle.at # "write"
  BY IdleHoldsNothing
<1>3. GoesOn({}, c)
  BY <1>1, <1>2, SeenStays, IdleHoldsNothing, AnyRequestGoesOn
<1>4. req[c].id \in Streams
  BY StageOf DEF Reading, Writing, RoutesInv, RoutesShape
<1> DEFINE ca == IF req[c].op = "update" THEN Invalidate(cache, req[c].id) ELSE cache
<1>5. SetCache(ca)
  BY DEF Missing
<1>6. CacheOK(ca) /\ \A s \in Cached(ca.data) : s \in Cached(cache.data) /\ ca.data[s].row = cache.data[s].row
  <2>1. CacheOK(cache)
    BY DEF RoutesInv
  <2> DEFINE gone == Invalidate(cache, req[c].id)
  <2>2. CacheOK(gone) /\ Fewer(gone, cache)
    BY <1>4, <2>1, InvalidateOK
  <2> HIDE DEF gone
  <2>3. \A s \in Cached(gone.data) : s \in Cached(cache.data) /\ gone.data[s].row = cache.data[s].row
    BY <2>2, FewerCached
  <2>4. ca = gone \/ ca = cache
    BY DEF gone
  <2> HIDE DEF ca
  <2> QED
    BY <2>1, <2>2, <2>3, <2>4
<1> HIDE DEF ca
<1>7. CacheGoesOn(c)
  BY <1>1, <1>5, <1>6, SetCacheGoesOn DEF Tells
<1> QED
  BY <1>1, <1>3, <1>7, NothingWritten, RoutesStep

LEMMA ReadStep == ASSUME RoutesInv, NEW c \in Clients, Read(c) PROVE RoutesInv'
<1>1. At(c, "read") /\ clock' = clock + 1 /\ clock' \in Stamps
  BY NextStamp DEF Read
<1>2. CASE Missing(c)
  BY <1>1, <1>2, MissingGoesOn DEF At
<1> DEFINE r == req[c]  row == db[r.id]
           g == [at |-> "write", op |-> r.op, id |-> r.id, fields |-> r.fields,
                 row |-> row, stamp |-> clock + 1]
<1>3. CASE /\ row # NoRow /\ req' = [req EXCEPT ![c] = g]
           /\ UNCHANGED <<db, cache, seen, unused, excused>>
  <2>1. r \in Reading
    BY <1>1, StageOf DEF At, RoutesInv, RoutesShape
  <2>2. r.op \in {"update", "admin"} /\ r.id \in Streams /\ r.fields \subseteq Fields
    BY <2>1 DEF Reading
  <2>3. row \in Row /\ row.id = r.id /\ row \in ServerRows
    BY <1>3, <2>2, ServerRowsAre DEF RoutesInv, RoutesShape
  <2>4. clock + 1 \in Stamps
    BY <1>1
  <2>5. g \in Writing
    BY <2>2, <2>3, <2>4 DEF Writing
  <2>6. g \in RequestStages /\ OwnRow(g) /\ RowsOf(g) \subseteq ServerRows \cup {} /\ g.stamp = clock + 1
    BY <2>3, <2>5 DEF RequestStages, OwnRow, RowsOf
  <2> HIDE DEF g
  <2>7. GoesOn({}, c)
    BY <1>1, <1>3, <2>6, SeenStays, AnyRequestGoesOn
  <2>8. CacheGoesOn(c)
    BY <1>1, <1>3, CacheStays DEF At, Tells
  <2> QED
    BY <1>3, <2>7, <2>8, NothingWritten, RoutesStep
<1>4. Missing(c) \/ /\ row # NoRow /\ req' = [req EXCEPT ![c] = g]
                    /\ UNCHANGED <<db, cache, seen, unused, excused>>
  BY DEF Read, RoutesInv, RoutesShape
<1> QED
  BY <1>2, <1>3, <1>4

LEMMA InsertStep == ASSUME RoutesInv, NEW c \in Clients, Insert(c) PROVE RoutesInv'
<1> DEFINE row(s) == [id |-> s, name |-> clock + 1, config |-> clock + 1,
                      status |-> "inactive", upd |-> clock + 1]
           g(s) == IF req[c].op = "create"
                   THEN [at |-> "cache", op |-> "create", id |-> s, row |-> row(s)]
                   ELSE Idle
<1>1. PICK s \in unused :
         /\ db' = [db EXCEPT ![s] = row(s)]
         /\ unused' = unused \ {s}
         /\ req' = [req EXCEPT ![c] = g(s)]
  BY DEF Insert
<1>2. /\ At(c, "insert") /\ clock' = clock + 1 /\ clock + 1 \in Stamps
      /\ UNCHANGED <<cache, seen, excused>>
  BY NextStamp DEF Insert
<1>3. s \in Streams
  BY DEF RoutesInv, RoutesShape
<1> DEFINE x == row(s)
<1>4. x \in Row /\ x.id = s /\ x.upd = clock + 1
  BY <1>2, <1>3 DEF Row
<1>5. Written({x}, c)
  <2>1. x.upd <= clock' /\ FreshStamp(x.upd, c)
    BY <1>2, <1>4, NextStampIsFresh
  <2>2. db' \in [Streams -> Row \cup {NoRow}]
    BY <1>1, <1>4 DEF RoutesInv, RoutesShape
  <2>3. \A t \in Streams : db'[t] \in {db[t], NoRow} \/ (db'[t] \in {x} /\ db'[t].id = t)
    BY <1>1, <1>4 DEF RoutesInv, RoutesShape
  <2>4. x.id \notin unused'
    BY <1>1, <1>4
  <2> HIDE DEF x
  <2> QED
    BY <1>4, <2>1, <2>2, <2>3, <2>4 DEF Written
<1>6. /\ g(s) \in RequestStages /\ OwnRow(g(s)) /\ RowsOf(g(s)) \subseteq ServerRows \cup {x}
      /\ g(s).at # "write"
  <2>1. CASE req[c].op = "create"
    <3> HIDE DEF x
    <3> DEFINE h == [at |-> "cache", op |-> "create", id |-> s, row |-> x]
    <3>1. h \in Returning
      BY <1>3, <1>4 DEF Returning
    <3>2. h \in RequestStages /\ OwnRow(h) /\ RowsOf(h) \subseteq ServerRows \cup {x} /\ h.at # "write"
      BY <1>4, <3>1 DEF RequestStages, OwnRow, RowsOf
    <3> HIDE DEF h
    <3>3. g(s) = h
      BY <2>1 DEF x, h
    <3> HIDE DEF g
    <3> QED
      BY <3>2, <3>3
  <2>2. CASE req[c].op # "create"
    BY <2>2, IdleHoldsNothing
  <2> QED
    BY <2>1, <2>2
<1>7. GoesOn({x}, c)
  <2> HIDE DEF x, g
  <2> QED
    BY <1>1, <1>2, <1>6, SeenStays, AnyRequestGoesOn
<1>8. CacheGoesOn(c)
  <2>1. \A t \in Cached(cache.data) : t \notin unused
    BY ServerRowsAre DEF RoutesInv, CacheOK, RowsInv
  <2>2. \A t \in Cached(cache.data) : db'[t] = db[t]
    BY <1>1, <1>3, <2>1 DEF RoutesInv, RoutesShape, Cached
  <2>3. \A t \in Streams : ~Tells(req[c], t)
    BY <1>2 DEF At, Tells
  <2> QED
    BY <1>2, <2>2, <2>3 DEF CacheGoesOn, RoutesInv, Cached
<1> QED
  <2> HIDE DEF x
  <2> QED
    BY <1>5, <1>7, <1>8, RoutesStep

(* The row an update writes is the stream's, with the stamp it has taken.   *)
LEMMA UpdatedRow ==
    ASSUME NEW r \in Writing, NEW row \in Row
    PROVE  Updated(r, row) \in Row /\ Updated(r, row).id = row.id /\ Updated(r, row).upd = r.stamp
<1> DEFINE name == IF "name" \in r.fields THEN r.stamp ELSE r.row.name
           config == IF "config" \in r.fields THEN r.stamp ELSE r.row.config
<1>1. r.stamp \in Stamps /\ r.row \in Row
  BY DEF Writing
<1>2. name \in Stamps /\ config \in Stamps
  BY <1>1 DEF Row
<1>3. Updated(r, row) = [row EXCEPT !.name = name, !.config = config, !.upd = r.stamp]
  BY DEF Updated
<1> HIDE DEF name, config
<1> QED
  BY <1>1, <1>2, <1>3 DEF Row

LEMMA WriteStep == ASSUME RoutesInv, NEW c \in Clients, Write(c) PROVE RoutesInv'
<1> DEFINE r == req[c]  row == db[r.id]  u == Updated(r, row)
           told == [at |-> "cache", op |-> "update", id |-> r.id, row |-> u]
           g == IF r.op = "update" THEN told ELSE Idle
<1>1. At(c, "write") /\ clock' = clock
  BY DEF Write
<1>2. clock \in Stamps /\ r \in Writing /\ OwnRow(r) /\ r.id \in Streams
  <2>1. clock \in Stamps /\ r \in Writing /\ OwnRow(r)
    BY <1>1, StageOf DEF At, RoutesInv, RoutesShape
  <2> QED
    BY <2>1 DEF Writing
<1>3. CASE row = NoRow /\ Missing(c)
  <2>1. clock' \in {clock, clock + 1} /\ clock' \in Stamps
    BY <1>1, <1>2
  <2> QED
    BY <1>1, <1>3, <2>1, MissingGoesOn DEF At
<1>4. CASE /\ row # NoRow /\ db' = [db EXCEPT ![r.id] = u]
           /\ req' = [req EXCEPT ![c] = g]
           /\ IF r.op = "update" THEN UNCHANGED excused ELSE Excuses(r.id)
           /\ UNCHANGED <<cache, seen, unused>>
  <2>1. row \in Row /\ row.id = r.id /\ row \in ServerRows
    BY <1>2, <1>4, ServerRowsAre DEF RoutesInv, RoutesShape
  <2>2. u \in Row /\ u.id = r.id /\ u.upd = r.stamp
    BY <1>2, <2>1, UpdatedRow
  <2>3. /\ r.stamp <= clock /\ FreshStamp(r.stamp, c)
    <3>1. Pending(c)
      BY <1>1 DEF At, Pending
    <3> QED
      BY <3>1 DEF RoutesInv, StampsInv, FreshStamp
  <2> HIDE DEF u
  <2>4. Written({u}, c)
    <3>1. db' \in [Streams -> Row \cup {NoRow}]
      BY <1>4, <2>2 DEF RoutesInv, RoutesShape
    <3>2. \A t \in Streams : db'[t] \in {db[t], NoRow} \/ (db'[t] \in {u} /\ db'[t].id = t)
      BY <1>4, <2>2 DEF RoutesInv, RoutesShape
    <3>3. u.id \notin unused' /\ u.upd <= clock' /\ FreshStamp(u.upd, c)
      BY <1>1, <1>4, <2>1, <2>2, <2>3 DEF RoutesInv, RowsInv
    <3> QED
      BY <2>2, <3>1, <3>2, <3>3 DEF Written
  <2>5. g \in RequestStages /\ OwnRow(g) /\ RowsOf(g) \subseteq ServerRows \cup {u} /\ g.at # "write"
    <3>1. told \in Returning
      BY <1>2, <2>2 DEF Returning
    <3>2. told \in RequestStages /\ OwnRow(told) /\ RowsOf(told) \subseteq ServerRows \cup {u} /\ told.at # "write"
      BY <2>2, <3>1 DEF RequestStages, OwnRow, RowsOf
    <3> QED
      BY <3>2, IdleHoldsNothing
  <2>6. r.op = "update" => Tells(g, r.id)
    BY DEF Tells
  <2> HIDE DEF g
  <2>7. GoesOn({u}, c) /\ req'[c] = g
    <3>1. clock' \in {clock, clock + 1} /\ clock' \in Stamps /\ unused' \subseteq unused
      BY <1>1, <1>2, <1>4
    <3>2. g.at = "write" => g.stamp = clock + 1 /\ clock' = clock + 1 /\ {u} = {}
      BY <2>5
    <3>3. UNCHANGED seen
      BY <1>4
    <3> QED
      BY <1>4, <2>5, <3>1, <3>2, <3>3, SeenStays, AnyRequestGoesOn
  <2>8. CacheGoesOn(c)
    <3>1. ASSUME NEW t \in Cached(cache.data), t # r.id
          PROVE  db'[t] = db[t] /\ (t \in excused => t \in excused') /\ ~Tells(req[c], t)
      BY <1>1, <1>4, <3>1 DEF RoutesInv, RoutesShape, Cached, Excuses, At, Tells
    <3>2. ASSUME r.id \in Cached(cache.data)
          PROVE  cache.data[r.id].row \in ServerRows /\ (r.id \in excused' \/ Tells(req'[c], r.id))
      BY <1>4, <2>6, <2>7, <3>2, ServerRowsAre DEF Excuses, RoutesInv
    <3>3. CacheOK(cache') /\ Cached(cache'.data) = Cached(cache.data)
          /\ \A t \in Streams : cache'.data[t] = cache.data[t]
      BY <1>4 DEF RoutesInv
    <3> QED
      BY <3>1, <3>2, <3>3 DEF CacheGoesOn, Cached
  <2> QED
    BY <2>4, <2>7, <2>8, RoutesStep
<1>5. \/ row = NoRow /\ Missing(c)
      \/ /\ row # NoRow /\ db' = [db EXCEPT ![r.id] = u]
         /\ req' = [req EXCEPT ![c] = g]
         /\ IF r.op = "update" THEN UNCHANGED excused ELSE Excuses(r.id)
         /\ UNCHANGED <<cache, seen, unused>>
  BY DEF Write, Returned, Done
<1> QED
  BY <1>3, <1>4, <1>5

LEMMA CacheReturnedStep == ASSUME RoutesInv, NEW c \in Clients, CacheReturned(c) PROVE RoutesInv'
<1> DEFINE r == req[c]
<1>1. /\ At(c, "cache") /\ Caches(r.id, r.row) /\ UNCHANGED <<db, clock, unused>>
      /\ seen' = [seen EXCEPT ![c] = r.row] /\ req' = [req EXCEPT ![c] = Idle]
  BY DEF CacheReturned, Done
<1>2. r \in Returning /\ OwnRow(r)
  BY <1>1, StageOf DEF At, RoutesInv, RoutesShape
<1>3. r.row.id = r.id /\ r.id \in Streams /\ r.row \in ServerRows
  BY <1>1, <1>2, ServerRowsAre DEF OwnRow, Returning, RowsOf, At, RoutesInv
<1> HIDE DEF r
<1>4. /\ seen' \in [Clients -> Row \cup {NoRow}]
      /\ \A d \in Clients : seen'[d] \in {seen[d]} \cup ServerRows
  BY <1>1, <1>3, SeenChanges
<1>5. RowsOf(Idle) \subseteq ServerRows /\ Idle.at # "write"
  BY IdleHoldsNothing
<1>6. GoesOn({}, c)
  BY <1>1, <1>4, <1>5, IdleHoldsNothing, RequestGoesOn
<1>7. CacheGoesOn(c)
  BY <1>1, <1>3, CachesGoesOn DEF At, Tells, r
<1> QED
  BY <1>1, <1>6, <1>7, NothingWritten, RoutesStep

LEMMA DropRowStep == ASSUME RoutesInv, NEW c \in Clients, DropRow(c) PROVE RoutesInv'
<1> DEFINE r == req[c]
           told == [at |-> "forget", id |-> r.id]
           on == [at |-> "insert", op |-> "admin"]
           g == CASE r.op = "import" -> on
                  [] r.op = "delete" /\ db[r.id] # NoRow -> told
                  [] OTHER -> Idle
<1>1. /\ At(c, "drop") /\ UNCHANGED <<cache, seen, clock, unused>>
      /\ db' = [db EXCEPT ![r.id] = NoRow] /\ req' = [req EXCEPT ![c] = g]
      /\ IF r.op = "delete" THEN UNCHANGED excused ELSE Excuses(r.id)
  BY DEF DropRow
<1>2. r \in Dropping /\ r.id \in Streams
  <2>1. r \in Dropping
    BY <1>1, StageOf DEF At, RoutesInv, RoutesShape
  <2> QED
    BY <2>1 DEF Dropping
<1>3. told \in RequestStages /\ on \in RequestStages
  BY <1>2 DEF RequestStages, Forgetting, Inserting
<1>4. g = on \/ g = told \/ g = Idle
  OBVIOUS
<1>5. r.op = "delete" /\ db[r.id] # NoRow => Tells(g, r.id)
  BY DEF Tells
<1>6. \A x \in {on, told, Idle} : x.at \in {"insert", "forget", "idle"} /\ x \in RequestStages
  BY <1>3, IdleHoldsNothing
<1> HIDE DEF g, on, told
<1>7. g \in RequestStages /\ OwnRow(g) /\ g.at # "write" /\ RowsOf(g) \subseteq ServerRows
  BY <1>4, <1>6 DEF OwnRow, RowsOf
<1>8. GoesOn({}, c) /\ req'[c] = g
  BY <1>1, <1>7, SeenStays, RequestGoesOn
<1>9. Written({}, c)
  <2>1. db' \in [Streams -> Row \cup {NoRow}]
    BY <1>1 DEF RoutesInv, RoutesShape
  <2>2. \A t \in Streams : db'[t] \in {db[t], NoRow}
    BY <1>1 DEF RoutesInv, RoutesShape
  <2> QED
    BY <2>1, <2>2 DEF Written
<1>10. CacheGoesOn(c)
  <2>1. ASSUME NEW t \in Cached(cache.data), t # r.id
        PROVE  db'[t] = db[t] /\ (t \in excused => t \in excused') /\ ~Tells(req[c], t)
    BY <1>1, <2>1 DEF RoutesInv, RoutesShape, Cached, Excuses, At, Tells
  <2>2. ASSUME r.id \in Cached(cache.data)
        PROVE  /\ cache.data[r.id].row \in ServerRows
               /\ \/ r.id \in excused' \/ Tells(req'[c], r.id)
                  \/ db'[r.id] = db[r.id] /\ ~Tells(req[c], r.id) /\ excused' = excused
    <3>1. CASE r.op = "delete" /\ db[r.id] = NoRow
      BY <1>1, <2>2, <3>1, ServerRowsAre DEF RoutesInv, RoutesShape, At, Tells
    <3>2. CASE r.op = "delete" /\ db[r.id] # NoRow
      BY <1>5, <1>8, <2>2, <3>2, ServerRowsAre DEF RoutesInv
    <3>3. CASE r.op # "delete"
      BY <1>1, <2>2, <3>3, ServerRowsAre DEF RoutesInv, Excuses
    <3> QED
      BY <3>1, <3>2, <3>3
  <2>3. CacheOK(cache') /\ Cached(cache'.data) = Cached(cache.data)
        /\ \A t \in Streams : cache'.data[t] = cache.data[t]
    BY <1>1 DEF RoutesInv
  <2> HIDE DEF r
  <2> QED
    BY <2>1, <2>2, <2>3 DEF CacheGoesOn, Cached
<1> QED
  BY <1>8, <1>9, <1>10, RoutesStep

LEMMA ForgetStep == ASSUME RoutesInv, NEW c \in Clients, Forget(c) PROVE RoutesInv'
<1> DEFINE r == req[c]  ca == Invalidate(cache, r.id)
<1>1. At(c, "forget") /\ SetCache(ca) /\ Done(c) /\ UNCHANGED <<db, seen, clock, unused>>
  BY DEF Forget
<1>2. r.id \in Streams
  BY <1>1, StageOf DEF Forgetting, At, RoutesInv, RoutesShape
<1>3. CacheOK(ca) /\ Fewer(ca, cache) /\ ca.data[r.id] = NoEntry
  <2>1. CacheOK(cache)
    BY DEF RoutesInv
  <2>2. CacheOK(ca) /\ Fewer(ca, cache) /\ ca.data = [cache.data EXCEPT ![r.id] = NoEntry]
    BY <1>2, <2>1, InvalidateOK
  <2> HIDE DEF ca
  <2> QED
    BY <1>2, <2>1, <2>2 DEF CacheOK
<1> HIDE DEF ca
<1>4. \A s \in Cached(ca.data) : s \in Cached(cache.data) /\ ca.data[s].row = cache.data[s].row
  BY <1>3, FewerCached
<1>5. \A s \in Cached(ca.data) : ~Tells(r, s)
  BY <1>3 DEF Tells, Cached
<1>6. GoesOn({}, c)
  BY <1>1, DoneGoesOn
<1>7. CacheGoesOn(c)
  BY <1>1, <1>3, <1>4, <1>5, SetCacheGoesOn
<1> QED
  BY <1>1, <1>6, <1>7, NothingWritten, RoutesStep

LEMMA DroppedStep == ASSUME RoutesInv, NEW c \in Clients, Dropped(c) PROVE RoutesInv'
<1>1. Done(c) /\ UNCHANGED <<db, cache, seen, clock, unused>>
      /\ IF req[c].at \in {"cache", "forget"} THEN Excuses(req[c].id) ELSE UNCHANGED excused
  BY DEF Dropped
<1>2. GoesOn({}, c)
  BY <1>1, DoneGoesOn
<1>3. CacheGoesOn(c)
  <2>1. ASSUME NEW s \in Cached(cache.data)
        PROVE  /\ s \in excused => s \in excused'
               /\ Tells(req[c], s) => s \in excused' /\ cache.data[s].row \in ServerRows
    BY <1>1, ServerRowsAre DEF Excuses, Tells, RoutesInv
  <2>2. CacheOK(cache)
    BY DEF RoutesInv
  <2> QED
    BY <1>1, <2>1, <2>2 DEF CacheGoesOn, Cached
<1> QED
  BY <1>1, <1>2, <1>3, NothingWritten, RoutesStep

LEMMA NoClient == \E c : c \notin Clients
  BY NoSetContainsEverything

LEMMA ClientsStay ==
    ASSUME RoutesInv, NEW c, c \notin Clients, NEW new, UNCHANGED <<req, seen, unused>>,
           clock' \in {clock, clock + 1}, clock' \in Stamps
    PROVE  GoesOn(new, c)
  BY SeenStays DEF GoesOn, RoutesInv, RoutesShape

LEMMA StatusWriteStep == ASSUME RoutesInv, NEW s \in Streams, StatusWrite(s) PROVE RoutesInv'
<1>1. PICK st \in {"inactive", "active"} :
         db' = [db EXCEPT ![s].status = st, ![s].upd = clock + 1]
  BY DEF StatusWrite
<1>2. /\ db[s] # NoRow /\ clock' = clock + 1 /\ clock + 1 \in Stamps
      /\ Excuses(s) /\ UNCHANGED <<cache, req, seen, unused>>
  BY NextStamp DEF StatusWrite
<1>3. PICK c : c \notin Clients
  BY NoClient
<1> DEFINE x == [db[s] EXCEPT !.status = st, !.upd = clock + 1]
<1>4. db' = [db EXCEPT ![s] = x]
  BY <1>1 DEF RoutesInv, RoutesShape
<1>5. db[s] \in Row /\ db[s].id = s /\ db[s] \in ServerRows
  BY <1>2, ServerRowsAre DEF RoutesInv, RoutesShape
<1>6. x \in Row /\ x.id = s /\ x.upd = clock + 1
  BY <1>2, <1>5 DEF Row
<1> HIDE DEF x
<1>7. Written({x}, c)
  <2>1. db' \in [Streams -> Row \cup {NoRow}]
    BY <1>4, <1>6 DEF RoutesInv, RoutesShape
  <2>2. \A t \in Streams : db'[t] \in {db[t], NoRow} \/ (db'[t] \in {x} /\ db'[t].id = t)
    BY <1>4, <1>6 DEF RoutesInv, RoutesShape
  <2>3. x.id \notin unused'
    BY <1>2, <1>5, <1>6 DEF RoutesInv, RowsInv
  <2>4. x.upd <= clock' /\ FreshStamp(x.upd, c)
    BY <1>2, <1>6, NextStampIsFresh
  <2> QED
    BY <1>6, <2>1, <2>2, <2>3, <2>4 DEF Written
<1>8. GoesOn({x}, c)
  BY <1>2, <1>3, ClientsStay
<1>9. CacheGoesOn(c)
  <2>1. ASSUME NEW t \in Cached(cache.data), t # s
        PROVE  db'[t] = db[t] /\ (t \in excused => t \in excused')
    BY <1>2, <1>4, <2>1 DEF RoutesInv, RoutesShape, Cached, Excuses
  <2>2. s \in Cached(cache.data) => cache.data[s].row \in ServerRows /\ s \in excused'
    BY <1>2, ServerRowsAre DEF Excuses, RoutesInv
  <2>3. CacheOK(cache)
    BY DEF RoutesInv
  <2> QED
    BY <1>2, <1>3, <2>1, <2>2, <2>3 DEF CacheGoesOn, Cached
<1> QED
  BY <1>7, <1>8, <1>9, RoutesStep

LEMMA TickStep == ASSUME RoutesInv, Tick PROVE RoutesInv'
<1>1. SetCache(Aged(cache)) /\ UNCHANGED <<db, req, seen, clock, unused>>
  BY DEF Tick
<1>2. PICK c : c \notin Clients
  BY NoClient
<1> DEFINE ca == Aged(cache)
<1>3. CacheOK(cache) /\ clock \in Stamps
  BY DEF RoutesInv, RoutesShape
<1>4. CacheOK(ca) /\ \A s \in Cached(ca.data) : s \in Cached(cache.data) /\ ca.data[s].row = cache.data[s].row
  BY <1>3, AgedOK
<1>5. SetCache(ca)
  BY <1>1
<1> HIDE DEF ca
<1>6. GoesOn({}, c)
  BY <1>1, <1>2, <1>3, ClientsStay
<1>7. CacheGoesOn(c)
  BY <1>1, <1>2, <1>4, <1>5, SetCacheGoesOn
<1> QED
  BY <1>1, <1>6, <1>7, NothingWritten, RoutesStep

(* What a restart leaves are the table's rows, one of each stream, with     *)
(* their names, configurations and timestamps.                              *)
LEMMA RestartStep == ASSUME RoutesInv, Restart PROVE RoutesInv'
<1> DEFINE left(s) == IF db[s] = NoRow THEN NoRow ELSE [db[s] EXCEPT !.status = "inactive"]
<1>1. /\ cache' = EmptyCache /\ excused' = {} /\ UNCHANGED <<seen, clock, unused>>
      /\ req' = [c \in Clients |-> Idle]
      /\ db' = [s \in Streams |-> left(s)]
  BY DEF Restart
<1>2. CacheOK(cache') /\ Cached(cache'.data) = {}
  BY <1>1, EmptyOK
<1>3. ASSUME NEW s \in Streams, db[s] # NoRow
      PROVE  /\ db[s] \in Row /\ db[s].id = s /\ db[s] \in ServerRows
             /\ db'[s] \in Row /\ db'[s].id = s /\ db'[s].name = db[s].name
             /\ db'[s].config = db[s].config /\ db'[s].upd = db[s].upd
  <2>1. db[s] \in Row /\ db[s].id = s /\ db[s] \in ServerRows
    BY <1>3, ServerRowsAre DEF RoutesInv, RoutesShape
  <2>2. db'[s] = [db[s] EXCEPT !.status = "inactive"]
    BY <1>1, <1>3
  <2> QED
    BY <2>1, <2>2 DEF Row
<1>4. ASSUME NEW s \in Streams, db[s] = NoRow PROVE db'[s] = NoRow
  BY <1>1, <1>4
<1>5. db' \in [Streams -> Row \cup {NoRow}]
  <2>1. \A s \in Streams : db'[s] \in Row \cup {NoRow}
    BY <1>3, <1>4
  <2> HIDE DEF left
  <2>2. db' = [s \in Streams |-> db'[s]]
    BY <1>1
  <2> QED
    BY <2>1, <2>2
<1>6. ServerRows' = {db'[s] : s \in Streams} \ {NoRow}
  <2>1. \A c \in Clients : RowsOf(req'[c]) = {}
    BY <1>1, IdleHoldsNothing
  <2>2. ServerRows' = ({db'[s] : s \in Streams} \ {NoRow})
                        \cup {cache'.data[s].row : s \in Cached(cache'.data)}
                        \cup UNION {RowsOf(req'[d]) : d \in Clients}
    BY DEF ServerRows, RowsOf
  <2> QED
    BY <1>2, <2>1, <2>2
<1>7. ASSUME NEW r \in ServerRows'
      PROVE  \E s \in Streams : r = db'[s] /\ db[s] # NoRow
  BY <1>4, <1>6
<1>8. RoutesShape'
  <2>1. req' \in [Clients -> RequestStages] /\ \A c \in Clients : OwnRow(req'[c])
    BY <1>1, IdleHoldsNothing
  <2>2. \A s \in Streams : db'[s] # NoRow => db'[s].id = s
    BY <1>3, <1>4
  <2> QED
    BY <1>1, <1>5, <2>1, <2>2 DEF RoutesInv, RoutesShape
<1>9. RowsInv'
  <2>1. ASSUME NEW r \in ServerRows' PROVE r.upd <= clock' /\ r.id \notin unused'
    <3>1. PICK s \in Streams : r = db'[s] /\ db[s] # NoRow
      BY <1>7
    <3>2. db[s] \in ServerRows /\ r.upd = db[s].upd /\ r.id = db[s].id
      BY <1>3, <3>1
    <3> QED
      BY <1>1, <3>2 DEF RoutesInv, RowsInv
  <2> QED
    BY <1>1, <2>1 DEF RoutesInv, RowsInv
<1>10. StampsInv'
  BY <1>1, IdleHoldsNothing DEF StampsInv, Pending
<1>11. EtagIdentifiesRow'
  <2>1. \A r1, r2 \in ServerRows' : r1.id = r2.id /\ r1.upd = r2.upd => r1 = r2
    BY <1>3, <1>7
  <2>2. ASSUME NEW r \in ServerRows', NEW d \in Clients, seen'[d] # NoRow,
               seen'[d].id = r.id, seen'[d].upd = r.upd
        PROVE  seen'[d].name = r.name /\ seen'[d].config = r.config
    BY <1>1, <1>3, <1>7, <2>2 DEF RoutesInv, EtagIdentifiesRow
  <2> QED
    BY <2>1, <2>2 DEF EtagIdentifiesRow
<1>12. StaleIsExplained'
  BY <1>2 DEF StaleIsExplained
<1> QED
  BY <1>2, <1>8, <1>9, <1>10, <1>11, <1>12 DEF RoutesInv

LEMMA RoutesInvInit == Init => RoutesInv
<1> SUFFICES ASSUME Init PROVE RoutesInv
  OBVIOUS
<1> DEFINE first(s) == [id |-> s, name |-> 0, config |-> 0, status |-> "inactive", upd |-> 0]
<1>1. /\ unused = Streams \ Stored /\ cache = EmptyCache /\ excused = {} /\ clock = 0
      /\ req = [c \in Clients |-> Idle] /\ seen = [c \in Clients |-> NoRow]
      /\ db = [s \in Streams |-> IF s \in unused THEN NoRow ELSE first(s)]
  BY DEF Init
<1>2. CacheOK(cache) /\ Cached(cache.data) = {}
  BY <1>1, EmptyOK
<1>3. 0 \in Stamps
  BY RoutesAssumption DEF Stamps
<1>4. \A s \in Streams : first(s) \in Row /\ first(s).id = s /\ first(s).upd = 0
  BY <1>3 DEF Row
<1>5. \A s \in Streams : db[s] = NoRow \/ (db[s] = first(s) /\ s \notin unused)
  BY <1>1
<1>6. \A c \in Clients : RowsOf(req[c]) = {}
  BY <1>1, IdleHoldsNothing
<1>7. \A r \in ServerRows : \E s \in Streams : r = first(s) /\ s \notin unused
  <2> HIDE DEF first
  <2> QED
    BY <1>2, <1>5, <1>6 DEF ServerRows
<1> HIDE DEF first
<1>8. RoutesShape
  <2>1. db \in [Streams -> Row \cup {NoRow}]
    BY <1>1, <1>4
  <2>2. req \in [Clients -> RequestStages] /\ \A c \in Clients : OwnRow(req[c])
    BY <1>1, IdleHoldsNothing
  <2> QED
    BY <1>1, <1>3, <1>4, <1>5, <2>1, <2>2 DEF RoutesShape
<1>9. RowsInv
  BY <1>1, <1>4, <1>7 DEF RowsInv
<1>10. StampsInv
  BY <1>1, IdleHoldsNothing DEF StampsInv, Pending
<1>11. EtagIdentifiesRow
  BY <1>1, <1>4, <1>7 DEF EtagIdentifiesRow
<1>12. StaleIsExplained
  BY <1>2 DEF StaleIsExplained
<1> QED
  BY <1>2, <1>8, <1>9, <1>10, <1>11, <1>12 DEF RoutesInv

LEMMA RoutesInvNext == RoutesInv /\ [Next]_vars => RoutesInv'
<1> SUFFICES ASSUME RoutesInv, [Next]_vars PROVE RoutesInv'
  OBVIOUS
<1>1. ASSUME NEW c \in Clients, Begin(c) \/ List(c) \/ BeginCreate(c) \/ Uncached(c)
      PROVE  RoutesInv'
  BY <1>1, BeginStep, ListStep, AdminStep
<1>2. ASSUME NEW c \in Clients, Continue(c) PROVE RoutesInv'
  BY <1>2, FetchStep, StoreStep, StoreListedStep, InsertStep, ReadStep, WriteStep,
     CacheReturnedStep, DropRowStep, ForgetStep DEF Continue
<1>3. ASSUME NEW c \in Clients, Dropped(c) PROVE RoutesInv'
  BY <1>3, DroppedStep
<1>4. ASSUME NEW s \in Streams, StatusWrite(s) PROVE RoutesInv'
  BY <1>4, StatusWriteStep
<1>5. ASSUME Tick \/ Restart PROVE RoutesInv'
  BY <1>5, TickStep, RestartStep
<1>6. CASE UNCHANGED vars
  BY <1>6 DEF vars, RoutesInv, RoutesShape, RowsInv, StampsInv, Pending, EtagIdentifiesRow,
     StaleIsExplained, ServerRows
<1> QED
  BY <1>1, <1>2, <1>3, <1>4, <1>5, <1>6 DEF Next

LEMMA RoutesInvariant == Spec => []RoutesInv
  BY RoutesInvInit, RoutesInvNext, PTL DEF Spec

LEMMA RoutesInvImplies == RoutesInv => RoutesTypeOK /\ EtagIdentifiesRow /\ StaleIsExplained
<1> SUFFICES ASSUME RoutesInv PROVE RoutesTypeOK
  BY DEF RoutesInv
<1>1. Ordered(cache.order, Cached(cache.data)) /\ Cardinality(Cached(cache.data)) <= MaxSize
  BY DEF RoutesInv, CacheOK
<1>2. ToSet(cache.order) = Cached(cache.data) /\ Len(cache.order) = Cardinality(Cached(cache.data))
  BY <1>1, OrderedIsLong
<1>3. \A s \in Streams : EntryOK(cache.data[s])
  BY DEF RoutesInv, CacheOK, Entries, EntryOK
<1>4. \A s \in Streams : db[s] = NoRow \/ (db[s] \in Row /\ db[s].id = s)
  BY DEF RoutesInv, RoutesShape
<1>5. \A s \in unused : db[s] = NoRow
  BY ServerRowsAre DEF RoutesInv, RowsInv, RoutesShape
<1>6. (\A c \in Clients : seen[c] = NoRow \/ seen[c] \in Row) /\ clock \in Stamps
  BY DEF RoutesInv, RoutesShape
<1> QED
  BY <1>1, <1>2, <1>3, <1>4, <1>5, <1>6 DEF RoutesTypeOK

(* Two rows of one stream with one ETag are the same row.                   *)
THEOREM EtagsIdentifyRows == Spec => []EtagIdentifiesRow
  BY RoutesInvariant, RoutesInvImplies, PTL

(* A cached row that is not the table's is explained.                       *)
THEOREM StaleRowsAreExplained == Spec => []StaleIsExplained
  BY RoutesInvariant, RoutesInvImplies, PTL

-----------------------------------------------------------------------------
(* The accounts, tokens and limiters: Accounts.                             *)

(* The requests of the running window, and those admitted before it.        *)
InWindow(l) == {r \in recent[l] : r.age <= limit[l].age}
Before(l) == {r \in recent[l] : r.age > limit[l].age}

(* A limiter counts the requests of its window.  The one that opened the    *)
(* window is as old as the window; so once the window is over it has left   *)
(* the span, and of that window, as later of those before the next one, one *)
(* request less than MaxAdmitted is left at most.                           *)
LimiterInv(l) ==
    /\ IsFiniteSet(recent[l])
    /\ \A r \in recent[l] : r \in [age : 0 .. Window - 1, number : Nat]
    /\ Cardinality(InWindow(l)) <= limit[l].count
    /\ Cardinality(Before(l)) <= MaxAdmitted - 1
    /\ limit[l].age = Window =>
          Cardinality(recent[l]) <= MaxAdmitted - 1 /\ \A r \in recent[l] : r.age > 0
    /\ limit[l].age < Window => \E r \in recent[l] : r.age = limit[l].age

(* A token is made for an account that there is.                            *)
CallerInv(c) == caller[c].at = "issue" => caller[c].user \in Known

Tables ==
    /\ accounts \in [Users -> Records \cup {NoRecord}]
    /\ \A u, v \in Known : accounts[u].email = accounts[v].email => u = v
    /\ access \in [Users -> 0 .. Life]
    /\ \A u \in Users : access[u] > 0 => u \in Known
    /\ \A k \in keys : k \in [id : KeyIds, owner : Known, active : BOOLEAN]
    /\ \A j, k \in keys : j.id = k.id => j = k
    /\ caller \in [Callers -> Stages]
    /\ \A c \in Callers : CallerInv(c)

Limited ==
    /\ limit \in [Limiters -> [count : 0 .. MaxAdmitted, age : 0 .. Window]]
    /\ DOMAIN recent = Limiters
    /\ \A l \in Limiters : LimiterInv(l)

AccountsInv == Tables /\ Limited

Forgotten == limit = [l \in Limiters |-> NoLimit] /\ recent = Quiet

LEMMA QuietIsLimited == Forgotten => Limited
<1> SUFFICES ASSUME Forgotten PROVE Limited
  OBVIOUS
<1> USE DEF Forgotten
<1>1. ASSUME NEW l \in Limiters PROVE LimiterInv(l)
  <2>1. recent[l] = {} /\ limit[l].age = Window /\ limit[l].count = 0
    BY DEF Quiet, NoLimit
  <2>2. InWindow(l) = {} /\ Before(l) = {}
    BY <2>1 DEF InWindow, Before
  <2>3. Cardinality(recent[l]) = 0 /\ Cardinality(InWindow(l)) = 0 /\ Cardinality(Before(l)) = 0
    BY <2>1, <2>2, FS_EmptySet
  <2> QED
    BY <2>1, <2>2, <2>3, FS_EmptySet, AccountsAssumption DEF LimiterInv
<1> QED
  BY <1>1, AccountsAssumption DEF Limited, Quiet, NoLimit

(* A request that is admitted belongs to the window, which is a new one when *)
(* the last was over: then all requests so far are of that earlier window.  *)
LEMMA AdmitKeepsLimits ==
    ASSUME Limited, NEW k \in Limiters, Admit(k)
    PROVE  Limited'
<1> DEFINE over == limit[k].age >= Window
           count == IF over THEN 0 ELSE limit[k].count
           now == {r \in recent[k] : r.age = 0}
           new == [age |-> 0, number |-> Cardinality(now) + 1]
           age == IF over THEN 0 ELSE limit[k].age
<1> USE AccountsAssumption
<1>1. /\ count < MaxAdmitted
      /\ limit' = [limit EXCEPT ![k] = [count |-> count + 1, age |-> age]]
      /\ recent' = [recent EXCEPT ![k] = @ \cup {new}]
  BY DEF Admit, Admits
<1>2. /\ limit[k] \in [count : 0 .. MaxAdmitted, age : 0 .. Window] /\ LimiterInv(k)
      /\ IsFiniteSet(recent[k])
  BY DEF Limited, LimiterInv
<1>3. count \in 0 .. MaxAdmitted - 1 /\ count + 1 \in 0 .. MaxAdmitted /\ age \in 0 .. Window - 1
  BY <1>1, <1>2
<1>4. Cardinality(now) \in Nat
  BY <1>2, FS_Subset, FS_CardinalityType
<1>5. new \in [age : 0 .. Window - 1, number : Nat] /\ new.age = 0
  BY <1>4
<1> HIDE DEF new, count
<1>6. limit'[k].count = count + 1 /\ limit'[k].age = age /\ recent'[k] = recent[k] \cup {new}
  BY <1>1, <1>2 DEF Limited
<1>7. InWindow(k)' = {r \in recent[k] : r.age <= age} \cup {new}
  BY <1>3, <1>5, <1>6 DEF InWindow
<1>8. Before(k)' = {r \in recent[k] : r.age > age}
  BY <1>3, <1>5, <1>6 DEF Before
<1>9. Cardinality({r \in recent[k] : r.age <= age}) <= count
  <2>1. CASE over
    <3>1. {r \in recent[k] : r.age <= age} = {}
      BY <1>2, <2>1 DEF LimiterInv
    <3>2. Cardinality({r \in recent[k] : r.age <= age}) = 0
      BY <3>1, FS_EmptySet, Zenon
    <3> QED
      BY <1>3, <3>2
  <2>2. CASE ~over
    BY <1>2, <2>2 DEF LimiterInv, InWindow, count
  <2> QED
    BY <2>1, <2>2
<1>10. Cardinality({r \in recent[k] : r.age > age}) <= MaxAdmitted - 1
  <2>1. CASE over
    <3>1. Cardinality(recent[k]) <= MaxAdmitted - 1
      BY <1>2, <2>1 DEF LimiterInv
    <3>2. Cardinality({r \in recent[k] : r.age > age}) <= Cardinality(recent[k])
      BY <1>2, FS_Subset
    <3>3. /\ Cardinality(recent[k]) \in Nat
          /\ Cardinality({r \in recent[k] : r.age > age}) \in Nat
      BY <1>2, FS_Subset, FS_CardinalityType
    <3> QED
      BY <3>1, <3>2, <3>3
  <2>2. CASE ~over
    BY <1>2, <2>2 DEF LimiterInv, Before
  <2> QED
    BY <2>1, <2>2
<1>11. LimiterInv(k)'
  <2>1. IsFiniteSet(recent'[k])
    BY <1>2, <1>6, FS_AddElement
  <2>2. \A r \in recent'[k] : r \in [age : 0 .. Window - 1, number : Nat]
    BY <1>2, <1>5, <1>6 DEF LimiterInv
  <2>3. Cardinality(InWindow(k)') <= count + 1
    <3> DEFINE S == {r \in recent[k] : r.age <= age}
    <3>1. IsFiniteSet(S) /\ Cardinality(S) \in Nat /\ Cardinality(S) <= count
      BY <1>2, <1>9, FS_Subset, FS_CardinalityType
    <3>0. InWindow(k)' = S \cup {new}
      BY <1>7
    <3> HIDE DEF S
    <3>2. Cardinality(S \cup {new}) \in {Cardinality(S), Cardinality(S) + 1}
      BY <3>1, FS_AddElement, Zenon
    <3>3. Cardinality(S \cup {new}) \in Nat
      BY <3>1, FS_AddElement, FS_CardinalityType
    <3> QED
      BY <1>3, <3>0, <3>1, <3>2, <3>3
  <2>4. \E r \in recent'[k] : r.age = limit'[k].age
    <3>1. CASE over
      BY <1>5, <1>6, <3>1
    <3>2. CASE ~over
      BY <1>2, <1>6, <3>2 DEF LimiterInv
    <3> QED
      BY <3>1, <3>2
  <2> QED
    BY <1>3, <1>6, <1>8, <1>10, <2>1, <2>2, <2>3, <2>4 DEF LimiterInv
<1>12. ASSUME NEW l \in Limiters, l # k PROVE LimiterInv(l)'
  <2>1. recent'[l] = recent[l] /\ limit'[l] = limit[l]
    BY <1>1, <1>12 DEF Limited
  <2> QED
    BY <2>1 DEF Limited, LimiterInv, InWindow, Before
<1> QED
  BY <1>1, <1>3, <1>11, <1>12 DEF Limited

Older(r) == [r EXCEPT !.age = @ + 1]

LEMMA OlderRequests ==
    ASSUME NEW S, IsFiniteSet(S)
    PROVE  IsFiniteSet({Older(r) : r \in S}) /\ Cardinality({Older(r) : r \in S}) <= Cardinality(S)
<1> DEFINE T == {Older(r) : r \in S}
           f == [r \in S |-> Older(r)]
<1>1. f \in Surjection(S, T)
  BY DEF Surjection
<1> HIDE DEF f, T
<1>2. IsFiniteSet(T) /\ Cardinality(T) <= Cardinality(S)
  BY <1>1, FS_Surjection
<1> QED
  BY <1>2 DEF T

LEMMA TimeKeepsLimits == Limited /\ TimePasses => Limited'
<1> SUFFICES ASSUME Limited, TimePasses PROVE Limited'
  OBVIOUS
<1> USE AccountsAssumption
<1>1. /\ limit' = [l \in Limiters |-> [limit[l] EXCEPT !.age = IF @ < Window THEN @ + 1 ELSE Window]]
      /\ recent' = [l \in Limiters |-> {Older(r) : r \in Younger(l)}]
  BY DEF TimePasses, Older
<1>2. ASSUME NEW l \in Limiters
      PROVE  /\ limit'[l] \in [count : 0 .. MaxAdmitted, age : 0 .. Window]
             /\ limit'[l].count = limit[l].count
             /\ limit'[l].age = IF limit[l].age < Window THEN limit[l].age + 1 ELSE Window
  BY <1>1 DEF Limited
<1>3. ASSUME NEW l \in Limiters PROVE LimiterInv(l)'
  <2>1. /\ LimiterInv(l) /\ IsFiniteSet(recent[l])
        /\ recent'[l] = {Older(r) : r \in Younger(l)}
        /\ limit[l] \in [count : 0 .. MaxAdmitted, age : 0 .. Window]
    BY <1>1 DEF Limited, LimiterInv
  <2>2. \A r \in recent[l] : /\ r.age \in 0 .. Window - 1
                             /\ Older(r) = [age |-> r.age + 1, number |-> r.number]
                             /\ r.number \in Nat
    BY <2>1 DEF LimiterInv, Older
  <2>3. Younger(l) \subseteq recent[l] /\ \A r \in Younger(l) : r.age + 1 < Window
    BY DEF Younger
  <2>4. IsFiniteSet(Younger(l))
    BY <2>1, <2>3, FS_Subset
  <2>5. IsFiniteSet(recent'[l])
    BY <2>1, <2>4, OlderRequests
  <2>6. \A r \in recent'[l] : r \in [age : 0 .. Window - 1, number : Nat] /\ r.age > 0
    BY <2>1, <2>2, <2>3
  <2>7. Cardinality(InWindow(l)') <= Cardinality(InWindow(l))
    <3> DEFINE S == {r \in InWindow(l) : r.age + 1 < Window}
    <3>1. InWindow(l)' = {Older(r) : r \in S}
      BY <1>2, <2>1, <2>2, <2>3 DEF InWindow, Younger
    <3>2. IsFiniteSet(InWindow(l)) /\ IsFiniteSet(S) /\ Cardinality(S) <= Cardinality(InWindow(l))
      BY <2>1, FS_Subset DEF InWindow
    <3>3. Cardinality({Older(r) : r \in S}) <= Cardinality(S) /\ IsFiniteSet({Older(r) : r \in S})
      BY <3>2, OlderRequests
    <3>4. /\ Cardinality(InWindow(l)) \in Nat /\ Cardinality(S) \in Nat
          /\ Cardinality({Older(r) : r \in S}) \in Nat
      BY <3>2, <3>3, FS_CardinalityType
    <3> HIDE DEF S
    <3> QED
      BY <3>1, <3>2, <3>3, <3>4
  <2>8. Cardinality(Before(l)') <= Cardinality(Before(l))
    <3> DEFINE S == {r \in Before(l) : r.age + 1 < Window}
    <3>1. Before(l)' = {Older(r) : r \in S}
      BY <1>2, <2>1, <2>2, <2>3 DEF Before, Younger
    <3>2. IsFiniteSet(Before(l)) /\ IsFiniteSet(S) /\ Cardinality(S) <= Cardinality(Before(l))
      BY <2>1, FS_Subset DEF Before
    <3>3. Cardinality({Older(r) : r \in S}) <= Cardinality(S) /\ IsFiniteSet({Older(r) : r \in S})
      BY <3>2, OlderRequests
    <3>4. /\ Cardinality(Before(l)) \in Nat /\ Cardinality(S) \in Nat
          /\ Cardinality({Older(r) : r \in S}) \in Nat
      BY <3>2, <3>3, FS_CardinalityType
    <3> HIDE DEF S
    <3> QED
      BY <3>1, <3>2, <3>3, <3>4
  <2>9. /\ Cardinality(InWindow(l)) \in Nat /\ Cardinality(InWindow(l)') \in Nat
        /\ Cardinality(Before(l)) \in Nat /\ Cardinality(Before(l)') \in Nat
    <3>1. IsFiniteSet(InWindow(l)) /\ IsFiniteSet(Before(l))
      BY <2>1, FS_Subset DEF InWindow, Before
    <3>2. IsFiniteSet(InWindow(l)') /\ IsFiniteSet(Before(l)')
      BY <2>5, FS_Subset DEF InWindow, Before
    <3> QED
      BY <3>1, <3>2, FS_CardinalityType
  <2>10. Cardinality(InWindow(l)') <= limit'[l].count /\ Cardinality(Before(l)') <= MaxAdmitted - 1
    BY <1>2, <2>1, <2>7, <2>8, <2>9 DEF LimiterInv
  <2>11. CASE limit[l].age = Window
    <3>1. Cardinality(recent[l]) <= MaxAdmitted - 1 /\ limit'[l].age = Window
      BY <1>2, <2>1, <2>11 DEF LimiterInv
    <3>2. Cardinality(recent'[l]) <= Cardinality(Younger(l))
      BY <2>1, <2>4, OlderRequests
    <3>3. Cardinality(Younger(l)) <= Cardinality(recent[l])
      BY <2>1, <2>3, FS_Subset
    <3>4. /\ Cardinality(recent'[l]) \in Nat /\ Cardinality(Younger(l)) \in Nat
          /\ Cardinality(recent[l]) \in Nat
      BY <2>1, <2>4, <2>5, FS_CardinalityType
    <3>5. Cardinality(recent'[l]) <= MaxAdmitted - 1
      BY <3>1, <3>2, <3>3, <3>4
    <3> QED
      BY <2>5, <2>6, <2>10, <3>1, <3>5 DEF LimiterInv
  <2>12. CASE limit[l].age < Window
    <3>1. PICK w \in recent[l] : w.age = limit[l].age
      BY <2>1, <2>12 DEF LimiterInv
    <3>2. limit'[l].age = limit[l].age + 1
      BY <1>2, <2>12
    <3>3. CASE limit[l].age + 1 < Window
      <4>1. Older(w) \in recent'[l] /\ Older(w).age = limit'[l].age
        BY <2>1, <2>2, <3>1, <3>2, <3>3 DEF Younger
      <4> QED
        BY <2>5, <2>6, <2>10, <3>2, <3>3, <4>1 DEF LimiterInv
    <3>4. CASE limit[l].age + 1 = Window
      <4>1. Younger(l) \subseteq InWindow(l) \ {w} /\ w \in InWindow(l)
        BY <2>1, <2>2, <3>1, <3>4 DEF Younger, InWindow
      <4>2. IsFiniteSet(InWindow(l))
        BY <2>1, FS_Subset DEF InWindow
      <4>3. /\ IsFiniteSet(InWindow(l) \ {w})
            /\ Cardinality(InWindow(l) \ {w}) = Cardinality(InWindow(l)) - 1
        BY <4>1, <4>2, FS_RemoveElement
      <4>4. Cardinality(Younger(l)) <= Cardinality(InWindow(l) \ {w})
        BY <4>1, <4>3, FS_Subset
      <4>5. Cardinality(recent'[l]) <= Cardinality(Younger(l))
        BY <2>1, <2>4, OlderRequests
      <4>6. /\ Cardinality(recent'[l]) \in Nat /\ Cardinality(Younger(l)) \in Nat
            /\ Cardinality(InWindow(l)) <= MaxAdmitted
        BY <2>1, <2>4, <2>5, <2>9, FS_CardinalityType DEF LimiterInv
      <4>7. Cardinality(recent'[l]) <= MaxAdmitted - 1
        BY <2>9, <4>3, <4>4, <4>5, <4>6
      <4> QED
        BY <2>5, <2>6, <2>10, <3>2, <3>4, <4>7 DEF LimiterInv
    <3> QED
      BY <2>1, <2>12, <3>3, <3>4
  <2> QED
    BY <2>1, <2>11, <2>12
<1> QED
  BY <1>1, <1>2, <1>3 DEF Limited

LEMMA BurstByLimits == Limited => BurstBounded
<1> SUFFICES ASSUME Limited, NEW l \in Limiters PROVE Cardinality(recent[l]) <= 2 * MaxAdmitted - 1
  BY DEF BurstBounded
<1>1. /\ IsFiniteSet(InWindow(l)) /\ IsFiniteSet(Before(l))
      /\ recent[l] = InWindow(l) \cup Before(l) /\ InWindow(l) \cap Before(l) = {}
  <2>1. limit[l].age \in 0 .. Window /\ \A r \in recent[l] : r.age \in 0 .. Window - 1
    BY DEF Limited, LimiterInv
  <2>2. recent[l] = InWindow(l) \cup Before(l) /\ InWindow(l) \cap Before(l) = {}
    BY <2>1, AccountsAssumption DEF InWindow, Before
  <2>3. IsFiniteSet(recent[l])
    BY DEF Limited, LimiterInv
  <2> QED
    BY <2>2, <2>3, FS_Subset
<1>2. Cardinality(recent[l]) = Cardinality(InWindow(l)) + Cardinality(Before(l))
  <2>1. Cardinality(InWindow(l) \cap Before(l)) = 0
    BY <1>1, FS_EmptySet
  <2> QED
    <3>1. Cardinality(InWindow(l) \cup Before(l))
            = Cardinality(InWindow(l)) + Cardinality(Before(l)) - Cardinality(InWindow(l) \cap Before(l))
      BY <1>1, FS_Union, Zenon
    <3>2. Cardinality(InWindow(l)) \in Nat /\ Cardinality(Before(l)) \in Nat
      BY <1>1, FS_CardinalityType
    <3> QED
      BY <1>1, <2>1, <3>1, <3>2
<1>3. Cardinality(InWindow(l)) \in Nat /\ Cardinality(Before(l)) \in Nat
  BY <1>1, FS_CardinalityType
<1>4. Cardinality(InWindow(l)) <= MaxAdmitted /\ Cardinality(Before(l)) <= MaxAdmitted - 1
  BY <1>3, AccountsAssumption DEF Limited, LimiterInv
<1> QED
  BY <1>2, <1>3, <1>4, AccountsAssumption

LEMMA UncountedKeepsLimits ==
    ASSUME Limited, UNCHANGED <<limit, recent>> PROVE Limited'
  BY DEF Limited, LimiterInv, InWindow, Before

LEMMA AccountsInvInit == AccountsInit => AccountsInv
<1> SUFFICES ASSUME AccountsInit PROVE AccountsInv
  OBVIOUS
<1>1. Limited
  BY QuietIsLimited DEF AccountsInit, Forgotten
<1>2. Known = {}
  BY DEF AccountsInit, Known
<1>3. Tables
  BY <1>2, AccountsAssumption
     DEF AccountsInit, Tables, CallerInv, Stages, Outside, Active
<1> QED
  BY <1>1, <1>3 DEF AccountsInv

(* A stage and the account it is about. *)
LEMMA AccountIsKnown ==
    ASSUME Tables
    PROVE  /\ \A u \in Users : u \in Known <=> accounts[u] \in Records
           /\ Known \subseteq Users /\ Active \subseteq Known
           /\ \A c \in Callers :
                /\ caller[c].at = "issue" => caller[c].user \in Known
                /\ caller[c].at \in {"setup", "bootstrap"} => caller[c].email \in Emails
<1>1. \A u \in Users : u \in Known <=> accounts[u] \in Records
  BY AccountsAssumption DEF Tables, Known, Records, NoRecord
<1>2. Known \subseteq Users /\ Active \subseteq Known
  BY DEF Known, Active
<1>3. ASSUME NEW c \in Callers
      PROVE  /\ caller[c].at = "issue" => caller[c].user \in Known
             /\ caller[c].at \in {"setup", "bootstrap"} => caller[c].email \in Emails
  BY DEF Tables, CallerInv, Stages, Outside
<1> QED
  BY <1>1, <1>2, <1>3

(* A request that has looked, or found its account, and goes on.            *)
LEMMA LookKeepsTables ==
    ASSUME Tables, NEW c \in Callers, Verified(c) \/ LookForUsers(c) \/ Bootstrap(c)
    PROVE  Tables'
<1>1. PICK stage \in Stages :
        /\ Goes(c, stage) /\ stage.at \in {"issue", "setup", "bootstrap"}
        /\ stage.at = "issue" => stage.user \in Known
  <2>1. CASE Verified(c)
    <3>1. PICK u \in Active : Goes(c, [at |-> "issue", user |-> u])
      BY <2>1 DEF Verified
    <3>2. u \in Known /\ u \in Users
      BY DEF Active, Known
    <3>3. [at |-> "issue", user |-> u] \in Stages
      BY <3>2 DEF Stages
    <3> QED
      BY <3>1, <3>2, <3>3
  <2>2. CASE LookForUsers(c) \/ Bootstrap(c)
    <3>1. PICK e \in Emails, p \in {"setup", "bootstrap"} :
            Goes(c, [at |-> p, email |-> e])
      BY <2>2 DEF LookForUsers, Bootstrap
    <3>2. [at |-> p, email |-> e] \in Stages
      BY DEF Stages
    <3> QED
      BY <3>1, <3>2
  <2> QED
    BY <2>1, <2>2
<1>2. UNCHANGED <<accounts, access, keys>>
  BY DEF Verified, LookForUsers, Bootstrap
<1>3. Known' = Known /\ Active' = Active
  BY <1>2 DEF Known, Active
<1>4. caller' \in [Callers -> Stages]
  BY <1>1 DEF Tables, Goes
<1>5. \A d \in Callers : CallerInv(d)'
  BY <1>1, <1>2, <1>3 DEF Tables, CallerInv, Goes
<1> QED
  BY <1>2, <1>3, <1>4, <1>5 DEF Tables

(* A row in the table of users.                                             *)
LEMMA NewAccountKeepsTables ==
    ASSUME Tables, NEW u \in Users, NEW e \in Emails, NewAccount(u, e),
           UNCHANGED <<access, keys>>,
           caller' \in [Callers -> Stages],
           \A c \in Callers : caller'[c].at = "issue" => caller'[c].user \in Known \cup {u}
    PROVE  Tables'
<1> DEFINE row == [email |-> e, active |-> TRUE]
<1>1. /\ u \notin Known /\ e \notin Taken
      /\ accounts' = [accounts EXCEPT ![u] = row]
  BY DEF NewAccount
<1>2. row \in Records /\ row # NoRecord
  BY AccountsAssumption DEF Records, NoRecord
<1>3. /\ accounts' \in [Users -> Records \cup {NoRecord}]
      /\ accounts'[u] = row /\ \A v \in Users \ {u} : accounts'[v] = accounts[v]
  BY <1>1, <1>2 DEF Tables
<1>4. Known' = Known \cup {u} /\ Active' = Active \cup {u}
  BY <1>1, <1>2, <1>3 DEF Known, Active
<1>5. ASSUME NEW v \in Known', NEW w \in Known', accounts'[v].email = accounts'[w].email PROVE v = w
  <2>1. \A x \in Known : accounts'[x] = accounts[x] /\ accounts[x].email # e
    BY <1>1, <1>3 DEF Taken, Known
  <2> QED
    BY <1>3, <1>4, <1>5, <2>1 DEF Tables
<1>7. \A c \in Callers : CallerInv(c)'
  BY <1>4 DEF CallerInv
<1>8. \A k \in keys : k \in [id : KeyIds, owner : Known', active : BOOLEAN]
  BY <1>4 DEF Tables
<1> QED
  BY <1>3, <1>4, <1>5, <1>7, <1>8 DEF Tables

LEMMA InsertKeepsTables ==
    ASSUME Tables, NEW c \in Callers, InsertSetUp(c) \/ InsertBootstrap(c)
    PROVE  Tables'
<1>2. caller[c].email \in Emails
  BY AccountIsKnown DEF InsertSetUp, InsertBootstrap
<1>3. PICK u \in Users :
        /\ NewAccount(u, caller[c].email)
        /\ Goes(c, [at |-> "issue", user |-> u]) \/ Goes(c, Outside)
  BY DEF InsertSetUp, InsertBootstrap
<1>4. UNCHANGED <<access, keys>>
  BY DEF InsertSetUp, InsertBootstrap
<1>5. [at |-> "issue", user |-> u] \in Stages /\ Outside \in Stages
  BY DEF Stages
<1>6. caller' \in [Callers -> Stages]
  BY <1>3, <1>5 DEF Goes, Tables
<1>7. ASSUME NEW d \in Callers
      PROVE  caller'[d].at = "issue" => caller'[d].user \in Known \cup {u}
  BY <1>3 DEF Goes, Outside, Tables, CallerInv
<1> QED
  BY <1>2, <1>3, <1>4, <1>6, <1>7, NewAccountKeepsTables

LEMMA IssueKeepsTables ==
    ASSUME Tables, NEW c \in Callers, Issue(c)
    PROVE  Tables'
<1> DEFINE u == caller[c].user
<1>1. u \in Known /\ u \in Users
  BY AccountIsKnown DEF Issue
<1>2. /\ access' = [access EXCEPT ![u] = Life] /\ caller' = [caller EXCEPT ![c] = Outside]
      /\ UNCHANGED <<accounts, keys>>
  BY DEF Issue, Goes
<1>3. Known' = Known /\ Active' = Active
  BY <1>2 DEF Known, Active
<1> HIDE DEF u
<1>4. access' \in [Users -> 0 .. Life] /\ \A v \in Users : access'[v] > 0 => v \in Known
  BY <1>1, <1>2, AccountsAssumption DEF Tables
<1>5. caller' \in [Callers -> Stages] /\ \A d \in Callers : CallerInv(d)'
  BY <1>2, <1>3 DEF Tables, CallerInv, Stages, Outside
<1> QED
  BY <1>2, <1>3, <1>4, <1>5 DEF Tables

(* Requests that end, with the server or alone.                             *)
LEMMA EndKeepsTables ==
    ASSUME Tables, ServerRestarts \/ \E c \in Callers : GivesUp(c)
    PROVE  Tables'
<1>1. UNCHANGED <<accounts, access, keys>>
  BY DEF ServerRestarts, GivesUp
<1>2. /\ caller' \in [Callers -> Stages]
      /\ \A d \in Callers : caller'[d] \in {caller[d], Outside}
  <2>1. Outside \in Stages
    BY DEF Stages
  <2> QED
    BY <2>1 DEF ServerRestarts, GivesUp, Goes, Tables
<1>3. Known' = Known /\ Active' = Active
  BY <1>1 DEF Known, Active
<1>4. \A d \in Callers : CallerInv(d)'
  BY <1>2, <1>3 DEF Tables, CallerInv, Outside
<1> QED
  BY <1>1, <1>2, <1>3, <1>4 DEF Tables

(* The handlers behind RequireAuth, and the clock.                          *)
LEMMA ManagerKeepsTables ==
    ASSUME Tables, NEW u \in Users, ManagerStep(u)
    PROVE  Tables'
<1>1. u \in Known
  BY DEF ManagerStep, CreateUser, DeleteUser, CreateKey, DeleteKey, RequireAuth, Accepted, Tables
<1>2. CASE CreateUser(u)
  <2>1. PICK v \in Users, e \in Emails : NewAccount(v, e)
    BY <1>2 DEF CreateUser
  <2>2. \A c \in Callers : caller[c].at = "issue" => caller[c].user \in Known
    BY AccountIsKnown
  <2> QED
    BY <1>2, <2>1, <2>2, NewAccountKeepsTables DEF CreateUser, Tables
<1>3. CASE DeleteUser(u)
  <2>1. PICK v \in Known : accounts' = [accounts EXCEPT ![v].active = FALSE]
    BY <1>3 DEF DeleteUser
  <2>2. v \in Users /\ accounts[v] \in Records
    BY AccountIsKnown
  <2>3. /\ accounts'[v] = [email |-> accounts[v].email, active |-> FALSE]
        /\ \A w \in Users \ {v} : accounts'[w] = accounts[w]
    BY <2>1, <2>2 DEF Tables, Records
  <2>4. accounts'[v] \in Records /\ accounts'[v] # NoRecord
    BY <2>2, <2>3, AccountsAssumption DEF Records, NoRecord
  <2>5. accounts' \in [Users -> Records \cup {NoRecord}]
    BY <2>1, <2>2, <2>3, <2>4 DEF Tables
  <2>6. Known' = Known /\ Active' \subseteq Active
    BY <2>2, <2>3, <2>4 DEF Known, Active
  <2>7. \A w \in Known : accounts'[w].email = accounts[w].email
    BY <2>3 DEF Known
  <2> QED
    BY <1>3, <2>5, <2>6, <2>7 DEF DeleteUser, Tables, CallerInv
<1>4. CASE CreateKey(u)
  <2>1. PICK k \in KeyIds :
          /\ \A key \in keys : key.id # k
          /\ keys' = keys \cup {[id |-> k, owner |-> u, active |-> TRUE]}
    BY <1>4 DEF CreateKey
  <2>2. Known' = Known /\ Active' = Active
    BY <1>4 DEF CreateKey, Known, Active
  <2> DEFINE new == [id |-> k, owner |-> u, active |-> TRUE]
  <2>0. /\ new \in [id : KeyIds, owner : Known, active : BOOLEAN] /\ new.id = k
        /\ keys' = keys \cup {new}
    BY <1>1, <2>1
  <2> HIDE DEF new
  <2>3. \A j \in keys' : j \in [id : KeyIds, owner : Known, active : BOOLEAN]
    BY <2>0 DEF Tables
  <2>4. \A i, j \in keys' : i.id = j.id => i = j
    BY <2>0, <2>1 DEF Tables
  <2> QED
    BY <1>4, <2>2, <2>3, <2>4 DEF CreateKey, Tables, CallerInv
<1>5. CASE DeleteKey(u)
  <2>1. PICK key \in keys : keys' = (keys \ {key}) \cup {[key EXCEPT !.active = FALSE]}
    BY <1>5 DEF DeleteKey
  <2>2. Known' = Known /\ Active' = Active
    BY <1>5 DEF DeleteKey, Known, Active
  <2> DEFINE off == [key EXCEPT !.active = FALSE]
  <2>0. key \in [id : KeyIds, owner : Known, active : BOOLEAN]
    BY DEF Tables
  <2>3. /\ off \in [id : KeyIds, owner : Known, active : BOOLEAN] /\ off.id = key.id
        /\ keys' = (keys \ {key}) \cup {off}
    BY <2>0, <2>1
  <2> HIDE DEF off
  <2>4. \A j \in keys' : j \in [id : KeyIds, owner : Known, active : BOOLEAN]
    BY <2>3 DEF Tables
  <2>5. \A i, j \in keys' : i.id = j.id => i = j
    BY <2>3 DEF Tables
  <2> QED
    BY <1>5, <2>2, <2>4, <2>5 DEF DeleteKey, Tables, CallerInv
<1> QED
  BY <1>2, <1>3, <1>4, <1>5 DEF ManagerStep

LEMMA TimeKeepsTables == Tables /\ TimePasses => Tables'
<1> SUFFICES ASSUME Tables, TimePasses PROVE Tables'
  OBVIOUS
<1>1. UNCHANGED <<accounts, keys, caller>>
      /\ access' = [u \in Users |-> IF access[u] = 0 THEN 0 ELSE access[u] - 1]
  BY DEF TimePasses
<1>2. Known' = Known /\ Active' = Active
  BY <1>1 DEF Known, Active
<1>3. access' \in [Users -> 0 .. Life] /\ \A u \in Users : access'[u] > 0 => access[u] > 0
  BY <1>1, AccountsAssumption DEF Tables
<1> QED
  BY <1>1, <1>2, <1>3 DEF Tables, CallerInv

LEMMA AccountsInvNext == AccountsInv /\ [AccountsNext]_accountVars => AccountsInv'
<1> SUFFICES ASSUME AccountsInv, [AccountsNext]_accountVars PROVE AccountsInv'
  OBVIOUS
<1>0. Tables /\ Limited
  BY DEF AccountsInv
<1>1. AuthScope => Limited'
  BY <1>0, AdmitKeepsLimits DEF AuthScope, Limiters
<1>2. \A u \in Users : RequireAuth(u) => Limited'
  BY <1>0, AdmitKeepsLimits DEF RequireAuth, Limiters
<1>3. UNCHANGED <<limit, recent>> => Limited'
  BY <1>0, UncountedKeepsLimits
<1>4. ASSUME NEW c \in Callers, CallerStep(c) PROVE AccountsInv'
  <2>1. CASE LogIn(c) \/ PageLogIn(c) \/ SetUp(c) \/ PageSetUp(c) \/ Bootstrap(c)
    BY <1>0, <1>1, <1>3, <2>1, LookKeepsTables
       DEF LogIn, PageLogIn, SetUp, PageSetUp, Bootstrap, PageRoute, AccountsInv
  <2>2. CASE Issue(c)
    BY <1>0, <1>3, <2>2, IssueKeepsTables DEF Issue, AccountsInv
  <2>3. CASE InsertSetUp(c) \/ InsertBootstrap(c)
    BY <1>0, <1>3, <2>3, InsertKeepsTables DEF InsertSetUp, InsertBootstrap, AccountsInv
  <2>4. CASE GivesUp(c)
    BY <1>0, <1>3, <2>4, EndKeepsTables DEF GivesUp, AccountsInv
  <2> QED
    BY <1>4, <2>1, <2>2, <2>3, <2>4 DEF CallerStep
<1>5. ASSUME NEW u \in Users, ManagerStep(u) PROVE AccountsInv'
  BY <1>0, <1>2, <1>5, ManagerKeepsTables
     DEF ManagerStep, CreateUser, DeleteUser, CreateKey, DeleteKey, AccountsInv
<1>6. CASE Refused
  <2>1. Tables'
    BY <1>0, <1>6 DEF Refused, Tables, Known, Active, CallerInv
  <2> QED
    BY <1>1, <1>6, <2>1 DEF Refused, AccountsInv
<1>7. CASE TimePasses
  BY <1>0, <1>7, TimeKeepsTables, TimeKeepsLimits DEF AccountsInv
<1>8. CASE ServerRestarts
  <2>1. Limited'
    <3>1. Forgotten'
      BY <1>8 DEF ServerRestarts, Forgotten, Quiet, NoLimit
    <3> QED
      BY <3>1, QuietIsLimited, PTL
  <2> QED
    BY <1>0, <1>8, <2>1, EndKeepsTables DEF AccountsInv
<1>9. CASE UNCHANGED accountVars
  <2>1. Tables'
    BY <1>0, <1>9 DEF accountVars, Tables, Known, Active, CallerInv
  <2> QED
    BY <1>3, <1>9, <2>1 DEF accountVars, AccountsInv
<1> QED
  BY <1>4, <1>5, <1>6, <1>7, <1>8, <1>9 DEF AccountsNext

LEMMA AccountsInvariant == AccountsSpec => []AccountsInv
  BY AccountsInvInit, AccountsInvNext, PTL DEF AccountsSpec

LEMMA TypedByAccountsInv == AccountsInv => AccountsTypeOK
  BY DEF AccountsInv, Tables, Limited, AccountsTypeOK

(* A client gets fewer than two windows' worth of requests in any span as   *)
(* long as a window.                                                        *)
THEOREM BurstsAreBounded == AccountsSpec => []BurstBounded
<1>1. AccountsInv => BurstBounded
  BY BurstByLimits DEF AccountsInv
<1> QED
  BY <1>1, AccountsInvariant, PTL

-----------------------------------------------------------------------------
(* The delivery of alerts: AlertDelivery.                                   *)

LEMMA NotesAreSequences ==
    ASSUME NEW s \in Senders
    PROVE  /\ Len(Notes[s]) \in Nat /\ Indices(s) \subseteq Nat \ {0}
           /\ \A i \in Indices(s) : Notes[s][i] \in Channels(s)
           /\ \A c \in Channels(s) : \E i \in Indices(s) : Notes[s][i] = c
<1>1. Notes[s] \in Seq(Range(Notes[s]))
  BY AlertsAssumption
<1>2. Len(Notes[s]) \in Nat /\ DOMAIN Notes[s] = 1 .. Len(Notes[s])
  BY <1>1
<1> QED
  BY <1>1, <1>2 DEF Indices, Channels, Range

(* A future has sent to all channels of its kind up to done, and to all of  *)
(* them when it goes the way of a success.                                  *)
Succeeding == {"zero", "count", "close", "clear", "ok"}
Delivered(s, i) ==
    \A j \in OfItsKind(s, i) :
        j <= future[s][i].done \/ future[s][i].at \in Succeeding => Notes[s][j] \in received[s]
DeliveredInv == \A s \in Senders : \A i \in Indices(s) : Delivered(s, i)

AlertsInv == AlertsTypeOK /\ CircuitCanRecover /\ DeliveredInv

LEMMA BegunIsFresh ==
    ASSUME NEW s \in Senders
    PROVE  /\ Begun(s) \in [Indices(s) -> Futures]
           /\ \A i \in Indices(s) : Begun(s)[i].at \in {"new", "err"} /\ Begun(s)[i].done = 0
  BY DEF Begun, Fresh, Futures, Resting

LEMMA AlertsInvInit == AlertsInit => AlertsInv
<1> SUFFICES ASSUME AlertsInit PROVE AlertsInv
  OBVIOUS
<1>1. AlertsTypeOK
  <2>1. /\ circuit \in [failures : Nat, successes : Nat, open : BOOLEAN, last : Late]
        /\ DOMAIN future = Senders /\ DOMAIN polled = Senders /\ DOMAIN received = Senders
    BY DEF AlertsInit, Late
  <2>2. ASSUME NEW s \in Senders
        PROVE  /\ future[s] \in [Indices(s) -> Futures]
               /\ polled[s] \in {0} \cup Indices(s)
               /\ received[s] \subseteq Channels(s)
               /\ \A i \in Indices(s) : future[s][i].at \in Working <=> polled[s] = i
    BY <2>2, BegunIsFresh, NotesAreSequences DEF AlertsInit, Working
  <2> QED
    BY <2>1, <2>2 DEF AlertsTypeOK
<1>2. CircuitCanRecover
  BY DEF AlertsInit, CircuitCanRecover
<1>3. DeliveredInv
  BY BegunIsFresh, NotesAreSequences DEF AlertsInit, DeliveredInv, Delivered, Succeeding, OfItsKind
<1> QED
  BY <1>1, <1>2, <1>3 DEF AlertsInv

(* What a step of one future has to respect, whichever step it is.          *)
LEMMA FutureStep ==
    ASSUME AlertsInv, NEW s \in Senders, NEW i \in Indices(s), NEW g \in Futures,
           polled[s] \in {0, i},
           future' = [future EXCEPT ![s][i] = g],
           DOMAIN polled' = Senders, polled'[s] = IF g.at \in Working THEN i ELSE 0,
           \A r \in Senders \ {s} : polled'[r] = polled[r],
           circuit' \in [failures : Nat, successes : Nat, open : BOOLEAN, last : Late],
           DOMAIN received' = Senders,
           received[s] \subseteq received'[s], received'[s] \subseteq Channels(s),
           \A r \in Senders \ {s} : received'[r] = received[r],
           \A j \in OfItsKind(s, i) :
               j <= g.done \/ g.at \in Succeeding => Notes[s][j] \in received'[s],
           circuit'.open => \/ circuit'.last # "none"
                            \/ g.at = "time"
                            \/ future[s][i].at # "time" /\ circuit.open /\ circuit'.last = circuit.last
    PROVE  AlertsInv'
<1> USE DEF AlertsInv
<1>1. /\ DOMAIN future = Senders /\ DOMAIN polled = Senders /\ DOMAIN received = Senders
      /\ \A r \in Senders : future[r] \in [Indices(r) -> Futures]
      /\ future'[s][i] = g
      /\ \A r \in Senders : \A k \in Indices(r) :
            r # s \/ k # i => future'[r][k] = future[r][k]
      /\ polled'[s] = IF g.at \in Working THEN i ELSE 0
      /\ \A r \in Senders \ {s} : polled'[r] = polled[r] /\ future'[r] = future[r]
      /\ future'[s] \in [Indices(s) -> Futures]
      /\ DOMAIN future' = Senders /\ DOMAIN polled' = Senders
  BY DEF AlertsTypeOK
<1>2. AlertsTypeOK'
  <2>1. ASSUME NEW r \in Senders
        PROVE  /\ future'[r] \in [Indices(r) -> Futures]
               /\ polled'[r] \in {0} \cup Indices(r)
               /\ received'[r] \subseteq Channels(r)
    BY <1>1, <2>1 DEF AlertsTypeOK
  <2>2. ASSUME NEW r \in Senders, NEW k \in Indices(r)
        PROVE  future'[r][k].at \in Working <=> polled'[r] = k
    <3>1. k \in Nat \ {0} /\ i \in Nat \ {0}
      BY NotesAreSequences
    <3>2. future[r][k].at \in Working <=> polled[r] = k
      BY DEF AlertsTypeOK
    <3>3. CASE r # s
      BY <1>1, <3>2, <3>3
    <3>4. CASE r = s /\ k = i
      BY <1>1, <3>1, <3>4
    <3>5. CASE r = s /\ k # i
      BY <1>1, <3>1, <3>2, <3>5
    <3> QED
      BY <3>3, <3>4, <3>5
  <2> QED
    BY <1>1, <2>1, <2>2 DEF AlertsTypeOK
<1>3. CircuitCanRecover'
  <2> SUFFICES ASSUME circuit'.open, circuit'.last = "none", g.at # "time"
               PROVE  \E r \in Senders : \E k \in Indices(r) : future'[r][k].at = "time"
    BY <1>1 DEF CircuitCanRecover
  <2>1. future[s][i].at # "time" /\ circuit.open /\ circuit.last = "none"
    OBVIOUS
  <2>2. PICK r \in Senders : \E k \in Indices(r) : future[r][k].at = "time"
    BY <2>1 DEF CircuitCanRecover
  <2>3. PICK k \in Indices(r) : future[r][k].at = "time"
    BY <2>2
  <2> QED
    BY <1>1, <2>1, <2>3
<1>4. DeliveredInv'
  <2> SUFFICES ASSUME NEW r \in Senders, NEW k \in Indices(r) PROVE Delivered(r, k)'
    BY DEF DeliveredInv
  <2>1. Delivered(r, k)
    BY DEF DeliveredInv
  <2>2. CASE r # s \/ k # i
    BY <1>1, <2>1, <2>2 DEF Delivered
  <2>3. CASE r = s /\ k = i
    BY <1>1, <2>3 DEF Delivered
  <2> QED
    BY <2>2, <2>3
<1> QED
  BY <1>2, <1>3, <1>4

(* The accesses to the breaker leave what was received alone.               *)
LEMMA BreakerAccess ==
    ASSUME AlertsInv, NEW s \in Senders, NEW i \in Indices(s), NEW g \in Futures,
           polled[s] \in {0, i},
           Becomes(s, i, g), Stays(s, i),
           circuit' \in [failures : Nat, successes : Nat, open : BOOLEAN, last : Late],
           g.done = 0 \/ g.done = future[s][i].done,
           g.at \in Succeeding => future[s][i].at \in Succeeding,
           circuit'.open => \/ circuit'.last # "none"
                            \/ g.at = "time"
                            \/ future[s][i].at # "time" /\ circuit.open /\ circuit'.last = circuit.last
    PROVE  AlertsInv'
<1>1. /\ future' = [future EXCEPT ![s][i] = g]
      /\ polled' = [polled EXCEPT ![s] = IF future'[s][i].at \in Working THEN i ELSE 0]
      /\ received' = received
  BY DEF Becomes, Stays
<1>2. /\ DOMAIN future = Senders /\ DOMAIN received = Senders
      /\ DOMAIN future[s] = Indices(s) /\ received[s] \subseteq Channels(s)
  BY DEF AlertsInv, AlertsTypeOK
<1>3. future'[s][i] = g
  BY <1>1, <1>2
<1>4. /\ DOMAIN polled' = Senders /\ polled'[s] = IF g.at \in Working THEN i ELSE 0
      /\ \A r \in Senders \ {s} : polled'[r] = polled[r]
  BY <1>1, <1>3 DEF AlertsInv, AlertsTypeOK
<1>5. ASSUME NEW j \in OfItsKind(s, i), j <= g.done \/ g.at \in Succeeding
      PROVE  Notes[s][j] \in received[s]
  <2>1. Delivered(s, i)
    BY DEF AlertsInv, DeliveredInv
  <2>2. j \in Nat \ {0}
    BY NotesAreSequences DEF OfItsKind
  <2>3. j <= future[s][i].done \/ future[s][i].at \in Succeeding
    BY <1>5, <2>2
  <2> QED
    BY <2>1, <2>3 DEF Delivered
<1> QED
  BY <1>1, <1>2, <1>4, <1>5, FutureStep

LEMMA FuturesTyped ==
    ASSUME AlertsInv, NEW s \in Senders, NEW i \in Indices(s)
    PROVE  /\ future[s][i] \in Futures
           /\ circuit \in [failures : Nat, successes : Nat, open : BOOLEAN, last : Late]
           /\ polled[s] \in {0} \cup Indices(s)
           /\ received[s] \subseteq Channels(s)
           /\ DOMAIN received = Senders
  BY DEF AlertsInv, AlertsTypeOK

LEMMA AskedStep ==
    ASSUME AlertsInv, NEW s \in Senders, NEW i \in Indices(s), NEW open \in BOOLEAN,
           polled[s] \in {0, i}, future[s][i].at \in {"new", "log", "look", "reset"},
           Asked(s, i, open), Stays(s, i),
           circuit' \in [failures : Nat, successes : Nat, open : BOOLEAN, last : Late],
           circuit'.open => circuit.open /\ circuit'.last = circuit.last
    PROVE  AlertsInv'
<1> DEFINE f == future[s][i]
           g == IF f.then = "log" THEN [f EXCEPT !.at = "log", !.then = "err"]
                ELSE Fresh(IF f.then = "send" /\ ~open THEN "sending" ELSE "err")
<1>1. f \in Futures
  BY FuturesTyped
<1>2. g \in Futures /\ g.at \notin Succeeding /\ (g.done = 0 \/ g.done = f.done)
  BY <1>1 DEF Futures, Fresh, Resting, Working, Succeeding
<1>3. Becomes(s, i, g)
  BY DEF Asked
<1> HIDE DEF g
<1> QED
  BY <1>2, <1>3, BreakerAccess

LEMMA MovesStep ==
    ASSUME AlertsInv, NEW s \in Senders, NEW i \in Indices(s), NEW stage \in Resting \cup Working,
           polled[s] \in {0, i}, MovesTo(s, i, stage), Stays(s, i),
           circuit' \in [failures : Nat, successes : Nat, open : BOOLEAN, last : Late],
           stage \in Succeeding => future[s][i].at \in Succeeding,
           circuit'.open => \/ circuit'.last # "none"
                            \/ stage = "time"
                            \/ future[s][i].at # "time" /\ circuit.open /\ circuit'.last = circuit.last
    PROVE  AlertsInv'
<1> DEFINE g == [future[s][i] EXCEPT !.at = stage]
<1>1. future[s][i] \in Futures
  BY FuturesTyped
<1>2. g \in Futures /\ g.at = stage /\ g.done = future[s][i].done
  BY <1>1 DEF Futures
<1>3. Becomes(s, i, g)
  BY DEF MovesTo
<1> HIDE DEF g
<1> QED
  BY <1>2, <1>3, BreakerAccess

LEMMA BreakerKeepsInv ==
    ASSUME AlertsInv, NEW s \in Senders, NEW i \in Indices(s), BreakerStep(s, i)
    PROVE  AlertsInv'
<1>0. /\ future[s][i] \in Futures
      /\ circuit \in [failures : Nat, successes : Nat, open : BOOLEAN, last : Late]
  BY FuturesTyped
<1>1. CASE LoadOpen(s, i)
  <2>1. /\ polled[s] \in {0, i} /\ future[s][i].at \in {"new", "log"} /\ circuit' = circuit /\ Stays(s, i)
        /\ MovesTo(s, i, "look") \/ Asked(s, i, FALSE)
    BY <1>1 DEF LoadOpen, Polls
  <2> QED
    BY <1>0, <2>1, AskedStep, MovesStep DEF Working, Succeeding
<1>2. CASE LookAtTime(s, i)
  <2>1. /\ polled[s] \in {0, i} /\ future[s][i].at = "look" /\ circuit' = circuit /\ Stays(s, i)
        /\ MovesTo(s, i, "half") \/ Asked(s, i, TRUE)
    BY <1>2 DEF LookAtTime, Polls
  <2> QED
    BY <1>0, <2>1, AskedStep, MovesStep DEF Working, Succeeding
<1>3. CASE HalfOpen(s, i)
  <2>1. /\ circuit' \in [failures : Nat, successes : Nat, open : BOOLEAN, last : Late] /\ ~circuit'.open
    BY <1>0, <1>3 DEF HalfOpen
  <2> QED
    BY <1>3, <2>1, MovesStep DEF HalfOpen, Polls, Working, Succeeding
<1>4. CASE HalfOpened(s, i)
  <2>1. /\ circuit' \in [failures : Nat, successes : Nat, open : BOOLEAN, last : Late]
        /\ circuit'.open = circuit.open /\ circuit'.last = circuit.last
    BY <1>0, <1>4 DEF HalfOpened
  <2> QED
    BY <1>4, <2>1, AskedStep DEF HalfOpened, Polls
<1>5. CASE ForgetFailures(s, i)
  <2>1. /\ circuit' \in [failures : Nat, successes : Nat, open : BOOLEAN, last : Late]
        /\ circuit'.open = circuit.open /\ circuit'.last = circuit.last
    BY <1>0, <1>5 DEF ForgetFailures
  <2> QED
    BY <1>5, <2>1, MovesStep DEF ForgetFailures, Polls, Working, Succeeding
<1>6. CASE CountSuccess(s, i)
  <2>1. /\ circuit' \in [failures : Nat, successes : Nat, open : BOOLEAN, last : Late]
        /\ circuit'.open = circuit.open /\ circuit'.last = circuit.last
    BY <1>0, <1>6 DEF CountSuccess
  <2>2. /\ polled[s] \in {0, i} /\ future[s][i].at = "count" /\ Stays(s, i)
        /\ MovesTo(s, i, "close") \/ MovesTo(s, i, "ok")
    BY <1>6 DEF CountSuccess, Polls
  <2> QED
    BY <2>1, <2>2, MovesStep DEF Working, Resting, Succeeding
<1>7. CASE Close(s, i)
  <2>1. /\ circuit' \in [failures : Nat, successes : Nat, open : BOOLEAN, last : Late] /\ ~circuit'.open
    BY <1>0, <1>7 DEF Close
  <2> QED
    BY <1>7, <2>1, MovesStep DEF Close, Polls, Working, Succeeding
<1>8. CASE Closed(s, i)
  <2>1. /\ circuit' \in [failures : Nat, successes : Nat, open : BOOLEAN, last : Late]
        /\ circuit'.open = circuit.open /\ circuit'.last = circuit.last
    BY <1>0, <1>8 DEF Closed
  <2> QED
    BY <1>8, <2>1, MovesStep DEF Closed, Polls, Resting, Succeeding
<1>9. CASE CountFailure(s, i)
  <2>1. /\ circuit' \in [failures : Nat, successes : Nat, open : BOOLEAN, last : Late]
        /\ circuit'.open = circuit.open /\ circuit'.last = circuit.last
    BY <1>0, <1>9 DEF CountFailure
  <2> DEFINE opens == circuit'.failures >= FailureThreshold
             g == [future[s][i] EXCEPT !.at = IF opens THEN "opens" ELSE "log",
                                       !.then = IF opens THEN @ ELSE "log"]
  <2>2. g \in Futures /\ g.at \notin Succeeding /\ g.done = future[s][i].done
    BY <1>0 DEF Futures, Working, Succeeding
  <2>3. Becomes(s, i, g) /\ Stays(s, i) /\ polled[s] \in {0, i} /\ future[s][i].at = "fail"
    BY <1>9 DEF CountFailure, FailureCounted, Polls
  <2> HIDE DEF g
  <2> QED
    BY <2>1, <2>2, <2>3, BreakerAccess
<1>10. CASE Open(s, i)
  <2>1. circuit' \in [failures : Nat, successes : Nat, open : BOOLEAN, last : Late]
    BY <1>0, <1>10 DEF Open
  <2> QED
    BY <1>10, <2>1, MovesStep DEF Open, Polls, Working, Succeeding
<1>11. CASE RecordTime(s, i)
  <2>1. circuit' \in [failures : Nat, successes : Nat, open : BOOLEAN, last : Late] /\ circuit'.last = "fresh"
    BY <1>0, <1>11 DEF RecordTime, Late
  <2> DEFINE g == [future[s][i] EXCEPT !.at = "log", !.then = "log"]
  <2>2. g \in Futures /\ g.at \notin Succeeding /\ g.done = future[s][i].done
    BY <1>0 DEF Futures, Working, Succeeding
  <2>3. Becomes(s, i, g) /\ Stays(s, i) /\ polled[s] \in {0, i}
    BY <1>11 DEF RecordTime, Polls
  <2> HIDE DEF g
  <2> QED
    BY <2>1, <2>2, <2>3, BreakerAccess
<1> QED
  BY <1>1, <1>2, <1>3, <1>4, <1>5, <1>6, <1>7, <1>8, <1>9, <1>10, <1>11 DEF BreakerStep

LEMMA SendKeepsInv ==
    ASSUME AlertsInv, NEW s \in Senders, NEW i \in Indices(s), SendStep(s, i)
    PROVE  AlertsInv'
<1> DEFINE f == future[s][i]
<1>0. /\ f \in Futures /\ f.done \in Nat /\ f.tries \in Nat
      /\ circuit \in [failures : Nat, successes : Nat, open : BOOLEAN, last : Late]
      /\ received[s] \subseteq Channels(s) /\ DOMAIN received = Senders /\ DOMAIN polled = Senders
      /\ circuit.open => circuit.last # "none" \/ circuit.open
  BY FuturesTyped DEF AlertsInv, AlertsTypeOK, Futures
<1>1. /\ circuit' = circuit /\ polled[s] = 0 /\ f.at \in {"sending", "waiting"}
  BY DEF SendStep, Sent, NotSent, Retry
<1>2. CASE Sent(s, i)
  <2>1. PICK j \in Target(s, i) :
            /\ received' = [received EXCEPT ![s] = @ \cup {Notes[s][j]}]
            /\ IF Left(s, i, j) = {} THEN Succeeds(s, i)
               ELSE Becomes(s, i, [f EXCEPT !.done = j]) /\ UNCHANGED polled
    BY <1>2 DEF Sent
  <2>2. /\ j \in Indices(s) /\ j \in Nat
        /\ \A k \in OfItsKind(s, i) : k \in Nat /\ (k <= j => k <= f.done \/ k = j)
    <3>1. /\ j \in OfItsKind(s, i) /\ \A k \in OfItsKind(s, i) : k > f.done => j <= k
      BY DEF Target, Left
    <3>2. OfItsKind(s, i) \subseteq Nat \ {0} /\ OfItsKind(s, i) \subseteq Indices(s)
      BY NotesAreSequences DEF OfItsKind
    <3> QED
      BY <1>0, <3>1, <3>2
  <2>3. /\ Notes[s][j] \in Channels(s)
        /\ received'[s] = received[s] \cup {Notes[s][j]}
        /\ \A r \in Senders \ {s} : received'[r] = received[r]
        /\ DOMAIN received' = Senders
    BY <1>0, <2>1, <2>2, NotesAreSequences
  <2>4. \A k \in OfItsKind(s, i) : k <= j => Notes[s][k] \in received'[s]
    BY <2>2, <2>3 DEF AlertsInv, DeliveredInv, Delivered
  <2>5. CASE Left(s, i, j) = {}
    <3>1. /\ future' = [future EXCEPT ![s][i] = Fresh("zero")]
          /\ polled' = [polled EXCEPT ![s] = i]
      BY <2>1, <2>5 DEF Succeeds, Becomes
    <3>2. \A k \in OfItsKind(s, i) : Notes[s][k] \in received'[s]
      BY <2>2, <2>4, <2>5 DEF Left
    <3>3. Fresh("zero") \in Futures /\ Fresh("zero").at \in Working /\ Fresh("zero").at \notin {"time"}
      BY DEF Fresh, Futures, Working
    <3> QED
      BY <1>0, <1>1, <2>3, <3>1, <3>2, <3>3, FutureStep
  <2>6. CASE Left(s, i, j) # {}
    <3> DEFINE g == [f EXCEPT !.done = j]
    <3>1. future' = [future EXCEPT ![s][i] = g] /\ polled' = polled
      BY <2>1, <2>6 DEF Becomes
    <3>2. f.at = "sending"
      BY <1>2 DEF Sent
    <3>3. g \in Futures /\ g.done = j /\ g.at \notin Working /\ g.at \notin Succeeding
      BY <1>0, <2>2, <3>2 DEF Futures, Working, Succeeding
    <3> HIDE DEF g
    <3> QED
      BY <1>0, <1>1, <2>3, <2>4, <3>1, <3>3, FutureStep
  <2> QED
    BY <2>5, <2>6
<1>3. CASE NotSent(s, i)
  <2>0. received' = received
    BY <1>3 DEF NotSent
  <2> DEFINE g == [Fresh("waiting") EXCEPT !.tries = f.tries + 1]
  <2>1. CASE Becomes(s, i, g) /\ UNCHANGED polled
    <3>1. g \in Futures /\ g.done = 0 /\ g.at \notin Working /\ g.at \notin Succeeding
      <4>1. g = [at |-> "waiting", done |-> 0, tries |-> f.tries + 1, then |-> "send"]
        BY DEF Fresh
      <4> HIDE DEF g
      <4> QED
        BY <1>0, <4>1 DEF Futures, Resting, Working, Succeeding
    <3>2. future' = [future EXCEPT ![s][i] = g] /\ polled' = polled
      BY <2>1 DEF Becomes
    <3>3. \A k \in OfItsKind(s, i) : ~(k <= g.done)
      BY <3>1, NotesAreSequences DEF OfItsKind
    <3> HIDE DEF g
    <3> QED
      BY <1>0, <1>1, <2>0, <3>1, <3>2, <3>3, FutureStep
  <2>2. CASE Becomes(s, i, Fresh("fail")) /\ polled' = [polled EXCEPT ![s] = i]
    <3>1. /\ Fresh("fail") \in Futures /\ Fresh("fail").done = 0
          /\ Fresh("fail").at \in Working /\ Fresh("fail").at \notin Succeeding
      BY DEF Fresh, Futures, Working, Succeeding
    <3>2. future' = [future EXCEPT ![s][i] = Fresh("fail")]
      BY <2>2 DEF Becomes
    <3>3. \A k \in OfItsKind(s, i) : ~(k <= Fresh("fail").done)
      BY <3>1, NotesAreSequences DEF OfItsKind
    <3> QED
      BY <1>0, <1>1, <2>0, <2>2, <3>1, <3>2, <3>3, FutureStep DEF Working
  <2> QED
    BY <1>3, <2>1, <2>2 DEF NotSent, Failed
<1>4. CASE Retry(s, i)
  <2> DEFINE g == [f EXCEPT !.at = "sending"]
  <2>1. g \in Futures /\ g.done = f.done /\ g.at \notin Working /\ g.at \notin Succeeding
    BY <1>0 DEF Futures, Resting, Working, Succeeding
  <2>2. future' = [future EXCEPT ![s][i] = g] /\ polled' = polled /\ received' = received
    BY <1>4 DEF Retry, MovesTo, Becomes
  <2>3. \A k \in OfItsKind(s, i) : k <= f.done => Notes[s][k] \in received[s]
    BY DEF AlertsInv, DeliveredInv, Delivered
  <2> HIDE DEF g
  <2> QED
    BY <1>0, <1>1, <2>1, <2>2, <2>3, FutureStep
<1> QED
  BY <1>2, <1>3, <1>4 DEF SendStep

LEMMA NextNameKeepsInv ==
    ASSUME AlertsInv, NEW s \in Senders, NextName(s)
    PROVE  AlertsInv'
<1>1. /\ circuit' = circuit /\ polled' = polled
      /\ \A i \in Indices(s) : future[s][i].at \in {"ok", "err"}
  BY DEF NextName, Joined
<1>2. CASE UNCHANGED <<future, received>>
  BY <1>1, <1>2 DEF AlertsInv, AlertsTypeOK, CircuitCanRecover, DeliveredInv, Delivered
<1>3. CASE future' = [future EXCEPT ![s] = Begun(s)] /\ received' = [received EXCEPT ![s] = {}]
  <2>1. /\ DOMAIN future = Senders /\ DOMAIN received = Senders
        /\ future'[s] = Begun(s) /\ received'[s] = {}
        /\ \A r \in Senders \ {s} : future'[r] = future[r] /\ received'[r] = received[r]
    BY <1>3 DEF AlertsInv, AlertsTypeOK
  <2>2. polled[s] = 0
    <3>1. \A i \in Indices(s) : future[s][i].at \notin Working
      BY <1>1 DEF Working
    <3> QED
      BY <3>1 DEF AlertsInv, AlertsTypeOK
  <2>3. AlertsTypeOK'
    <3>1. \A i \in Indices(s) : Begun(s)[i].at \notin Working /\ i # 0
      BY BegunIsFresh, NotesAreSequences DEF Working
    <3>2. ASSUME NEW r \in Senders
          PROVE  /\ future'[r] \in [Indices(r) -> Futures]
                 /\ polled'[r] \in {0} \cup Indices(r)
                 /\ received'[r] \subseteq Channels(r)
                 /\ \A i \in Indices(r) : future'[r][i].at \in Working <=> polled'[r] = i
      <4>1. CASE r = s
        BY <1>1, <2>1, <2>2, <3>1, <4>1, BegunIsFresh
      <4>2. CASE r # s
        BY <1>1, <2>1, <4>2 DEF AlertsInv, AlertsTypeOK
      <4> QED
        BY <4>1, <4>2
    <3> QED
      BY <1>1, <1>3, <2>1, <3>2 DEF AlertsInv, AlertsTypeOK
  <2>4. CircuitCanRecover'
    <3>1. \A i \in Indices(s) : future[s][i].at # "time"
      BY <1>1
    <3> QED
      BY <1>1, <2>1, <3>1 DEF AlertsInv, CircuitCanRecover
  <2>5. DeliveredInv'
    <3>1. ASSUME NEW r \in Senders, NEW i \in Indices(r) PROVE Delivered(r, i)'
      <4>1. CASE r = s
        <5>1. \A j \in OfItsKind(s, i) : j \in Nat \ {0}
          BY <4>1, NotesAreSequences DEF OfItsKind
        <5>2. future'[s][i].done = 0 /\ future'[s][i].at \notin Succeeding
          BY <2>1, <4>1, BegunIsFresh DEF Succeeding
        <5> QED
          BY <4>1, <5>1, <5>2 DEF Delivered
      <4>2. CASE r # s
        BY <2>1, <4>2 DEF AlertsInv, DeliveredInv, Delivered
      <4> QED
        BY <4>1, <4>2
    <3> QED
      BY <3>1 DEF DeliveredInv
  <2> QED
    BY <2>3, <2>4, <2>5 DEF AlertsInv
<1> QED
  BY <1>2, <1>3 DEF NextName

LEMMA AlertsInvNext == AlertsInv /\ [AlertsNext]_alertVars => AlertsInv'
<1> SUFFICES ASSUME AlertsInv, [AlertsNext]_alertVars PROVE AlertsInv'
  OBVIOUS
<1>1. CASE TimePassed
  BY <1>1 DEF TimePassed, AlertsInv, AlertsTypeOK, CircuitCanRecover, DeliveredInv, Delivered, Late
<1>2. CASE UNCHANGED alertVars
  BY <1>2 DEF alertVars, AlertsInv, AlertsTypeOK, CircuitCanRecover, DeliveredInv, Delivered
<1> QED
  BY <1>1, <1>2, BreakerKeepsInv, SendKeepsInv, NextNameKeepsInv DEF AlertsNext

LEMMA SoundByInv == AlertsInv => AlertsSound
<1> SUFFICES ASSUME AlertsInv PROVE SuccessIsTrue
  BY DEF AlertsInv, AlertsSound
<1> SUFFICES ASSUME NEW s \in Senders, AllSent(s) PROVE received[s] = Channels(s)
  BY DEF SuccessIsTrue
<1>1. received[s] \subseteq Channels(s)
  BY DEF AlertsInv, AlertsTypeOK
<1>2. ASSUME NEW c \in Channels(s) PROVE c \in received[s]
  <2>1. PICK i \in Indices(s) : Notes[s][i] = c
    BY NotesAreSequences
  <2>2. Delivered(s, i) /\ i \in OfItsKind(s, i)
    BY DEF AlertsInv, DeliveredInv, OfItsKind
  <2> QED
    BY <2>1, <2>2 DEF Delivered, AllSent, Succeeding
<1> QED
  BY <1>1, <1>2

(* No circuit stays open for want of a time, and a send whose futures have  *)
(* all succeeded has had every channel's confirmation.                      *)
THEOREM AlertsAreSound == AlertsSpec => []AlertsSound
<1> QED
  BY AlertsInvInit, AlertsInvNext, SoundByInv, PTL DEF AlertsSpec

-----------------------------------------------------------------------------
LEMMA WebInvariant == MCSpec => [](RoutesInv /\ AccountsInv /\ AlertsInv)
<1> DEFINE I == RoutesInv /\ AccountsInv /\ AlertsInv
<1>1. MCInit => I
  BY RoutesInvInit, AccountsInvInit, AlertsInvInit DEF MCInit
<1>2. I /\ [MCNext]_<<vars, accountVars, alertVars, updateVars, explored>> => I'
  <2>1. [MCNext]_<<vars, accountVars, alertVars, updateVars, explored>>
          => [Next]_vars /\ [AccountsNext]_accountVars /\ [AlertsNext]_alertVars
    BY DEF MCNext
  <2> QED
    BY <2>1, RoutesInvNext, AccountsInvNext, AlertsInvNext
<1> QED
  BY <1>1, <1>2, PTL DEF MCSpec

(* The streams table, the cache and its order, the requests, the accounts,  *)
(* the limiters and the circuits are always what they should be.            *)
THEOREM WebTyped == MCSpec => []WebTypeOK
<1>1. RoutesInv /\ AccountsInv /\ AlertsInv => WebTypeOK
  BY RoutesInvImplies, TypedByAccountsInv DEF AlertsInv, WebTypeOK
<1> QED
  BY <1>1, WebInvariant, PTL
=============================================================================
