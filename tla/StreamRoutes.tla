--------------------------- MODULE StreamRoutes ----------------------------
(***************************************************************************)
(* The stream routes (gl_web/src/routes/streams.rs, routes/admin.rs), the   *)
(* CachedStreamRepository and the StreamRepository they use, over the       *)
(* streams table and the cache.  A request is a task of its own: every      *)
(* statement it sends to SQLite is a step, and so is what it does to the    *)
(* cache once the answer is there.  Between two of its steps other requests *)
(* run, the administrator's routes and the capture manager write past the   *)
(* cache, the request may be dropped with its connection, and the server    *)
(* may be restarted.                                                        *)
(*                                                                          *)
(* A row is abstracted to the fields the routes treat differently: `name`   *)
(* and `config` stand for what an update sets or carries over, `status` for *)
(* execution_status, and `upd` is updated_at, the ETag.  Values are the     *)
(* numbers of the writes that brought them.                                 *)
(***************************************************************************)
EXTENDS StreamCache

CONSTANTS
    Stored,         \* the streams there are at the beginning
    Clients,        \* requests under way at one time
    CacheLimit,     \* a list longer than this is not cached (50)
    MaxWrites,      \* bound on the writes of a behaviour
    MaxRequests,    \* bound on the requests that get to use the database
    NoRow           \* a model value: no such stream

VARIABLES
    db,         \* the streams table
    cache,      \* DatabaseCache::streams
    req,        \* each client's request: where it stands and what it holds
    seen,       \* the row each client was last given, with its ETag
    clock,      \* the number of timestamps handed out by now_iso8601
    unused,     \* ids Id::new has not given out yet
    excused,    \* history: cached streams whose entry a race made stale
    begun       \* number of requests that went to the database

vars == <<db, cache, req, seen, clock, unused, excused, begun>>

Stamps == 0 .. MaxWrites
Fields == {"name", "config"}
Row == [id : Streams, name : Stamps, config : Stamps,
        status : {"inactive", "active"}, upd : Stamps]

ASSUME RoutesAssumption ==
    /\ Stored \subseteq Streams /\ MaxWrites \in Nat
    /\ NoRow \notin Row
    /\ NoEntry \notin [row : Row, age : 0 .. TTL]

NoTag == MaxWrites + 1      \* no If-Match or If-None-Match header
Idle == [at |-> "idle"]
At(c, where) == req[c].at = where

Init ==
    /\ unused = Streams \ Stored
    /\ db = [s \in Streams |->
                IF s \in unused THEN NoRow
                ELSE [id |-> s, name |-> 0, config |-> 0, status |-> "inactive", upd |-> 0]]
    /\ cache = EmptyCache
    /\ req = [c \in Clients |-> Idle]
    /\ seen = [c \in Clients |-> NoRow]
    /\ clock = 0
    /\ excused = {}
    /\ begun = 0

(* Every change of the cache goes through here: an excuse ends with its     *)
(* entry, and begins when a row is cached that is no longer the table's.    *)
SetCache(ca) == cache' = ca /\ excused' = excused \cap Cached(ca.data)

Caches(s, row) ==
    /\ cache' = Put(cache, s, row)
    /\ excused' = ((excused \ {s}) \cap Cached(cache'.data))
                    \cup (IF row = db[s] THEN {} ELSE {s})

(* A write that does not come by the cached repository, or whose request    *)
(* does not live to invalidate, leaves the entry of s as it is.             *)
Excuses(s) == excused' = excused \cup ({s} \cap Cached(cache.data))

Done(c) == req' = [req EXCEPT ![c] = Idle]

(* A request that needs the database is counted; what the cache answers at  *)
(* once is not, and has no bound.                                           *)
Counted(c) ==
    \/ req'[c] = Idle /\ UNCHANGED begun
    \/ req'[c] # Idle /\ begun < MaxRequests /\ begun' = begun + 1

(* What get_stream does with the row find_by_id gave it: it answers 200 or, *)
(* when If-None-Match is the row's ETag, 304.                               *)
FoundByGet(c, r, row) ==
    /\ seen' = IF r.etag = row.upd THEN seen ELSE [seen EXCEPT ![c] = row]
    /\ Done(c)

(* update_stream compares If-Match with that row and goes on, or answers    *)
(* 412; delete_stream goes on.                                              *)
FoundByUpdate(c, r, row) ==
    /\ req' = [req EXCEPT ![c] =
                IF r.etag \in {NoTag, row.upd} THEN [r EXCEPT !.at = "read"] ELSE Idle]
    /\ UNCHANGED seen

FoundByDelete(c, r) ==
    /\ req' = [req EXCEPT ![c] = [r EXCEPT !.at = "drop"]]
    /\ UNCHANGED seen

Found(c, r, row) ==
    \/ r.op = "get" /\ FoundByGet(c, r, row)
    \/ r.op = "update" /\ FoundByUpdate(c, r, row)
    \/ r.op = "delete" /\ FoundByDelete(c, r)

Tags(c, s) ==
    {NoTag} \cup (IF seen[c] # NoRow /\ seen[c].id = s THEN {seen[c].upd} ELSE {})

(* get_stream, update_stream and delete_stream begin alike, with find_by_id *)
(* of the cached repository: a hit is answered from the cache.              *)
Begin(c) ==
    /\ At(c, "idle")
    /\ \E s \in Streams \ unused, op \in {"get", "update", "delete"}, f \in Fields :
       \E e \in Tags(c, s) :
         LET r == [at |-> "fetch", op |-> op, id |-> s, etag |-> e, fields |-> {f}]
         IN  /\ op = "update" \/ f = "name"
             /\ op = "delete" => e = NoTag
             /\ SetCache(Lookup(cache, s))
             /\ IF Hit(cache, s) THEN Found(c, r, cache.data[s].row)
                ELSE req' = [req EXCEPT ![c] = r] /\ UNCHANGED seen
    /\ Counted(c)
    /\ UNCHANGED <<db, clock, unused>>

(* A miss reads the table; a missing row is answered 404.                   *)
Fetch(c) ==
    /\ At(c, "fetch")
    /\ LET row == db[req[c].id]
       IN  req' = [req EXCEPT ![c] =
                    IF row = NoRow THEN Idle
                    ELSE [at |-> "store", op |-> @.op, id |-> @.id, etag |-> @.etag,
                          fields |-> @.fields, row |-> row]]
    /\ UNCHANGED <<db, cache, seen, clock, unused, excused>>

(* ... and caches the row it read, whatever has happened since.             *)
Store(c) ==
    /\ At(c, "store")
    /\ Caches(req[c].id, req[c].row)
    /\ LET r == req[c]
       IN  Found(c, [at |-> "fetch", op |-> r.op, id |-> r.id, etag |-> r.etag, fields |-> r.fields], r.row)
    /\ UNCHANGED <<db, clock, unused>>

(* list_streams reads a page of the table and, unless it is long, caches    *)
(* its rows one by one.                                                     *)
List(c) ==
    /\ At(c, "idle")
    /\ \E page \in SUBSET {s \in Streams : db[s] # NoRow} :
         /\ Cardinality(page) \in 1 .. CacheLimit
         /\ req' = [req EXCEPT ![c] = [at |-> "page", rows |-> {db[s] : s \in page}]]
    /\ Counted(c)
    /\ UNCHANGED <<db, cache, seen, clock, unused, excused>>

StoreListed(c) ==
    /\ At(c, "page")
    /\ \E row \in req[c].rows :
         /\ Caches(row.id, row)
         /\ req' = [req EXCEPT ![c] = IF @.rows = {row} THEN Idle
                                      ELSE [at |-> "page", rows |-> @.rows \ {row}]]
    /\ UNCHANGED <<db, seen, clock, unused>>

(* The administrator's routes and the pages' forms use StreamRepository     *)
(* itself, past the cache.                                                  *)
BeginUncached(c, r) ==
    /\ At(c, "idle")
    /\ req' = [req EXCEPT ![c] = r]
    /\ Counted(c)
    /\ UNCHANGED <<db, cache, seen, clock, unused, excused>>

CreateHandler(c) == BeginUncached(c, [at |-> "insert", op |-> "admin"])
UpdateHandler(c) ==
    \E s \in Streams \ unused, f \in Fields :
        BeginUncached(c, [at |-> "read", op |-> "admin", id |-> s, fields |-> {f}])
DeleteHandler(c) ==
    \E s \in Streams \ unused : BeginUncached(c, [at |-> "drop", op |-> "admin", id |-> s])

(* The form of the edit page comes with all fields, changed or not.         *)
CreateForm(c) == BeginUncached(c, [at |-> "insert", op |-> "admin"])
UpdateForm(c) ==
    \E s \in Streams \ unused :
        BeginUncached(c, [at |-> "read", op |-> "admin", id |-> s, fields |-> Fields])

(* The import replaces the stream that find_by_name_and_user knows by the   *)
(* name of an imported one: a delete, then a create.  An import under a new *)
(* name is one more create.                                                 *)
Replace(c) ==
    \E s \in Streams :
        db[s] # NoRow /\ BeginUncached(c, [at |-> "drop", op |-> "import", id |-> s])
Import(c) == Replace(c) \/ BeginUncached(c, [at |-> "insert", op |-> "admin"])
ImportPage(c) == Replace(c) \/ BeginUncached(c, [at |-> "insert", op |-> "admin"])

Uncached(c) ==
    \/ CreateHandler(c) \/ UpdateHandler(c) \/ DeleteHandler(c)
    \/ CreateForm(c) \/ UpdateForm(c)
    \/ Import(c) \/ ImportPage(c)

(* create_stream of the API. *)
BeginCreate(c) == BeginUncached(c, [at |-> "insert", op |-> "create"])

(* StreamRepository::create.  An administrator's new stream is not cached.  *)
Insert(c) ==
    /\ At(c, "insert") /\ clock < MaxWrites
    /\ \E s \in unused :
         LET row == [id |-> s, name |-> clock + 1, config |-> clock + 1,
                     status |-> "inactive", upd |-> clock + 1]
         IN  /\ db' = [db EXCEPT ![s] = row]
             /\ unused' = unused \ {s}
             /\ req' = [req EXCEPT ![c] =
                         IF req[c].op = "create"
                         THEN [at |-> "cache", op |-> "create", id |-> s, row |-> row]
                         ELSE Idle]
    /\ clock' = clock + 1
    /\ UNCHANGED <<cache, seen, excused>>

(* An update whose row is gone: the cached repository drops the entry and   *)
(* the handler's expect() panics, an administrator is answered null.        *)
Missing(c) ==
    /\ SetCache(IF req[c].op = "update" THEN Invalidate(cache, req[c].id) ELSE cache)
    /\ Done(c)
    /\ UNCHANGED <<db, seen, unused>>

(* StreamRepository::update takes its timestamp and reads the row ...       *)
Read(c) ==
    /\ At(c, "read") /\ clock < MaxWrites
    /\ clock' = clock + 1
    /\ LET row == db[req[c].id]
       IN  \/ row = NoRow /\ Missing(c)
           \/ /\ row # NoRow
              /\ req' = [req EXCEPT ![c] =
                          [at |-> "write", op |-> @.op, id |-> @.id, fields |-> @.fields,
                           row |-> row, stamp |-> clock + 1]]
              /\ UNCHANGED <<db, cache, seen, unused, excused>>

(* ... and then writes every settable field: the one the request gives, and *)
(* the others as it has read them.  The status stays as it is in the table. *)
Updated(r, row) ==
    [row EXCEPT !.name   = IF "name" \in r.fields THEN r.stamp ELSE r.row.name,
                !.config = IF "config" \in r.fields THEN r.stamp ELSE r.row.config,
                !.upd    = r.stamp]

\* Faulty: the row is put together from what was read, not from the table.
UpdatedFromRead(r, row) ==
    [r.row EXCEPT !.name   = IF "name" \in r.fields THEN r.stamp ELSE r.row.name,
                  !.config = IF "config" \in r.fields THEN r.stamp ELSE r.row.config,
                  !.upd    = r.stamp]

\* What the cached repository caches: the row UPDATE .. RETURNING gave.
Returned(r, row) == Updated(r, row)

Write(c) ==
    /\ At(c, "write")
    /\ LET r == req[c]
           row == db[r.id]
       IN  \/ row = NoRow /\ Missing(c)
           \/ /\ row # NoRow
              /\ db' = [db EXCEPT ![r.id] = Updated(r, row)]
              /\ IF r.op = "update"
                 THEN /\ req' = [req EXCEPT ![c] =
                                  [at |-> "cache", op |-> "update", id |-> r.id,
                                   row |-> Returned(r, row)]]
                      /\ UNCHANGED excused
                 ELSE Done(c) /\ Excuses(r.id)
              /\ UNCHANGED <<cache, seen, unused>>
    /\ UNCHANGED clock

(* create and update cache the row the statement returned (update after     *)
(* invalidating, which the put would do anyway) and answer it.              *)
CacheReturned(c) ==
    /\ At(c, "cache")
    /\ Caches(req[c].id, req[c].row)
    /\ seen' = [seen EXCEPT ![c] = req[c].row]
    /\ Done(c)
    /\ UNCHANGED <<db, clock, unused>>

(* StreamRepository::delete.  Where no row was deleted the answer is 404    *)
(* and the cache is left alone; an import goes on to create in any case.    *)
DropRow(c) ==
    /\ At(c, "drop")
    /\ LET r == req[c]
       IN  /\ db' = [db EXCEPT ![r.id] = NoRow]
           /\ req' = [req EXCEPT ![c] =
                       CASE r.op = "import" -> [at |-> "insert", op |-> "admin"]
                         [] r.op = "delete" /\ db[r.id] # NoRow -> [at |-> "forget", id |-> r.id]
                         [] OTHER -> Idle]
           /\ IF r.op = "delete" THEN UNCHANGED excused ELSE Excuses(r.id)
    /\ UNCHANGED <<cache, seen, clock, unused>>

\* Faulty: the deleted stream's entry stays.
ForgetNothing(c) ==
    /\ At(c, "forget")
    /\ Done(c)
    /\ UNCHANGED <<db, cache, seen, clock, unused, excused>>

Forget(c) ==
    /\ At(c, "forget")
    /\ SetCache(Invalidate(cache, req[c].id))
    /\ Done(c)
    /\ UNCHANGED <<db, seen, clock, unused>>

(* A statement fails, or the connection is closed and the request's future  *)
(* dropped: nothing more of the request happens, also when its statement    *)
(* has been carried out and the cache not been told.                        *)
Dropped(c) ==
    /\ ~At(c, "idle")
    /\ IF req[c].at \in {"cache", "forget"} THEN Excuses(req[c].id) ELSE UNCHANGED excused
    /\ Done(c)
    /\ UNCHANGED <<db, cache, seen, clock, unused>>

(* The capture manager's update_execution_status, past the cache.           *)
StatusWrite(s) ==
    /\ db[s] # NoRow /\ clock < MaxWrites
    /\ \E st \in {"inactive", "active"} :
         db' = [db EXCEPT ![s].status = st, ![s].upd = clock + 1]
    /\ clock' = clock + 1
    /\ Excuses(s)
    /\ UNCHANGED <<cache, req, seen, unused>>

Tick ==
    /\ \E s \in Streams : Hit(cache, s)
    /\ SetCache(Aged(cache))
    /\ UNCHANGED <<db, req, seen, clock, unused>>

(* The server starts again: requests and cache are gone, the clients' rows  *)
(* are not; reset_stale_active_statuses leaves updated_at as it is.         *)
Restart ==
    /\ cache' = EmptyCache
    /\ req' = [c \in Clients |-> Idle]
    /\ db' = [s \in Streams |->
                IF db[s] = NoRow THEN NoRow ELSE [db[s] EXCEPT !.status = "inactive"]]
    /\ excused' = {}
    /\ UNCHANGED <<seen, clock, unused>>

Continue(c) ==
    /\ \/ Fetch(c) \/ Store(c) \/ StoreListed(c) \/ Insert(c) \/ Read(c) \/ Write(c)
       \/ CacheReturned(c) \/ DropRow(c) \/ Forget(c)
    /\ UNCHANGED begun

Next ==
    \/ \E c \in Clients :
         \/ Begin(c) \/ List(c) \/ BeginCreate(c) \/ Uncached(c)
         \/ Continue(c) \/ (Dropped(c) /\ UNCHANGED begun)
    \/ /\ (\E s \in Streams : StatusWrite(s)) \/ Tick \/ Restart
       /\ UNCHANGED begun

(* The runtime polls a request whose statement has been answered, and time  *)
(* passes.                                                                  *)
RoutesFairness == WF_vars(Tick /\ UNCHANGED begun) /\ \A c \in Clients : WF_vars(Continue(c))

Spec == Init /\ [][Next]_vars /\ RoutesFairness
-----------------------------------------------------------------------------
EntryOK(e) == e = NoEntry \/ (e.row \in Row /\ e.age \in 0 .. TTL)

(* The tables and the cache hold what they should; the cache never holds    *)
(* more than max_size entries, and its two collections have the same keys,  *)
(* each once in the order of use: a key left over in either one would be    *)
(* found by no eviction, or be evicted in place of another                  *)
(* (cache.rs LruCache::get, put, invalidate).                               *)
RoutesTypeOK ==
    /\ \A s \in Streams : db[s] = NoRow \/ (db[s] \in Row /\ db[s].id = s)
    /\ \A s \in Streams : EntryOK(cache.data[s])
    /\ Cardinality(Cached(cache.data)) <= MaxSize
    /\ ToSet(cache.order) = Cached(cache.data)
    /\ Len(cache.order) = Cardinality(Cached(cache.data))
    /\ \A c \in Clients : seen[c] = NoRow \/ seen[c] \in Row
    /\ clock \in Stamps
    /\ \A s \in unused : db[s] = NoRow

RowsOf(r) ==
    (IF r.at \in {"store", "write", "cache"} THEN {r.row} ELSE {})
        \cup (IF r.at = "page" THEN r.rows ELSE {})

ServerRows ==
    ({db[s] : s \in Streams} \ {NoRow})
        \cup {cache.data[s].row : s \in Cached(cache.data)}
        \cup UNION {RowsOf(req[c]) : c \in Clients}

(* The ETag (routes/streams.rs generate_etag) identifies a row: two rows of *)
(* one stream with the same updated_at are the same row, wherever they are  *)
(* held in the server, and agree in all an update sets when one of them is  *)
(* a client's copy from before a restart.  Otherwise a 304 would confirm a  *)
(* copy that is out of date, and If-Match would let an update through.      *)
EtagIdentifiesRow ==
    \A r1 \in ServerRows :
      /\ \A r2 \in ServerRows : r1.id = r2.id /\ r1.upd = r2.upd => r1 = r2
      /\ \A c \in Clients :
           seen[c] # NoRow /\ seen[c].id = r1.id /\ seen[c].upd = r1.upd =>
               seen[c].name = r1.name /\ seen[c].config = r1.config

(* A cached row that is not the table's is explained: the request that      *)
(* changed the table has yet to tell the cache, or the entry is one of      *)
(* those a race, a write past the cache or a dropped request left behind.   *)
(* Nothing else gets past the invalidation of CachedStreamRepository.       *)
StaleIsExplained ==
    \A s \in Cached(cache.data) :
        \/ cache.data[s].row = db[s]
        \/ s \in excused
        \/ \E c \in Clients : req[c].at \in {"cache", "forget"} /\ req[c].id = s

(* However the races went, once the table is left alone the cache serves    *)
(* the table's rows again, and no deleted stream, though it goes on being   *)
(* read: the entries that are out of date expire (cache.rs is_expired).     *)
CacheRecovers ==
    <>[](\A s \in Streams : Hit(cache, s) => cache.data[s].row = db[s])
=============================================================================
