---------------------------- MODULE SnapshotPool ----------------------------
(***************************************************************************)
(* The read path of the web facade: a pool that shares one snapshot among    *)
(* the requests at a watermark, requests on any thread, an owner that         *)
(* commits meanwhile, and the end of the application's lifespan.             *)
(***************************************************************************)
EXTENDS Snapshots

CONSTANTS
    Requests,    \* worker slots that serve one request after another
    Principals,  \* the identities of requests, NULL for none
    Rows,        \* the contents a commit writes to a record
    Stores,      \* the records the store may hold when it opens
    Asked,       \* the queries asked: type and condition
    MaxTid,      \* bound: number of commits
    MaxSnaps,    \* bound: snapshots opened
    MaxPools,    \* bound: pools created
    MaxRequests, \* bound: requests that arrive
    Env          \* what happens, a subset of Features

(* "handwired": an application may pin its own store, the first request then   *)
(* creates the pool and no lifespan closes it.  "undrained": the lifespan may  *)
(* end with requests in flight.  "nofile": opening a read view may fail.       *)
Features == {"handwired", "undrained", "nofile"}
ASSUME PoolFeatures == Env \subseteq Features
(* The slots are the worker threads: finitely many, and none is the absent one. *)
ASSUME RequestSlots == IsFiniteSet(Requests) /\ NULL \notin Requests
(* A shape has label columns or not; NULL is neither labels nor a bitmap. *)
ASSUME PoolRows ==
    /\ \A recs \in Stores : /\ DOMAIN recs = Oids
                            /\ \A o \in Present(recs) : /\ recs[o].labelled \in BOOLEAN
                                                        /\ Columns(recs[o]) # NULL
    /\ \A row \in Rows : row.labelled \in BOOLEAN /\ Columns(row) # NULL
    /\ \A S \in SUBSET Oids : S # NULL
(* A query names a class; validate_window has accepted its window. *)
ASSUME PoolQueries ==
    /\ MaxOid \in Nat
    /\ \A q \in Asked : /\ q.type \in Live
                        /\ q.offset \in Nat
                        /\ q.limit = NULL \/ q.limit \in Nat

VARIABLES
    wired,        \* the application was built with store_lifespan
    disk, types,  \* the committed records and type rows
    durable,      \* the TID of the last batch on the backend, from 0 when the store opens
    last_tid,     \* Store.last_tid, behind durable between P2 and P3
    store,        \* "open", "closing": the pool is closed, "closed"
    snaps,        \* the snapshots opened so far, with their handles' readable sets
    pool,         \* the pool pinned on app.state, 0 for none
    current,      \* of each pool, its current snapshot, 0 for none
    locked,       \* of each pool, the request that holds its lock, or NULL
    req,          \* of each slot, its request
    arrived       \* number of requests so far

storeVars == <<wired, disk, types, durable, last_tid, store>>
poolVars == <<snaps, pool, current, locked>>
vars == <<storeVars, poolVars, req, arrived>>

Anonymous == [uid |-> 0, memberships |-> [g \in {} |-> 0]]

(* since: the watermark when the request came in.  readable: what its own       *)
(* handle has compiled; a request without a principal uses the shared base.    *)
Idle == [phase |-> "idle", p |-> NULL, pool |-> 0, at |-> 0, since |-> 0, readable |-> <<>>]

Snaps == DOMAIN snaps
Reading(s) == {r \in Requests : req[r].phase = "reading" /\ req[r].at = s}

-----------------------------------------------------------------------------
(* The owner. *)

(* P2: one record written or deleted; readers see it before P3 has run. *)
Land ==
    /\ store = "open" /\ durable = last_tid /\ durable < MaxTid
    /\ \E o \in Oids, row \in Rows \cup {NoRec} :
          /\ disk[o] # row
          /\ disk' = [disk EXCEPT ![o] = row]
          /\ types' = IF row = NoRec THEN types ELSE types \cup {<<row.type, row.labelled>>}
    /\ durable' = durable + 1
    /\ UNCHANGED <<wired, last_tid, store, poolVars, req, arrived>>

Finalize ==
    /\ last_tid < durable
    /\ last_tid' = durable
    /\ UNCHANGED <<wired, disk, types, durable, store, poolVars, req, arrived>>

-----------------------------------------------------------------------------
(* The pool. *)

(* A bug: the superseded snapshot is closed under its readers. *)
Bug_maybe_close(ss, s) ==
    IF ss[s].retired THEN [ss EXCEPT ![s].core.closed = TRUE] ELSE ss

_maybe_close(ss, s) ==
    IF ss[s].retired /\ ss[s].refs <= 0 THEN [ss EXCEPT ![s].core.closed = TRUE] ELSE ss

(* The base handle of a pooled snapshot is anonymous. *)
_PooledSnapshot == [core |-> _SnapshotCore(durable, disk, types), base |-> <<>>,
                    refs |-> 0, retired |-> FALSE]

Arrive(r) ==
    /\ req[r].phase = "idle" /\ store # "closed" /\ arrived < MaxRequests
    /\ store = "closing" => "undrained" \in Env
    /\ \E p \in Principals :
          req' = [req EXCEPT ![r] = [Idle EXCEPT !.phase = "start", !.p = p, !.since = last_tid]]
    /\ arrived' = arrived + 1
    /\ UNCHANGED <<storeVars, poolVars>>

(* _get_pool: the pool of the application, or the way to create it. *)
_get_pool(r) ==
    /\ req[r].phase = "start"
    /\ req' = [req EXCEPT ![r].phase = IF pool = 0 THEN "create" ELSE "acquire",
                          ![r].pool = pool]
    /\ UNCHANGED <<storeVars, poolVars, arrived>>

CreatePool(r) ==
    /\ req[r].phase = "create" /\ (pool = 0 => Len(current) < MaxPools)
    /\ IF pool = 0 THEN /\ current' = Append(current, 0) /\ locked' = Append(locked, NULL)
                        /\ pool' = Len(current) + 1
       ELSE UNCHANGED <<current, locked, pool>>
    /\ req' = [req EXCEPT ![r].phase = "acquire", ![r].pool = pool']
    /\ UNCHANGED <<storeVars, snaps, arrived>>

(* A bug: the watermark is not compared. *)
Bug_AcquireShared(r) ==
    LET s == current[req[r].pool] IN
    /\ req[r].phase = "acquire" /\ locked[req[r].pool] = NULL /\ s # 0
    /\ snaps' = [snaps EXCEPT ![s].refs = @ + 1]
    /\ req' = [req EXCEPT ![r].phase = "reading", ![r].at = s]
    /\ UNCHANGED <<storeVars, pool, current, locked, arrived>>

(* acquire(): the lock, the watermark, and the current snapshot if it is at it. *)
AcquireShared(r) ==
    LET k == req[r].pool
        s == current[k]
    IN  /\ req[r].phase = "acquire" /\ locked[k] = NULL
        /\ s # 0 /\ snaps[s].core.tid = last_tid
        /\ snaps' = [snaps EXCEPT ![s].refs = @ + 1]
        /\ req' = [req EXCEPT ![r].phase = "reading", ![r].at = s]
        /\ UNCHANGED <<storeVars, pool, current, locked, arrived>>

(* ... otherwise it is retired first, and the lock kept while a view is opened. *)
AcquireStale(r) ==
    LET k == req[r].pool
        s == current[k]
    IN  /\ req[r].phase = "acquire" /\ locked[k] = NULL
        /\ s # 0 => snaps[s].core.tid # last_tid
        /\ snaps' = IF s = 0 THEN snaps ELSE _maybe_close([snaps EXCEPT ![s].retired = TRUE], s)
        /\ locked' = [locked EXCEPT ![k] = r]
        /\ req' = [req EXCEPT ![r].phase = "pin"]
        /\ UNCHANGED <<storeVars, pool, current, arrived>>

(* Store.snapshot(): the view pins what is durable by now. *)
AcquirePinned(r) ==
    LET k == req[r].pool
        n == Len(snaps) + 1
    IN  /\ req[r].phase = "pin" /\ store # "closed" /\ n <= MaxSnaps
        /\ snaps' = Append(snaps, [_PooledSnapshot EXCEPT !.refs = 1])
        /\ current' = [current EXCEPT ![k] = n]
        /\ locked' = [locked EXCEPT ![k] = NULL]
        /\ req' = [req EXCEPT ![r].phase = "reading", ![r].at = n]
        /\ UNCHANGED <<storeVars, pool, arrived>>

(* ... or raises: the request fails, the pool keeps the retired snapshot. *)
AcquireFails(r) ==
    /\ req[r].phase = "pin"
    /\ {"nofile", store} \cap (Env \cup {"closed"}) # {}
    /\ locked' = [locked EXCEPT ![req[r].pool] = NULL]
    /\ req' = [req EXCEPT ![r] = Idle]
    /\ UNCHANGED <<storeVars, snaps, pool, current, arrived>>

release(r) ==
    LET s == req[r].at IN
    /\ req[r].phase = "reading" /\ locked[req[r].pool] = NULL
    /\ snaps' = _maybe_close([snaps EXCEPT ![s].refs = @ - 1], s)
    /\ req' = [req EXCEPT ![r] = Idle]
    /\ UNCHANGED <<storeVars, pool, current, locked, arrived>>

-----------------------------------------------------------------------------
(* What a request reads.  The lock of the core makes each call atomic; a       *)
(* closed snapshot refuses them all.                                         *)

principal(r) == IF req[r].p = NULL THEN Anonymous ELSE req[r].p

(* A bug: what one handle compiled, all handles of the snapshot use. *)
Bug_handle(r) == snaps[req[r].at].base

handle(r) == IF req[r].p = NULL THEN snaps[req[r].at].base ELSE req[r].readable

Serving(r) == req[r].phase = "reading" /\ ~snaps[req[r].at].core.closed

(* The core once r has dereferenced the objects S. *)
Deref(r, S) ==
    /\ Serving(r)
    /\ (S \cap Present(snaps[req[r].at].core.recs)) \ DOMAIN snaps[req[r].at].core.cache # {}
    /\ snaps' = [snaps EXCEPT ![req[r].at].core = load_missing(@, S)]
    /\ UNCHANGED <<storeVars, pool, current, locked, req, arrived>>

(* The core and the handle once r has asked for a class. *)
Indexed(r, type) == class_indexes(snaps[req[r].at].core, type)
Compiled(r, type) ==
    IF type \notin Protected THEN handle(r)
    ELSE _readable_for(handle(r), principal(r), Indexed(r, type).indexes[type], type)
Queried(r, q) ==
    LET c == Indexed(r, q.type)
        w == Windowed(c, Compiled(r, q.type), q.type, q)
    IN  load_missing(c, {w[i] : i \in DOMAIN w})

Query(r) ==
    /\ Serving(r)
    /\ \E q \in Asked :
          LET s == req[r].at
              h == Compiled(r, q.type)
              c == Queried(r, q)
          IN  /\ snaps' = [snaps EXCEPT ![s].core = c,
                                        ![s].base = IF req[r].p = NULL THEN h ELSE @]
              /\ req' = [req EXCEPT ![r].readable = IF req[r].p = NULL THEN @ ELSE h]
    /\ UNCHANGED <<storeVars, pool, current, locked, arrived>>

Reversed(r) ==
    LET c == ensure_reverse(snaps[req[r].at].core)
    IN  load_missing(c, UNION {c.reverse[t] : t \in Oids})

Incoming(r) ==
    /\ Serving(r) /\ snaps[req[r].at].core.reverse = NotBuilt
    /\ snaps' = [snaps EXCEPT ![req[r].at].core = Reversed(r)]
    /\ UNCHANGED <<storeVars, pool, current, locked, req, arrived>>

-----------------------------------------------------------------------------
(* The end of the lifespan, on the owner thread. *)

InFlight == {r \in Requests : req[r].phase # "idle"}

PoolClose ==
    /\ store = "open" /\ durable = last_tid
    /\ InFlight # {} => "undrained" \in Env
    /\ wired => locked[pool] = NULL
    /\ IF wired /\ current[pool] # 0
       THEN snaps' = [snaps EXCEPT ![current[pool]].core.closed = TRUE]
       ELSE UNCHANGED snaps
    /\ IF wired THEN current' = [current EXCEPT ![pool] = 0] /\ pool' = 0
       ELSE UNCHANGED <<current, pool>>
    /\ store' = "closing"
    /\ UNCHANGED <<wired, disk, types, durable, last_tid, locked, req, arrived>>

StoreClose ==
    /\ store = "closing"
    /\ store' = "closed"
    /\ UNCHANGED <<wired, disk, types, durable, last_tid, poolVars, req, arrived>>

Init ==
    /\ disk \in Stores
    /\ types = {<<disk[o].type, disk[o].labelled>> : o \in Present(disk)}
    /\ durable = 0 /\ last_tid = 0 /\ store = "open"
    /\ snaps = <<>>
    /\ wired \in BOOLEAN /\ (~wired => "handwired" \in Env)
    /\ IF wired THEN pool = 1 /\ current = <<0>> /\ locked = <<NULL>>
       ELSE pool = 0 /\ current = <<>> /\ locked = <<>>
    /\ req = [r \in Requests |-> Idle] /\ arrived = 0

Serve(r) ==
    \/ _get_pool(r) \/ CreatePool(r) \/ AcquireShared(r) \/ AcquireStale(r)
    \/ AcquirePinned(r) \/ AcquireFails(r) \/ release(r)

Next ==
    \/ Land \/ Finalize \/ PoolClose \/ StoreClose
    \/ \E r \in Requests :
          \/ Arrive(r) \/ Serve(r) \/ Query(r) \/ Incoming(r)
          \/ \E o \in Oids : Deref(r, {o})

Spec == Init /\ [][Next]_vars

-----------------------------------------------------------------------------
(***************************************************************************)
(* The life of a snapshot.  Until the lifespan ends, no request reads a        *)
(* closed snapshot, and one is open only while it is current or some request   *)
(* reads it: no read transaction outlives its use.                            *)
(***************************************************************************)
OpenWhileUsed ==
    store = "open" => \A s \in Snaps :
        /\ Reading(s) # {} => ~snaps[s].core.closed
        /\ ~snaps[s].core.closed => s = current[pool] \/ Reading(s) # {}

(***************************************************************************)
(* Read your writes: a request reads a watermark at or past the one that was    *)
(* acknowledged when it came in, though the pool compares watermarks before    *)
(* the view is pinned and commits land in between.                            *)
(***************************************************************************)
ReadsAcknowledged ==
    \A r \in Requests : req[r].phase = "reading" => snaps[req[r].at].core.tid >= req[r].since

(* The reference: the records and labels as a scan finds them, one by one.     *)
MayRead(p, rec) ==
    \/ rec.type \in Live \ Protected
    \/ rec.type \notin Live /\ ~rec.labelled
    \/ is_root(p)
    \/ rec.type \in Protected /\ rec.labelled /\ can_read_row(p, rec.owner, rec.groups, rec.floor)
    \/ rec.type \in Protected /\ ~rec.labelled /\ can_read_row(p, 0, {WORLD}, VIEWER)

Matches(rec, q) ==
    /\ rec.type = q.type
    /\ q.key # NULL => rec.key = q.key
    /\ q.size # NULL => rec.size = q.size

Expected(c, p, q) ==
    apply_window(ascending({o \in Present(c.recs) :
                               Matches(c.recs[o], q) /\ MayRead(p, c.recs[o])}),
                 q.limit, q.offset)

(***************************************************************************)
(* One snapshot, many principals: whatever the other requests on a snapshot     *)
(* have materialized, indexed or compiled, and whatever was committed since,    *)
(* every surface answers a request as a scan of the pinned records fenced for  *)
(* its principal would: the discoveries leave out what it may not read, the     *)
(* dereferences refuse or redact it, and nothing else.                        *)
(***************************************************************************)
Isolated ==
    \A r \in Requests : Serving(r) =>
        LET core == snaps[req[r].at].core
            p == principal(r)
            c == load_missing(core, Oids)
            granted(o) == o \in Present(c.recs) /\ MayRead(p, c.recs[o])
        IN
        /\ \A o \in Oids :
              /\ granted(o) <=> open_blob(c, p, o)
              /\ granted(o) => /\ get(c, p, o) = get_many(c, p, o)
                               /\ get(c, p, o).key = c.recs[o].key
              /\ ~granted(o) => get(c, p, o) \in {Dangling, Refused}
        /\ \A q \in Asked :
              LET h == Compiled(r, q.type)
                  found == query(Queried(r, q), h, q.type, q)
              IN  /\ [i \in DOMAIN found |-> found[i].oid] = Expected(core, p, q)
                  /\ q.limit = NULL /\ q.offset = 0 =>
                        count(Indexed(r, q.type), h, q.type, q) = Len(found)
                  /\ explain(Indexed(r, q.type), h, q.type, q).candidates \in
                        Len(found) .. Cardinality({o \in Extent(core.recs, q.type) : granted(o)})
                  /\ index_bitmaps(Indexed(r, q.type), q.type) # Refused <=> q.type \notin Protected
        /\ \A t \in Oids : incoming(Reversed(r), p, t) =
              {o \in Present(core.recs) : t \in core.recs[o].refs /\ granted(o)}
        /\ \A t \in {x[1] : x \in core.types} :
              /\ LET listed == all(Indexed(r, t), p, Compiled(r, t), t) IN
                 IF listed = Refused
                 THEN t \notin Live /\ ~is_root(p) /\ <<t, TRUE>> \in core.types
                 ELSE {v.oid : v \in listed.views} = {o \in Extent(core.recs, t) : granted(o)}
              /\ _stream(core, p, t) # Refused =>
                    \A o \in Extent(core.recs, t) : MayRead(p, core.recs[o])

(***************************************************************************)
(* "The pool builds that index once per commit and shares it between readers    *)
(* at the watermark" (the docstring of _SnapshotPool).                          *)
(***************************************************************************)
OncePerCommit ==
    \A s, t \in Snaps : s # t => snaps[s].core.tid # snaps[t].core.tid

(***************************************************************************)
(* acquire() returns "the shared snapshot for the current watermark": what it   *)
(* hands out is open.                                                         *)
(***************************************************************************)
AcquiredOpen ==
    [][store = "open" => \A r \in Requests :
          req'[r].phase = "reading" /\ req[r].phase # "reading" =>
              ~snaps'[req'[r].at].core.closed]_vars

=============================================================================
