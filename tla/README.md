# datacrystal in TLA+

TLA+ models of datacrystal, an embedded object store for Python, with the TLC
runs that check them on small instances and the proofs that TLAPS checks for
every instance. Paths are relative to `src/`, the repository; `PROJECT.json`
maps every definition to the lines it stands for.

## 1. The system

A program keeps ordinary Python objects of `@entity` classes. A `Store` buffers
what was created, written and deleted since the last commit (a unit of work)
and makes it durable as one SQLite transaction. One process owns the directory
(a lease file), one thread or event loop owns the objects.

| component | state | operations | promises |
|---|---|---|---|
| commit engine: `_store.py`, `_async.py`, `_state.py` | per object `__dc_state__` (NEW, CLEAN, DIRTY, DELETED), the buffers `_new`, `_dirty`, `_deleted`, `_cancelled_new`, `_pending_upserts`, `last_tid`, the `_Capture` of the commit in flight | `store`, attribute writes, `delete` (by object, by key), `upsert`, `get`, `commit` in three phases, `discard`, `close` | a commit is all or nothing; a failed one changes nothing and can be retried; no write is lost, no stale value is handed out; a delete wins |
| SQLite backend: `_storage/sqlite.py` | objects, meta rows (`next_oid`, `next_tid`, types), one connection for the worker's transaction and the owner's reads | `apply`, `boot`, reads | what `apply` returned from survives a crash |
| object registry: `_registry.py` | weak map OID → live object | lookup, register, forget | one live object per OID |
| ID allocator: `_ids.py` | next OID, next TID | allocate, give back a TID | TIDs gapless, OIDs never reused |
| class indexes: `_indexes.py` | unique map, eq postings, sorted runs, reverse index | `ensure`, `check_unique`, `apply`, `apply_deletes` | the index equals what a scan of the records gives |
| delta consumers: `contract/applier.py`, `_store._deliver` | the consumer's watermark and state | `attach`, `apply`, `detach` | each delta once, in TID order, after it is durable |
| delta log: `deltalog.py` | segment files, manifest, buffer | `apply`, `flush`, `replay`, `bootstrap`, reopening | the durable watermark never lies |
| lease: `_storage/lock.py` | `used.lock`, a refresher thread, a flag | `acquire`, refresh, `release`, `_assert_lease_held` | one process writes |
| submission queue: `Store.submit`, `_async.py` | a deque of callables and futures, the pump's task | `submit`, `run_pending`, `_pump`, `close` | every accepted submission runs in order and resolves |
| federation: `_follower.py`, `web/_federation.py` | a follower's replica, the coordinator's store | `sync`, `contribute`, `fan_in`, `committing` | no lost update, all or nothing per batch |
| index sidecar cache: `_index_cache.py` | dumped indexes, stamped with a watermark and the class's markers | written by `close`, read by the next open | a stale cache is never used |
| query planner: `_conditions.py`, `_indexes.py` | none | plan, evaluate, order, window | a planned query returns what a scan returns |
| snapshots: `_snapshot.py`, the pool of `web/_app.py` | a read transaction at a watermark, what was materialized and indexed from it, reference counts | reads per principal; acquire, release, close | a view does not change, is never closed under a reader, and shows each principal its own records only |
| permissions, actors: `_permissions.py`, `_actors.py`, `_redacted.py` | label columns per record, staged and committed; the acting principal | stamping, `share`, `protect`, write gate, read fence, `acting_as` | an unreadable record is seen only redacted; a record is replaced only by who reaches its write floor |
| lazy references, containers: `_lazy.py`, `_containers.py` | a handle's OID and target, a wrapped value's owner | `Lazy.get`, mutators | every dereference passes the fence, every mutation marks its owner |
| Arrow mirror: `arrow.py` | parquet segments, manifest, pending rows | `apply`, `flush`, `compact`, `bootstrap`, `table` | the store's rows at its watermark, recoverable after any step |
| full-text index: `fts.py` | an FTS5 file with a watermark | `apply`, `bootstrap`, `search` | the documents of its watermark; only readable hits |
| schema evolution, codec, blobs, memory backend, generated web types | | | listed in `PROJECT.json` with what each does and why it is modelled in part or not |

How they interact. `Store.commit` runs P1 on the owner (discover new objects,
validate, check uniqueness, allocate the TID, encode, flip NEW/DIRTY to CLEAN),
P2 on a single IO worker (`backend.apply`), P3 on the owner again (fold the
indexes, publish `last_tid`, deliver the delta). `Store` blocks the caller
during P2; `AsyncStore` awaits it, so the owner runs other tasks in between: they
read, write, delete, upsert and build indexes over objects a batch in flight was
captured from, and their reads share the SQLite connection the worker's
transaction is open on. P1 also asks the lease whether it was lost; the lease's
refresher is a thread of its own.

What is hard here: the operations that run between P1 and P3; a P2 that fails
after its batch was captured and everything else went on; an awaiting task that
is cancelled while its transaction goes on; crashes at any step; two in-memory
maps (unique map, registry) that describe the durable state of the last P3, not
of the last P2; the file operations of the lease, each of which another process
may come between; a flush whose two durable steps can be torn by a crash or an
error; derived state (indexes, cache file, snapshots, mirrors) that is built lazily at
one moment, folded forward at another and trusted by a watermark later; labels that
exist in three versions (staged, committed, indexed) while several principals read.
`PROJECT.json` lists these as hazards, each at its line.

## 2. Plan

| order | module | models | status |
|---|---|---|---|
| 1 | `Engine` | the unit of work, both facades, indexes' unique map, backend, one consumer | done |
| 2 | `AtomicStore` | what the engine promises of its durable contents; `Engine` refines it | done |
| 3 | `EngineProofs` | types, TIDs, durability, uniqueness, index exactness, the refinement; objects, buffers, registry, the consumer | done |
| 4 | `LeaseLock`, `LeaseProofs` | the lease file by file operation; mutual exclusion | done |
| 5 | `DeltaLog`, `DeltaLogProofs` | the durable delta stream: files, manifest, recovery, replay | done |
| 6 | `SubmitQueue`, `SubmitProofs` | the queue of both facades, the pump, its commits beside those of tasks, `close` | done |
| 7 | `Federation`, `FederationProofs` | followers, contributions, fan-in, conflicts, lost replies | done |
| 8 | `ReadFence`, `ClassIndexes`, `IndexReads`, `Queries` | the permission predicates; the indexes of a class and their cache file; one predicate, AND, OR and lookups; conditions, planner, windows | done |
| 9 | `IndexProofs` | the compiled bitmap is the predicate on a row; the indexes are those of a scan; lookups and queries are exact | done |
| 10 | `Permissions`, `PermissionProofs` | labels from birth to commit, write gate, checkpoint of dereferences, acting identities | done |
| 11 | `Snapshots`, `SnapshotPool`, `PoolProofs` | the shared core, the fenced surfaces, the pool of the web facade | done |
| 12 | `SidecarRows`, `ArrowMirror`, `TextIndex`, `Sidecars` | the two derived copies, their files, their recovery | done |
| 13 | proofs | the sidecars | left |
| 14 | `migrate`, blobs, the demotion of lazy references | | left |

Composition: `ClassIndexes` extends `ReadFence` and is extended by `IndexReads`, that by
`Queries`;
`Permissions` and `Snapshots` extend `ReadFence` too, so that the live store, the
snapshots and the bitmaps are judged by one definition of who may read;
`SnapshotPool` runs `Snapshots`, and `Sidecars` runs `ArrowMirror` and `TextIndex`
behind one store, so that a fault of one consumer meets the delivery to the other.

## 3. The modules and the code

### Engine

One entity class with one `dc.Unique` field stands for the schema; a record's
payload is the value of that field. `Insts` are Python objects, `FREE` those the
store does not know. A dictionary is a total function, `None` = no entry.

| variables | code |
|---|---|
| `st`, `oidOf`, `val` | `__dc_state__`, `__dc_oid__`, the field |
| `new`, `dirty`, `deleted`, `cancelledNew`, `pendingUpserts` | `Store._new`, `_dirty`, `_deleted`, `_cancelled_new`, `_pending_upserts` |
| `registry` | `ObjectRegistry._by_oid` |
| `nextOid`, `nextTid`, `lastTid` | `IdAllocator`, `Store._last_tid` |
| `cidKnown`, `cidDurable` | the class in `_cid_by_typename`, `_durable_cids` |
| `built`, `unique` | the lazily built unique map of `ClassIndexes` |
| `capture` | the `_Capture` a commit drives: batch, flipped objects with their prior states, deletes, delta |
| `io`, `db` | the transaction on the worker and what is durable |
| `consumer` | a `ReferenceApplier` and whether it is attached |

| actions | code |
|---|---|
| `Store`, `Write`, `Load`, `Forget`, `Lookup` | `store`, `touch` and the assignment, `_materialize_graph`, the weak registry, `IndexManager.ensure` |
| `DeleteInstance`, `DeleteByKey` | `delete`, `_delete_instance`, `_delete_oid` |
| `UpsertInsert`, `UpsertTracked`, `UpsertMerge`, `UpsertHydrate` | the branches of `upsert` and `_find_by_key` |
| `P1Capture`, `P1RejectUnique`, `P1RejectPriors` | `_p1_capture` and the two ways it raises |
| `P2Begin`, `P2Deletes`, `P2Commit`, `P2Fail` | `SqliteBackend.apply`: its records, its deletes, COMMIT, or an exception before it |
| `P3Finalize` | `_p3_finalize` with `IndexManager.apply` and `_deliver` |
| `P2Rollback`, `Cancel` | `_p2_rollback`, called for a failed P2 or for a `CancelledError` |
| `Rebuild`, `Attach`, `Detach`, `Discard`, `Crash` | a consumer's rebuild, `attach`, `detach`, `discard`, the death of the process and `boot` |

P1 and P3 run without an await, so each is one step. P2 is four: an owner
operation between them sees `View`, the uncommitted rows. `Env` selects what the
environment does ("async", "fail", "crash", "discard", "cancel", "consumer"), so
that a run states exactly which faults it covers.

### AtomicStore

Three variables: contents, TID of the last durable commit, TID of the last
acknowledged one. Commits replace the contents atomically, take the next TID,
keep the natural key unique, and only start when the last one was acknowledged.
`Engine!ImplementsAtomicStore` maps `objs <- db.objs`, `tid <- db.nextTid - 1`,
`acked <- lastTid`: a commit is the step of P2 that ends the transaction, P3 (or
a reboot) its acknowledgement.

### LeaseLock

Every file operation of `_storage/lock.py` is a step: `Create` (O_EXCL), `Read`
with `Stale` (`_stale_reason`), `Unlink`, `WritePayload`; `RefreshRead`,
`RefreshTmp`, `RefreshReplace` of the refresher thread; `Join`, `Check`, `Remove`
of `release`. `Boot`, `CommitP1`, `CommitP2`, `Close` are what `Store` makes of
the lease. Time is abstracted to what the margins guarantee: a refresher that
runs renews its stamp every ttl/3, so a stamp gets older than 2·ttl only while
its writer is paused, dead or past its refresher (`Expire`); `due` makes the
refreshers that run take turns, one pass per ttl/3.

### DeltaLog

A delta is its TID, a frame two cells, so that an append can tear it. `Apply`
with `FlushAppend`, `FlushManifest` and their failing forms are `apply` and
`flush`; `Open` with `Reconciled` is the constructor; `Bootstrap`, `Join` are
`bootstrap`, the removal of the old directory being one step; `Commit`, `Attach`,
`Detach` are the store that delivers; `Feed` is a log fed by hand from another record of
the stream, with duplicates and gaps. `debris` tells what a failed flush left: cells no
segment counts ("torn"), counted deltas that are still buffered ("doubled"), or, once the
flush was retried over either, cells counted twice ("counted"). Reopening ends the first two.

### SubmitQueue

The owner thread is a stack of frames (`stack`): the pump, the callable it runs,
the task whose call it is in, `close`. `SubmitCheck` and `SubmitAppend` are the two
halves of `submit` on a foreign thread, between which `close` may run; `Wake` is the
callback of `call_soon_threadsafe`, `Enter` the pump at every entry of the store.
Commits are modelled to the depth the queue needs: `P1`, the IO worker's `P2Commit`
or `P2Fail` in the order the worker was given them, `P3`, `Rollback`. A submission's
commit blocks the owner thread, a task's commit gives the loop back and holds
`AsyncStore._commit_lock`. Both facades are initial states of one run.

### Federation

The coordinator's store is what is durable (`db`), what is buffered and its delta
stream; a follower is its backend's records, its watermark and what its program
holds, has edited and waits for. A record is known by its natural key, its payload
is the sequence of the edits it has been through, so that the base token (the
SHA-256 of the payload) is the payload itself and a lost or a doubled edit shows.

| actions | code |
|---|---|
| `FanInAccept`, `FanInRefuse` | `/v1/submit`: `_upsert_checked` for every operation, then `commit` or `discard`; one callable of `store.submit`, so one step |
| `CoordinatorEdit`, `CoordinatorDelete` | the coordinator's own program between two awaits |
| `Sync`, `Contribute`, `Done` | `sync`; `commit` of a follower up to its request, and from its reply on with the `_resync` it ends in |
| `Conflict` | `_CommitAttempt.__exit__`: `discard`, `_resync`, and the block will run again |
| `Timeout`, `Lose` | the transport raises in the follower, with the request still under way or arrived; the buffers are kept and `commit` may be called again |
| `ReadRecords`, `Edit`, `Discard` | what programs do to a replica |

### ReadFence, ClassIndexes, IndexReads, Queries

`ReadFence` holds `_permissions.py`'s predicates (`level`, `is_owner`, `is_root`,
`can_read_row`). The code computes an authority as a maximum and compares it with a
floor; the model says whether the authority reaches the floor.

`ClassIndexes` is one class's `ClassIndexes` object `ci` (extent, equality postings,
sorted runs, unique maps, the remembered keys of each row) and the reverse index
`rev`; `blob`, `revBlob` are their cached forms, `sidecar` the file, `code` the class
the running program declares.

| actions | code |
|---|---|
| `Capture`, `Land`, `LandFails`, `Fold` | a commit's P1 with `check_unique`, the transaction or its rollback, P3 with `apply`, `apply_reverse`, `_invalidate_stale_blob` |
| `ensure`, `committed_labels`, `ensure_reverse` | the lazy builds: from the blob if its markers match, from a scan otherwise |
| `Close`, `Crash`, `Open`, `Redeploy` | dump to the file, death, open with the file's watermark compared, a new version of the class |

`IndexReads` and `Queries` add no state. In the first are what one predicate says of a
record (`Matches`) and how it is answered (`_plan_pred`), how AND and OR combine answered
parts, and the lookups `get` and `incoming`; in the second `evaluate` is a condition's
meaning, `plan` the split into bitmap and residual (a set of conditions left to evaluate, the
code's `And` of them), `query`, `count`, `explain` the reads composed as the store does, with
the fence as a bitmap. Both recursions go through a condition: they are functions on the set
`Conditions`, whose members have their parts in it, nested less deep (`ConditionTrees`).
`windowed_index_order` lists postings key by key and stops once the window is full
(`UntilFilled`). In any state the reads are asked a set of questions by principals of different
standing. Records are functions over the class's
fields, strings short sequences, so that containment and prefixes are real.

### Permissions

Every object is protected; its OID is its number and an object holds only later ones.
`lab` are the live object's label columns, `births` and `prestamp` the two dictionaries
of the store that remember what was stamped, `disk` the committed labels, `idx` those of
the class index (which may lag), `phase` and `inflight` the commit under way and its
capture, `scope` the open `acting_as`.

| actions | code |
|---|---|
| `store`, `_register_graph` in it | the walk from a stored object, stamping owner, group and floors inherited from the holder |
| `share`, `unshare`, `protect`, `Forge`, `Grant`, `Hold` (in `Stage`) | the verbs with their own checks, the owner column assigned by hand, memberships of an actor row, references |
| `P1Denied`, `P1Capture` | `_check_write_gate` for new, persisted and deleted records and for memberships |
| `P2Land`, `_p2_rollback`, `_p3_finalize`, `discard` | the rest of the commit, and what each does to baselines |
| `Deref`, `Lazy_get`, `_load_oid_deref` | the checkpoint: the instance, a redacted twin, or a dangling reference |
| `acting_as`, `LeaveScope`, `Collect`, `EnsureIndex`, `Restart` | sessions, the weak registry, the index build, a restart |

### Snapshots, SnapshotPool

`Snapshots` has a core (records and type rows at a TID, the caches filled so far) and
one operator per surface of `Snapshot`: `get`, `get_many`, `open_blob`, `count`, `query`,
`explain`, `all`, `_stream`, `index_bitmaps`, `incoming`, each with what it refuses,
redacts or leaves out. `SnapshotPool` is the lifespan, the pool and the request
dependencies of `web/_app.py`: `AcquireShared`, `AcquireStale`, `AcquirePinned` are the
branches of `acquire` under its lock, the last two with the watermark read before and
the view pinned after, so that a commit (`Land`, `Finalize`) may come in between;
`release`, `PoolClose`, `StoreClose` end things; `Deref`, `Query`, `Incoming` are reads
that fill the shared caches.

### SidecarRows, ArrowMirror, TextIndex, Sidecars

`ArrowMirror` and `TextIndex` are the operators: the lattice of column types and what a
cell reads back as after its column widened, a segment and its re-reading, the
newest-wins fold, the manifest, reopening; a delta inside one FTS5 transaction, the
search that widens its window. `Sidecars` runs them behind a store.

| actions | code |
|---|---|
| `Commit`, `CommitFails`, `Attach`, `Detach`, `NextConsumer` in them | P3 with `_deliver`; the class row sent again after a failed commit |
| `DeliverMirror`, `FeedMirror`, `CallMirror` | `apply`, by the store or by hand; `flush`, `compact`, `close` |
| `WriteSegment`, `CompactType`, `WriteManifest`, `UnlinkDoomed`, `FlushFails` | the steps of a flush, in the order of `sorted(self._pending)`, and an exception out of any of them |
| `BootstrapMirror`, `RemoveSegment`, `RemoveManifest`, `RemovalFails`, `StreamMirror` | bootstrap: the checks, `shutil.rmtree` file by file, then the stream chunk by chunk |
| `Unreadable` | an exception from a segment that is not there |
| `OpenMirror`, `DeliverText`, `TextFails`, `OpenText`, `CloseText`, `WipeText`, `FillText` | reopening with the sweep of orphans, the index's transaction and its bootstrap |
| `Crash` | the process dies between any two of these |

### History variables

`LeaseLock!calm`, `DeltaLog!debris` and `SubmitQueue!calm` are no state of the code.
They record whether something has happened that the code does not withstand
(overlapping openers or a pause; a failed flush and its retry; a submission's commit inside a
transaction or another commit). In `Federation`, `fresh` holds while programs edit
what they read after the last sync, `certain` while every request gets its reply,
and `accepted` is the edits committed to each record. `Permissions!registrar` is who stored
an object, `Sidecars!refused` whether a consumer was detached without an I/O error of
its own, `Sidecars!faults` how many faults there were, and `Sidecars!gutted` whether a
bootstrap has removed a segment that the manifest still names. The properties named in section 4 hold until then,
with everything still being explored after it; section 6 says what breaks then.

## 4. The runs

| run | shows | bounds |
|---|---|---|
| `EngineSync` | the blocking facade with failures, crashes, a consumer and `discard()`: uniqueness, deletes that win over writes, exact unique map, consumer in step | 2 objects, 2 keys, 2 OIDs, 2 TIDs |
| `EngineAsync` | owner operations between all steps of P2, failures, crashes: no write is lost, nothing stale is CLEAN, one live object per OID, and the refinement of `AtomicStore` | 2 objects, 2 keys, 2 OIDs, 2 TIDs |
| `EngineCancel` | cancelled commits, failures and crashes: acknowledged commits are durable, every captured commit settles | 1 object, 1 key, 2 OIDs, 3 TIDs |
| `Lease` | deaths and pauses at any step: exclusion and TIDs until the first pause; the refreshers settle on one holder; `acquire` ends | 2 processes, 2 commits |
| `DeltaLogDurable` | crashes, failing and torn writes: no recorded delta lost; until a failed flush is retried, an honest watermark and a replay of every later delta and no other, exact as long as no manifest write has failed | 4 deltas, flush every 2, 2 segments of 2 frames |
| `Federation` | two followers and the coordinator's program edit the same records while requests and replies are lost, late and repeated: no lost update, no edit twice, exact replicas | 2 followers, 2 keys, 2 edits, 4 TIDs, 2 requests each |
| `Submit` | both facades: queued submissions settle, every record ends in one batch, TIDs gapless and scopes whole until a submission commits in one | 2 submissions, 2 tasks, one of which writes |
| `Queries` | from every store of up to two records, through commits, builds, dumps, crashes, reopenings and a field that gains or loses its marker: the indexes are those of a scan, and 18 queries, the lookups and `incoming` answer what a scan of the readable records does | 3 OIDs, one commit of up to 2 operations after the initial contents, 3 rows |
| `Permissions` | both facades, an agent, a viewer and a registered actor on protected records, with failing commits, hand-set owners, discards and restarts: read fence, write fence, conservation of authority | 2 objects, 2 commits, 2 staged changes |
| `SnapshotPool` | anonymous and member requests sharing snapshots while the owner commits and the application ends: no use after close, read your writes, each principal's own fence | 2 request slots, 2 requests, 1 commit, 2 snapshots, 2 pools |
| `Sidecars` | mirror and text index behind one store with an I/O error and a crash between any two steps: exact documents, tables exact but for rounded integers, a recoverable directory unless a bootstrap stopped while it removed the old one, no healthy consumer detached, exact search | 2 types, 3 OIDs, 3 commits, flush every 2, 2 segments, 1 crash, 1 I/O error |

The run that finds a violation is in section 6. The modules state more than these runs
check: `TypeOK` of `Engine`, `LeaseLock`, `DeltaLog`, `SubmitQueue` and `Federation`,
`LossBounded`, `AttachedIsCurrent`, `WatermarksAgree`, `GaplessTids`, `CloseReleases`, `NeverLost`, `RunsAlone` and
`NothingAfterClose` are proved (section 5); `PriorsExist`, `DeletedStaysDeleted` and
`DeletedStaysBarred` of `Engine` (with `SyncEnv` in place of `DiscardEnv`) hold for the
constants of their run and can be added to its configuration. `DeltaLog!ReplayExact`,
`Sidecars!MirrorUnrounded` and `Sidecars!Recoverable` are the unconditional forms of
`ReplayComplete`, `MirrorExact` and `RecoverExact`; the code does not keep them (section 6).

Why the bounds are enough. Two objects, two OIDs and two keys are the smallest
instance in which a key can move from one record to another, be swapped, be freed
by a buffered delete and claimed at once, and in which two objects can compete
for one OID (a twin hydrated beside a captured one). Two commits let a second one
work on what the first left behind, succeeded or failed; the third is there for
what needs an insert, a delete and a resurrection. Runs with few faults use the
larger TID bounds and those with many the smaller. With one object a cancelled
commit and the one queued behind it already meet on the worker. Two processes are
a holder and whoever takes over from it; theorems cover any number of them. Four
deltas with segments of two frames roll the log with a half-full buffer and leave
two deltas to fail on. Two submissions let one be queued while the other runs, the
second task competes for the lock with the first. Two edits collide on one record, two
keys let one operation of a batch match and the other not, and two requests are a
refused or lost one and its repetition; the two further TIDs are for a delete and
what revives the record. In `Queries` the initial states are every store of two
records with one of three rows each, old shape or new, so one commit reaches every
replacement, deletion and insertion; it is the sessions around it that are long. In
`Permissions` one object can hold the other and the other is an actor row, so a label
can be inherited, staged, denied, rolled back and read by two principals. Two requests
are the one a snapshot is retired under and the one that retires it. Three commits with
a flush every two leave rows pending at a compaction, and two segments are exceeded by
the third flush; a float is exact up to 2 (`MaxExact`, for 2**53) and one of the integers is
3, so that it is rounded in a float column and re-read under that tag out of an integer
segment; the first search window is as wide as the limit (`Widening` = 1, the code's is 4),
so its edge is met by three rows. A removed directory loses its segments in one order, and
`flush`, `compact` and `close` are not called over a gutted one, where they raise each time
as a delivery does. `MaxSegNo` is never reached: there the deadlock check would report it. `MaxOid`, `MaxTid`, `MaxCommits`,
`MaxSegs`, `MaxFileCells`, `PerTask`, `Authors`, `MaxEdits`, `MaxSends`, `MaxBatch`, `MaxSnaps`, `MaxPools`, `MaxRequests`,
`MaxFaults` are bounds of the models, not of the
code; a state in which they stop the model is no deadlock of the code. Where
nothing but the bound, or the end of what callers do, ends a behaviour the deadlock
check is off (`DeltaLogDurable`, `Submit`, `Federation`, `Queries`, `Permissions`, `SnapshotPool` and the run
of section 6).

Fairness. `Engine!FairSpec`: the worker runs what it was given, and the owner's
loop resumes a commit whose future has resolved (`P2Begin`, `P2Deletes`,
`P2Commit`, `P3Finalize`, `P2Rollback`): a thread pool of one thread and a running
event loop. No call is ever obliged to be made, no failure obliged to happen or to
stop. `LeaseLock!FairSpec`: owner and refresher threads that can run do run, and a
paused process is continued some time; `SplitBrainEnds` only speaks of behaviours
in which pauses end.

`SubmitQueue!FairSpec`: the loop runs its callbacks, the owner thread what it is
inside of, the worker its queue, and a callable ends even if it retries a failing
commit (the one strong fairness). That anybody calls a blocking store again is not
assumed: `QueuedSettles` has it as its premise `OwnerReturns`, which is what
`submit` promises (it runs "on its next store call").

Every property has a mutant in `PROJECT.json`: a definition `Bug_*` beside the one
it replaces, which changes the code in a plausible way (a missing guard, an
off-by-one, a swapped order) and which the property's run then refutes.

## 5. What is proved

TLAPS checks these for all values of the constants that satisfy the modules' `ASSUME`s,
so for any number of objects, processes, followers or requests and with every fault
the theorem's hypotheses do not exclude. Where a theorem has a hypothesis it names
what the code does not withstand, and section 6 shows it failing without it.

| module | theorem | hypothesis |
|---|---|---|
| `EngineProofs` | `EngineTypes`, `EngineAckedDurable` | |
| | `EngineWatermarks`, `EngineGapless`, `EngineUnique`, `EngineIndexExact`, `EngineRefinesAtomicStore` | `NoCancel`: no task awaiting a commit is cancelled |
| | `EngineCleanAgrees` | `NoCancel` |
| | `EngineWritesBuffered`, `EngineOneLiveInstance` | `Retaining`: `NoCancel`, and no `discard()`, which forgets live objects |
| | `EngineDeleteWins`, `EngineConsumerInSync` | `Blocking`: the facade of `Store`, with `discard()` and every fault |
| `LeaseProofs` | `LeaseTypes`, `LeaseOneHolder`, `LeaseTidsSequential`, `LeaseCloseReleases`, `LeaseNeverLost` | |
| | `LeaseOneSurvives` | `AtMostTwo`: two processes share the file |
| `DeltaLogProofs` | `DeltaTypes`, `DeltaWatermarkHonest`, `DeltaReplayComplete`, `DeltaAttachedIsCurrent`, `DeltaLossBounded`, `DeltaRecordKept` | |
| `SubmitProofs` | `SubmitTypes`, `SubmitNothingLost`, `SubmitTidsGapless`, `SubmitScopeWhole`, `SubmitNothingAfterClose`, `SubmitRunsAlone` | |
| `FederationProofs` | `FederationTypes`, `FederationSerializable`, `FederationReplicaExact`, `FederationAppliedOnce` | |
| `PermissionProofs` | `PermissionCurated`, `PermissionFenced` | |
| | `PermissionAuthority` | `"revoke" \notin Env`: no registry row is deleted |
| `IndexProofs` | `ReadableBitmapExact` | the postings are exact, levels are integers |
| | `IncomingExact` | `Marked`: every version of the class has an index marker; no reverse index is first built between P1 and P3 (`"late"`) |
| | `IndexAnswersExact` | `Marked`; one default per added field (`"redefault"`); `NoIndexIsNone`: the token for "not built" is no index |
| | `FenceExact` | as `IndexAnswersExact`; `LabelRows`: the label columns are indexed in every version, a row's groups are not None, its floor is a number |
| | `LookupsExact` | as `FenceExact`; no `"late"`; a key that is looked up is not None |
| | `PredicatePlanExact` | as `IndexAnswersExact`; `Askable`: a field that is only `Unique` is not asked for None |
| | `ConjunctionPlanExact`, `DisjunctionPlanExact` | the plans of the parts select what the parts say |
| | `QueriesExact` | as `FenceExact`; no predicate on a field that is only `Unique` asks for None (`AskableParts`); those who ask hold integer levels; None is no set of OIDs |
| `PoolProofs` | `PoolTypes`, `PoolReadsAcknowledged`, `PoolIsolated` | |
| | `PoolOpenWhileUsed` | `ViewsOpen`: opening a view does not raise |

Properties that speak of a behaviour up to an event (`calm`, `fresh`, `certain` in
section 3) are proved as they stand, from invariants of the form `calm => ...`.

**Engine.** `TidInv` ties the three counters (allocator, `last_tid`, backend) to
the phase of the commit: none in flight, all agree; in flight, the allocator is
one ahead and the batch has that TID; durable, the backend is one ahead of
`last_tid`. `WatermarksAgree` alone is not inductive, since it says nothing of
the phases in between. `UniqueInv` says that the batch in flight, applied to the
records, leaves the unique values unique, and that the unique map, if built, is
exact for the records the running transaction will leave or, before it, for those
it found (the map may have been built from uncommitted rows). The two lemmas that
carry it are `BuildExact` (a map built by a scan of records with unique values is
their inverse) and `FoldExact` (folding an admissible batch into an exact map
gives an exact map); `CaptureUnique` shows that what P1 accepts is admissible.
The refinement follows: each step is a `Commit`, an `Acknowledge` or a stutter.
`AckedDurable` needs no hypothesis: under cancellation `last_tid` can be behind, never
ahead.

For the objects, `SlotInv` says that every slot of a buffer, of the registry and of the
capture holds an object of that OID, and that what a capture flipped is still the
registered instance until P3 or the rollback. `CleanInv` splits a CLEAN object by where
its value is: in the batch in flight, or durable, or deleted by a batch that P3 has not
folded. `GraphInv` (with `FreshInv`, the OID watermarks) relates state, buffer and
registry in both directions, with the exceptions the code makes for a removed OID.
In the blocking facade nothing is buffered while a commit is in flight (`SyncInv`), and
`DeltaInv` says that an attached consumer with the batch in flight applied is the
records.

**Lease.** The properties speak of the behaviour up
to the first overlap of two openers or the first pause: the history variable
`calm`, once false, stays false, so the proof carries `calm => LeaseInv`. `LeaseInv`
adds to the types: whoever is past `WritePayload` and alive owns the file, its
temporary file is its own, and only such a process has a refresher (`FileInv`,
`RefreshInv`); only a holder has a commit in flight and the holder knows every
durable commit (`StoreInv`). `calm` is needed: section 6 shows both ways to lose
the conclusions without it. `LostInv` is not about that period: a process whose refresher
has told it that the lease is lost has ended that refresher, and neither the lock file nor a
temporary file that can still replace it carries its token unless it is dead. So of two refreshers,
the one that finds the other's token cannot have been displaced by the one it displaced
(`OneSurvives`); a third process could displace both, hence `AtMostTwo`.

**Delta log.** The invariant is `DeltaInv` with `LossInv` and `FailedInv`. `DeltaInv` has four parts. `BufferInv`: the buffer holds the deltas after
`applied - Len(buffer)` up to `applied`. `ShapeInv`: segments count whole frames
and no more cells than their file has, and an open log continues the manifest's segments, the
last of them perhaps longer. `HonestInv`: the cells the manifest counts are a chain of the stream
that ends at the manifest's watermark, unless debris was counted, and without debris files end
where the counting does. An append leaves the counted cells alone, a reconciliation cuts the
files to them, and only a retried flush can count debris (section 6). `FailedInv` is what is
left of that after a failed flush: the segments, but for an empty one that the failed append
may have added (`Covered`), follow one another at least up to where the buffer begins, and
exactly so far if the append failed. So a replay has every later delta (`CoveredReplay`, on
sets), and has it once if no manifest write failed (`CoveredExactly`). `LossInv`, that
what is not buffered is behind the manifest's watermark, holds in every state. Replay filters by TID and flattens the
segments: `Framed` and `Later` are recursive functions over positions, and the lemmas on
them say that decoding a chain gives the chain and that filtering a chain above a TID gives
its rest. `RecordKept` is an action property, proved step by step from the same invariant.

**Submission queue.** `StackInv` (a task is outermost on the owner's stack) makes the
types inductive, `WireInv` says that a commit the worker has still to do is in flight,
once. `Kept` puts each write in exactly one place: the buffer, one commit in flight,
one durable transaction. `GaplessInv` allows one commit in flight while `calm`;
`ClosedInv` (a closed store has an idle worker) gives the action property
`NothingAfterClose`, `PumpInv` (one pump, callables on top of it) `RunsAlone`.

**Federation.** `SerialInv` follows an edit along its way: in the follower's buffer and
on the wire a new payload is the edit applied to what the operation says it is based
on, so the coordinator's comparison of the base with the record is enough, whatever
arrives late or twice. `OnceInv` does the same for the set of edits a record went
through. `StreamInv` says that the records are the stream of deltas replayed and a
replica is its prefix replayed; `CaughtUpOnward` (to catch up to `n` and then to the end
is to catch up) is the lemma that lets a sync skip what it has.

**Permissions.** `CaptureInv` and `GateInv` connect the gate to the commit it let
through: until P2 lands the backend is as it was when the gate passed, although labels
are edited meanwhile; `IdxInv` bounds how far the index may lag. `Curated` is an action
property, proved from them step by step. `AuthorityInv` follows memberships from the
claims into staged rows, captures, the backend and back into sessions; a root may grant
anything, so the property speaks of claims among which there is none.

**Class indexes.** `Agrees(c, R, D)` says that an index is the one of the rows `R` up to the deleted
`D`, pointwise per field and key. `IndexServes` is not inductive between P2 and P3: the
records are new, the index is that of the rows before or, if it was built meanwhile, of
the new ones. `ClassBehind` says there are such prior rows; `InsertsAgree` that folding a
batch of distinct records with free unique keys takes an index of the prior rows, and
also one that has the batch already, to the index of the new rows. That it may be
folded twice is why `_unindex` works from the remembered keys and not from the old
record. `ReverseInv` is the same for the reverse index, which has no remembered keys and
therefore needs that it is not built in that window. The cached forms are carried
through `ClassSaved` and `ReverseSaved`: exact if the file has the store's TID.

The reads between two commits follow. `FenceExact` is `ReadableBitmapExact` for the index in
use, `LookupsExact` needs that the un-index memory of an index out of the cache is rebuilt
from its postings (`RememberedLabels`). `PredicatePlanExact` says that a predicate is answered
in full or left over, the theorems on AND and OR that from plans which select what the parts
say a plan is made which selects what the condition says; `PlanSelects` goes from there
through all conditions, by the depth of the first that would fail. `Askable` is needed, as
section 6 shows.

`QueriesExact` adds the order and the window. A list of a set in the order of a relation
(`Lists`) exists if the set is finite and the relation orders it, and is unique; lists of sets
that come one after the other make a list of their union (`ListsConcat`), and a list of the
first of them is its beginning (`ListsPrefix`). So the postings of the keys in the direction
asked, those of None last, list the matched records by value and OID, and if the loop stops
before the last key the window lies within what it has (`FilledWindow`). This needs an invariant
of its own, `KeyInv`: an index has finitely many keys per field and all of them were values of
the field, so the sorted run is sortable, also with keys no record has any more. That a list
from `order_by_values` has the length of the matched set, and the fence bounds the candidates,
gives `count` and `explain`.

`ReadableBitmapExact` is what
lets count, query and the snapshots' discoveries intersect bitmaps instead of asking row
by row. The case that carries the proof is the group nobody names: the
implicit membership of the world, and the absence of standing, which no floor reaches.

**Pool.** `LockInv` (the pool's lock is held by the one request that is opening a view),
`RefsInv` (a reference count is the number of requests reading the snapshot) and
`LifeInv` (a snapshot that is not retired is current; a retired one is closed exactly
when nobody reads it). `LifeInv` fails when opening a view raises, hence `ViewsOpen`.
`ReadsAcknowledged` does not depend on it.

`Isolated` has its own invariant, `ViewInv`, which says what the caches hold that requests
share: every object in a core's cache is what its record at the pinned TID decodes to,
whoever asked for it first; postings, sorted runs and the reverse index are those of the pinned records; and the
bitmaps a handle keeps are its own principal's. Every read fills such a cache (`FillsIn`) or
leaves it (`ViewsKept`), and a commit adds rows without touching a pinned TID (`LandPinned`).
Given that, each surface is shown to answer what the fence allows: `GetsExact`,
`StreamExact`, `AllExact`, `IncomingExact`, and for a query `CandidatesExact` and
`FoundExact`, for which a list in ascending order is shown to be unique for its set and
to keep that when it is filtered or cut.

Induction. The provers cannot use a theorem that takes an operator as a parameter, so
induction over the length of a sequence is done by its least counterexample: the set of
lengths for which the claim fails is a set of naturals, a non-empty one has a least
element (`LeastNumber`, from `WellFoundedInduction`), and the step contradicts it. The folds that are
proved about this way (`Folded` of `ClassIndexes`, `CaughtUp` of `Federation`, `Framed` and `Later`
of `DeltaLog`, `UntilFilled` of `Queries`) are recursive functions over positions, `evaluate` and `plan`
functions of the condition, for which existence is proved level by level of the nesting; that the ascending list of a finite set exists
is proved by the same argument on its cardinality.

Assumptions on constants: finitely many request slots, none of them `NULL`
(`RequestSlots`); tokens for "no payload", "unchanged" and the replies are told from
payloads and requests (`FederationTokens`); levels are integers, those of verified
claims from VIEWER up, and the anonymous principal is no superuser of the world
(`PermissionLevels`); a row has every indexed field and is not the absent record
(`IndexRows`); the token for a file that is not there is no file (`NoFile` in `DeltaLogConstants`); a stored
row has label columns or not, and every OID a place in the records (`PoolRows`); a query names
a class and has a window `validate_window` accepts (`PoolQueries`); conditions are finite trees
(`ConditionTrees`), and a question of the live store has a window `validate_window` accepts and an
order `parse_order_by` accepts, by a field whose values compare (`QuestionsPosed`); the absence of a capture is none (`CaptureIsCommit`). TLC evaluates them in
the runs.

Only model-checked: the five properties
of `Sidecars` (folds over segments, columns and documents), `PriorsExist`, `DeletedStaysDeleted` and
`DeletedStaysBarred` of `Engine`, `LeaseLock!OneSurvives` for more than two processes, which does not
hold there, and liveness (`CommitSettles`, `SplitBrainEnds`, `AcquireSettles`,
`QueuedSettles`), which is out of the prover's reach.

## 6. Where code and documentation disagree

`CancelledCommit` is a run in which TLC finds `UniqueDurable` violated; `PROJECT.json`
quotes the lines. A cancelled commit becomes durable after its rollback; a second record
then gets the same key.

The others show when a configuration's `Env`, constants or property is exchanged (with
`CHECK_DEADLOCK FALSE`), with as few ingredients as it takes; none of them is a run of
its own.

| configuration, change | property | what happens |
|---|---|---|
| `EngineSync`, `Env <- RacingEnv` | `PriorsExist` | a delete by key repeated while the first is in flight is buffered again and has no record left (`_store.py:834`, `:1186`); `reference.md:271` calls a repeated delete idempotent. Also after `discard()`, through an object it left behind |
| `EngineSync`, `Env <- RacingFailEnv` | `DeletedStaysBarred` | an object deleted while its insert is in flight becomes writable when that insert fails (`_store.py:1379`) |
| `EngineSync`, `Env <- RacingConsumerEnv` | `ConsumerInSync` | a consumer attached during P2 misses that commit's delta (`_store.py:1664`) |
| `EngineSync`, `Env <- RacingEnv` | `DeleteWins` | a twin written while its delete is in flight stays in `_dirty` as DELETED, and every later commit raises (`_store.py:1036`) |
| `EngineAsync`, `Env <- OnlyDiscardEnv` | `OneLiveInstance` | after `discard()` a write to an old reference is buffered beside the fresh object of the same OID (`_store.py:492`) |
| `Lease`, `Env <- ContendEnv` | `OneWriter` | two openers that start together both hold the store: one unlinks the lock file the other has just created or written (`lock.py:50`; the module's docstring: "A fresh lock makes a second opener fail") |
| `Lease`, `Env <- PauseEnv` | `InOrder` | a continued holder commits before its refresher has looked at the file (`_store.py:1068`) |
| `DeltaLogDurable`, `Env <- FailEnv` | `DurableWatermark` | a failed flush retried in the same session appends behind its own debris and the manifest counts it (`deltalog.py:269`; `:5` says the durable watermark never lies) |
| `DeltaLogDurable`, `Env <- FailEnv` | `ReplayExact` | the manifest write of a flush raises when the segment's entry has grown and the buffer is kept (`deltalog.py:277`): until the log is reopened `replay()` yields those deltas twice, from the segment and from the buffer, where its docstring (`:221`) has "exactly the COMMIT-DELTA-v2 maps the store emitted", in TID order |
| `Submit` | `AlwaysGapless` | a submission's commit beside a task's commit that fails: a TID is missing and another is used twice (`_store.py:1643`; `reference.md:498` says concurrent commits serialize) |
| `Submit` | `ScopeAlwaysWhole` | a submission's commit inside a `transaction()` makes the first half of the scope durable (`_async.py:192`, "serialize this scope against every other transaction/commit") |
| `Submit` | `AcceptedSettles` | a submission that found the blocking store open reaches the queue after `close()` has drained it and never settles (`_store.py:1588`, `:688`) |
| `Federation` | `Serial` | an object read before a `sync` and edited after it is sent with the digest of the payload the sync brought (`_store.py:1006`), not "of the payload it was read at" (`:988`): the coordinator accepts it and the update in between is lost |
| `Federation` | `ResendAnswered` | a contribution sent again after its reply was lost is refused as a conflict with itself (`web/_federation.py:155`), where `reference.md:730` has "a re-sent insert re-merges to the same OID"; `committing()` would make the edit a second time |
| `Queries`, `Env <- PlainEnv` | `CountsCommitted` | a class without index markers: once its extent is built, a commit adds a record that `count()` and `query()` do not see (`_store.py:1091`), in the session and out of the cache |
| `Queries`, `Env <- PlainEnv` | `ReverseServes` | the cached reverse index of a session that commits only to such a class is not invalidated, and `incoming()` is stale |
| `Queries`, `Env = {"async", "late"}` | `ReverseServes` | a reverse index first built between P1 and P3 misses the batch (`_store.py:1105`) |
| `Queries`, `Env = {"redefault"}`, `Defaults` of two values | `IndexServes` | the default of an added field is baked into the cached index; a version with another default serves the old one (`_index_cache.py:5`) |
| `Queries`, a question `Q(Root, Pr("qid", "==", NULL))` | `QueryExact` | `field == None` on a field that is only `Unique` is answered from the map, which has no entry for None, and matches nothing (`_indexes.py:892`); a scan finds the records without a key |
| `Permissions`, `Facades <- Sync`, `Env = {"revoke"}` | `DurableActs` | `acting_as` refuses a NEW or DIRTY row only: one that was given memberships and then deleted, neither committed, acts with them (`_store.py:588`) |
| `Permissions`, `Env = {"fail", "forge"}` | `BirthOwned` | after a failed P2 a new record's owner column, set by hand, is taken for stamped (`_store.py:1062`) |
| `SnapshotPool`, `MaxRequests = 3`, `Env <- Failing` | `AcquiredOpen` | a snapshot pinned between P2 and P3 is retired as stale; when `Store.snapshot` then raises it stays current, and after P3 its watermark matches: the next request gets it closed (`web/_app.py:85`) |
| `SnapshotPool` | `OncePerCommit` | between P2 and P3 a new snapshot is ahead of `last_tid`, so each request in that window builds another at the same TID |
| `Sidecars`, `Env = {"crash"}` | `Recoverable` | a bootstrap stopped inside `shutil.rmtree` (`arrow.py:369`) can leave `manifest.json` naming segments that are gone: the directory opens at its old watermark, with a table that cannot be read, and `attach` takes it if no commit came meanwhile; `docs/how-to/analytics.md:69` says a crash mid-bootstrap forces a clean re-bootstrap, `arrow.py:471` likewise. Also when the removal raises (`Env = {"fail"}`) |
| `Sidecars`, `Env = {}` | `MirrorUnrounded` | an integer above 2^53 in a column that becomes a float is rounded, on its first write or when an older segment is re-read under the new type (`arrow.py:228`, `:738`), so that `_semantic`, "the inverse of `_storable`" (`:239`), does not give it back, and an incremental mirror and a bootstrap can differ |
| `Sidecars`, `Env = {"power"}` | `RecoverExact` | a compacted segment is never fsynced before the manifest names it and its predecessors are unlinked (`arrow.py:786`; the comment in `_write_segment` has the rule) |
| `Sidecars`, `Env = {"crash", "feed", "refeed"}` | `MirrorExact` | an interrupted bootstrap leaves rows under watermark 0; fed by hand from TID 1 the mirror serves rows of later commits |

Read from the code while modelling, and not shown by a run: under
`durability` below `"full"` a power loss gives TIDs out again, so that a sidecar of the
lost future is taken for current, since only the numbers are compared
(`_store.py:1659`, `_index_cache.py:58`); `compact()` leaves the tombstones of a type
with one segment (`arrow.py:566`); `DeltaLog.bootstrap` removes its directory as the mirror's
does (`deltalog.py:207`), and stopped half-way can leave a manifest that names segments which
are gone: it opens, and `replay()` raises at the first of them; after a failed flush
the delta log buffers `flush_every` deltas and, if it is fed on, more; a flush that fails after a
compaction forgets the obsolete files until the next opening; the text index's bootstrap
wipes the old index before it refuses a snapshot that is not root's, the mirror's refuses
first; a request that arrives after the pool's close leaves a snapshot open.

## 7. What is not modelled

In `Engine`: reference graphs (cascading `store`, eager closures), the root holder, blobs,
`migrate()`, the wire encoding, the fsync settings (a power loss can lose acknowledged
commits below `durability = "full"`); the walk and the labels are in `Permissions`, the
conditions in `Queries`. In `LeaseLock`: hosts other than this one, whose locks are judged
by their stamp alone. In `DeltaLog`: format checks, power loss, and a
bootstrap stopped while it removes the old directory (one step here). In `SubmitQueue`: the
escape check on results, a callable that closes the store, and what P1 may reject, which
leaves everything as it was. In `Federation`: malformed batches and the schema, reference
and permission guards, which refuse before anything is applied; a sync whose download
fails or applies in part; records whose key changes; upserts on a follower of what it has
not read; a follower's restart; what the coordinator's program leaves buffered across an
await. In `ClassIndexes`: the chunking of a build, an unreadable cache file (it reads as
none), several classes; in `Queries`: conditions over referenced objects, values of mixed
types that do not compare. In `Permissions`: classes that are not protected, the effect
of labels on blobs, demotion of lazy handles after a timeout (a subset of the weakly held
instances that are modelled). In `Snapshots`: the chunks of `_stream`, which yields under
the core's lock, and blob ranges. In `Sidecars`: lists, decimals, dates, nested values and
integers beyond 64 bits, several columns, mirrors of another set of types than the
directory's, unfenced search, snippets, tokenising and scores.

Not modelled at all, with the reason in `PROJECT.json`: the record codec (a pure
conversion), the memory backend (`Engine` without the reads of an open transaction), blob
storage, the testing kit, exceptions and exports. `migrate()` and the shape checks of
schema evolution upgrade one type at a time in one thread; only the added field and the
moved marker, which meet the cache file, are modelled.
