------------------------------- MODULE Engine -------------------------------
(***************************************************************************)
(* The commit engine of datacrystal: the unit of work a Store buffers, the *)
(* three commit phases P1 / P2 / P3 of ADR-001, the unique-key map, the     *)
(* live-object registry, the delta fan-out to one consumer, discard() and   *)
(* a process crash with the reboot from the backend.                        *)
(*                                                                          *)
(* One entity class with one dc.Unique field stands for the schema, and a   *)
(* record's payload is the value of that field (NullKey is Python's None,   *)
(* which never collides).  Python objects are the members of Insts; FREE is *)
(* an object the store does not know (not constructed, untracked, or        *)
(* garbage collected).  Dictionaries are total functions, None = no entry.  *)
(***************************************************************************)
EXTENDS Naturals, FiniteSets

CONSTANTS
    Insts,      \* Python objects of the entity class
    Keys,       \* non-null values of the unique field
    NullKey,    \* the field's None
    None,       \* "no entry" of a dictionary
    NoLive,     \* a buffered delete whose OID has no live instance
    MaxOid,     \* bound: OIDs 1..MaxOid
    MaxTid,     \* bound: TIDs 1..MaxTid
    Env         \* what the environment does, a subset of Features

(* "async": owner operations interleave with a running P2 (AsyncStore);    *)
(* without it commit() blocks its caller until P3 or the rollback.          *)
(* "fail": backend.apply may raise.  "crash": the process may die.          *)
(* "discard": Store.discard() is called (the sync facade only).             *)
(* "cancel": the task awaiting an async commit may be cancelled.            *)
(* "consumer": a delta consumer is attached and detached.                   *)
Features == {"async", "fail", "crash", "discard", "cancel", "consumer"}

ASSUME EngineConstants ==
    /\ MaxOid \in Nat \ {0}
    /\ MaxTid \in Nat
    /\ NullKey \notin Keys
    /\ None \notin Insts
    /\ NoLive \notin Insts
    /\ None # NoLive
    /\ None \notin Keys
    /\ None # NullKey
    /\ None \notin Nat
    /\ Env \subseteq Features
    /\ "discard" \in Env => "async" \notin Env
    /\ "cancel" \in Env => "async" \in Env

VARIABLES
    st, oidOf, val,            \* per object: __dc_state__, __dc_oid__, the field
    new, dirty, deleted,       \* Store._new, _dirty, _deleted
    cancelledNew,              \* Store._cancelled_new
    pendingUpserts,            \* Store._pending_upserts
    registry,                  \* ObjectRegistry._by_oid
    nextOid, nextTid, lastTid, \* IdAllocator and Store._last_tid
    cidKnown, cidDurable,      \* the class in _cid_by_typename / _durable_cids
    built, unique,             \* ClassIndexes: built yet?  value -> OID
    capture,                   \* the _Capture a commit is driving
    io,                        \* the transaction on the single IO worker
    db,                        \* the durable backend
    consumer                   \* a ReferenceApplier and whether it is attached

objVars == <<st, oidOf, val>>
bufVars == <<new, dirty, deleted, cancelledNew, pendingUpserts>>
idVars  == <<nextOid, nextTid, lastTid>>
cidVars == <<cidKnown, cidDurable>>
idxVars == <<built, unique>>
p2Vars  == <<capture, io, db>>
vars == <<objVars, bufVars, registry, idVars, cidVars, idxVars, p2Vars, consumer>>

Oids == 1..MaxOid
Vals == Keys \cup {NullKey}
States == {"FREE", "NEW", "CLEAN", "DIRTY", "DELETED"}

NoInsts == [o \in Oids |-> None]
NoVals  == [o \in Oids |-> None]
NoPriorStates == [o \in Oids |-> "FREE"]
EmptyIndex == [k \in Keys |-> None]

NoBatch == [tid |-> 0, recs |-> NoVals, dels |-> {}, newType |-> FALSE, nextOid |-> 1]
NoCapture == [status |-> "none", batch |-> NoBatch, flipped |-> NoInsts,
              prior |-> NoPriorStates, deletes |-> NoInsts, delta |-> FALSE,
              priors |-> NoVals]
IdleWorker == [phase |-> "idle", awaited |-> FALSE, batch |-> NoBatch]

-----------------------------------------------------------------------------
(* What a batch does to the records, and what a reader sees of it. *)

(* INSERT OR REPLACE of the batch's records. *)
WithRecords(objs, batch) ==
    [o \in Oids |-> IF batch.recs[o] # None THEN batch.recs[o] ELSE objs[o]]

(* ... then DELETE of its deletes: the order of SqliteBackend.apply. *)
Applied(objs, batch) ==
    [o \in Oids |-> IF o \in batch.dels THEN None ELSE WithRecords(objs, batch)[o]]

(* Owner reads go through the connection the worker's transaction is open   *)
(* on, so they see its uncommitted rows.                                    *)
View ==
    CASE io.phase = "records" -> WithRecords(db.objs, io.batch)
      [] io.phase = "open"    -> Applied(db.objs, io.batch)
      [] OTHER                -> db.objs

-----------------------------------------------------------------------------
(* The unique map (ClassIndexes.unique). *)

LastHolder(objs, k, o) ==
    objs[o] = k /\ \A p \in Oids : objs[p] = k => p <= o

(* build_class_indexes scans the type's records in OID order, the last      *)
(* insert of a value wins.                                                  *)
BuildIndex(objs) ==
    [k \in Keys |->
        IF \E o \in Oids : LastHolder(objs, k, o)
        THEN CHOOSE o \in Oids : LastHolder(objs, k, o)
        ELSE None]

(* IndexManager.ensure: built on first use, from what the connection shows. *)
Ensured == IF built THEN unique ELSE BuildIndex(View)

Bug_FoldKeepsOld(idx, recs, dels) ==
    [k \in Keys |->
        IF \E o \in Oids : recs[o] = k THEN CHOOSE o \in Oids : recs[o] = k
        ELSE IF idx[k] # None /\ idx[k] \in dels THEN None
        ELSE idx[k]]

(* IndexManager.apply then apply_deletes: each entry is un-indexed from its *)
(* old value and inserted at its new one; a deleted OID frees its value     *)
(* only if it still holds it.                                               *)
FoldIndex(idx, recs, dels) ==
    [k \in Keys |->
        IF \E o \in Oids : recs[o] = k THEN CHOOSE o \in Oids : recs[o] = k
        ELSE IF idx[k] # None /\ (idx[k] \in dels \/ recs[idx[k]] # None) THEN None
        ELSE idx[k]]

-----------------------------------------------------------------------------
(* Owner operations on the unit of work. *)

(* commit() returns after P3 or the rollback; only AsyncStore gives the     *)
(* owner back to other tasks while the worker runs P2.                      *)
OwnerFree == capture.status = "none" \/ "async" \in Env

(* Strong references keep an object alive; the registry's are weak. *)
Held(i) ==
    \/ \E o \in Oids : i \in {new[o], dirty[o], deleted[o], cancelledNew[o],
                              capture.flipped[o], capture.deletes[o]}
    \/ \E k \in Keys : pendingUpserts[k] = i

(* store(obj) of a fresh object: _adopt_unregistered. *)
Adopt(i, v) ==
    /\ st[i] = "FREE"
    /\ nextOid <= MaxOid
    /\ st' = [st EXCEPT ![i] = "NEW"]
    /\ oidOf' = [oidOf EXCEPT ![i] = nextOid]
    /\ val' = [val EXCEPT ![i] = v]
    /\ new' = [new EXCEPT ![nextOid] = i]
    /\ nextOid' = nextOid + 1

Store(i, v) ==
    /\ OwnerFree
    /\ Adopt(i, v)
    /\ UNCHANGED <<dirty, deleted, cancelledNew, pendingUpserts, registry, nextTid,
                   lastTid, cidVars, idxVars, p2Vars, consumer>>

(* touch() then the assignment: a CLEAN object is buffered by its first     *)
(* write, a DELETED one raises, NEW and DIRTY ones are buffered already.    *)
TouchAndSet(i, v) ==
    /\ st[i] \in {"NEW", "CLEAN", "DIRTY"}
    /\ val' = [val EXCEPT ![i] = v]
    /\ IF st[i] = "CLEAN"
       THEN /\ st' = [st EXCEPT ![i] = "DIRTY"]
            /\ dirty' = [dirty EXCEPT ![oidOf[i]] = i]
       ELSE UNCHANGED <<st, dirty>>

Write(i, v) ==
    /\ OwnerFree
    /\ TouchAndSet(i, v)
    /\ UNCHANGED <<oidOf, new, deleted, cancelledNew, pendingUpserts, registry, idVars,
                   cidVars, idxVars, p2Vars, consumer>>

(* _materialize_graph: a registry miss hydrates the record into a new       *)
(* CLEAN object (a hit returns the registered one and changes nothing).     *)
Hydrate(i, o, v) ==
    /\ st[i] = "FREE"
    /\ registry[o] = None
    /\ st' = [st EXCEPT ![i] = IF v = View[o] THEN "CLEAN" ELSE "DIRTY"]
    /\ oidOf' = [oidOf EXCEPT ![i] = o]
    /\ val' = [val EXCEPT ![i] = v]
    /\ registry' = [registry EXCEPT ![o] = i]
    /\ dirty' = IF v = View[o] THEN dirty ELSE [dirty EXCEPT ![o] = i]

Load(i, o) ==
    /\ OwnerFree
    /\ View[o] # None
    /\ Hydrate(i, o, View[o])
    /\ UNCHANGED <<new, deleted, cancelledNew, pendingUpserts, idVars, cidVars,
                   idxVars, p2Vars, consumer>>

(* The program drops its last reference: the weak registry forgets. *)
Forget(i) ==
    /\ st[i] # "FREE"
    /\ ~Held(i)
    /\ st' = [st EXCEPT ![i] = "FREE"]
    /\ oidOf' = [oidOf EXCEPT ![i] = None]
    /\ val' = [val EXCEPT ![i] = NullKey]
    /\ registry' = [o \in Oids |-> IF registry[o] = i THEN None ELSE registry[o]]
    /\ UNCHANGED <<bufVars, idVars, cidVars, idxVars, p2Vars, consumer>>

(* get / query by an indexed field: the class index is built on first use.  *)
Lookup ==
    /\ OwnerFree
    /\ cidKnown
    /\ ~built
    /\ built' = TRUE
    /\ unique' = Ensured
    /\ UNCHANGED <<objVars, bufVars, registry, idVars, cidVars, p2Vars, consumer>>

Bug_DeleteKeepsDirty(obj, o) ==
    IF obj # None /\ st[obj] = "NEW"
    THEN /\ new' = [new EXCEPT ![o] = None]
         /\ cancelledNew' = [cancelledNew EXCEPT ![o] = obj]
         /\ st' = [st EXCEPT ![obj] = "DELETED"]
         /\ UNCHANGED <<dirty, deleted>>
    ELSE /\ st' = IF obj = None THEN st ELSE [st EXCEPT ![obj] = "DELETED"]
         /\ deleted' = [deleted EXCEPT ![o] = IF obj = None THEN NoLive ELSE obj]
         /\ UNCHANGED <<new, dirty, cancelledNew>>

(* _delete_oid: a delete of a pending insert cancels it and reaches nothing *)
(* else; any other is buffered and wins over a buffered write.              *)
DeleteOid(obj, o) ==
    IF obj # None /\ st[obj] = "NEW"
    THEN /\ new' = [new EXCEPT ![o] = None]
         /\ dirty' = [dirty EXCEPT ![o] = None]
         /\ cancelledNew' = [cancelledNew EXCEPT ![o] = obj]
         /\ st' = [st EXCEPT ![obj] = "DELETED"]
         /\ UNCHANGED deleted
    ELSE /\ dirty' = [dirty EXCEPT ![o] = None]
         /\ st' = IF obj = None THEN st ELSE [st EXCEPT ![obj] = "DELETED"]
         /\ deleted' = [deleted EXCEPT ![o] = IF obj = None THEN NoLive ELSE obj]
         /\ UNCHANGED <<new, cancelledNew>>

(* delete(obj): FREE objects have no OID and a DELETED one is a no-op. *)
DeleteInstance(i) ==
    /\ OwnerFree
    /\ st[i] \notin {"FREE", "DELETED"}
    /\ DeleteOid(i, oidOf[i])
    /\ UNCHANGED <<oidOf, val, pendingUpserts, registry, idVars, cidVars, idxVars,
                   p2Vars, consumer>>

(* delete(Cls, key=k): the committed unique map finds the OID. *)
DeleteByKey(k) ==
    /\ OwnerFree
    /\ cidKnown
    /\ Ensured[k] # None
    /\ deleted[Ensured[k]] = None
    /\ DeleteOid(registry[Ensured[k]], Ensured[k])
    /\ built' = TRUE
    /\ unique' = Ensured
    /\ UNCHANGED <<oidOf, val, pendingUpserts, registry, idVars, cidVars, p2Vars, consumer>>

(* _find_by_key, first half: the committed owner of k, unless a buffered    *)
(* delete has freed the key.                                                *)
CommittedOwner(k) ==
    IF cidKnown /\ Ensured[k] # None /\ deleted[Ensured[k]] = None THEN Ensured[k] ELSE None

(* ... second half: an earlier upsert of the batch, if it still stands. *)
PendingOwner(k) ==
    LET p == pendingUpserts[k]
    IN IF p # None /\ st[p] # "DELETED" /\ val[p] = k THEN p ELSE None

EnsureIfKnown ==
    /\ built' = (built \/ cidKnown)
    /\ unique' = IF cidKnown THEN Ensured ELSE unique

(* upsert(obj) with key k, nobody owns k: store() it and remember it. *)
UpsertInsert(i, k) ==
    /\ OwnerFree
    /\ CommittedOwner(k) = None
    /\ PendingOwner(k) = None
    /\ Adopt(i, k)
    /\ pendingUpserts' = [pendingUpserts EXCEPT ![k] = i]
    /\ EnsureIfKnown
    /\ UNCHANGED <<dirty, deleted, cancelledNew, registry, nextTid, lastTid, cidVars,
                   p2Vars, consumer>>

(* upsert(obj) of an object the store knows already: store() changes        *)
(* nothing, and the object is remembered for the key it has now.            *)
UpsertTracked(i) ==
    /\ OwnerFree
    /\ st[i] \in {"NEW", "CLEAN", "DIRTY"}
    /\ val[i] \in Keys
    /\ CommittedOwner(val[i]) = None
    /\ PendingOwner(val[i]) = None
    /\ pendingUpserts' = [pendingUpserts EXCEPT ![val[i]] = i]
    /\ EnsureIfKnown
    /\ UNCHANGED <<objVars, new, dirty, deleted, cancelledNew, registry, idVars, cidVars,
                   p2Vars, consumer>>

(* upsert, the owner is live: merge the differing field into it. *)
UpsertMerge(k) ==
    /\ OwnerFree
    /\ CommittedOwner(k) # None
    /\ registry[CommittedOwner(k)] # None
    /\ val[registry[CommittedOwner(k)]] # k
    /\ TouchAndSet(registry[CommittedOwner(k)], k)
    /\ EnsureIfKnown
    /\ UNCHANGED <<oidOf, new, deleted, cancelledNew, pendingUpserts, registry, idVars,
                   cidVars, p2Vars, consumer>>

(* upsert, the owner is only a record: hydrate it, then merge. *)
UpsertHydrate(i, k) ==
    /\ OwnerFree
    /\ CommittedOwner(k) # None
    /\ View[CommittedOwner(k)] # None
    /\ Hydrate(i, CommittedOwner(k), k)
    /\ EnsureIfKnown
    /\ UNCHANGED <<new, deleted, cancelledNew, pendingUpserts, idVars, cidVars,
                   p2Vars, consumer>>

-----------------------------------------------------------------------------
(* P1, on the owner, without an await: discover, validate, encode, flip. *)

(* {**_new, **_dirty} minus the buffered deletes (ADR-003 precedence). *)
Pending ==
    [o \in Oids |-> IF deleted[o] # None THEN None
                    ELSE IF dirty[o] # None THEN dirty[o]
                    ELSE new[o]]

HasRecords == \E o \in Oids : Pending[o] # None
HasWork == HasRecords \/ \E o \in Oids : deleted[o] # None

(* _discover_new_graphs walks every buffered object, and _require_storable  *)
(* refuses a DELETED one before anything else happens: such a commit raises *)
(* and changes nothing.                                                     *)
Storable ==
    \A o \in Oids, i \in Insts : i \in {new[o], dirty[o]} => st[i] # "DELETED"

Bug_UniqueOK(pend, idx) ==
    \A o \in Oids : pend[o] # None /\ val[pend[o]] \in Keys =>
        (idx[val[pend[o]]] \notin {None, o} => deleted[idx[val[pend[o]]]] # None)

(* check_unique: a value is free if the unique map gives it to nobody, to   *)
(* this entity, or to an entity this commit deletes; and no two entities of *)
(* the commit may set it.  NullKey is exempt.                               *)
UniqueOK(pend, idx) ==
    \A o \in Oids : pend[o] # None /\ val[pend[o]] \in Keys =>
        /\ idx[val[pend[o]]] \notin {None, o} => deleted[idx[val[pend[o]]]] # None
        /\ \A p \in Oids \ {o} : pend[p] # None => val[pend[p]] # val[pend[o]]

(* _read_delta_priors: with a consumer watching, every buffered record that *)
(* is not NEW and every buffered delete needs a stored record.              *)
PriorsOK(pend) ==
    consumer.att =>
        \A o \in Oids : \/ pend[o] # None /\ new[o] = None
                        \/ deleted[o] # None
                        => View[o] # None

(* What both outcomes of validation leave behind: check_unique builds the   *)
(* index when there is an entry to check.                                   *)
EnsureForCheck ==
    /\ built' = (built \/ HasRecords)
    /\ unique' = IF HasRecords THEN Ensured ELSE unique

(* A rejected commit keeps the buffers and takes no TID. *)
P1RejectUnique ==
    /\ capture.status = "none"
    /\ Storable
    /\ ~UniqueOK(Pending, Ensured)
    /\ EnsureForCheck
    /\ UNCHANGED <<objVars, bufVars, registry, idVars, cidVars, p2Vars, consumer>>

(* The missing prior is found after encoding, which registered the class.   *)
P1RejectPriors ==
    /\ capture.status = "none"
    /\ Storable
    /\ UniqueOK(Pending, Ensured)
    /\ ~PriorsOK(Pending)
    /\ EnsureForCheck
    /\ cidKnown' = (cidKnown \/ HasRecords)
    /\ UNCHANGED <<objVars, bufVars, registry, idVars, cidDurable, p2Vars, consumer>>

(* _build_batch: the meta rows carry the OID watermark of this moment. *)
Batch(pend) ==
    [tid |-> nextTid,
     recs |-> [o \in Oids |-> IF pend[o] # None THEN val[pend[o]] ELSE None],
     dels |-> {o \in Oids : deleted[o] # None},
     newType |-> HasRecords /\ ~cidDurable,
     nextOid |-> nextOid]

(* build_delta's prior payloads; an entity still in _new has none. *)
Priors(pend) ==
    [o \in Oids |-> IF deleted[o] # None \/ (pend[o] # None /\ new[o] = None)
                    THEN View[o] ELSE None]

Captured(pend) ==
    [status |-> "queued",
     batch |-> Batch(pend),
     flipped |-> pend,
     prior |-> [o \in Oids |-> IF pend[o] # None THEN st[pend[o]] ELSE "FREE"],
     deletes |-> deleted,
     delta |-> consumer.att,
     priors |-> IF consumer.att THEN Priors(pend) ELSE NoVals]

Bug_FlipLate(pend) == st

(* _flip_captured: CLEAN before P2, so that a write racing P2 is buffered   *)
(* for the next commit.                                                     *)
Flip(pend) ==
    [i \in Insts |-> IF \E o \in Oids : pend[o] = i THEN "CLEAN" ELSE st[i]]

Bug_Registered(pend) == registry

(* ... and registered, so that a later load finds the captured object.      *)
Registered(pend) ==
    [o \in Oids |-> IF pend[o] # None THEN pend[o] ELSE registry[o]]

P1Capture ==
    /\ capture.status = "none"
    /\ Storable
    /\ HasWork
    /\ UniqueOK(Pending, Ensured)
    /\ PriorsOK(Pending)
    /\ nextTid <= MaxTid
    /\ EnsureForCheck
    /\ cidKnown' = (cidKnown \/ HasRecords)
    /\ capture' = Captured(Pending)
    /\ nextTid' = nextTid + 1
    /\ st' = Flip(Pending)
    /\ registry' = Registered(Pending)
    /\ new' = NoInsts
    /\ dirty' = NoInsts
    /\ deleted' = NoInsts
    /\ cancelledNew' = NoInsts
    /\ UNCHANGED <<oidOf, val, pendingUpserts, nextOid, lastTid, cidDurable, io, db, consumer>>

-----------------------------------------------------------------------------
(* P2, on the single IO worker: SqliteBackend.apply in one transaction. *)

(* BEGIN IMMEDIATE, the types rows (a plain INSERT on the cid) and the      *)
(* records.  A types row that is already there fails the statement.         *)
P2Begin ==
    /\ capture.status = "queued"
    /\ io.phase = "idle"
    /\ IF capture.batch.newType /\ db.typed
       THEN /\ capture' = [capture EXCEPT !.status = "failed"]
            /\ io' = io
       ELSE /\ capture' = [capture EXCEPT !.status = "running"]
            /\ io' = [phase |-> "records", awaited |-> TRUE, batch |-> capture.batch]
    /\ UNCHANGED <<objVars, bufVars, registry, idVars, cidVars, idxVars, db, consumer>>

(* The deletes and the meta rows, still uncommitted. *)
P2Deletes ==
    /\ io.phase = "records"
    /\ io' = [io EXCEPT !.phase = "open"]
    /\ UNCHANGED <<objVars, bufVars, registry, idVars, cidVars, idxVars, capture, db, consumer>>

Bug_Resolve(status) ==
    /\ capture' = IF io.awaited THEN [capture EXCEPT !.status = "durable"] ELSE capture
    /\ io' = IdleWorker

Bug_ResolveNever(status) ==
    /\ capture' = IF status = "durable" THEN [capture EXCEPT !.status = status] ELSE capture
    /\ io' = IdleWorker

(* The future resolves for whoever still awaits it. *)
Resolve(status) ==
    /\ capture' = IF io.awaited THEN [capture EXCEPT !.status = status] ELSE capture
    /\ io' = IdleWorker

P2Commit ==
    /\ io.phase = "open"
    /\ db' = [objs |-> Applied(db.objs, io.batch),
              nextOid |-> io.batch.nextOid,
              nextTid |-> io.batch.tid + 1,
              typed |-> db.typed \/ io.batch.newType]
    /\ Resolve("durable")
    /\ UNCHANGED <<objVars, bufVars, registry, idVars, cidVars, idxVars, consumer>>

(* Any statement or the COMMIT raises: ROLLBACK, and the exception travels to the owner.  *)
P2Fail ==
    /\ "fail" \in Env
    /\ io.phase # "idle"
    /\ Resolve("failed")
    /\ UNCHANGED <<objVars, bufVars, registry, idVars, cidVars, idxVars, db, consumer>>

-----------------------------------------------------------------------------
(* P3 and the compensation of a failed P2, on the owner. *)

(* ReferenceApplier.apply: skip what is applied already, refuse a gap and a *)
(* prior that is not the applied state, else fold the batch in.             *)
Folds(c, cap) ==
    /\ cap.batch.tid = c.wm + 1
    /\ \A o \in Oids : cap.batch.recs[o] # None \/ o \in cap.batch.dels
                       => c.objs[o] = cap.priors[o]

Bug_Delivered(c, cap) ==
    IF ~c.att \/ ~cap.delta THEN c
    ELSE [c EXCEPT !.wm = cap.batch.tid, !.objs = WithRecords(c.objs, cap.batch)]

(* _deliver: a consumer that raises, or that ends at another watermark, is  *)
(* detached; the commit stands.                                             *)
Delivered(c, cap) ==
    IF ~c.att \/ ~cap.delta \/ cap.batch.tid = c.wm THEN c
    ELSE IF Folds(c, cap)
    THEN [c EXCEPT !.wm = cap.batch.tid, !.objs = Applied(c.objs, cap.batch)]
    ELSE [c EXCEPT !.att = FALSE]

(* The live instance a committed delete write-bars: the buffered one, or    *)
(* the one the registry has by now.                                         *)
Barred(cap) ==
    {IF cap.deletes[o] = NoLive THEN registry[o] ELSE cap.deletes[o] :
        o \in {p \in Oids : cap.deletes[p] # None}}

P3Finalize ==
    /\ capture.status = "durable"
    /\ unique' = IF built THEN FoldIndex(unique, capture.batch.recs, capture.batch.dels)
                 ELSE unique
    /\ st' = [i \in Insts |-> IF i \in Barred(capture) THEN "DELETED" ELSE st[i]]
    /\ registry' = [o \in Oids |-> IF capture.deletes[o] # None THEN None ELSE registry[o]]
    /\ pendingUpserts' = EmptyIndex
    /\ cidDurable' = (cidDurable \/ capture.batch.newType)
    /\ lastTid' = capture.batch.tid
    /\ consumer' = Delivered(consumer, capture)
    /\ capture' = NoCapture
    /\ UNCHANGED <<oidOf, val, new, dirty, deleted, cancelledNew, nextOid, nextTid,
                   cidKnown, built, io, db>>

Bug_RollbackTid(cap) == nextTid

(* The parts of _p2_rollback: reuse the TID, re-buffer what P1 flipped. *)
RollbackTid(cap) == cap.batch.tid

RollbackNew(cap) ==
    [o \in Oids |-> IF cap.flipped[o] # None /\ cap.prior[o] = "NEW"
                    THEN cap.flipped[o] ELSE new[o]]

RollbackDirty(cap) ==
    [o \in Oids |-> IF cap.flipped[o] = None THEN dirty[o]
                    ELSE IF cap.prior[o] = "NEW" THEN None ELSE cap.flipped[o]]

Bug_RollbackState(cap) == st

RollbackState(cap) ==
    [i \in Insts |->
        IF oidOf[i] # None /\ cap.flipped[oidOf[i]] = i
        THEN IF cap.prior[oidOf[i]] = "NEW" THEN "NEW" ELSE "DIRTY"
        ELSE st[i]]

Rollback ==
    /\ nextTid' = RollbackTid(capture)
    /\ new' = RollbackNew(capture)
    /\ dirty' = RollbackDirty(capture)
    /\ st' = RollbackState(capture)
    /\ deleted' = [o \in Oids |-> IF capture.deletes[o] # None
                                  THEN capture.deletes[o] ELSE deleted[o]]
    /\ capture' = NoCapture
    /\ UNCHANGED <<oidOf, val, cancelledNew, pendingUpserts, registry, nextOid, lastTid,
                   cidVars, idxVars, db, consumer>>

P2Rollback ==
    /\ capture.status = "failed"
    /\ Rollback
    /\ UNCHANGED io

(* The awaiting task is cancelled: CancelledError takes the rollback path.  *)
(* A queued job is cancelled with it, a running one goes on unobserved.     *)
Cancel ==
    /\ "cancel" \in Env
    /\ capture.status \in {"queued", "running", "durable", "failed"}
    /\ Rollback
    /\ io' = IF capture.status = "running" THEN [io EXCEPT !.awaited = FALSE] ELSE io

-----------------------------------------------------------------------------
(* Consumers, discard, crash. *)

(* A sidecar rebuilds from store.snapshot(): a read view of its own, which  *)
(* sees committed state only.                                               *)
Rebuild ==
    /\ "consumer" \in Env
    /\ ~consumer.att
    /\ consumer' = [att |-> FALSE, wm |-> db.nextTid - 1, objs |-> db.objs]
    /\ UNCHANGED <<objVars, bufVars, registry, idVars, cidVars, idxVars, p2Vars>>

Attach ==
    /\ "consumer" \in Env
    /\ OwnerFree
    /\ ~consumer.att
    /\ consumer.wm = lastTid
    /\ consumer' = [consumer EXCEPT !.att = TRUE]
    /\ UNCHANGED <<objVars, bufVars, registry, idVars, cidVars, idxVars, p2Vars>>

Detach ==
    /\ OwnerFree
    /\ consumer.att
    /\ consumer' = [consumer EXCEPT !.att = FALSE]
    /\ UNCHANGED <<objVars, bufVars, registry, idVars, cidVars, idxVars, p2Vars>>

(* _load_state and the cleared caches around it: everything the engine      *)
(* knows is read back from the backend.                                     *)
LoadState ==
    /\ new' = NoInsts
    /\ dirty' = NoInsts
    /\ deleted' = NoInsts
    /\ cancelledNew' = NoInsts
    /\ pendingUpserts' = EmptyIndex
    /\ registry' = NoInsts
    /\ nextOid' = db.nextOid
    /\ nextTid' = db.nextTid
    /\ lastTid' = db.nextTid - 1
    /\ cidKnown' = db.typed
    /\ cidDurable' = db.typed
    /\ built' = FALSE
    /\ unique' = EmptyIndex

(* discard(): NEW objects, cancelled ones included, lose their OID; every   *)
(* other live object keeps its OID and its state.                           *)
Discard ==
    /\ "discard" \in Env
    /\ capture.status = "none"
    /\ LET detached == {i \in Insts : \E o \in Oids : i \in {new[o], cancelledNew[o]}}
       IN /\ st' = [i \in Insts |-> IF i \in detached THEN "FREE" ELSE st[i]]
          /\ oidOf' = [i \in Insts |-> IF i \in detached THEN None ELSE oidOf[i]]
          /\ val' = [i \in Insts |-> IF i \in detached THEN NullKey ELSE val[i]]
    /\ LoadState
    /\ UNCHANGED <<p2Vars, consumer>>

(* The process dies and the store is reopened: an uncommitted transaction   *)
(* is gone, a committed one is not.                                         *)
Crash ==
    /\ "crash" \in Env
    /\ st' = [i \in Insts |-> "FREE"]
    /\ oidOf' = [i \in Insts |-> None]
    /\ val' = [i \in Insts |-> NullKey]
    /\ LoadState
    /\ capture' = NoCapture
    /\ io' = IdleWorker
    /\ consumer' = [att |-> FALSE, wm |-> 0, objs |-> NoVals]
    /\ UNCHANGED db

-----------------------------------------------------------------------------
Init ==
    /\ st = [i \in Insts |-> "FREE"]
    /\ oidOf = [i \in Insts |-> None]
    /\ val = [i \in Insts |-> NullKey]
    /\ new = NoInsts
    /\ dirty = NoInsts
    /\ deleted = NoInsts
    /\ cancelledNew = NoInsts
    /\ pendingUpserts = EmptyIndex
    /\ registry = NoInsts
    /\ nextOid = 1
    /\ nextTid = 1
    /\ lastTid = 0
    /\ cidKnown = FALSE
    /\ cidDurable = FALSE
    /\ built = FALSE
    /\ unique = EmptyIndex
    /\ capture = NoCapture
    /\ io = IdleWorker
    /\ db = [objs |-> NoVals, nextOid |-> 1, nextTid |-> 1, typed |-> FALSE]
    /\ consumer = [att |-> FALSE, wm |-> 0, objs |-> NoVals]

WorkUnitStep ==
    \/ \E i \in Insts, v \in Vals : Store(i, v) \/ Write(i, v)
    \/ \E i \in Insts, o \in Oids : Load(i, o)
    \/ \E i \in Insts : Forget(i) \/ DeleteInstance(i) \/ UpsertTracked(i)
    \/ \E k \in Keys : DeleteByKey(k) \/ UpsertMerge(k)
    \/ \E i \in Insts, k \in Keys : UpsertInsert(i, k) \/ UpsertHydrate(i, k)
    \/ Lookup

CommitStep == P1RejectUnique \/ P1RejectPriors \/ P1Capture \/ P3Finalize \/ P2Rollback \/ Cancel
WorkerStep == P2Begin \/ P2Deletes \/ P2Commit \/ P2Fail
ConsumerStep == Rebuild \/ Attach \/ Detach

Next == WorkUnitStep \/ CommitStep \/ WorkerStep \/ ConsumerStep \/ Discard \/ Crash

Spec == Init /\ [][Next]_vars

(* The IO worker runs what it was given, and the owner's loop resumes the   *)
(* commit when its future resolves.  Nothing else is fair: no call is ever  *)
(* obliged to be made.                                                      *)
FairSpec ==
    /\ Spec
    /\ WF_vars(P2Begin)
    /\ WF_vars(P2Deletes)
    /\ WF_vars(P2Commit)
    /\ WF_vars(P3Finalize)
    /\ WF_vars(P2Rollback)

-----------------------------------------------------------------------------
(* Types *)

InstMap == [Oids -> Insts \cup {None}]
DeleteMap == [Oids -> Insts \cup {None, NoLive}]
Objects == [Oids -> Vals \cup {None}]
Batches == [tid : 0..MaxTid, recs : Objects, dels : SUBSET Oids, newType : BOOLEAN,
            nextOid : 1..(MaxOid + 1)]

(* Every variable of the engine has its type, with every OID and TID within *)
(* the bounds.                                                              *)
TypeOK ==
    /\ st \in [Insts -> States]
    /\ oidOf \in [Insts -> Oids \cup {None}]
    /\ val \in [Insts -> Vals]
    /\ new \in InstMap
    /\ dirty \in InstMap
    /\ deleted \in DeleteMap
    /\ cancelledNew \in InstMap
    /\ pendingUpserts \in [Keys -> Insts \cup {None}]
    /\ registry \in InstMap
    /\ nextOid \in 1..(MaxOid + 1)
    /\ nextTid \in 1..(MaxTid + 1)
    /\ lastTid \in 0..MaxTid
    /\ cidKnown \in BOOLEAN
    /\ cidDurable \in BOOLEAN
    /\ built \in BOOLEAN
    /\ unique \in [Keys -> Oids \cup {None}]
    /\ capture \in [status : {"none", "queued", "running", "durable", "failed"},
                    batch : Batches, flipped : InstMap, prior : [Oids -> States],
                    deletes : DeleteMap, delta : BOOLEAN, priors : Objects]
    /\ io \in [phase : {"idle", "records", "open"}, awaited : BOOLEAN, batch : Batches]
    /\ db \in [objs : Objects, nextOid : 1..(MaxOid + 1), nextTid : 1..(MaxTid + 1),
               typed : BOOLEAN]
    /\ consumer \in [att : BOOLEAN, wm : 0..MaxTid, objs : Objects]

-----------------------------------------------------------------------------
(* Properties of the stored data *)

(* A commit that was acknowledged is durable, and at most one commit is     *)
(* durable that is not acknowledged yet: the watermark last_tid never runs  *)
(* ahead of the backend and never trails it by more than the commit in      *)
(* flight, across failures, rollbacks, discards and crashes.                *)
AckedDurable ==
    /\ lastTid <= db.nextTid - 1
    /\ db.nextTid - 1 <= lastTid + 1

(* Whenever no commit is in flight the watermark is the backend's TID, and  *)
(* the allocator hands out its successor: a failed commit gave its TID back *)
(* (_p2_rollback, invariant 5).                                             *)
WatermarksAgree ==
    capture.status = "none" => lastTid = db.nextTid - 1 /\ nextTid = db.nextTid

(* The durable TID sequence has no gap and never repeats: each transaction  *)
(* that becomes durable carries exactly the successor of the last one       *)
(* (invariant 5), whatever failed, was retried or crashed in between.       *)
GaplessTids == [][db' # db => db'.nextTid = db.nextTid + 1]_db

(* No two stored records have the same value of the unique field, although  *)
(* P1 checks an in-memory map that P3 only folds in after durability.       *)
UniqueDurable ==
    \A o, p \in Oids : db.objs[o] \in Keys /\ db.objs[o] = db.objs[p] => o = p

(* Between commits the unique map, once built, is the inverse of the stored *)
(* records, except for records a buffered delete is about to remove.        *)
IndexExact ==
    built /\ capture.status = "none" /\ io.phase = "idle" =>
        \A k \in Keys, o \in Oids :
            deleted[o] = None => (unique[k] = o <=> db.objs[o] = k)

(* A record that is gone stays gone: an OID below the durable watermark     *)
(* that has no record never gets one again (OIDs are never reused).         *)
DeletedStaysDeleted ==
    [][\A o \in Oids : db.objs[o] = None /\ o < db.nextOid => db'.objs[o] = None]_db

-----------------------------------------------------------------------------
(* Properties of the unit of work *)

(* A CLEAN object the registry hands out agrees with the store: with the    *)
(* batch in flight if a commit has captured it, else with its record.       *)
CleanAgrees ==
    \A i \in Insts : st[i] = "CLEAN" /\ registry[oidOf[i]] = i =>
        IF capture.status # "none" /\ capture.flipped[oidOf[i]] = i
        THEN capture.batch.recs[oidOf[i]] = val[i]
        ELSE oidOf[i] \in capture.batch.dels \/ db.objs[oidOf[i]] = val[i]

(* No write is lost: an object that is NEW or DIRTY is in the buffer its    *)
(* state names, so that the next commit captures it, unless a delete of its *)
(* OID is buffered or in flight (the delete wins).                          *)
WritesBuffered ==
    \A i \in Insts :
        st[i] \in {"NEW", "DIRTY"} =>
            \/ (IF st[i] = "NEW" THEN new ELSE dirty)[oidOf[i]] = i
            \/ deleted[oidOf[i]] # None
            \/ oidOf[i] \in capture.batch.dels

(* DELETED is final for an object: reads work, writes raise, and no commit, *)
(* failure or rollback makes it writable again; it can only be dropped (or  *)
(* be untracked by discard(), if its insert was never committed).           *)
DeletedStaysBarred ==
    [][\A i \in Insts : st[i] = "DELETED" => st'[i] \in {"DELETED", "FREE"}]_st

(* Identity is the contract: an OID's buffered object is the one object the *)
(* registry hands out for it, unless it is NEW and not registered yet.      *)
OneLiveInstance ==
    \A o \in Oids : dirty[o] # None /\ registry[o] # None => dirty[o] = registry[o]

(* "Deletes always have a persisted record", and so has every buffered      *)
(* write of an entity that is not NEW: no commit ends in the internal error *)
(* of _read_delta_priors.                                                   *)
PriorsExist ==
    capture.status = "none" =>
        \A o \in Oids : \/ Pending[o] # None /\ new[o] = None
                        \/ deleted[o] # None
                        => db.objs[o] # None

(* A delete wins over every buffered write of its OID, also over the write  *)
(* of a twin that was hydrated after the delete was buffered: no DELETED    *)
(* object is left in a buffer, where it would make each commit raise.       *)
DeleteWins == capture.status = "none" => Storable

-----------------------------------------------------------------------------
(* Properties of the delta stream *)

(* An attached consumer has exactly the committed state at its watermark,   *)
(* and its watermark is the store's.                                        *)
ConsumerInSync ==
    consumer.att =>
        /\ consumer.wm = lastTid
        /\ capture.status # "durable" => consumer.objs = db.objs

-----------------------------------------------------------------------------
(* Every commit that was captured is settled: acknowledged, rolled back, or *)
(* gone with the process; also one that queues behind the still running job *)
(* of a cancelled commit.                                                   *)
CommitSettles == capture.status # "none" ~> capture.status = "none"

(* The engine implements the atomic store: what its P2 makes durable are    *)
(* the abstract commits, what P3, a discard or a reboot publish is their    *)
(* acknowledgement, and every other step is invisible.                      *)
Atomic == INSTANCE AtomicStore WITH
    objs <- db.objs, tid <- db.nextTid - 1, acked <- lastTid
ImplementsAtomicStore == Atomic!Spec

=============================================================================
