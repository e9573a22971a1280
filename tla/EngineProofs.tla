---------------------------- MODULE EngineProofs ----------------------------
(***************************************************************************)
(* Machine-checked proofs about the commit engine, for every set of objects *)
(* and keys and every bound on OIDs and TIDs.                               *)
(***************************************************************************)
EXTENDS Engine, TLAPS

-----------------------------------------------------------------------------
(* Type correctness *)

(* A rollback gives back the TID of the captured batch, so TypeOK needs to  *)
(* know that a captured batch has one, and that the worker resolves no      *)
(* other commit's future than the one it runs.                              *)
TypeInv ==
    /\ TypeOK
    /\ capture.status # "none" => capture.batch.tid >= 1
    /\ io.awaited => capture.status = "running"

(* The constant parts of a state are typed. *)
LEMMA ConstantsTyped ==
    /\ NoInsts \in InstMap
    /\ NoInsts \in DeleteMap
    /\ NoVals \in Objects
    /\ NoPriorStates \in [Oids -> States]
    /\ EmptyIndex \in [Keys -> Oids \cup {None}]
    /\ EmptyIndex \in [Keys -> Insts \cup {None}]
    /\ NoBatch \in Batches
BY EngineConstants, SMT DEF NoInsts, NoVals, NoPriorStates, EmptyIndex, NoBatch, InstMap, DeleteMap,
        Objects, States, Batches, Oids, Vals

(* Applying a batch to records yields records. *)
LEMMA AppliedTyped ==
    ASSUME NEW objs \in Objects, NEW batch \in Batches
    PROVE  WithRecords(objs, batch) \in Objects /\ Applied(objs, batch) \in Objects
BY DEF WithRecords, Applied, Objects, Batches

LEMMA ViewTyped == ASSUME TypeOK PROVE View \in Objects
<1>1. db.objs \in Objects /\ io.batch \in Batches
  BY DEF TypeOK
<1> QED  BY <1>1, AppliedTyped DEF View

(* The unique map maps to OIDs, however it came about. *)
LEMMA IndexTyped ==
    ASSUME TypeOK
    PROVE  Ensured \in [Keys -> Oids \cup {None}]
<1>1. ASSUME NEW objs PROVE BuildIndex(objs) \in [Keys -> Oids \cup {None}]
  BY DEF BuildIndex
<1> QED  BY <1>1 DEF Ensured, TypeOK

LEMMA FoldTyped ==
    ASSUME NEW idx \in [Keys -> Oids \cup {None}], NEW recs, NEW dels
    PROVE  FoldIndex(idx, recs, dels) \in [Keys -> Oids \cup {None}]
BY DEF FoldIndex

LEMMA TypeInit == Init => TypeInv
<1> SUFFICES ASSUME Init PROVE TypeInv
  OBVIOUS
<1> USE ConstantsTyped, EngineConstants DEF Init
<1>1. capture = NoCapture /\ io = IdleWorker
  OBVIOUS
<1>2. capture \in [status : {"none", "queued", "running", "durable", "failed"},
                    batch : Batches, flipped : InstMap, prior : [Oids -> States],
                    deletes : DeleteMap, delta : BOOLEAN, priors : Objects]
  BY <1>1 DEF NoCapture
<1>3. io \in [phase : {"idle", "records", "open"}, awaited : BOOLEAN, batch : Batches]
  BY <1>1 DEF IdleWorker
<1>4. /\ st \in [Insts -> States]
      /\ oidOf \in [Insts -> Oids \cup {None}]
      /\ val \in [Insts -> Vals]
  BY DEF States, Vals
<1>5. /\ db \in [objs : Objects, nextOid : 1..(MaxOid + 1), nextTid : 1..(MaxTid + 1),
               typed : BOOLEAN]
      /\ consumer \in [att : BOOLEAN, wm : 0..MaxTid, objs : Objects]
      /\ nextOid \in 1..(MaxOid + 1)
      /\ nextTid \in 1..(MaxTid + 1)
      /\ lastTid \in 0..MaxTid
  OBVIOUS
<1>6. TypeOK
  BY <1>2, <1>3, <1>4, <1>5 DEF TypeOK
<1> QED  BY <1>1, <1>6 DEF TypeInv, NoCapture, IdleWorker

-----------------------------------------------------------------------------
(* Each action preserves the types.  The owner's operations on the unit of  *)
(* work change objects and buffers only.                                    *)

LEMMA AdoptTyped ==
    ASSUME TypeOK, NEW i \in Insts, NEW v \in Vals, Adopt(i, v)
    PROVE  /\ st' \in [Insts -> States]
           /\ oidOf' \in [Insts -> Oids \cup {None}]
           /\ val' \in [Insts -> Vals]
           /\ new' \in InstMap
           /\ nextOid' \in 1..(MaxOid + 1)
<1>1. nextOid \in Oids
  BY EngineConstants DEF TypeOK, Adopt, Oids
<1> QED
  BY <1>1, EngineConstants DEF TypeOK, Adopt, InstMap, States, Oids

LEMMA TypeStoreWrite ==
    ASSUME TypeOK, NEW i \in Insts, NEW v \in Vals, Store(i, v) \/ Write(i, v)
    PROVE  TypeOK'
<1>1. CASE Store(i, v)
  BY <1>1, AdoptTyped DEF TypeOK, Store, cidVars, idxVars, p2Vars
<1>2. CASE Write(i, v)
  BY <1>2 DEF TypeOK, Write, TouchAndSet, InstMap, States, idVars, cidVars, idxVars, p2Vars
<1> QED  BY <1>1, <1>2

LEMMA TypeLoad ==
    ASSUME TypeOK, NEW i \in Insts, NEW o \in Oids, Load(i, o)
    PROVE  TypeOK'
<1>1. View[o] \in Vals
  BY ViewTyped DEF Load, Objects
<1> QED
  BY <1>1 DEF TypeOK, Load, Hydrate, InstMap, States, idVars, cidVars, idxVars, p2Vars

LEMMA TypeForget ==
    ASSUME TypeOK, NEW i \in Insts, Forget(i)
    PROVE  TypeOK'
BY DEF TypeOK, Forget, InstMap, States, Vals, bufVars, idVars, cidVars, idxVars, p2Vars

LEMMA DeleteOidTyped ==
    ASSUME TypeOK, NEW obj \in Insts \cup {None}, NEW o \in Oids, DeleteOid(obj, o)
    PROVE  /\ st' \in [Insts -> States]
           /\ new' \in InstMap
           /\ dirty' \in InstMap
           /\ deleted' \in DeleteMap
           /\ cancelledNew' \in InstMap
BY EngineConstants DEF TypeOK, DeleteOid, InstMap, DeleteMap, States

LEMMA TypeDelete ==
    ASSUME TypeOK,
           \/ \E i \in Insts : DeleteInstance(i)
           \/ \E k \in Keys : DeleteByKey(k)
    PROVE  TypeOK'
<1>1. ASSUME NEW i \in Insts, DeleteInstance(i) PROVE TypeOK'
  <2>1. CASE oidOf[i] \in Oids
    <3>1. /\ st' \in [Insts -> States]
          /\ new' \in InstMap
          /\ dirty' \in InstMap
          /\ deleted' \in DeleteMap
          /\ cancelledNew' \in InstMap
      BY <1>1, <2>1, DeleteOidTyped DEF DeleteInstance
    <3> QED
      BY <1>1, <3>1 DEF TypeOK, DeleteInstance, idVars, cidVars, idxVars, p2Vars
  <2>2. CASE oidOf[i] = None
    <3>1. /\ st' \in [Insts -> States]
          /\ new' \in InstMap
          /\ dirty' \in InstMap
          /\ deleted' \in DeleteMap
          /\ cancelledNew' \in InstMap
      BY <1>1, <2>2, EngineConstants
         DEF TypeOK, DeleteInstance, DeleteOid, InstMap, DeleteMap, States
    <3> QED
      BY <1>1, <3>1 DEF TypeOK, DeleteInstance, idVars, cidVars, idxVars, p2Vars
  <2> QED  BY <2>1, <2>2 DEF TypeOK
<1>2. ASSUME NEW k \in Keys, DeleteByKey(k) PROVE TypeOK'
  <2>1. Ensured[k] \in Oids
    BY <1>2, IndexTyped DEF DeleteByKey
  <2>2. registry[Ensured[k]] \in Insts \cup {None}
    BY <2>1 DEF TypeOK, InstMap
  <2>3. /\ st' \in [Insts -> States]
        /\ new' \in InstMap
        /\ dirty' \in InstMap
        /\ deleted' \in DeleteMap
        /\ cancelledNew' \in InstMap
    BY <1>2, <2>1, <2>2, DeleteOidTyped DEF DeleteByKey
  <2> QED
    BY <1>2, <2>3, IndexTyped DEF TypeOK, DeleteByKey, idVars, cidVars, p2Vars
<1> QED  BY <1>1, <1>2

LEMMA EnsureTyped ==
    ASSUME TypeOK, EnsureIfKnown \/ EnsureForCheck
    PROVE  built' \in BOOLEAN /\ unique' \in [Keys -> Oids \cup {None}]
<1>1. HasRecords \in BOOLEAN
  BY DEF HasRecords
<1> QED  BY <1>1, IndexTyped DEF TypeOK, EnsureIfKnown, EnsureForCheck

LEMMA TypeUpsert ==
    ASSUME TypeOK, NEW i \in Insts, NEW k \in Keys,
           UpsertInsert(i, k) \/ UpsertMerge(k) \/ UpsertHydrate(i, k)
    PROVE  TypeOK'
<1>0. k \in Vals
  BY DEF Vals
<1>1. CASE UpsertInsert(i, k)
  <2>1. built' \in BOOLEAN /\ unique' \in [Keys -> Oids \cup {None}]
    BY <1>1, EnsureTyped DEF UpsertInsert
  <2>2. /\ st' \in [Insts -> States]
        /\ oidOf' \in [Insts -> Oids \cup {None}]
        /\ val' \in [Insts -> Vals]
        /\ new' \in InstMap
        /\ nextOid' \in 1..(MaxOid + 1)
    BY <1>0, <1>1, AdoptTyped DEF UpsertInsert
  <2>3. pendingUpserts' \in [Keys -> Insts \cup {None}]
    BY <1>1 DEF UpsertInsert, TypeOK
  <2> QED
    BY <1>1, <2>1, <2>2, <2>3 DEF TypeOK, UpsertInsert, cidVars, p2Vars
<1>2. CASE UpsertMerge(k)
  <2>1. built' \in BOOLEAN /\ unique' \in [Keys -> Oids \cup {None}]
    BY <1>2, EnsureTyped DEF UpsertMerge
  <2>2. CommittedOwner(k) \in Oids
    BY <1>2, IndexTyped DEF UpsertMerge, CommittedOwner
  <2>3. registry[CommittedOwner(k)] \in Insts
    BY <1>2, <2>2 DEF UpsertMerge, TypeOK, InstMap
  <2>4. PICK x \in Insts : TouchAndSet(x, k)
    BY <1>2, <2>3 DEF UpsertMerge
  <2>5. st' \in [Insts -> States] /\ val' \in [Insts -> Vals] /\ dirty' \in InstMap
    BY <1>0, <2>4 DEF TouchAndSet, TypeOK, InstMap, States
  <2> QED
    BY <1>2, <2>1, <2>5 DEF TypeOK, UpsertMerge, idVars, cidVars, p2Vars
<1>3. CASE UpsertHydrate(i, k)
  <2>1. built' \in BOOLEAN /\ unique' \in [Keys -> Oids \cup {None}]
    BY <1>3, EnsureTyped DEF UpsertHydrate
  <2>2. CommittedOwner(k) \in Oids
    BY <1>3, IndexTyped DEF UpsertHydrate, CommittedOwner
  <2>3. PICK o \in Oids : Hydrate(i, o, k)
    BY <1>3, <2>2 DEF UpsertHydrate
  <2>4. /\ st' \in [Insts -> States]
        /\ oidOf' \in [Insts -> Oids \cup {None}]
        /\ val' \in [Insts -> Vals]
        /\ registry' \in InstMap
        /\ dirty' \in InstMap
    BY <1>0, <2>3 DEF Hydrate, TypeOK, InstMap, States
  <2> QED
    BY <1>3, <2>1, <2>4 DEF TypeOK, UpsertHydrate, idVars, cidVars, p2Vars
<1> QED  BY <1>1, <1>2, <1>3

LEMMA TypeTracked == ASSUME TypeOK, NEW i \in Insts, UpsertTracked(i) PROVE TypeOK'
<1>1. built' \in BOOLEAN /\ unique' \in [Keys -> Oids \cup {None}]
  BY EnsureTyped DEF UpsertTracked
<1>2. pendingUpserts' \in [Keys -> Insts \cup {None}]
  BY DEF TypeOK, UpsertTracked
<1>3. /\ UNCHANGED <<st, oidOf, val, new, dirty, deleted, cancelledNew, registry>>
      /\ UNCHANGED <<nextOid, nextTid, lastTid, cidKnown, cidDurable, capture, io, db, consumer>>
  BY DEF UpsertTracked, objVars, idVars, cidVars, p2Vars
<1> QED  BY <1>1, <1>2, <1>3 DEF TypeOK

LEMMA TypeLookup == ASSUME TypeOK, Lookup PROVE TypeOK'
BY IndexTyped DEF TypeOK, Lookup, objVars, bufVars, idVars, cidVars, p2Vars

-----------------------------------------------------------------------------
(* The commit phases. *)

Captures == [status : {"none", "queued", "running", "durable", "failed"},
             batch : Batches, flipped : InstMap, prior : [Oids -> States],
             deletes : DeleteMap, delta : BOOLEAN, priors : Objects]

LEMMA PendingTyped == ASSUME TypeOK PROVE Pending \in InstMap
BY DEF TypeOK, Pending, InstMap

LEMMA CapturedTyped ==
    ASSUME TypeOK, nextTid <= MaxTid, nextTid >= 1
    PROVE  Captured(Pending) \in Captures
<1> DEFINE pend == Pending
<1>1. pend \in InstMap
  BY PendingTyped
<1>2. Batch(pend) \in Batches
  <2>1. [o \in Oids |-> IF pend[o] # None THEN val[pend[o]] ELSE None] \in Objects
    BY <1>1 DEF TypeOK, InstMap, Objects
  <2>2. nextTid \in 0..MaxTid /\ nextOid \in 1..(MaxOid + 1)
    BY EngineConstants DEF TypeOK
  <2>3. (HasRecords /\ ~cidDurable) \in BOOLEAN
    BY DEF HasRecords, TypeOK
  <2> HIDE DEF pend
  <2> QED  BY <2>1, <2>2, <2>3 DEF Batch, Batches
<1>3. Priors(pend) \in Objects
  BY ViewTyped DEF Priors, Objects
<1>4. [o \in Oids |-> IF pend[o] # None THEN st[pend[o]] ELSE "FREE"] \in [Oids -> States]
  BY <1>1 DEF TypeOK, InstMap, States
<1>5. deleted \in DeleteMap /\ consumer.att \in BOOLEAN /\ NoVals \in Objects
  BY ConstantsTyped DEF TypeOK
<1> HIDE DEF pend
<1> QED  BY <1>1, <1>2, <1>3, <1>4, <1>5 DEF Captured, Captures, pend

LEMMA TypeP1 ==
    ASSUME TypeInv, P1RejectUnique \/ P1RejectPriors \/ P1Capture
    PROVE  TypeInv'
<1> USE DEF TypeInv
<1>1. CASE P1RejectUnique
  BY <1>1, EnsureTyped DEF TypeOK, P1RejectUnique, objVars, bufVars, idVars, cidVars, p2Vars
<1>2. CASE P1RejectPriors
  <2>1. built' \in BOOLEAN /\ unique' \in [Keys -> Oids \cup {None}]
    BY <1>2, EnsureTyped DEF P1RejectPriors
  <2>2. cidKnown' \in BOOLEAN
    BY <1>2 DEF P1RejectPriors, HasRecords, TypeOK
  <2> QED
    BY <1>2, <2>1, <2>2 DEF TypeOK, P1RejectPriors, objVars, bufVars, idVars, p2Vars
<1>3. CASE P1Capture
  <2>1. built' \in BOOLEAN /\ unique' \in [Keys -> Oids \cup {None}]
    BY <1>3, EnsureTyped DEF P1Capture
  <2>2. nextTid \in 1..MaxTid
    BY <1>3, EngineConstants DEF TypeOK, P1Capture
  <2>3. capture' \in Captures /\ capture'.batch.tid = nextTid
    <3>1. Captured(Pending) \in Captures
      BY <2>2, CapturedTyped, EngineConstants
    <3> QED  BY <1>3, <3>1 DEF P1Capture, Captured, Batch
  <2>4. st' \in [Insts -> States]
    BY <1>3 DEF TypeOK, P1Capture, Flip, States
  <2>5. registry' \in InstMap
    BY <1>3, PendingTyped DEF TypeOK, P1Capture, Registered, InstMap
  <2>6. /\ new' \in InstMap /\ dirty' \in InstMap /\ cancelledNew' \in InstMap
        /\ deleted' \in DeleteMap
    BY <1>3, ConstantsTyped DEF P1Capture
  <2>7. cidKnown' \in BOOLEAN /\ nextTid' \in 1..(MaxTid + 1)
    BY <1>3, <2>2, EngineConstants DEF P1Capture, HasRecords, TypeOK
  <2>8. TypeOK'
    BY <1>3, <2>1, <2>3, <2>4, <2>5, <2>6, <2>7 DEF TypeOK, P1Capture, Captures
  <2>9. ~io'.awaited
    BY <1>3 DEF P1Capture, TypeOK
  <2> QED  BY <2>2, <2>3, <2>8, <2>9
<1> QED  BY <1>1, <1>2, <1>3

LEMMA TypeP2 ==
    ASSUME TypeInv, P2Begin \/ P2Deletes \/ P2Commit \/ P2Fail
    PROVE  TypeInv'
<1> USE DEF TypeInv, objVars, bufVars, idVars, cidVars, idxVars
<1>0. NoBatch \in Batches
  BY ConstantsTyped
<1>1. CASE P2Begin
  <2>0. capture \in Captures /\ capture.status # "none" /\ ~io.awaited
    BY <1>1 DEF TypeOK, P2Begin, Captures
  <2>1. /\ capture' \in Captures
        /\ capture'.status # "none" => capture'.batch.tid >= 1
    <3>1. CASE capture' = [capture EXCEPT !.status = "failed"]
      BY <2>0, <3>1 DEF Captures
    <3>2. CASE capture' = [capture EXCEPT !.status = "running"]
      BY <2>0, <3>2 DEF Captures
    <3> QED  BY <1>1, <3>1, <3>2 DEF P2Begin
  <2>2. io' \in [phase : {"idle", "records", "open"}, awaited : BOOLEAN, batch : Batches]
    <3>1. CASE io' = io
      BY <3>1 DEF TypeOK
    <3>2. CASE io' = [phase |-> "records", awaited |-> TRUE, batch |-> capture.batch]
      BY <2>0, <3>2 DEF Captures
    <3> QED  BY <1>1, <3>1, <3>2 DEF P2Begin
  <2>3. io'.awaited => capture'.status = "running"
    <3>1. CASE io' = io
      BY <2>0, <3>1
    <3>2. CASE capture' = [capture EXCEPT !.status = "running"]
      BY <2>0, <3>2 DEF Captures
    <3> QED  BY <1>1, <3>1, <3>2 DEF P2Begin
  <2>4. TypeOK'
    BY <1>1, <2>1, <2>2 DEF TypeOK, P2Begin, Captures
  <2> QED  BY <2>1, <2>3, <2>4
<1>2. CASE P2Deletes
  BY <1>2 DEF TypeOK, P2Deletes
<1>3. CASE P2Commit
  <2>1. Applied(db.objs, io.batch) \in Objects
    BY AppliedTyped DEF TypeOK
  <2>2. db' \in [objs : Objects, nextOid : 1..(MaxOid + 1), nextTid : 1..(MaxTid + 1),
                 typed : BOOLEAN]
    BY <1>3, <2>1, EngineConstants DEF TypeOK, P2Commit, Batches
  <2>3. io' \in [phase : {"idle", "records", "open"}, awaited : BOOLEAN, batch : Batches]
    BY <1>0, <1>3 DEF P2Commit, Resolve, IdleWorker
  <2>4. /\ capture' \in Captures
        /\ capture'.status # "none" => capture'.batch.tid >= 1
        /\ ~io'.awaited
    BY <1>3 DEF TypeOK, P2Commit, Resolve, Captures, IdleWorker
  <2>5. TypeOK'
    BY <1>3, <2>2, <2>3, <2>4 DEF TypeOK, P2Commit, Captures
  <2> QED  BY <2>4, <2>5
<1>4. CASE P2Fail
  <2>1. io' \in [phase : {"idle", "records", "open"}, awaited : BOOLEAN, batch : Batches]
    BY <1>0, <1>4 DEF P2Fail, Resolve, IdleWorker
  <2>2. /\ capture' \in Captures
        /\ capture'.status # "none" => capture'.batch.tid >= 1
        /\ ~io'.awaited
    BY <1>4 DEF TypeOK, P2Fail, Resolve, Captures, IdleWorker
  <2>3. TypeOK'
    BY <1>4, <2>1, <2>2 DEF TypeOK, P2Fail, Captures
  <2> QED  BY <2>2, <2>3
<1> QED  BY <1>1, <1>2, <1>3, <1>4

LEMMA FinalizeTyped ==
    ASSUME TypeOK, P3Finalize
    PROVE  /\ unique' \in [Keys -> Oids \cup {None}]
           /\ st' \in [Insts -> States]
           /\ registry' \in InstMap
           /\ consumer' \in [att : BOOLEAN, wm : 0..MaxTid, objs : Objects]
<1>1. unique' \in [Keys -> Oids \cup {None}]
  BY FoldTyped DEF TypeOK, P3Finalize
<1>2. st' \in [Insts -> States]
  BY DEF TypeOK, P3Finalize, States
<1>3. registry' \in InstMap
  BY DEF TypeOK, P3Finalize, InstMap
<1>4. consumer' \in [att : BOOLEAN, wm : 0..MaxTid, objs : Objects]
  <2>1. Applied(consumer.objs, capture.batch) \in Objects
    BY AppliedTyped DEF TypeOK
  <2>2. capture.batch.tid \in 0..MaxTid
    BY DEF TypeOK, Batches
  <2>3. consumer \in [att : BOOLEAN, wm : 0..MaxTid, objs : Objects]
    BY DEF TypeOK
  <2> QED  BY <2>1, <2>2, <2>3 DEF P3Finalize, Delivered
<1> QED  BY <1>1, <1>2, <1>3, <1>4

LEMMA RollbackTyped ==
    ASSUME TypeInv, Rollback, capture.status # "none"
    PROVE  /\ nextTid' \in 1..(MaxTid + 1)
           /\ new' \in InstMap
           /\ dirty' \in InstMap
           /\ deleted' \in DeleteMap
           /\ st' \in [Insts -> States]
           /\ capture' = NoCapture
<1>1. nextTid' \in 1..(MaxTid + 1)
  BY EngineConstants DEF TypeInv, TypeOK, Rollback, RollbackTid, Batches
<1>2. new' \in InstMap /\ dirty' \in InstMap
  BY DEF TypeInv, TypeOK, Rollback, RollbackNew, RollbackDirty, InstMap
<1>3. deleted' \in DeleteMap
  BY DEF TypeInv, TypeOK, Rollback, DeleteMap
<1>4. st' \in [Insts -> States]
  BY DEF TypeInv, TypeOK, Rollback, RollbackState, States
<1> QED  BY <1>1, <1>2, <1>3, <1>4 DEF Rollback

LEMMA NoCaptureTyped ==
    /\ NoCapture \in Captures
    /\ NoCapture.status = "none"
    /\ IdleWorker \in [phase : {"idle", "records", "open"}, awaited : BOOLEAN, batch : Batches]
    /\ ~IdleWorker.awaited
BY ConstantsTyped DEF NoCapture, Captures, IdleWorker

LEMMA TypeSettle ==
    ASSUME TypeInv, P3Finalize \/ P2Rollback \/ Cancel
    PROVE  TypeInv'
<1> USE DEF TypeInv, idVars, cidVars, idxVars
<1>1. CASE P3Finalize
  <2>1. capture' = NoCapture /\ ~io'.awaited
    BY <1>1 DEF P3Finalize
  <2>2. /\ lastTid' \in 0..MaxTid
        /\ cidDurable' \in BOOLEAN
        /\ pendingUpserts' \in [Keys -> Insts \cup {None}]
    BY <1>1, ConstantsTyped DEF TypeOK, P3Finalize, Batches
  <2>3. TypeOK'
    BY <1>1, <2>1, <2>2, FinalizeTyped, NoCaptureTyped DEF TypeOK, P3Finalize, Captures
  <2> QED  BY <2>1, <2>3, NoCaptureTyped
<1>2. CASE P2Rollback
  <2>1. Rollback /\ capture.status # "none" /\ ~io.awaited /\ io' = io
    BY <1>2 DEF P2Rollback
  <2>2. TypeOK'
    BY <2>1, RollbackTyped, NoCaptureTyped DEF TypeOK, Rollback, Captures
  <2> QED  BY <2>1, <2>2, RollbackTyped, NoCaptureTyped
<1>3. CASE Cancel
  <2>1. Rollback /\ capture.status # "none"
    BY <1>3 DEF Cancel
  <2>2. /\ io' \in [phase : {"idle", "records", "open"}, awaited : BOOLEAN, batch : Batches]
        /\ ~io'.awaited
    <3>1. CASE capture.status = "running"
      BY <1>3, <3>1 DEF Cancel, TypeOK
    <3>2. CASE capture.status # "running"
      BY <1>3, <3>2 DEF Cancel, TypeOK
    <3> QED  BY <3>1, <3>2
  <2>3. TypeOK'
    BY <2>1, <2>2, RollbackTyped, NoCaptureTyped DEF TypeOK, Rollback, Captures
  <2> QED  BY <2>1, <2>2, <2>3, RollbackTyped, NoCaptureTyped
<1> QED  BY <1>1, <1>2, <1>3

LEMMA TypeEnvironment ==
    ASSUME TypeInv, Rebuild \/ Attach \/ Detach \/ Discard \/ Crash
    PROVE  TypeInv'
<1> USE DEF TypeInv, objVars, bufVars, idVars, cidVars, idxVars, p2Vars
<1>1. CASE Rebuild \/ Attach \/ Detach
  <2>1. consumer' \in [att : BOOLEAN, wm : 0..MaxTid, objs : Objects]
    <3>1. CASE Rebuild
      BY <3>1, EngineConstants DEF TypeOK, Rebuild
    <3>2. CASE Attach \/ Detach
      BY <3>2 DEF TypeOK, Attach, Detach
    <3> QED  BY <1>1, <3>1, <3>2
  <2> QED  BY <1>1, <2>1 DEF TypeOK, Rebuild, Attach, Detach
<1>2. ASSUME TypeOK, LoadState
      PROVE  /\ new' \in InstMap /\ dirty' \in InstMap /\ cancelledNew' \in InstMap
             /\ deleted' \in DeleteMap /\ registry' \in InstMap
             /\ pendingUpserts' \in [Keys -> Insts \cup {None}]
             /\ unique' \in [Keys -> Oids \cup {None}]
             /\ nextOid' \in 1..(MaxOid + 1) /\ nextTid' \in 1..(MaxTid + 1)
             /\ lastTid' \in 0..MaxTid
             /\ cidKnown' \in BOOLEAN /\ cidDurable' \in BOOLEAN /\ built' \in BOOLEAN
  <2>1. /\ db.nextOid \in 1..(MaxOid + 1) /\ db.nextTid \in 1..(MaxTid + 1)
        /\ db.typed \in BOOLEAN
    BY <1>2 DEF TypeOK
  <2>2. db.nextTid - 1 \in 0..MaxTid
    BY <2>1, EngineConstants
  <2> QED  BY <1>2, <2>1, <2>2, ConstantsTyped DEF LoadState
<1>3. CASE Discard
  <2>1. /\ st' \in [Insts -> States]
        /\ oidOf' \in [Insts -> Oids \cup {None}]
        /\ val' \in [Insts -> Vals]
    BY <1>3 DEF TypeOK, Discard, States, Vals
  <2> QED  BY <1>2, <1>3, <2>1 DEF TypeOK, Discard
<1>4. CASE Crash
  <2>1. /\ st' \in [Insts -> States]
        /\ oidOf' \in [Insts -> Oids \cup {None}]
        /\ val' \in [Insts -> Vals]
        /\ consumer' \in [att : BOOLEAN, wm : 0..MaxTid, objs : Objects]
    BY <1>4, ConstantsTyped, EngineConstants DEF TypeOK, Crash, States, Vals
  <2>2. capture' = NoCapture /\ io' = IdleWorker
    BY <1>4 DEF Crash
  <2>3. TypeOK'
    BY <1>2, <1>4, <2>1, <2>2, NoCaptureTyped DEF TypeOK, Crash, Captures
  <2> QED  BY <2>2, <2>3, NoCaptureTyped
<1> QED  BY <1>1, <1>3, <1>4

LEMMA TypeWorkUnit == ASSUME TypeInv, WorkUnitStep PROVE TypeInv'
<1> USE DEF TypeInv
<1>1. TypeOK'
  <2>1. CASE \E i \in Insts, v \in Vals : Store(i, v) \/ Write(i, v)
    BY <2>1, TypeStoreWrite
  <2>2. CASE \E i \in Insts, o \in Oids : Load(i, o)
    BY <2>2, TypeLoad
  <2>3. CASE \E i \in Insts : Forget(i)
    BY <2>3, TypeForget
  <2>4. CASE (\E i \in Insts : DeleteInstance(i)) \/ (\E k \in Keys : DeleteByKey(k))
    BY <2>4, TypeDelete
  <2>5. CASE \E k \in Keys : UpsertMerge(k)
    <3>1. PICK k \in Keys : UpsertMerge(k)
      BY <2>5
    <3>2. CommittedOwner(k) \in Oids
      BY <3>1, IndexTyped DEF UpsertMerge, CommittedOwner
    <3>3. registry[CommittedOwner(k)] \in Insts
      BY <3>1, <3>2 DEF UpsertMerge, TypeOK, InstMap
    <3> QED  BY <3>1, <3>3, TypeUpsert
  <2>6. CASE \E i \in Insts, k \in Keys : UpsertInsert(i, k) \/ UpsertHydrate(i, k)
    BY <2>6, TypeUpsert
  <2>7. CASE Lookup
    BY <2>7, TypeLookup
  <2>8. CASE \E i \in Insts : UpsertTracked(i)
    BY <2>8, TypeTracked
  <2> QED  BY <2>1, <2>2, <2>3, <2>4, <2>5, <2>6, <2>7, <2>8 DEF WorkUnitStep
<1>2. UNCHANGED p2Vars
  BY DEF WorkUnitStep, Store, Write, Load, Forget, DeleteInstance, DeleteByKey, UpsertMerge,
         UpsertInsert, UpsertHydrate, UpsertTracked, Lookup
<1> QED  BY <1>1, <1>2 DEF TypeInv, p2Vars

LEMMA TypeStep == ASSUME TypeInv, [Next]_vars PROVE TypeInv'
<1>1. CASE Next
  BY <1>1, TypeWorkUnit, TypeP1, TypeP2, TypeSettle, TypeEnvironment
     DEF Next, CommitStep, WorkerStep, ConsumerStep
<1>2. CASE UNCHANGED vars
  BY <1>2 DEF TypeInv, TypeOK, vars, objVars, bufVars, idVars, cidVars, idxVars, p2Vars
<1> QED  BY <1>1, <1>2

LEMMA TypeInvariant == Spec => []TypeInv
<1>1. TypeInv /\ [Next]_vars => TypeInv'
  BY TypeStep
<1> QED  BY <1>1, TypeInit, PTL DEF Spec

(* Type correctness of the engine: no call order, failure, cancellation or  *)
(* crash takes a variable out of its type or beyond the bounds.             *)
THEOREM EngineTypes == Spec => []TypeOK
<1>1. TypeInv => TypeOK
  BY DEF TypeInv
<1> QED  BY <1>1, TypeInvariant, PTL

-----------------------------------------------------------------------------
(* TIDs.  The inductive invariant ties the three places a TID lives (the    *)
(* allocator, the watermark, the backend) to the phase of the commit.  It   *)
(* needs that no commit is cancelled: the job of a cancelled commit runs on *)
(* behind an engine that has already given its TID back.                    *)

NoCancel == "cancel" \notin Env

TidInv ==
    /\ capture.status = "none" =>
          io.phase = "idle" /\ nextTid = db.nextTid /\ db.nextTid = lastTid + 1
    /\ capture.status # "none" =>
          nextTid = capture.batch.tid + 1 /\ capture.batch.tid = lastTid + 1
    /\ capture.status \in {"queued", "running", "failed"} => db.nextTid = capture.batch.tid
    /\ capture.status = "durable" => db.nextTid = capture.batch.tid + 1
    /\ capture.status = "running" =>
          io.phase # "idle" /\ io.awaited /\ io.batch = capture.batch
    /\ capture.status # "running" => io.phase = "idle"

LEMMA TidInit == Init => TidInv
BY DEF Init, TidInv, NoCapture, NoBatch, IdleWorker

LEMMA TidWorker ==
    ASSUME TypeInv, TidInv, WorkerStep
    PROVE  TidInv' /\ (db' # db => db'.nextTid = db.nextTid + 1)
<1> USE DEF TypeInv, TypeOK
<1>1. CASE P2Begin
  BY <1>1 DEF P2Begin, TidInv, idVars
<1>2. CASE P2Deletes
  BY <1>2 DEF P2Deletes, TidInv, idVars
<1>3. CASE P2Commit
  BY <1>3 DEF P2Commit, Resolve, TidInv, idVars, IdleWorker
<1>4. CASE P2Fail
  BY <1>4 DEF P2Fail, Resolve, TidInv, idVars, IdleWorker
<1> QED  BY <1>1, <1>2, <1>3, <1>4 DEF WorkerStep

LEMMA TidCommit ==
    ASSUME NoCancel, TypeInv, TidInv, CommitStep
    PROVE  TidInv' /\ db' = db
<1> USE DEF TypeInv, TypeOK
<1>1. CASE P1RejectUnique \/ P1RejectPriors
  BY <1>1 DEF P1RejectUnique, P1RejectPriors, TidInv, idVars, p2Vars
<1>2. CASE P1Capture
  BY <1>2 DEF P1Capture, Captured, Batch, TidInv
<1>3. CASE P3Finalize
  BY <1>3 DEF P3Finalize, NoCapture, TidInv
<1>4. CASE P2Rollback
  BY <1>4 DEF P2Rollback, Rollback, RollbackTid, NoCapture, TidInv
<1> QED  BY <1>1, <1>2, <1>3, <1>4 DEF CommitStep, Cancel, NoCancel

LEMMA TidRest ==
    ASSUME TypeInv, TidInv, WorkUnitStep \/ ConsumerStep \/ Discard \/ Crash \/ UNCHANGED vars
    PROVE  TidInv' /\ db' = db
<1> USE DEF TypeInv, TypeOK
<1>1. CASE WorkUnitStep
  <2>1. UNCHANGED <<nextTid, lastTid, p2Vars>>
    BY <1>1 DEF WorkUnitStep, Store, Adopt, Write, Load, Forget, DeleteInstance, DeleteByKey,
                UpsertMerge, UpsertInsert, UpsertHydrate, UpsertTracked, Lookup, idVars
  <2> QED  BY <2>1 DEF TidInv, p2Vars
<1>2. CASE ConsumerStep \/ UNCHANGED vars
  BY <1>2 DEF ConsumerStep, Rebuild, Attach, Detach, vars, idVars, p2Vars, TidInv
<1>3. CASE Discard
  BY <1>3 DEF Discard, LoadState, p2Vars, TidInv
<1>4. CASE Crash
  BY <1>4 DEF Crash, LoadState, NoCapture, IdleWorker, TidInv
<1> QED  BY <1>1, <1>2, <1>3, <1>4

LEMMA TidStep ==
    ASSUME NoCancel, TypeInv, TidInv, [Next]_vars
    PROVE  TidInv' /\ (db' # db => db'.nextTid = db.nextTid + 1)
BY TidWorker, TidCommit, TidRest DEF Next

(* Without cancellation of an awaited commit the watermark and the          *)
(* allocator agree with the backend whenever no commit is in flight.        *)
THEOREM EngineWatermarks ==
    ASSUME NoCancel
    PROVE  Spec => []WatermarksAgree
<1>1. TypeInv /\ TidInv /\ [Next]_vars => TidInv'
  BY TidStep
<1>2. TypeInv /\ TidInv => WatermarksAgree
  BY DEF TypeInv, TypeOK, TidInv, WatermarksAgree
<1> QED  BY <1>1, <1>2, TypeInvariant, TidInit, PTL DEF Spec

(* ... the durable TID sequence has no gap and never repeats, through       *)
(* failed commits, rollbacks, discards and crashes.                         *)
THEOREM EngineGapless ==
    ASSUME NoCancel
    PROVE  Spec => GaplessTids
<1>1. TypeInv /\ TidInv /\ [Next]_vars
      => TidInv' /\ [db' # db => db'.nextTid = db.nextTid + 1]_db
  BY TidStep
<1> QED  BY <1>1, TypeInvariant, TidInit, PTL DEF Spec, GaplessTids

(* Acknowledged commits are durable, with cancellation as well.  The job of *)
(* a cancelled commit runs on, so the backend may be one TID ahead of an    *)
(* allocator that has given that TID back; every transaction that can still *)
(* become durable carries the successor of the watermark.  (discard() is    *)
(* the sync facade's and cancellation the async one's: EngineConstants.)    *)
AckInv ==
    /\ capture.status = "none" => nextTid = lastTid + 1
    /\ capture.status # "none" =>
          nextTid = capture.batch.tid + 1 /\ capture.batch.tid = lastTid + 1
    /\ db.nextTid \in {lastTid + 1, lastTid + 2}
    /\ io.phase # "idle" => io.batch.tid = lastTid + 1
    /\ capture.status = "durable" => io.phase = "idle" /\ db.nextTid = lastTid + 2

LEMMA AckInit == Init => AckInv
BY DEF Init, AckInv, NoCapture, NoBatch, IdleWorker

LEMMA AckCommit == ASSUME TypeInv, AckInv, CommitStep PROVE AckInv'
<1> USE DEF TypeInv, TypeOK
<1>1. CASE P1RejectUnique \/ P1RejectPriors
  BY <1>1 DEF P1RejectUnique, P1RejectPriors, AckInv, idVars, p2Vars
<1>2. CASE P1Capture
  BY <1>2 DEF P1Capture, Captured, Batch, AckInv
<1>3. CASE P3Finalize
  BY <1>3 DEF P3Finalize, NoCapture, AckInv
<1>4. CASE P2Rollback
  BY <1>4 DEF P2Rollback, Rollback, RollbackTid, NoCapture, AckInv
<1>5. CASE Cancel
  BY <1>5 DEF Cancel, Rollback, RollbackTid, NoCapture, AckInv
<1> QED  BY <1>1, <1>2, <1>3, <1>4, <1>5 DEF CommitStep

LEMMA AckWorker == ASSUME TypeInv, AckInv, WorkerStep PROVE AckInv'
<1> USE DEF TypeInv, TypeOK
<1>1. CASE P2Begin
  BY <1>1 DEF P2Begin, AckInv, idVars
<1>2. CASE P2Deletes
  BY <1>2 DEF P2Deletes, AckInv, idVars
<1>3. CASE P2Commit
  BY <1>3 DEF P2Commit, Resolve, AckInv, idVars, IdleWorker
<1>4. CASE P2Fail
  BY <1>4 DEF P2Fail, Resolve, AckInv, idVars, IdleWorker
<1> QED  BY <1>1, <1>2, <1>3, <1>4 DEF WorkerStep

LEMMA AckStep ==
    ASSUME "discard" \notin Env, TypeInv, AckInv, [Next]_vars
    PROVE  AckInv'
<1> USE DEF TypeInv, TypeOK
<1>1. CASE WorkUnitStep
  <2>1. UNCHANGED <<nextTid, lastTid, p2Vars>>
    BY <1>1 DEF WorkUnitStep, Store, Adopt, Write, Load, Forget, DeleteInstance, DeleteByKey,
                UpsertMerge, UpsertInsert, UpsertHydrate, UpsertTracked, Lookup, idVars
  <2> QED  BY <2>1 DEF AckInv, p2Vars
<1>2. CASE ConsumerStep \/ UNCHANGED vars
  BY <1>2 DEF ConsumerStep, Rebuild, Attach, Detach, vars, idVars, p2Vars, AckInv
<1>3. CASE Crash
  BY <1>3 DEF Crash, LoadState, NoCapture, IdleWorker, AckInv
<1> QED  BY <1>1, <1>2, <1>3, AckCommit, AckWorker DEF Next, Discard

(* A commit that was acknowledged is durable, and at most one durable       *)
(* commit is not acknowledged yet: also when the awaiting task is cancelled *)
(* at any point and the next commit reuses the TID of a job still running.  *)
THEOREM EngineAckedDurable == Spec => []AckedDurable
<1>1. CASE "discard" \in Env
  <2>1. NoCancel
    BY <1>1, EngineConstants DEF NoCancel
  <2>2. TypeInv /\ TidInv => AckedDurable
    BY DEF TypeInv, TypeOK, TidInv, AckedDurable
  <2>3. TypeInv /\ TidInv /\ [Next]_vars => TidInv'
    BY <2>1, TidStep
  <2> QED  BY <2>2, <2>3, TypeInvariant, TidInit, PTL DEF Spec
<1>2. CASE "discard" \notin Env
  <2>1. TypeInv /\ AckInv => AckedDurable
    BY DEF TypeInv, TypeOK, AckInv, AckedDurable
  <2>2. TypeInv /\ AckInv /\ [Next]_vars => AckInv'
    BY <1>2, AckStep
  <2> QED  BY <2>1, <2>2, TypeInvariant, AckInit, PTL DEF Spec
<1> QED  BY <1>1, <1>2

-----------------------------------------------------------------------------
(* Unique keys.  The durable map and the in-memory one are tied together    *)
(* through a commit: while its batch is in flight the unique map is exact   *)
(* for every record the batch or a buffered delete does not remove, and     *)
(* the batch, applied, keeps the keys unique; once it is durable, folding   *)
(* it into the map gives the exact map of the new records.                  *)

Exact(idx, objs, S) == \A k \in Keys, o \in S : idx[k] = o <=> objs[o] = k
UniqueKeys(objs) == \A o, p \in Oids : objs[o] \in Keys /\ objs[o] = objs[p] => o = p
Undeleted == {o \in Oids : deleted[o] = None}

BatchInv ==
    LET batch == capture.batch IN
    /\ batch.dels = {o \in Oids : capture.deletes[o] # None}
    /\ \A o \in batch.dels : batch.recs[o] = None
    /\ (\E o \in Oids : batch.recs[o] # None) => built

UniqueInv ==
    /\ UniqueKeys(db.objs)
    /\ capture.status = "none" /\ built => Exact(unique, db.objs, Undeleted)
    /\ capture.status # "none" => BatchInv
    /\ capture.status \in {"queued", "running", "failed"} =>
          /\ UniqueKeys(Applied(db.objs, capture.batch))
          /\ built => Exact(unique, db.objs, Undeleted \ capture.batch.dels)
    /\ capture.status = "durable" =>
          /\ \A o \in capture.batch.dels : db.objs[o] = None
          /\ built => Exact(FoldIndex(unique, capture.batch.recs, capture.batch.dels),
                            db.objs, Undeleted)

(* The index built from records with unique keys is their inverse. *)
LEMMA BuildExact ==
    ASSUME NEW objs \in Objects, UniqueKeys(objs)
    PROVE  Exact(BuildIndex(objs), objs, Oids)
<1> SUFFICES ASSUME NEW k \in Keys, NEW o \in Oids
             PROVE  BuildIndex(objs)[k] = o <=> objs[o] = k
  BY DEF Exact
<1>1. None \notin Oids
  BY EngineConstants DEF Oids
<1>2. ASSUME objs[o] = k PROVE BuildIndex(objs)[k] = o
  <2>1. LastHolder(objs, k, o)
    BY <1>2 DEF LastHolder, UniqueKeys, Oids
  <2>2. \A p \in Oids : LastHolder(objs, k, p) => p = o
    BY <1>2 DEF LastHolder, UniqueKeys
  <2> QED  BY <2>1, <2>2 DEF BuildIndex
<1>3. ASSUME BuildIndex(objs)[k] = o PROVE objs[o] = k
  <2>1. \E p \in Oids : LastHolder(objs, k, p)
    BY <1>1, <1>3 DEF BuildIndex
  <2>2. o = CHOOSE p \in Oids : LastHolder(objs, k, p)
    BY <1>3, <2>1 DEF BuildIndex
  <2> QED  BY <2>1, <2>2 DEF LastHolder
<1> QED  BY <1>2, <1>3

(* Folding a batch into the index of the old records gives the index of the *)
(* new ones.                                                                *)
LEMMA FoldExact ==
    ASSUME NEW objs \in Objects, NEW batch \in Batches, NEW S \in SUBSET Oids,
           NEW idx \in [Keys -> Oids \cup {None}],
           \A o \in batch.dels : batch.recs[o] = None,
           UniqueKeys(Applied(objs, batch)),
           Exact(idx, objs, S \ batch.dels)
    PROVE  Exact(FoldIndex(idx, batch.recs, batch.dels), Applied(objs, batch), S)
<1> DEFINE fold == FoldIndex(idx, batch.recs, batch.dels)
           after == Applied(objs, batch)
<1> SUFFICES ASSUME NEW k \in Keys, NEW o \in S
             PROVE  fold[k] = o <=> after[o] = k
  BY DEF Exact
<1>0. /\ None \notin Oids
      /\ k # None
      /\ batch.recs \in Objects
      /\ batch.dels \subseteq Oids
  BY EngineConstants DEF Oids, Batches
<1>1. \A p \in Oids : batch.recs[p] = k => after[p] = k
  BY <1>0 DEF Applied, WithRecords
<1>2. ASSUME NEW p \in Oids, batch.recs[p] = k PROVE fold[k] = p
  <2>1. \A q \in Oids : batch.recs[q] = k => q = p
    BY <1>1, <1>2 DEF UniqueKeys
  <2> QED  BY <1>2, <2>1 DEF FoldIndex
<1>3. CASE \E p \in Oids : batch.recs[p] = k
  <2>1. PICK p \in Oids : batch.recs[p] = k
    BY <1>3
  <2>2. fold[k] = p /\ after[p] = k
    BY <1>1, <1>2, <2>1
  <2>3. after[o] = k => o = p
    BY <2>2 DEF UniqueKeys
  <2> QED  BY <2>2, <2>3
<1>4. CASE ~\E p \in Oids : batch.recs[p] = k
  <2>1. fold[k] = o <=> idx[k] = o /\ o \notin batch.dels /\ batch.recs[o] = None
    BY <1>0, <1>4 DEF FoldIndex
  <2>2. after[o] = k <=> o \notin batch.dels /\ batch.recs[o] = None /\ objs[o] = k
    BY <1>0, <1>4 DEF Applied, WithRecords
  <2>3. o \notin batch.dels => (idx[k] = o <=> objs[o] = k)
    BY DEF Exact
  <2> QED  BY <2>1, <2>2, <2>3
<1> QED  BY <1>3, <1>4

LEMMA UniqueInit == Init => UniqueInv
BY EngineConstants DEF Init, UniqueInv, UniqueKeys, NoCapture, NoVals

(* ensure() at any moment: what it would build satisfies what UniqueInv     *)
(* says of a built map.                                                     *)
LEMMA EnsuredExact ==
    ASSUME TypeInv, TidInv, UniqueInv
    PROVE  /\ capture.status = "none" => Exact(Ensured, db.objs, Undeleted)
           /\ capture.status \in {"queued", "running", "failed"} =>
                 Exact(Ensured, db.objs, Undeleted \ capture.batch.dels)
           /\ capture.status = "durable" =>
                 Exact(FoldIndex(Ensured, capture.batch.recs, capture.batch.dels),
                       db.objs, Undeleted)
<1> DEFINE batch == capture.batch
<1>0. TypeOK /\ db.objs \in Objects /\ batch \in Batches /\ None \notin Oids
  BY EngineConstants DEF TypeInv, TypeOK, Oids
<1>1. CASE built
  BY <1>1 DEF Ensured, UniqueInv
<1>2. CASE ~built
  <2>1. Ensured = BuildIndex(View)
    BY <1>2 DEF Ensured
  <2>2. CASE capture.status = "none"
    <3>1. View = db.objs
      BY <2>2 DEF TidInv, View
    <3>2. Exact(BuildIndex(db.objs), db.objs, Oids)
      BY <1>0, BuildExact DEF UniqueInv
    <3> QED  BY <2>1, <2>2, <3>1, <3>2 DEF Exact, Undeleted
  <2>3. CASE capture.status \in {"queued", "running", "failed"}
    <3>1. \A o \in Oids : batch.recs[o] = None
      BY <1>2, <2>3 DEF UniqueInv, BatchInv
    <3>2. /\ View \in Objects
          /\ \A o \in Oids \ batch.dels : View[o] = db.objs[o]
          /\ \A o \in Oids : View[o] \in {None, db.objs[o]}
      BY <1>0, <2>3, <3>1, ViewTyped DEF View, WithRecords, Applied, TidInv, Objects
    <3>3. UniqueKeys(View)
      <4> SUFFICES ASSUME NEW o \in Oids, NEW p \in Oids, View[o] \in Keys, View[o] = View[p]
                   PROVE  o = p
        BY DEF UniqueKeys
      <4>1. View[o] = db.objs[o] /\ View[p] = db.objs[p]
        BY <3>2, EngineConstants
      <4> QED  BY <4>1 DEF UniqueInv, UniqueKeys
    <3>4. Exact(BuildIndex(View), View, Oids)
      BY <3>2, <3>3, BuildExact
    <3> QED  BY <2>1, <2>3, <3>2, <3>4 DEF Exact, Undeleted
  <2>4. CASE capture.status = "durable"
    <3>1. \A o \in Oids : batch.recs[o] = None
      BY <1>2, <2>4 DEF UniqueInv, BatchInv
    <3>2. View = db.objs
      BY <2>4 DEF TidInv, View
    <3>3. Exact(Ensured, db.objs, Oids)
      BY <1>0, <2>1, <3>2, BuildExact DEF UniqueInv
    <3>4. ASSUME NEW k \in Keys, NEW o \in Undeleted
          PROVE  FoldIndex(Ensured, batch.recs, batch.dels)[k] = o <=> db.objs[o] = k
      <4>1. o \in Oids /\ k # None /\ batch.dels \subseteq Oids
        BY <1>0, EngineConstants DEF Undeleted, Batches
      <4>2. \A p \in Oids : batch.recs[p] # k
        BY <3>1, <4>1
      <4>3. FoldIndex(Ensured, batch.recs, batch.dels)[k] = o
            <=> Ensured[k] = o /\ o \notin batch.dels
        BY <1>0, <3>1, <4>1, <4>2 DEF FoldIndex
      <4>4. o \in batch.dels => db.objs[o] = None
        BY <2>4 DEF UniqueInv
      <4> QED  BY <3>3, <4>1, <4>3, <4>4 DEF Exact
    <3> QED  BY <2>4, <3>4 DEF Exact
  <2> QED  BY <1>0, <2>2, <2>3, <2>4 DEF TypeOK
<1> QED  BY <1>1, <1>2

(* A step outside the commit phases that buffers deletes but forgets none,  *)
(* and builds the index or leaves it.                                       *)
LEMMA UniqueQuiet ==
    ASSUME TypeInv, TidInv, UniqueInv,
           UNCHANGED <<capture, db>>,
           Undeleted' \subseteq Undeleted,
           \/ built' = built /\ unique' = unique
           \/ built' = TRUE /\ unique' = Ensured
    PROVE  UniqueInv'
<1> DEFINE batch == capture.batch
<1>0. capture.status \in {"none", "queued", "running", "durable", "failed"}
  BY DEF TypeInv, TypeOK
<1>1. UniqueKeys(db.objs)'
  BY DEF UniqueInv, UniqueKeys
<1>2. (built => built') /\ (built' => unique' = Ensured)
  BY DEF Ensured, TypeInv, TypeOK
<1>3. BatchInv => BatchInv'
  BY <1>2 DEF BatchInv
<1>4. CASE capture.status = "none"
  BY <1>1, <1>2, <1>4, EnsuredExact DEF UniqueInv, Exact
<1>5. CASE capture.status \in {"queued", "running", "failed"}
  <2>1. Exact(Ensured, db.objs, Undeleted' \ batch.dels)
    BY <1>5, EnsuredExact DEF Exact
  <2>2. UniqueKeys(Applied(db.objs, batch))'
    BY <1>5 DEF UniqueInv, UniqueKeys, Applied, WithRecords
  <2> QED  BY <1>1, <1>2, <1>3, <1>5, <2>1, <2>2 DEF UniqueInv, Exact
<1>6. CASE capture.status = "durable"
  <2>1. Exact(FoldIndex(Ensured, batch.recs, batch.dels), db.objs, Undeleted')
    BY <1>6, EnsuredExact DEF Exact
  <2> QED  BY <1>1, <1>2, <1>3, <1>6, <2>1 DEF UniqueInv, Exact
<1> QED  BY <1>0, <1>4, <1>5, <1>6

LEMMA UniqueWorkUnit ==
    ASSUME TypeInv, TidInv, UniqueInv, WorkUnitStep
    PROVE  UniqueInv' /\ db' = db /\ lastTid' = lastTid
<1>1. UNCHANGED <<lastTid, capture, db>>
  BY DEF WorkUnitStep, Store, Adopt, Write, Load, Forget, DeleteInstance, DeleteByKey,
         UpsertMerge, UpsertInsert, UpsertHydrate, UpsertTracked, Lookup, idVars, p2Vars
<1>2. \/ built' = built /\ unique' = unique
      \/ built' = TRUE /\ unique' = Ensured
  BY DEF WorkUnitStep, Store, Adopt, Write, Load, Forget, DeleteInstance, DeleteByKey,
         UpsertMerge, UpsertInsert, UpsertHydrate, UpsertTracked, Lookup, idxVars,
         EnsureIfKnown, TypeInv, TypeOK
<1>3. Undeleted' \subseteq Undeleted
  <2>1. CASE \E i \in Insts : DeleteInstance(i)
    <3>1. PICK i \in Insts : DeleteInstance(i)
      BY <2>1
    <3> QED
      BY <3>1, EngineConstants DEF DeleteInstance, DeleteOid, Undeleted, TypeInv, TypeOK,
                                   DeleteMap
  <2>2. CASE \E k \in Keys : DeleteByKey(k)
    <3>1. PICK k \in Keys : DeleteByKey(k)
      BY <2>2
    <3>2. Ensured[k] \in Oids
      BY <3>1, IndexTyped DEF DeleteByKey, TypeInv
    <3> QED
      BY <3>1, <3>2, EngineConstants DEF DeleteByKey, DeleteOid, Undeleted, TypeInv, TypeOK,
                                         DeleteMap, InstMap
  <2>3. CASE UNCHANGED deleted
    BY <2>3 DEF Undeleted
  <2> QED
    BY <2>1, <2>2, <2>3
       DEF WorkUnitStep, Store, Write, Load, Forget, UpsertMerge, UpsertInsert,
           UpsertHydrate, UpsertTracked, Lookup, bufVars
<1> QED  BY <1>1, <1>2, <1>3, UniqueQuiet

(* What P1 admits keeps the keys unique once it is applied. *)
LEMMA CaptureUnique ==
    ASSUME TypeInv, TidInv, UniqueInv, P1Capture
    PROVE  UniqueKeys(Applied(db.objs, Batch(Pending)))
<1> DEFINE pend == Pending
           batch == Batch(pend)
<1>1. /\ Exact(Ensured, db.objs, Undeleted)
      /\ UniqueOK(pend, Ensured)
      /\ Ensured \in [Keys -> Oids \cup {None}]
  BY EnsuredExact, IndexTyped DEF P1Capture, TypeInv
<1>2. /\ pend \in InstMap
      /\ \A o \in Oids : deleted[o] # None => pend[o] = None
      /\ batch.dels = Oids \ Undeleted
      /\ batch.recs = [o \in Oids |-> IF pend[o] # None THEN val[pend[o]] ELSE None]
  BY PendingTyped DEF Pending, Batch, Undeleted, TypeInv
<1> HIDE DEF pend, batch
<1> SUFFICES ASSUME NEW o \in Oids, NEW p \in Oids, o # p,
                    Applied(db.objs, batch)[o] \in Keys,
                    Applied(db.objs, batch)[o] = Applied(db.objs, batch)[p]
             PROVE  FALSE
  BY DEF UniqueKeys, pend, batch
<1> DEFINE k == Applied(db.objs, batch)[o]
<1>3. k # None /\ None \notin Oids
  BY EngineConstants DEF Oids
<1>4. o \in Undeleted /\ p \in Undeleted
  BY <1>2, <1>3 DEF Applied
<1>5. ASSUME NEW q \in Oids, q \in Undeleted, Applied(db.objs, batch)[q] = k
      PROVE  \/ pend[q] # None /\ val[pend[q]] = k
             \/ pend[q] = None /\ db.objs[q] = k
  <2>1. CASE pend[q] # None
    <3>1. batch.recs[q] = val[pend[q]] /\ val[pend[q]] # None
      BY <1>2, <2>1, EngineConstants DEF InstMap, TypeInv, TypeOK, Vals
    <3> QED  BY <1>2, <1>5, <2>1, <3>1 DEF Applied, WithRecords
  <2>2. CASE pend[q] = None
    BY <1>2, <1>5, <2>2 DEF Applied, WithRecords
  <2> QED  BY <2>1, <2>2
<1>6. \A q, r \in Oids : q # r /\ pend[q] # None /\ val[pend[q]] = k
                          => ~(r \in Undeleted /\ pend[r] = None /\ db.objs[r] = k)
  BY <1>1, <1>3 DEF UniqueOK, Exact, Undeleted
<1>7. \A q, r \in Oids : q # r /\ pend[q] # None /\ val[pend[q]] = k /\ pend[r] # None
                          => val[pend[r]] # k
  BY <1>1 DEF UniqueOK
<1>8. ~(db.objs[o] = k /\ db.objs[p] = k)
  BY DEF UniqueInv, UniqueKeys
<1> QED  BY <1>4, <1>5, <1>6, <1>7, <1>8

LEMMA UniqueP1 ==
    ASSUME TypeInv, TidInv, UniqueInv, P1RejectUnique \/ P1RejectPriors \/ P1Capture
    PROVE  UniqueInv' /\ db' = db /\ lastTid' = lastTid
<1>1. \/ built' = built /\ unique' = unique
      \/ built' = TRUE /\ unique' = Ensured
  BY DEF P1RejectUnique, P1RejectPriors, P1Capture, EnsureForCheck, TypeInv, TypeOK
<1>2. CASE P1RejectUnique \/ P1RejectPriors
  BY <1>1, <1>2, UniqueQuiet
     DEF P1RejectUnique, P1RejectPriors, bufVars, idVars, p2Vars, Undeleted
<1>3. CASE P1Capture
  <2> DEFINE batch == Batch(Pending)
  <2>1. /\ capture'.status = "queued" /\ capture'.batch = batch /\ capture'.deletes = deleted
        /\ UNCHANGED <<db, lastTid>>
    BY <1>3 DEF P1Capture, Captured
  <2>2. Exact(Ensured, db.objs, Undeleted)
    BY <1>3, EnsuredExact DEF P1Capture
  <2>3. built' => unique' = Ensured
    BY <1>3 DEF P1Capture, EnsureForCheck, Ensured, TypeInv, TypeOK
  <2>4. Undeleted' \ batch.dels \subseteq Undeleted
    BY DEF Undeleted, Batch
  <2>5. BatchInv'
    <3>1. batch.dels = {o \in Oids : deleted[o] # None}
      BY DEF Batch
    <3>2. \A o \in batch.dels : batch.recs[o] = None
      BY DEF Batch, Pending
    <3>3. (\E o \in Oids : batch.recs[o] # None) => HasRecords
      BY DEF Batch, HasRecords
    <3>4. HasRecords => built'
      BY <1>3 DEF P1Capture, EnsureForCheck
    <3> QED  BY <2>1, <3>1, <3>2, <3>3, <3>4 DEF BatchInv
  <2>6. UniqueKeys(Applied(db.objs, batch))
    BY <1>3, CaptureUnique
  <2>7. UniqueKeys(Applied(db.objs, capture.batch))' /\ UniqueKeys(db.objs)'
    BY <2>1, <2>6 DEF UniqueInv, UniqueKeys, Applied, WithRecords
  <2>8. built' => Exact(unique, db.objs, Undeleted \ capture.batch.dels)'
    BY <2>1, <2>2, <2>3, <2>4 DEF Exact
  <2> QED  BY <2>1, <2>5, <2>7, <2>8 DEF UniqueInv
<1> QED  BY <1>2, <1>3 DEF P1RejectUnique, P1RejectPriors, idVars, p2Vars, P1Capture

(* Only P2Commit changes the records, and it applies the captured batch.    *)
LEMMA UniqueWorker ==
    ASSUME TypeInv, TidInv, UniqueInv, WorkerStep
    PROVE  /\ UniqueInv'
           /\ lastTid' = lastTid
           /\ db'.objs # db.objs \/ db'.nextTid # db.nextTid =>
                 db.nextTid = lastTid + 1 /\ db'.nextTid = db.nextTid + 1
<1>0. UNCHANGED <<built, unique, deleted, lastTid>> /\ Undeleted' = Undeleted
  BY DEF WorkerStep, P2Begin, P2Deletes, P2Commit, P2Fail, bufVars, idVars, idxVars, Undeleted
<1>1. CASE P2Begin \/ P2Deletes \/ P2Fail
  <2>1. /\ capture.status \in {"queued", "running"}
        /\ capture'.status \in {"queued", "running", "failed"}
        /\ capture'.batch = capture.batch /\ capture'.deletes = capture.deletes
        /\ db' = db
    BY <1>1 DEF P2Begin, P2Deletes, P2Fail, Resolve, TidInv, TypeInv, TypeOK
  <2>2. BatchInv'
    BY <1>0, <2>1 DEF UniqueInv, BatchInv
  <2>3. UniqueKeys(Applied(db.objs, capture.batch))' /\ UniqueKeys(db.objs)'
    BY <2>1 DEF UniqueInv, UniqueKeys, Applied, WithRecords
  <2>4. built' => Exact(unique, db.objs, Undeleted \ capture.batch.dels)'
    BY <1>0, <2>1 DEF UniqueInv, Exact
  <2> QED  BY <1>0, <2>1, <2>2, <2>3, <2>4 DEF UniqueInv
<1>2. CASE P2Commit
  <2> DEFINE batch == capture.batch
  <2>1. /\ capture.status = "running" /\ io.batch = batch
        /\ capture' = [capture EXCEPT !.status = "durable"]
        /\ db'.objs = Applied(db.objs, batch)
        /\ db'.nextTid = batch.tid + 1
    BY <1>2 DEF P2Commit, Resolve, TidInv, TypeInv, TypeOK
  <2>2. capture'.status = "durable" /\ capture'.batch = batch /\ capture'.deletes = capture.deletes
    BY <2>1 DEF TypeInv, TypeOK
  <2>3. BatchInv'
    BY <1>0, <2>1, <2>2 DEF UniqueInv, BatchInv
  <2>4. UniqueKeys(db'.objs)
    BY <2>1 DEF UniqueInv
  <2>5. \A o \in batch.dels : db'.objs[o] = None
    BY <2>1 DEF Applied, TypeInv, TypeOK, Batches
  <2>6. ASSUME built
        PROVE  Exact(FoldIndex(unique, batch.recs, batch.dels), Applied(db.objs, batch), Undeleted)
    <3>1. /\ db.objs \in Objects /\ batch \in Batches
          /\ unique \in [Keys -> Oids \cup {None}] /\ Undeleted \in SUBSET Oids
      BY DEF TypeInv, TypeOK, Undeleted
    <3>2. /\ \A o \in batch.dels : batch.recs[o] = None
          /\ UniqueKeys(Applied(db.objs, batch))
          /\ Exact(unique, db.objs, Undeleted \ batch.dels)
      BY <2>1, <2>6 DEF UniqueInv, BatchInv
    <3> QED  BY <3>1, <3>2, FoldExact
  <2>7. built' => Exact(FoldIndex(unique, capture.batch.recs, capture.batch.dels),
                        db.objs, Undeleted)'
    BY <1>0, <2>1, <2>2, <2>6 DEF Exact, FoldIndex
  <2>8. db.nextTid = lastTid + 1 /\ db'.nextTid = db.nextTid + 1
    BY <2>1 DEF TidInv
  <2>9. UniqueInv'
    BY <2>2, <2>3, <2>4, <2>5, <2>7 DEF UniqueInv, UniqueKeys
  <2> QED  BY <1>0, <2>8, <2>9
<1> QED
  BY <1>0, <1>1, <1>2 DEF WorkerStep, P2Begin, P2Deletes, P2Fail

LEMMA UniqueSettle ==
    ASSUME TypeInv, TidInv, UniqueInv, P3Finalize \/ P2Rollback
    PROVE  /\ UniqueInv'
           /\ db' = db
           /\ lastTid' # lastTid => lastTid' = db.nextTid - 1
<1>0. UniqueKeys(db.objs) /\ (db' = db => UniqueKeys(db.objs)')
  BY DEF UniqueInv, UniqueKeys
<1>1. CASE P3Finalize
  <2>1. /\ capture.status = "durable" /\ capture'.status = "none"
        /\ db' = db /\ built' = built /\ Undeleted' = Undeleted
        /\ built => unique' = FoldIndex(unique, capture.batch.recs, capture.batch.dels)
        /\ lastTid' = capture.batch.tid
    BY <1>1 DEF P3Finalize, NoCapture, Undeleted
  <2>2. built' => Exact(unique, db.objs, Undeleted)'
    BY <2>1 DEF UniqueInv, Exact
  <2>3. capture.batch.tid = db.nextTid - 1
    BY <2>1 DEF TidInv, TypeInv, TypeOK, Batches
  <2> QED  BY <1>0, <2>1, <2>2, <2>3 DEF UniqueInv
<1>2. CASE P2Rollback
  <2>1. /\ capture.status = "failed" /\ capture'.status = "none"
        /\ db' = db /\ built' = built /\ unique' = unique /\ lastTid' = lastTid
    BY <1>2 DEF P2Rollback, Rollback, NoCapture, idxVars
  <2>2. Undeleted' \subseteq Undeleted \ capture.batch.dels
    <3>1. capture.batch.dels = {o \in Oids : capture.deletes[o] # None}
      BY <2>1 DEF UniqueInv, BatchInv
    <3> QED  BY <1>2, <3>1 DEF P2Rollback, Rollback, Undeleted
  <2>3. built' => Exact(unique, db.objs, Undeleted)'
    BY <2>1, <2>2 DEF UniqueInv, Exact
  <2> QED  BY <1>0, <2>1, <2>3 DEF UniqueInv
<1> QED  BY <1>1, <1>2

LEMMA UniqueEnvironment ==
    ASSUME TypeInv, TidInv, UniqueInv, ConsumerStep \/ Discard \/ Crash \/ UNCHANGED vars
    PROVE  /\ UniqueInv'
           /\ db' = db
           /\ lastTid' # lastTid => lastTid' = db.nextTid - 1
<1>1. CASE ConsumerStep \/ UNCHANGED vars
  <2>1. UNCHANGED <<lastTid, capture, db, built, unique, deleted>>
    BY <1>1 DEF ConsumerStep, Rebuild, Attach, Detach, vars, bufVars, idVars, idxVars, p2Vars
  <2>2. UniqueInv'
    BY <2>1, UniqueQuiet DEF Undeleted
  <2> QED  BY <2>1, <2>2
<1>2. CASE Discard \/ Crash
  <2>1. /\ capture'.status = "none" /\ built' = FALSE /\ db' = db
        /\ lastTid' = db.nextTid - 1
    BY <1>2 DEF Discard, Crash, LoadState, NoCapture, p2Vars
  <2> QED  BY <2>1 DEF UniqueInv, UniqueKeys
<1> QED  BY <1>1, <1>2

LEMMA UniqueStep ==
    ASSUME NoCancel, TypeInv, TidInv, UniqueInv, [Next]_vars
    PROVE  UniqueInv'
BY UniqueWorkUnit, UniqueP1, UniqueWorker, UniqueSettle, UniqueEnvironment
   DEF Next, CommitStep, Cancel, NoCancel

LEMMA UniqueInvariant ==
    ASSUME NoCancel
    PROVE  Spec => [](TypeInv /\ TidInv /\ UniqueInv)
<1>1. TypeInv /\ TidInv /\ UniqueInv /\ [Next]_vars => TidInv' /\ UniqueInv'
  BY TidStep, UniqueStep
<1> QED  BY <1>1, TypeInvariant, TidInit, UniqueInit, PTL DEF Spec

(* No two stored records ever have the same value of the unique field, in   *)
(* whatever order owner operations, the commit phases and failures          *)
(* interleave (cancellation aside).                                         *)
THEOREM EngineUnique ==
    ASSUME NoCancel
    PROVE  Spec => []UniqueDurable
<1>1. UniqueInv => UniqueDurable
  BY DEF UniqueInv, UniqueKeys, UniqueDurable
<1> QED  BY <1>1, UniqueInvariant, PTL

(* Between commits the unique map is exact, also when it was built from     *)
(* uncommitted rows of a transaction that then failed.                      *)
THEOREM EngineIndexExact ==
    ASSUME NoCancel
    PROVE  Spec => []IndexExact
<1>1. UniqueInv => IndexExact
  BY DEF UniqueInv, Exact, Undeleted, IndexExact
<1> QED  BY <1>1, UniqueInvariant, PTL

-----------------------------------------------------------------------------
(* Refinement *)

LEMMA RefineStep ==
    ASSUME NoCancel, TypeInv, TidInv, UniqueInv, [Next]_vars, TypeInv', UniqueInv'
    PROVE  [Atomic!Next]_<<db.objs, db.nextTid - 1, lastTid>>
<1> USE DEF Atomic!Next, Atomic!Commit, Atomic!Acknowledge
<1>0. db.nextTid \in Nat /\ lastTid \in Nat /\ db'.nextTid \in Nat
  BY DEF TypeInv, TypeOK
<1>1. CASE WorkerStep
  <2>1. CASE db'.objs # db.objs \/ db'.nextTid # db.nextTid
    <3>1. /\ lastTid' = lastTid /\ lastTid = db.nextTid - 1
          /\ db'.nextTid - 1 = (db.nextTid - 1) + 1
      BY <1>0, <1>1, <2>1, UniqueWorker
    <3>2. db'.objs \in Atomic!Contents
      BY DEF TypeInv, TypeOK, Objects, Vals, Oids, Atomic!Contents, Atomic!Oids
    <3>3. Atomic!UniqueKeys(db'.objs)
      BY DEF UniqueInv, UniqueKeys, Oids, Atomic!UniqueKeys, Atomic!Oids
    <3> QED  BY <3>1, <3>2, <3>3
  <2>2. CASE ~(db'.objs # db.objs \/ db'.nextTid # db.nextTid)
    BY <1>1, <2>2, UniqueWorker
  <2> QED  BY <2>1, <2>2
<1>2. CASE WorkUnitStep \/ P1RejectUnique \/ P1RejectPriors \/ P1Capture
  BY <1>2, UniqueWorkUnit, UniqueP1
<1>3. CASE P3Finalize \/ P2Rollback \/ ConsumerStep \/ Discard \/ Crash \/ UNCHANGED vars
  <2>1. db' = db /\ (lastTid' # lastTid => lastTid' = db.nextTid - 1)
    BY <1>3, UniqueSettle, UniqueEnvironment
  <2> QED  BY <2>1
<1> QED  BY <1>1, <1>2, <1>3 DEF Next, CommitStep, Cancel, NoCancel

(* The engine implements the atomic store, for every number of objects,     *)
(* keys, OIDs and TIDs, with every feature but cancellation.                *)
THEOREM EngineRefinesAtomicStore ==
    ASSUME NoCancel
    PROVE  Spec => ImplementsAtomicStore
<1>1. Init => Atomic!Init
  BY DEF Init, NoVals, Oids, Atomic!Init, Atomic!Oids
<1>2. TypeInv /\ TidInv /\ UniqueInv /\ [Next]_vars /\ TypeInv' /\ UniqueInv'
      => [Atomic!Next]_<<db.objs, db.nextTid - 1, lastTid>>
  BY RefineStep
<1> QED
  BY <1>1, <1>2, UniqueInvariant, PTL DEF Spec, ImplementsAtomicStore, Atomic!Spec

-----------------------------------------------------------------------------
(***************************************************************************)
(* The objects of the engine: the buffers and the registry agree with the   *)
(* objects' states, no write is lost, a delete wins, an attached consumer   *)
(* has the committed records.  These proofs rest on the invariants above     *)
(* (types, TIDs, unique keys).                                              *)
(***************************************************************************)


InFlight == capture.status # "none"

(* An object has an OID exactly while the store knows it. *)
Tracked == \A i \in Insts : st[i] = "FREE" <=> oidOf[i] = None

(* What the theorems of EngineProofs say of every reachable state. *)
BaseInv == TypeInv /\ TidInv /\ UniqueInv

-----------------------------------------------------------------------------
(* An owner operation has one of six effects on objects and buffers, and    *)
(* none on the commit in flight, the backend or the consumer.               *)

AdoptStep(i, v) ==
    /\ Adopt(i, v)
    /\ UNCHANGED <<dirty, deleted, cancelledNew, registry>>

TouchStep(i, v) ==
    /\ TouchAndSet(i, v)
    /\ UNCHANGED <<oidOf, new, deleted, cancelledNew, registry, nextOid>>

HydrateStep(i, o, v) ==
    /\ View[o] # None
    /\ Hydrate(i, o, v)
    /\ UNCHANGED <<new, deleted, cancelledNew, nextOid>>

DeleteStep(obj, o) ==
    /\ DeleteOid(obj, o)
    /\ \/ obj \in Insts /\ st[obj] \notin {"FREE", "DELETED"} /\ oidOf[obj] = o
       \/ obj = registry[o] /\ deleted[o] = None /\ \E k \in Keys : Ensured[k] = o
    /\ UNCHANGED <<oidOf, val, registry, nextOid>>

QuietStep == UNCHANGED <<objVars, new, dirty, deleted, cancelledNew, registry, nextOid>>

(* The unique map is built, or left alone. *)
IndexStep ==
    \/ built' = built /\ unique' = unique
    \/ built' = TRUE /\ unique' = Ensured

LEMMA WorkUnitEffects ==
    ASSUME TypeInv, Tracked, WorkUnitStep
    PROVE  /\ UNCHANGED <<lastTid, nextTid, capture, io, db, consumer>>
           /\ OwnerFree \/ \E i \in Insts : Forget(i)
           /\ IndexStep
           /\ \/ \E i \in Insts, v \in Vals : AdoptStep(i, v) \/ TouchStep(i, v)
              \/ \E i \in Insts, o \in Oids, v \in Vals : HydrateStep(i, o, v)
              \/ \E i \in Insts : Forget(i)
              \/ \E obj \in Insts \cup {None}, o \in Oids : DeleteStep(obj, o)
              \/ QuietStep
<1>1. UNCHANGED <<lastTid, nextTid, capture, io, db, consumer>>
  BY DEF WorkUnitStep, Store, Adopt, Write, Load, Forget, DeleteInstance, DeleteByKey,
         UpsertMerge, UpsertInsert, UpsertHydrate, UpsertTracked, Lookup, idVars, p2Vars
<1>2. OwnerFree \/ \E i \in Insts : Forget(i)
  BY DEF WorkUnitStep, Store, Write, Load, DeleteInstance, DeleteByKey,
         UpsertMerge, UpsertInsert, UpsertHydrate, UpsertTracked, Lookup
<1>3. IndexStep
  BY DEF WorkUnitStep, Store, Adopt, Write, Load, Forget, DeleteInstance, DeleteByKey,
         UpsertMerge, UpsertInsert, UpsertHydrate, UpsertTracked, Lookup, idxVars,
         EnsureIfKnown, TypeInv, TypeOK, IndexStep
<1>4. CASE \E i \in Insts, v \in Vals : Store(i, v) \/ Write(i, v)
  <2>1. PICK i \in Insts, v \in Vals : Store(i, v) \/ Write(i, v)
    BY <1>4
  <2>2. AdoptStep(i, v) \/ TouchStep(i, v)
    BY <2>1 DEF Store, Write, AdoptStep, TouchStep, idVars
  <2> QED  BY <1>1, <1>2, <1>3, <2>2
<1>5. CASE \E i \in Insts, o \in Oids : Load(i, o)
  <2>1. PICK i \in Insts, o \in Oids : Load(i, o)
    BY <1>5
  <2>2. View[o] \in Vals
    BY <2>1, ViewTyped DEF Load, Objects, TypeInv
  <2>3. HydrateStep(i, o, View[o])
    BY <2>1 DEF Load, HydrateStep, idVars
  <2> QED  BY <1>1, <1>2, <1>3, <2>2, <2>3
<1>6. CASE \E i \in Insts : DeleteInstance(i)
  <2>1. PICK i \in Insts : DeleteInstance(i)
    BY <1>6
  <2>2. CASE oidOf[i] \in Oids
    BY <1>1, <1>2, <1>3, <2>1, <2>2 DEF DeleteInstance, DeleteStep, idVars
  <2> QED  BY <2>1, <2>2 DEF TypeInv, TypeOK, Tracked, DeleteInstance
<1>7. CASE \E k \in Keys : DeleteByKey(k)
  <2>1. PICK k \in Keys : DeleteByKey(k)
    BY <1>7
  <2>2. Ensured[k] \in Oids
    BY <2>1, IndexTyped DEF DeleteByKey, TypeInv
  <2>3. registry[Ensured[k]] \in Insts \cup {None}
    BY <2>2 DEF TypeInv, TypeOK, InstMap
  <2>4. DeleteStep(registry[Ensured[k]], Ensured[k])
    BY <2>1 DEF DeleteByKey, DeleteStep, idVars
  <2> QED  BY <1>1, <1>2, <1>3, <2>2, <2>3, <2>4
<1>8. CASE \E k \in Keys : UpsertMerge(k)
  <2>1. PICK k \in Keys : UpsertMerge(k)
    BY <1>8
  <2>2. CommittedOwner(k) \in Oids
    BY <2>1, IndexTyped DEF UpsertMerge, CommittedOwner, TypeInv
  <2>3. registry[CommittedOwner(k)] \in Insts /\ k \in Vals
    BY <2>1, <2>2 DEF UpsertMerge, TypeInv, TypeOK, InstMap, Vals
  <2>4. TouchStep(registry[CommittedOwner(k)], k)
    BY <2>1 DEF UpsertMerge, TouchStep, idVars
  <2> QED  BY <1>1, <1>2, <1>3, <2>3, <2>4
<1>9. CASE \E i \in Insts, k \in Keys : UpsertInsert(i, k) \/ UpsertHydrate(i, k)
  <2>1. PICK i \in Insts, k \in Keys : UpsertInsert(i, k) \/ UpsertHydrate(i, k)
    BY <1>9
  <2>2. k \in Vals
    BY DEF Vals
  <2>3. CASE UpsertInsert(i, k)
    BY <1>1, <1>2, <1>3, <2>2, <2>3 DEF UpsertInsert, AdoptStep
  <2>4. CASE UpsertHydrate(i, k)
    <3>1. CommittedOwner(k) \in Oids
      BY <2>4, IndexTyped DEF UpsertHydrate, CommittedOwner, TypeInv
    <3>2. HydrateStep(i, CommittedOwner(k), k)
      BY <2>4 DEF UpsertHydrate, HydrateStep, idVars
    <3> QED  BY <1>1, <1>2, <1>3, <2>2, <3>1, <3>2
  <2> QED  BY <2>1, <2>3, <2>4
<1>10. CASE (\E i \in Insts : UpsertTracked(i)) \/ Lookup
  <2>1. QuietStep
    BY <1>10 DEF UpsertTracked, Lookup, QuietStep, idVars, bufVars
  <2> QED  BY <1>1, <1>2, <1>3, <2>1
<1> QED
  BY <1>1, <1>2, <1>3, <1>4, <1>5, <1>6, <1>7, <1>8, <1>9, <1>10 DEF WorkUnitStep

-----------------------------------------------------------------------------
(* Slots.  Every slot of a buffer, the registry or the capture holds an     *)
(* object of its own OID; the object a commit captured stays registered     *)
(* until P3 or the rollback, and once the commit is durable the backend has *)
(* its captured value.                                                      *)

Holds(o, i) ==
    \/ new[o] = i \/ dirty[o] = i \/ deleted[o] = i \/ cancelledNew[o] = i
    \/ registry[o] = i
    \/ capture.flipped[o] = i \/ capture.deletes[o] = i

Slots == \A o \in Oids, i \in Insts : Holds(o, i) => oidOf[i] = o

FlippedInv ==
    /\ ~InFlight => capture = NoCapture
    /\ InFlight => \A o \in Oids :
          /\ capture.flipped[o] # None => registry[o] = capture.flipped[o]
          /\ capture.flipped[o] = None => capture.batch.recs[o] = None
          /\ capture.flipped[o] # None => capture.batch.recs[o] # None
    /\ capture.status = "durable" => \A o \in Oids :
          capture.flipped[o] # None => db.objs[o] = capture.batch.recs[o]

SlotInv == Tracked /\ Slots /\ FlippedInv

LEMMA SlotInit == Init => SlotInv
BY EngineConstants DEF Init, SlotInv, Tracked, Slots, Holds, FlippedInv, InFlight, NoInsts,
                       NoCapture

(* A hydrated OID is neither registered nor captured, so its record is in   *)
(* the backend.                                                             *)
LEMMA HydratedRecord ==
    ASSUME BaseInv, FlippedInv, NEW o \in Oids, View[o] # None, registry[o] = None
    PROVE  /\ InFlight => capture.flipped[o] = None /\ capture.batch.recs[o] = None
           /\ View[o] = db.objs[o]
           /\ db.objs[o] # None
<1>1. InFlight => capture.flipped[o] = None /\ capture.batch.recs[o] = None
  BY DEF FlippedInv
<1>2. io.phase # "idle" => InFlight /\ io.batch = capture.batch
  BY DEF BaseInv, TidInv, InFlight
<1> QED
  BY <1>1, <1>2 DEF View, WithRecords, Applied

LEMMA SlotWorkUnit ==
    ASSUME BaseInv, SlotInv, WorkUnitStep
    PROVE  SlotInv'
<1> USE DEF BaseInv, SlotInv
<1>0. UNCHANGED <<capture, db>>
  BY WorkUnitEffects
<1>1. ASSUME NEW i \in Insts, NEW v \in Vals, AdoptStep(i, v)
      PROVE  SlotInv'
  <2>1. nextOid \in Oids
    BY <1>1, EngineConstants DEF TypeInv, TypeOK, AdoptStep, Adopt, Oids
  <2>2. Tracked'
    BY <1>1, <2>1, EngineConstants DEF AdoptStep, Adopt, Tracked, TypeInv, TypeOK, Oids
  <2>3. Slots'
    BY <1>0, <1>1, <2>1, EngineConstants DEF AdoptStep, Adopt, Slots, Holds, Tracked, TypeInv, TypeOK,
                                      InstMap, Oids
  <2>4. FlippedInv'
    BY <1>0, <1>1 DEF AdoptStep, FlippedInv, InFlight
  <2> QED  BY <2>2, <2>3, <2>4
<1>2. ASSUME NEW i \in Insts, NEW v \in Vals, TouchStep(i, v)
      PROVE  SlotInv'
  <2>2. Tracked'
    BY <1>2 DEF TouchStep, TouchAndSet, Tracked, TypeInv, TypeOK
  <2>3. Slots'
    BY <1>0, <1>2 DEF TouchStep, TouchAndSet, Slots, Holds, TypeInv, TypeOK, InstMap
  <2>4. FlippedInv'
    BY <1>0, <1>2 DEF TouchStep, FlippedInv, InFlight
  <2> QED  BY <2>2, <2>3, <2>4
<1>3. ASSUME NEW i \in Insts, NEW o \in Oids, NEW v \in Vals, HydrateStep(i, o, v)
      PROVE  SlotInv'
  <2>1. InFlight => capture.flipped[o] = None
    BY <1>3, HydratedRecord DEF HydrateStep, Hydrate
  <2>2. Tracked'
    BY <1>3, EngineConstants DEF HydrateStep, Hydrate, Tracked, TypeInv, TypeOK, Oids
  <2>3. Slots'
    BY <1>0, <1>3, EngineConstants DEF HydrateStep, Hydrate, Slots, Holds, Tracked, TypeInv, TypeOK,
                                      InstMap, Oids
  <2>4. FlippedInv'
    BY <1>0, <1>3, <2>1 DEF HydrateStep, Hydrate, FlippedInv, InFlight, TypeInv, TypeOK, InstMap
  <2> QED  BY <2>2, <2>3, <2>4
<1>4. ASSUME NEW i \in Insts, Forget(i)
      PROVE  SlotInv'
  <2>1. UNCHANGED <<new, dirty, deleted, cancelledNew>>
    BY <1>4 DEF Forget, bufVars
  <2>2. Tracked'
    BY <1>4, EngineConstants DEF Forget, Tracked, TypeInv, TypeOK
  <2>3. Slots'
    BY <1>0, <1>4, <2>1, EngineConstants
       DEF Forget, Held, Slots, Holds, TypeInv, TypeOK, InstMap
  <2>4. FlippedInv'
    BY <1>0, <1>4 DEF Forget, Held, FlippedInv, InFlight
  <2> QED  BY <2>2, <2>3, <2>4
<1>5. ASSUME NEW obj \in Insts \cup {None}, NEW o \in Oids, DeleteStep(obj, o)
      PROVE  SlotInv'
  <2>1. obj # None => st[obj] # "FREE" /\ oidOf[obj] = o
    BY <1>5, EngineConstants DEF DeleteStep, Slots, Holds, Tracked, Oids
  <2>2. Tracked'
    BY <1>5, <2>1 DEF DeleteStep, DeleteOid, Tracked, TypeInv, TypeOK
  <2>3. Slots'
    BY <1>0, <1>5, <2>1, EngineConstants
       DEF DeleteStep, DeleteOid, Slots, Holds, TypeInv, TypeOK, InstMap, DeleteMap
  <2>4. FlippedInv'
    BY <1>0, <1>5 DEF DeleteStep, FlippedInv, InFlight
  <2> QED  BY <2>2, <2>3, <2>4
<1>6. ASSUME QuietStep PROVE SlotInv'
  BY <1>0, <1>6 DEF QuietStep, objVars, Tracked, Slots, Holds, FlippedInv, InFlight
<1> QED  BY WorkUnitEffects, <1>1, <1>2, <1>3, <1>4, <1>5, <1>6

(* What P1 leaves in the capture. *)
LEMMA CaptureEffects ==
    ASSUME TypeInv, P1Capture
    PROVE  /\ capture'.status = "queued"
           /\ capture'.flipped = Pending
           /\ capture'.deletes = deleted
           /\ capture'.prior = [o \in Oids |-> IF Pending[o] # None THEN st[Pending[o]]
                                               ELSE "FREE"]
           /\ capture'.batch = Batch(Pending)
           /\ capture'.delta = consumer.att
           /\ \A o \in Oids :
                /\ Pending[o] = None => capture'.batch.recs[o] = None
                /\ Pending[o] # None => /\ capture'.batch.recs[o] = val[Pending[o]]
                                        /\ capture'.batch.recs[o] # None
                                        /\ Pending[o] \in {new[o], dirty[o]}
           /\ capture'.batch.nextOid = nextOid
           /\ capture'.batch.dels = {o \in Oids : deleted[o] # None}
<1>1. Pending \in InstMap
  BY PendingTyped DEF TypeInv
<1>2. \A o \in Oids : Pending[o] # None => val[Pending[o]] \in Vals
                                           /\ Pending[o] \in {new[o], dirty[o]}
  BY <1>1 DEF TypeInv, TypeOK, InstMap, Pending
<1> QED
  BY <1>1, <1>2, EngineConstants DEF P1Capture, Captured, Batch, Vals

LEMMA SlotCommit ==
    ASSUME NoCancel, BaseInv, SlotInv, CommitStep
    PROVE  SlotInv'
<1> USE DEF BaseInv, SlotInv
<1>1. CASE P1RejectUnique \/ P1RejectPriors
  BY <1>1 DEF P1RejectUnique, P1RejectPriors, objVars, bufVars, p2Vars, Tracked, Slots, Holds,
              FlippedInv, InFlight
<1>2. CASE P1Capture
  <2>1. Pending \in InstMap /\ UNCHANGED oidOf
    BY <1>2, PendingTyped DEF P1Capture, TypeInv
  <2>2. Tracked'
    <3>1. ASSUME NEW i \in Insts, NEW o \in Oids, Pending[o] = i PROVE st[i] # "FREE"
      <4>1. i \in {new[o], dirty[o]}
        BY <1>2, <3>1, CaptureEffects, EngineConstants
      <4> QED  BY <4>1, EngineConstants DEF Tracked, Slots, Holds, Oids
    <3> QED  BY <1>2, <2>1, <3>1 DEF P1Capture, Flip, Tracked, TypeInv, TypeOK
  <2>3. Slots'
    <3> SUFFICES ASSUME NEW o \in Oids, NEW i \in Insts, Holds(o, i)'
                 PROVE  oidOf[i] = o
      BY <2>1 DEF Slots
    <3>1. i \in {Pending[o], registry[o], deleted[o]}
      BY <1>2, CaptureEffects, EngineConstants DEF P1Capture, Registered, Holds, NoInsts
    <3>2. Pending[o] = i => i \in {new[o], dirty[o]}
      BY <1>2, CaptureEffects, EngineConstants
    <3> QED  BY <3>1, <3>2 DEF Slots, Holds
  <2>4. FlippedInv'
    BY <1>2, <2>1, CaptureEffects DEF P1Capture, Registered, FlippedInv, InFlight
  <2> QED  BY <2>2, <2>3, <2>4
<1>3. CASE P3Finalize
  <2>1. UNCHANGED <<oidOf, new, dirty, deleted, cancelledNew>> /\ capture' = NoCapture
    BY <1>3 DEF P3Finalize
  <2>2. Slots'
    BY <1>3, <2>1, EngineConstants DEF P3Finalize, Slots, Holds, NoCapture, NoInsts
  <2>3. Tracked'
    <3>1. \A i \in Barred(capture) \cap Insts : oidOf[i] # None
      BY EngineConstants DEF Barred, Slots, Holds, Oids
    <3> QED  BY <1>3, <2>1, <3>1 DEF P3Finalize, Tracked, TypeInv, TypeOK
  <2> QED  BY <2>1, <2>2, <2>3 DEF FlippedInv, InFlight, NoCapture
<1>4. CASE P2Rollback
  <2>1. UNCHANGED <<oidOf, registry, cancelledNew>> /\ capture' = NoCapture
    BY <1>4 DEF P2Rollback, Rollback
  <2>2. Slots'
    BY <1>4, <2>1, EngineConstants
       DEF P2Rollback, Rollback, RollbackNew, RollbackDirty, Slots, Holds, NoCapture, NoInsts
  <2>3. Tracked'
    BY <1>4, <2>1 DEF P2Rollback, Rollback, RollbackState, Tracked, TypeInv, TypeOK
  <2> QED  BY <2>1, <2>2, <2>3 DEF FlippedInv, InFlight, NoCapture
<1> QED  BY <1>1, <1>2, <1>3, <1>4 DEF CommitStep, Cancel, NoCancel

(* What a step of the IO worker does to the capture and to the backend. *)
LEMMA WorkerEffects ==
    ASSUME TypeInv, TidInv, WorkerStep
    PROVE  /\ UNCHANGED <<objVars, bufVars, registry, idVars, cidVars, idxVars, consumer>>
           /\ capture.status \in {"queued", "running"}
           /\ capture'.status \in {"queued", "running", "durable", "failed"}
           /\ UNCHANGED <<capture.batch, capture.flipped, capture.prior, capture.deletes,
                          capture.delta, capture.priors>>
           /\ capture'.status # "durable" => UNCHANGED db
           /\ capture'.status = "durable" =>
                 /\ db'.objs = Applied(db.objs, capture.batch)
                 /\ db'.nextOid = capture.batch.nextOid
<1> USE DEF TypeInv, TypeOK, TidInv
<1>1. CASE P2Begin
  BY <1>1 DEF P2Begin
<1>2. CASE P2Deletes
  BY <1>2 DEF P2Deletes
<1>3. CASE P2Commit
  BY <1>3 DEF P2Commit, Resolve
<1>4. CASE P2Fail
  BY <1>4 DEF P2Fail, Resolve
<1> QED  BY <1>1, <1>2, <1>3, <1>4 DEF WorkerStep

LEMMA SlotWorker ==
    ASSUME BaseInv, SlotInv, WorkerStep
    PROVE  SlotInv'
<1> USE DEF BaseInv, SlotInv
<1>1. Tracked' /\ Slots'
  BY WorkerEffects DEF objVars, bufVars, Tracked, Slots, Holds
<1>2. CASE capture'.status # "durable"
  BY <1>1, <1>2, WorkerEffects DEF FlippedInv, InFlight
<1>3. CASE capture'.status = "durable"
  <2>1. \A o \in Oids : capture.flipped[o] # None => o \notin capture.batch.dels
                                                    /\ capture.batch.recs[o] # None
    BY WorkerEffects DEF FlippedInv, InFlight, UniqueInv, BatchInv
  <2>2. \A o \in Oids : capture.flipped[o] # None => db'.objs[o] = capture.batch.recs[o]
    BY <1>3, <2>1, WorkerEffects DEF Applied, WithRecords
  <2> QED  BY <1>1, <1>3, <2>2, WorkerEffects DEF FlippedInv, InFlight
<1> QED  BY <1>2, <1>3

LEMMA SlotRest ==
    ASSUME BaseInv, SlotInv, ConsumerStep \/ Discard \/ Crash \/ UNCHANGED vars
    PROVE  SlotInv'
<1> USE DEF BaseInv, SlotInv
<1>1. CASE ConsumerStep \/ UNCHANGED vars
  BY <1>1 DEF ConsumerStep, Rebuild, Attach, Detach, vars, objVars, bufVars, p2Vars, Tracked,
              Slots, Holds, FlippedInv, InFlight
<1>2. CASE Discard
  <2>1. capture' = capture /\ capture.status = "none"
    BY <1>2 DEF Discard, p2Vars
  <2>2. capture.flipped = NoInsts /\ capture.deletes = NoInsts
    BY <2>1 DEF FlippedInv, InFlight, NoCapture
  <2> QED  BY <1>2, <2>1, <2>2, EngineConstants
     DEF Discard, LoadState, NoInsts, Tracked, Slots, Holds, FlippedInv, InFlight, TypeInv, TypeOK
<1>3. CASE Crash
  BY <1>3, EngineConstants DEF Crash, LoadState, NoInsts, NoCapture, Tracked, Slots, Holds,
     FlippedInv, InFlight
<1> QED  BY <1>1, <1>2, <1>3

LEMMA SlotStep ==
    ASSUME NoCancel, BaseInv, SlotInv, [Next]_vars
    PROVE  SlotInv'
BY SlotWorkUnit, SlotCommit, SlotWorker, SlotRest DEF Next

(* Every reachable state satisfies the slot invariant, as long as no commit *)
(* is cancelled.                                                            *)
LEMMA SlotInvariant ==
    ASSUME NoCancel
    PROVE  Spec => [](BaseInv /\ SlotInv)
<1>1. BaseInv /\ SlotInv /\ [Next]_vars => SlotInv'
  BY SlotStep
<1>2. Spec => []BaseInv
  BY UniqueInvariant DEF BaseInv
<1> QED  BY <1>1, <1>2, SlotInit, PTL DEF Spec

-----------------------------------------------------------------------------
(* A CLEAN object agrees with the store.  While a commit is in flight an    *)
(* object it did not capture agrees with the backend; one whose record the  *)
(* commit deletes does so only until the commit is durable.                 *)

CleanInv ==
    \A i \in Insts : st[i] = "CLEAN" /\ registry[oidOf[i]] = i =>
        IF InFlight /\ capture.flipped[oidOf[i]] = i
        THEN capture.batch.recs[oidOf[i]] = val[i]
        ELSE \/ capture.status = "durable" /\ oidOf[i] \in capture.batch.dels
             \/ db.objs[oidOf[i]] = val[i]

LEMMA CleanWorkUnit ==
    ASSUME BaseInv, SlotInv, CleanInv, WorkUnitStep
    PROVE  CleanInv'
<1> USE DEF BaseInv, SlotInv
<1>0. UNCHANGED <<capture, db>>
  BY WorkUnitEffects
<1>1. ASSUME NEW i \in Insts, NEW v \in Vals, AdoptStep(i, v)
      PROVE  CleanInv'
  BY <1>0, <1>1 DEF AdoptStep, Adopt, CleanInv, InFlight, TypeInv, TypeOK
<1>2. ASSUME NEW i \in Insts, NEW v \in Vals, TouchStep(i, v)
      PROVE  CleanInv'
  BY <1>0, <1>2 DEF TouchStep, TouchAndSet, CleanInv, InFlight, TypeInv, TypeOK
<1>3. ASSUME NEW i \in Insts, NEW o \in Oids, NEW v \in Vals, HydrateStep(i, o, v)
      PROVE  CleanInv'
  <2>1. View[o] = db.objs[o] /\ registry[o] = None
    BY <1>3, HydratedRecord DEF HydrateStep, Hydrate
  <2>2. \A j \in Insts \ {i} : st'[j] = st[j] /\ oidOf'[j] = oidOf[j] /\ val'[j] = val[j]
    BY <1>3 DEF HydrateStep, Hydrate, TypeInv, TypeOK
  <2>3. \A j \in Insts \ {i} : st[j] # "FREE" => oidOf[j] \in Oids
                                 /\ (registry'[oidOf[j]] = j => registry[oidOf[j]] = j)
    BY <1>3 DEF HydrateStep, Hydrate, Tracked, TypeInv, TypeOK, InstMap
  <2>4. st[i] = "FREE" /\ oidOf'[i] = o /\ val'[i] = v /\ (st'[i] = "CLEAN" => v = View[o])
    BY <1>3 DEF HydrateStep, Hydrate, TypeInv, TypeOK
  <2>5. capture.flipped[o] # i
    BY <2>4, EngineConstants DEF Tracked, Slots, Holds, Oids
  <2>6. ASSUME NEW j \in Insts, j # i, st'[j] = "CLEAN", registry'[oidOf'[j]] = j
        PROVE  st[j] = "CLEAN" /\ registry[oidOf[j]] = j
    BY <2>2, <2>3, <2>6
  <2> QED  BY <1>0, <2>1, <2>2, <2>4, <2>5, <2>6 DEF CleanInv, InFlight
<1>4. ASSUME NEW i \in Insts, Forget(i)
      PROVE  CleanInv'
  <2>1. \A j \in Insts : st'[j] # "FREE" => j # i /\ st'[j] = st[j] /\ oidOf'[j] = oidOf[j]
                                            /\ val'[j] = val[j] /\ oidOf[j] \in Oids
    BY <1>4 DEF Forget, TypeInv, TypeOK, Tracked
  <2>2. \A o \in Oids, j \in Insts : registry'[o] = j => registry[o] = j
    BY <1>4, EngineConstants DEF Forget
  <2> QED  BY <1>0, <2>1, <2>2 DEF CleanInv, InFlight
<1>5. ASSUME NEW obj \in Insts \cup {None}, NEW o \in Oids, DeleteStep(obj, o)
      PROVE  CleanInv'
  <2>1. \A j \in Insts : st'[j] = "CLEAN" => st[j] = "CLEAN"
    BY <1>5 DEF DeleteStep, DeleteOid, TypeInv, TypeOK
  <2> QED  BY <1>0, <1>5, <2>1 DEF DeleteStep, CleanInv, InFlight
<1>6. ASSUME QuietStep PROVE CleanInv'
  BY <1>0, <1>6 DEF QuietStep, objVars, CleanInv, InFlight
<1> QED  BY WorkUnitEffects, <1>1, <1>2, <1>3, <1>4, <1>5, <1>6

LEMMA CleanCommit ==
    ASSUME NoCancel, BaseInv, SlotInv, CleanInv, CommitStep
    PROVE  CleanInv'
<1> USE DEF BaseInv, SlotInv
<1>0. \A i \in Insts : st[i] # "FREE" => oidOf[i] \in Oids
  BY DEF Tracked, TypeInv, TypeOK
<1>1. CASE P1RejectUnique \/ P1RejectPriors
  BY <1>1 DEF P1RejectUnique, P1RejectPriors, objVars, bufVars, p2Vars, CleanInv, InFlight
<1>2. CASE P1Capture
  <2> SUFFICES ASSUME NEW i \in Insts, st'[i] = "CLEAN", registry'[oidOf[i]] = i
               PROVE  IF Pending[oidOf[i]] = i
                      THEN capture'.batch.recs[oidOf[i]] = val[i]
                      ELSE db.objs[oidOf[i]] = val[i]
    BY <1>2, CaptureEffects DEF P1Capture, CleanInv, InFlight
  <2>1. \/ \E o \in Oids : Pending[o] = i /\ oidOf[i] = o
        \/ st[i] = "CLEAN" /\ \A o \in Oids : Pending[o] # i
    <3>1. \A o \in Oids : Pending[o] = i => i \in {new[o], dirty[o]}
      BY <1>2, CaptureEffects, EngineConstants
    <3>2. \A o \in Oids : Pending[o] = i => oidOf[i] = o
      BY <3>1 DEF Slots, Holds
    <3> QED  BY <1>2, <3>2 DEF P1Capture, Flip
  <2>2. CASE \E o \in Oids : Pending[o] = i /\ oidOf[i] = o
    BY <1>2, <2>2, CaptureEffects, EngineConstants
  <2>3. CASE st[i] = "CLEAN" /\ \A o \in Oids : Pending[o] # i
    <3>1. oidOf[i] \in Oids /\ registry[oidOf[i]] = i
      BY <1>0, <1>2, <2>3 DEF P1Capture, Registered
    <3>2. capture.status = "none"
      BY <1>2 DEF P1Capture
    <3> QED  BY <2>3, <3>1, <3>2 DEF CleanInv, InFlight
  <2> QED  BY <2>1, <2>2, <2>3
<1>3. CASE P3Finalize
  <2>1. UNCHANGED <<oidOf, val, db>> /\ capture' = NoCapture /\ capture.status = "durable"
    BY <1>3 DEF P3Finalize
  <2> SUFFICES ASSUME NEW i \in Insts, st'[i] = "CLEAN", registry'[oidOf[i]] = i
               PROVE  db.objs[oidOf[i]] = val[i]
    BY <2>1 DEF CleanInv, InFlight, NoCapture
  <2>2. st[i] = "CLEAN" /\ oidOf[i] \in Oids
    BY <1>0, <1>3 DEF P3Finalize, TypeInv, TypeOK
  <2>3. registry[oidOf[i]] = i /\ capture.deletes[oidOf[i]] = None
    BY <1>3, <2>2, EngineConstants DEF P3Finalize
  <2>4. oidOf[i] \notin capture.batch.dels
    BY <2>1, <2>2, <2>3 DEF UniqueInv, BatchInv
  <2>5. capture.flipped[oidOf[i]] = i => db.objs[oidOf[i]] = capture.batch.recs[oidOf[i]]
    BY <2>1, <2>2, EngineConstants DEF FlippedInv
  <2> QED  BY <2>1, <2>2, <2>3, <2>4, <2>5 DEF CleanInv, InFlight
<1>4. CASE P2Rollback
  <2>1. /\ UNCHANGED <<oidOf, val, db, registry>>
        /\ capture' = NoCapture /\ capture.status = "failed"
        /\ st' = RollbackState(capture)
    BY <1>4 DEF P2Rollback, Rollback
  <2> SUFFICES ASSUME NEW i \in Insts, st'[i] = "CLEAN", registry[oidOf[i]] = i
               PROVE  db.objs[oidOf[i]] = val[i]
    BY <2>1 DEF CleanInv, InFlight, NoCapture
  <2>2. st[i] = "CLEAN" /\ ~(oidOf[i] # None /\ capture.flipped[oidOf[i]] = i)
    BY <2>1 DEF RollbackState
  <2> QED  BY <1>0, <2>1, <2>2, EngineConstants DEF CleanInv, InFlight, Oids
<1> QED  BY <1>1, <1>2, <1>3, <1>4 DEF CommitStep, Cancel, NoCancel

LEMMA CleanWorker ==
    ASSUME BaseInv, SlotInv, CleanInv, WorkerStep
    PROVE  CleanInv'
<1> USE DEF BaseInv, SlotInv
<1>1. CASE capture'.status # "durable"
  BY <1>1, WorkerEffects DEF objVars, CleanInv, InFlight
<1>2. CASE capture'.status = "durable"
  <2> SUFFICES ASSUME NEW i \in Insts, st[i] = "CLEAN", registry[oidOf[i]] = i,
                      capture.flipped[oidOf[i]] # i, oidOf[i] \notin capture.batch.dels
               PROVE  db'.objs[oidOf[i]] = val[i]
    BY <1>2, WorkerEffects DEF objVars, CleanInv, InFlight
  <2>1. oidOf[i] \in Oids /\ db.objs[oidOf[i]] = val[i]
    BY WorkerEffects DEF CleanInv, Tracked, TypeInv, TypeOK
  <2>2. capture.batch.recs[oidOf[i]] = None
    BY <2>1, WorkerEffects DEF FlippedInv, InFlight
  <2> QED  BY <1>2, <2>1, <2>2, WorkerEffects DEF Applied, WithRecords
<1> QED  BY <1>1, <1>2

LEMMA CleanRest ==
    ASSUME BaseInv, SlotInv, CleanInv, ConsumerStep \/ Discard \/ Crash \/ UNCHANGED vars
    PROVE  CleanInv'
<1> USE DEF BaseInv, SlotInv
<1>1. CASE ConsumerStep \/ UNCHANGED vars
  BY <1>1 DEF ConsumerStep, Rebuild, Attach, Detach, vars, objVars, p2Vars, CleanInv, InFlight
<1>2. CASE Discard \/ Crash
  <2>1. /\ registry' = NoInsts
        /\ \A i \in Insts : st'[i] # "FREE" => oidOf'[i] = oidOf[i] /\ st'[i] = st[i]
    BY <1>2 DEF Discard, Crash, LoadState
  <2>2. \A i \in Insts : st'[i] # "FREE" => oidOf'[i] \in Oids
    BY <2>1 DEF Tracked, TypeInv, TypeOK
  <2> QED  BY <2>1, <2>2, EngineConstants DEF CleanInv, NoInsts
<1> QED  BY <1>1, <1>2

LEMMA CleanInit == Init => CleanInv
BY DEF Init, CleanInv

(* A CLEAN object the registry hands out agrees with the store, or with the *)
(* commit that captured it, although loads, writes and deletes interleave   *)
(* with a running P2 whose uncommitted rows they read.                      *)
THEOREM EngineCleanAgrees ==
    ASSUME NoCancel
    PROVE  Spec => []CleanAgrees
<1>1. BaseInv /\ SlotInv /\ CleanInv /\ [Next]_vars => CleanInv'
  BY CleanWorkUnit, CleanCommit, CleanWorker, CleanRest DEF Next
<1>2. CleanInv => CleanAgrees
  BY DEF CleanInv, CleanAgrees, InFlight
<1> QED  BY <1>1, <1>2, SlotInvariant, CleanInit, PTL DEF Spec

-----------------------------------------------------------------------------
(* No write is lost and an OID has one live object: without discard(),      *)
(* which leaves live objects behind that no buffer and no registry knows.   *)

Retaining == NoCancel /\ "discard" \notin Env

(* OIDs.  Records, captured slots and the unique map have OIDs below a      *)
(* watermark, which new objects are above.                                  *)
FreshInv ==
    /\ db.nextOid <= nextOid
    /\ InFlight => db.nextOid <= capture.batch.nextOid /\ capture.batch.nextOid <= nextOid
    /\ capture.status = "durable" => db.nextOid = capture.batch.nextOid
    /\ \A o \in Oids :
          /\ db.objs[o] # None => o < db.nextOid
          /\ InFlight /\ (capture.flipped[o] # None \/ capture.deletes[o] # None)
             => o < capture.batch.nextOid
          /\ deleted[o] # None => o < nextOid
    /\ \A k \in Keys : unique[k] # None => unique[k] < db.nextOid
    /\ \A i \in Insts : oidOf[i] # None => oidOf[i] < nextOid

(* A NEW object that no commit has captured yet: its OID is unused.         *)
Unregistered(i) ==
    LET o == oidOf[i] IN
    /\ registry[o] = None
    /\ new[o] = i /\ deleted[o] = None /\ dirty[o] = None
    /\ db.nextOid <= o
    /\ InFlight => capture.batch.nextOid <= o

(* An OID that once had a record and will never have one again. *)
Gone(o) == registry[o] = None /\ db.objs[o] = None /\ o < db.nextOid

LiveInv ==
    \A i \in Insts :
       /\ st[i] \in {"CLEAN", "DIRTY"} => registry[oidOf[i]] = i
       /\ st[i] = "NEW" => registry[oidOf[i]] = i \/ Unregistered(i)

BufferInv ==
    \A o \in Oids, i \in Insts :
       /\ new[o] = i => st[i] = "NEW" /\ (InFlight => capture.batch.nextOid <= o)
       /\ dirty[o] = i => st[i] = "DIRTY" \/ (st[i] = "DELETED" /\ ~InFlight /\ Gone(o))
       /\ deleted[o] = i \/ capture.deletes[o] = i => registry[o] = i \/ Gone(o)

(* WritesBuffered, by state. *)
Removed(o) == deleted[o] # None \/ o \in capture.batch.dels

WriteInv ==
    \A i \in Insts :
       /\ st[i] = "NEW" => new[oidOf[i]] = i \/ Removed(oidOf[i])
       /\ st[i] = "DIRTY" => dirty[oidOf[i]] = i \/ Removed(oidOf[i])

GraphInv == LiveInv /\ BufferInv /\ WriteInv

LEMMA GraphInit == Init => FreshInv /\ GraphInv
BY EngineConstants DEF Init, GraphInv, FreshInv, LiveInv, BufferInv, WriteInv,
      InFlight, NoInsts, NoVals, NoCapture, EmptyIndex

(* Every OID the unique map gives is below the durable watermark, also if   *)
(* the map is built now.                                                    *)
LEMMA EnsuredFresh ==
    ASSUME BaseInv, SlotInv, FreshInv
    PROVE  \A k \in Keys : Ensured[k] # None => Ensured[k] \in Oids /\ Ensured[k] < db.nextOid
<1> USE DEF BaseInv, SlotInv
<1>1. CASE built
  BY <1>1 DEF Ensured, FreshInv, TypeInv, TypeOK
<1>2. CASE ~built
  <2>1. \A o \in Oids : View[o] # None => db.objs[o] # None
    <3>1. CASE io.phase = "idle"
      BY <3>1 DEF View
    <3>2. CASE io.phase # "idle"
      <4>1. InFlight /\ io.batch = capture.batch
        BY <3>2 DEF TidInv, InFlight
      <4>2. \A o \in Oids : io.batch.recs[o] = None
        BY <1>2, <4>1 DEF UniqueInv, BatchInv, InFlight
      <4> QED  BY <4>2 DEF View, WithRecords, Applied
    <3> QED  BY <3>1, <3>2
  <2>2. ASSUME NEW k \in Keys, BuildIndex(View)[k] # None
        PROVE  BuildIndex(View)[k] \in Oids /\ View[BuildIndex(View)[k]] = k
    BY <2>2 DEF BuildIndex, LastHolder
  <2> QED  BY <1>2, <2>1, <2>2, EngineConstants DEF Ensured, FreshInv
<1> QED  BY <1>1, <1>2

LEMMA FreshWorkUnit ==
    ASSUME BaseInv, SlotInv, FreshInv, WorkUnitStep
    PROVE  FreshInv'
<1> USE DEF BaseInv, SlotInv
<1>0. UNCHANGED <<capture, db>>
  BY WorkUnitEffects
<1>1. \A k \in Keys : unique'[k] # None => unique'[k] < db.nextOid
  BY WorkUnitEffects, EnsuredFresh DEF IndexStep, FreshInv
<1>2. nextOid' \in Nat /\ nextOid \in Nat /\ nextOid <= nextOid'
  <2>1. nextOid' = nextOid \/ nextOid' = nextOid + 1
    BY WorkUnitEffects DEF AdoptStep, Adopt, TouchStep, HydrateStep, DeleteStep, QuietStep,
                           Forget, idVars
  <2> QED  BY <2>1 DEF TypeInv, TypeOK
<1>3. \A o \in Oids : deleted'[o] # None => o < nextOid'
  <2>1. ASSUME NEW obj \in Insts \cup {None}, NEW o \in Oids, DeleteStep(obj, o)
        PROVE  o < nextOid
    <3>1. o # None /\ o \in Nat /\ db.nextOid \in Nat
      BY EngineConstants DEF Oids, TypeInv, TypeOK
    <3>2. CASE obj \in Insts /\ oidOf[obj] = o
      BY <3>1, <3>2 DEF FreshInv
    <3>3. CASE \E k \in Keys : Ensured[k] = o
      BY <1>2, <3>1, <3>3, EnsuredFresh DEF FreshInv
    <3> QED  BY <2>1, <3>2, <3>3 DEF DeleteStep
  <2>2. \/ deleted' = deleted
        \/ \E obj \in Insts \cup {None}, o \in Oids : DeleteStep(obj, o)
    BY WorkUnitEffects DEF AdoptStep, TouchStep, HydrateStep, QuietStep, Forget, bufVars
  <2>3. CASE deleted' = deleted
    BY <1>2, <2>3 DEF FreshInv, Oids
  <2>4. CASE \E obj \in Insts \cup {None}, o \in Oids : DeleteStep(obj, o)
    <3>1. PICK obj \in Insts \cup {None}, o \in Oids : DeleteStep(obj, o)
      BY <2>4
    <3>2. \A p \in Oids \ {o} : deleted'[p] = deleted[p]
      BY <3>1 DEF DeleteStep, DeleteOid, TypeInv, TypeOK, DeleteMap
    <3> QED  BY <1>2, <2>1, <3>1, <3>2 DEF FreshInv, Oids
  <2> QED  BY <2>2, <2>3, <2>4
<1>4. \A i \in Insts : oidOf'[i] # None => oidOf'[i] < nextOid'
  <2>1. \A i \in Insts : oidOf'[i] # None => oidOf'[i] \in Oids /\
           \/ oidOf'[i] = oidOf[i]
           \/ oidOf'[i] = nextOid /\ nextOid' = nextOid + 1
           \/ View[oidOf'[i]] # None /\ registry[oidOf'[i]] = None
    <3>1. ASSUME NEW i \in Insts, NEW v \in Vals, AdoptStep(i, v)
          PROVE  nextOid \in Oids /\ \A j \in Insts :
                    oidOf'[j] = oidOf[j] \/ (oidOf'[j] = nextOid /\ nextOid' = nextOid + 1)
      BY <3>1, EngineConstants DEF AdoptStep, Adopt, TypeInv, TypeOK, Oids
    <3>2. ASSUME NEW i \in Insts, NEW o \in Oids, NEW v \in Vals, HydrateStep(i, o, v)
          PROVE  /\ \A j \in Insts : oidOf'[j] = oidOf[j] \/ oidOf'[j] = o
                 /\ View[o] # None /\ registry[o] = None
      BY <3>2 DEF HydrateStep, Hydrate, TypeInv, TypeOK
    <3>3. ASSUME NEW i \in Insts, Forget(i)
          PROVE  \A j \in Insts : oidOf'[j] = oidOf[j] \/ oidOf'[j] = None
      BY <3>3 DEF Forget, TypeInv, TypeOK
    <3>4. \A i \in Insts : oidOf[i] # None => oidOf[i] \in Oids
      BY DEF TypeInv, TypeOK
    <3> QED
      BY WorkUnitEffects, <3>1, <3>2, <3>3, <3>4 DEF TouchStep, DeleteStep, QuietStep, objVars
  <2>2. \A o \in Oids : View[o] # None /\ registry[o] = None => o < db.nextOid
    BY HydratedRecord DEF FreshInv
  <2> QED  BY <1>2, <2>1, <2>2 DEF FreshInv, Oids, TypeInv, TypeOK
<1> QED
  BY <1>0, <1>1, <1>2, <1>3, <1>4 DEF FreshInv, InFlight, TypeInv, TypeOK, Batches, Oids

(* An object the store knows has an OID; a FREE one is in no slot. *)
LEMMA SlotFacts ==
    ASSUME TypeInv, Tracked, Slots
    PROVE  /\ None \notin Oids /\ Oids \subseteq Nat
           /\ \A i \in Insts : st[i] # "FREE" => oidOf[i] \in Oids
           /\ \A o \in Oids, i \in Insts : Holds(o, i) => oidOf[i] = o /\ st[i] # "FREE"
           /\ \A o \in Oids : /\ new[o] # None => new[o] \in Insts
                              /\ dirty[o] # None => dirty[o] \in Insts
                              /\ registry[o] # None => registry[o] \in Insts
                              /\ capture.flipped[o] # None => capture.flipped[o] \in Insts
<1>1. None \notin Oids /\ Oids \subseteq Nat
  BY EngineConstants DEF Oids
<1>2. \A i \in Insts : st[i] # "FREE" => oidOf[i] \in Oids
  BY DEF Tracked, TypeInv, TypeOK
<1>3. \A o \in Oids, i \in Insts : Holds(o, i) => oidOf[i] = o /\ st[i] # "FREE"
  BY <1>1 DEF Tracked, Slots
<1> QED  BY <1>1, <1>2, <1>3 DEF TypeInv, TypeOK, InstMap

LEMMA GraphAdopt ==
    ASSUME BaseInv, SlotInv, FreshInv, GraphInv, UNCHANGED <<capture, db>>,
           NEW i \in Insts, NEW v \in Vals, AdoptStep(i, v)
    PROVE  GraphInv'
<1> USE SlotFacts DEF BaseInv, SlotInv, GraphInv
<1> DEFINE o == nextOid
<1>1. /\ o \in Oids /\ st[i] = "FREE"
      /\ st' = [st EXCEPT ![i] = "NEW"] /\ oidOf' = [oidOf EXCEPT ![i] = o]
      /\ new' = [new EXCEPT ![o] = i]
      /\ UNCHANGED <<dirty, deleted, registry>>
  BY EngineConstants DEF AdoptStep, Adopt, TypeInv, TypeOK, Oids
<1>2. /\ st'[i] = "NEW" /\ oidOf'[i] = o /\ new'[o] = i
      /\ \A j \in Insts \ {i} : st'[j] = st[j] /\ oidOf'[j] = oidOf[j]
      /\ \A p \in Oids \ {o} : new'[p] = new[p]
  BY <1>1 DEF TypeInv, TypeOK, InstMap
<1>3. \A j \in Insts : st[j] # "FREE" => oidOf[j] # o
  BY <1>1 DEF FreshInv
<1>4. /\ registry[o] = None /\ dirty[o] = None /\ deleted[o] = None
      /\ db.nextOid <= o /\ (InFlight => capture.batch.nextOid <= o)
  <2>1. registry[o] = None /\ dirty[o] = None
    BY <1>1, <1>3 DEF Holds
  <2>2. deleted[o] = None
    BY <1>1 DEF FreshInv
  <2> QED  BY <2>1, <2>2 DEF FreshInv
<1>5. \A p \in Oids : ~Holds(p, i)
  BY <1>1
<1>6. LiveInv'
  BY <1>1, <1>2, <1>3, <1>4 DEF LiveInv, Unregistered, InFlight
<1>7. BufferInv'
  BY <1>1, <1>2, <1>4, <1>5 DEF BufferInv, Holds, Gone, InFlight
<1>8. WriteInv'
  BY <1>1, <1>2, <1>3 DEF WriteInv, Removed
<1> QED  BY <1>6, <1>7, <1>8

LEMMA GraphTouch ==
    ASSUME BaseInv, SlotInv, FreshInv, GraphInv, UNCHANGED <<capture, db>>,
           NEW i \in Insts, NEW v \in Vals, TouchStep(i, v)
    PROVE  GraphInv'
<1> USE SlotFacts DEF BaseInv, SlotInv, GraphInv
<1>1. CASE st[i] # "CLEAN"
  BY <1>1 DEF TouchStep, TouchAndSet, LiveInv, Unregistered, BufferInv, Gone, WriteInv, Removed,
              InFlight
<1>2. CASE st[i] = "CLEAN"
  <2> DEFINE o == oidOf[i]
  <2>1. /\ o \in Oids /\ registry[o] = i
        /\ UNCHANGED <<oidOf, new, deleted, registry>>
        /\ st' = [st EXCEPT ![i] = "DIRTY"] /\ dirty' = [dirty EXCEPT ![o] = i]
    BY <1>2 DEF TouchStep, TouchAndSet, LiveInv
  <2>2. /\ st'[i] = "DIRTY" /\ dirty'[o] = i
        /\ \A j \in Insts \ {i} : st'[j] = st[j]
        /\ \A p \in Oids \ {o} : dirty'[p] = dirty[p]
    BY <2>1 DEF TypeInv, TypeOK, InstMap
  <2>3. \A j \in Insts \ {i} : st[j] \in {"DIRTY", "NEW"} => oidOf[j] # o
    BY <2>1, EngineConstants DEF LiveInv, Unregistered
  <2>4. LiveInv'
    BY <2>1, <2>2, <2>3 DEF LiveInv, Unregistered, InFlight
  <2>5. BufferInv'
    BY <1>2, <2>1, <2>2 DEF BufferInv, Gone, InFlight
  <2>6. WriteInv'
    BY <2>1, <2>2, <2>3 DEF WriteInv, Removed
  <2> QED  BY <2>4, <2>5, <2>6
<1> QED  BY <1>1, <1>2

LEMMA GraphHydrate ==
    ASSUME BaseInv, SlotInv, FreshInv, GraphInv, UNCHANGED <<capture, db>>,
           NEW i \in Insts, NEW o \in Oids, NEW v \in Vals, HydrateStep(i, o, v)
    PROVE  GraphInv'
<1> USE SlotFacts DEF BaseInv, SlotInv, GraphInv
<1>1. /\ st[i] = "FREE" /\ registry[o] = None
      /\ db.objs[o] # None /\ o < db.nextOid
      /\ UNCHANGED <<new, deleted>>
  BY HydratedRecord DEF HydrateStep, Hydrate, FreshInv
<1>2. /\ st'[i] \in {"CLEAN", "DIRTY"} /\ oidOf'[i] = o /\ registry'[o] = i
      /\ \A j \in Insts \ {i} : st'[j] = st[j] /\ oidOf'[j] = oidOf[j]
      /\ \A p \in Oids \ {o} : registry'[p] = registry[p] /\ dirty'[p] = dirty[p]
      /\ IF st'[i] = "DIRTY" THEN dirty'[o] = i ELSE dirty' = dirty
  BY DEF HydrateStep, Hydrate, TypeInv, TypeOK, InstMap
<1>3. \A j \in Insts : st[j] \in {"CLEAN", "DIRTY", "NEW"} => oidOf[j] # o
  BY <1>1, EngineConstants DEF LiveInv, Unregistered, TypeInv, TypeOK
<1>4. dirty[o] = None /\ new[o] = None
  BY <1>1, <1>3 DEF BufferInv, Gone, Holds
<1>5. \A p \in Oids : ~Holds(p, i)
  BY <1>1
<1>6. \A j \in Insts : deleted[o] # j /\ capture.deletes[o] # j
  BY <1>1, EngineConstants DEF BufferInv, Gone
<1>7. LiveInv'
  BY <1>1, <1>2, <1>3 DEF LiveInv, Unregistered, InFlight
<1>8. BufferInv'
  BY <1>1, <1>2, <1>4, <1>5, <1>6 DEF BufferInv, Holds, Gone, InFlight
<1>9. WriteInv'
  BY <1>1, <1>2, <1>3 DEF WriteInv, Removed
<1> QED  BY <1>7, <1>8, <1>9

LEMMA GraphForget ==
    ASSUME BaseInv, SlotInv, FreshInv, GraphInv, UNCHANGED <<capture, db>>,
           NEW i \in Insts, Forget(i)
    PROVE  GraphInv'
<1> USE SlotFacts DEF BaseInv, SlotInv, GraphInv
<1>1. UNCHANGED <<new, dirty, deleted>>
  BY DEF Forget, bufVars
<1>2. /\ st'[i] = "FREE"
      /\ \A j \in Insts \ {i} : st'[j] = st[j] /\ oidOf'[j] = oidOf[j]
  BY DEF Forget, TypeInv, TypeOK
<1>3. \A o \in Oids : /\ i \notin {new[o], dirty[o], deleted[o], capture.deletes[o]}
                      /\ registry'[o] = IF registry[o] = i THEN None ELSE registry[o]
  BY DEF Forget, Held
<1>4. LiveInv'
  BY <1>1, <1>2, <1>3, EngineConstants DEF LiveInv, Unregistered, InFlight
<1>5. BufferInv'
  BY <1>1, <1>2, <1>3, EngineConstants DEF BufferInv, Gone, InFlight
<1>6. WriteInv'
  BY <1>1, <1>2, <1>3 DEF WriteInv, Removed
<1> QED  BY <1>4, <1>5, <1>6

(* A delete reaches the one object of its OID, and every object it marks.   *)
LEMMA GraphDelete ==
    ASSUME BaseInv, SlotInv, FreshInv, GraphInv, UNCHANGED <<capture, db>>,
           NEW obj \in Insts \cup {None}, NEW o \in Oids, DeleteStep(obj, o)
    PROVE  GraphInv'
<1> USE SlotFacts DEF BaseInv, SlotInv, GraphInv
<1>1. UNCHANGED <<oidOf, registry>>
  BY DEF DeleteStep
<1>2. \/ obj \in Insts /\ oidOf[obj] = o
      \/ obj = None /\ registry[o] = None /\ o < db.nextOid
  <2>1. obj = registry[o] /\ (\E k \in Keys : Ensured[k] = o) => o < db.nextOid
    BY EnsuredFresh
  <2> QED  BY <2>1, EngineConstants DEF DeleteStep, Holds
<1>3. CASE obj \in Insts /\ st[obj] = "NEW"
  <2>1. oidOf[obj] = o
    BY <1>2, <1>3, EngineConstants
  <2>2. /\ st'[obj] = "DELETED" /\ deleted' = deleted
        /\ new'[o] = None /\ dirty'[o] = None
        /\ \A j \in Insts \ {obj} : st'[j] = st[j]
        /\ \A p \in Oids \ {o} : new'[p] = new[p] /\ dirty'[p] = dirty[p]
    BY <1>3, EngineConstants DEF DeleteStep, DeleteOid, TypeInv, TypeOK, InstMap
  <2>3. \A j \in Insts \ {obj} : st[j] \in {"CLEAN", "DIRTY", "NEW"} => oidOf[j] # o
    BY <1>3, <2>1, EngineConstants DEF LiveInv, Unregistered
  <2>4. LiveInv'
    BY <1>1, <2>2, <2>3 DEF LiveInv, Unregistered, InFlight
  <2>5. BufferInv'
    BY <1>1, <2>1, <2>2, EngineConstants DEF BufferInv, Gone, InFlight, Holds
  <2>6. WriteInv'
    BY <1>1, <2>2, <2>3 DEF WriteInv, Removed
  <2> QED  BY <2>4, <2>5, <2>6
<1>4. CASE obj \in Insts /\ st[obj] # "NEW"
  <2>1. oidOf[obj] = o /\ obj # None
    BY <1>2, <1>4, EngineConstants
  <2>2. /\ st'[obj] = "DELETED" /\ new' = new
        /\ deleted'[o] = obj /\ dirty'[o] = None
        /\ \A j \in Insts \ {obj} : st'[j] = st[j]
        /\ \A p \in Oids \ {o} : deleted'[p] = deleted[p] /\ dirty'[p] = dirty[p]
    BY <1>4, <2>1 DEF DeleteStep, DeleteOid, TypeInv, TypeOK, InstMap, DeleteMap
  <2>3. registry[o] = obj
    <3>1. obj = registry[o] \/ st[obj] \notin {"FREE", "DELETED"}
      BY DEF DeleteStep
    <3>2. st[obj] \in {"FREE", "NEW", "CLEAN", "DIRTY", "DELETED"}
      BY <1>4 DEF TypeInv, TypeOK, States
    <3>3. st[obj] \in {"CLEAN", "DIRTY"} => registry[oidOf[obj]] = obj
      BY <1>4 DEF LiveInv
    <3> QED  BY <1>4, <2>1, <3>1, <3>2, <3>3
  <2>4. \A j \in Insts \ {obj} : st[j] \in {"CLEAN", "DIRTY", "NEW"} => oidOf[j] # o
    BY <1>4, <2>1, <2>3 DEF LiveInv, Unregistered
  <2>5. LiveInv'
    BY <1>1, <2>2, <2>4 DEF LiveInv, Unregistered, InFlight
  <2>6. BufferInv'
    BY <1>1, <1>4, <2>1, <2>2, <2>3, EngineConstants DEF BufferInv, Gone, InFlight, Holds
  <2>7. WriteInv'
    BY <1>1, <2>1, <2>2, <2>4 DEF WriteInv, Removed
  <2> QED  BY <2>5, <2>6, <2>7
<1>5. CASE obj = None
  <2>1. registry[o] = None /\ o < db.nextOid
    BY <1>2, <1>5, EngineConstants
  <2>2. /\ st' = st /\ new' = new
        /\ deleted'[o] = NoLive /\ dirty'[o] = None
        /\ \A p \in Oids \ {o} : deleted'[p] = deleted[p] /\ dirty'[p] = dirty[p]
    BY <1>5 DEF DeleteStep, DeleteOid, TypeInv, TypeOK, InstMap, DeleteMap
  <2>3. \A j \in Insts : st[j] \in {"CLEAN", "DIRTY", "NEW"} => oidOf[j] # o
    BY <2>1, EngineConstants DEF LiveInv, Unregistered, TypeInv, TypeOK
  <2>4. LiveInv'
    BY <1>1, <2>2, <2>3 DEF LiveInv, Unregistered, InFlight
  <2>5. BufferInv'
    BY <1>1, <2>2, EngineConstants DEF BufferInv, Gone, InFlight
  <2>6. WriteInv'
    BY <1>1, <2>2, <2>3 DEF WriteInv, Removed
  <2> QED  BY <2>4, <2>5, <2>6
<1> QED  BY <1>3, <1>4, <1>5

LEMMA GraphWorkUnit ==
    ASSUME BaseInv, SlotInv, FreshInv, GraphInv, WorkUnitStep
    PROVE  GraphInv'
<1>0. UNCHANGED <<capture, db>> /\ TypeInv /\ Tracked
  BY WorkUnitEffects DEF BaseInv, SlotInv
<1>1. ASSUME QuietStep PROVE GraphInv'
  BY <1>0, <1>1 DEF QuietStep, objVars, GraphInv, LiveInv, Unregistered, BufferInv, Gone, WriteInv,
                    Removed, InFlight
<1> QED
  BY <1>0, <1>1, WorkUnitEffects, GraphAdopt, GraphTouch, GraphHydrate, GraphForget, GraphDelete

(* A captured object was NEW, or DIRTY and registered; nothing else becomes *)
(* CLEAN in P1.                                                             *)
LEMMA GraphCapture ==
    ASSUME BaseInv, SlotInv, FreshInv, GraphInv, P1Capture
    PROVE  FreshInv' /\ GraphInv'
<1> USE SlotFacts, CaptureEffects DEF BaseInv, SlotInv, GraphInv
<1>1. /\ capture.status = "none" /\ ~InFlight /\ InFlight' /\ capture = NoCapture
      /\ UNCHANGED <<oidOf, nextOid, db>>
      /\ new' = NoInsts /\ dirty' = NoInsts /\ deleted' = NoInsts
      /\ registry' = Registered(Pending) /\ st' = Flip(Pending)
  BY DEF P1Capture, InFlight, FlippedInv
<1>2. \A o \in Oids : Pending[o] # None =>
         /\ Pending[o] \in Insts /\ oidOf[Pending[o]] = o
         /\ st[Pending[o]] \in {"NEW", "DIRTY"}
         /\ o < nextOid
         /\ registry[o] \in {None, Pending[o]}
         /\ deleted[o] = None
  <2> SUFFICES ASSUME NEW o \in Oids, Pending[o] # None
               PROVE  /\ Pending[o] \in Insts /\ oidOf[Pending[o]] = o
                      /\ st[Pending[o]] \in {"NEW", "DIRTY"}
                      /\ o < nextOid
                      /\ registry[o] \in {None, Pending[o]}
                      /\ deleted[o] = None
    OBVIOUS
  <2>1. Pending[o] \in {new[o], dirty[o]} /\ deleted[o] = None
    BY DEF Pending
  <2>2. Pending[o] \in Insts /\ oidOf[Pending[o]] = o
    BY <2>1 DEF Holds
  <2>3. st[Pending[o]] # "DELETED"
    BY <2>1, <2>2 DEF P1Capture, Storable
  <2>4. st[Pending[o]] \in {"NEW", "DIRTY"}
    BY <2>1, <2>2, <2>3 DEF BufferInv
  <2>5. o < nextOid
    BY <2>2 DEF FreshInv
  <2>6. registry[o] \in {None, Pending[o]}
    BY <2>2, <2>4 DEF LiveInv, Unregistered
  <2> QED  BY <2>1, <2>2, <2>4, <2>5, <2>6
<1>3. /\ capture'.batch.nextOid = nextOid
      /\ capture'.batch.dels = {o \in Oids : deleted[o] # None}
      /\ capture'.deletes = deleted /\ capture'.flipped = Pending
      /\ capture'.status = "queued"
  OBVIOUS
<1>4. FreshInv'
  <2>1. \A k \in Keys : unique'[k] # None => unique'[k] < db.nextOid
    BY EnsuredFresh DEF P1Capture, EnsureForCheck, FreshInv
  <2>2. \A o \in Oids : capture'.flipped[o] # None \/ capture'.deletes[o] # None
                        => o < capture'.batch.nextOid
    BY <1>2, <1>3 DEF FreshInv
  <2>3. nextOid \in Nat
    BY DEF TypeInv, TypeOK
  <2> QED  BY <1>1, <1>3, <2>1, <2>2, <2>3 DEF FreshInv, NoInsts
<1>5. ASSUME NEW i \in Insts, st'[i] # "FREE"
      PROVE  \/ oidOf[i] \in Oids /\ Pending[oidOf[i]] = i /\ st'[i] = "CLEAN"
             \/ st'[i] = st[i] /\ \A o \in Oids : Pending[o] # i
  <2>1. CASE \E o \in Oids : Pending[o] = i
    BY <1>1, <1>2, <2>1, EngineConstants DEF Flip
  <2>2. CASE \A o \in Oids : Pending[o] # i
    BY <1>1, <2>2 DEF Flip
  <2> QED  BY <2>1, <2>2
<1>6. ASSUME NEW i \in Insts, st[i] = "NEW", \A o \in Oids : Pending[o] # i
      PROVE  registry[oidOf[i]] = i /\ registry'[oidOf[i]] = i /\ deleted[oidOf[i]] # None
  <2>1. oidOf[i] \in Oids
    BY <1>6
  <2>2. registry[oidOf[i]] = i
    BY <1>6, <2>1 DEF LiveInv, Unregistered, Pending
  <2>3. registry'[oidOf[i]] = i
    BY <1>1, <1>2, <2>1, <2>2, EngineConstants DEF Registered
  <2>4. new[oidOf[i]] = i => deleted[oidOf[i]] # None
    <3>1. dirty[oidOf[i]] \in Insts => oidOf[dirty[oidOf[i]]] = oidOf[i]
                                       /\ st[dirty[oidOf[i]]] # "NEW"
      BY <2>1 DEF Holds, BufferInv
    <3>2. dirty[oidOf[i]] \in Insts => FALSE
      BY <1>6, <2>1, <2>2, <3>1, EngineConstants DEF LiveInv, BufferInv, Gone
    <3> QED  BY <1>6, <2>1, <3>2 DEF Pending
  <2>5. oidOf[i] \notin capture.batch.dels
    BY <1>1 DEF NoCapture, NoBatch
  <2> QED  BY <1>6, <2>2, <2>3, <2>4, <2>5 DEF WriteInv, Removed
<1>7. LiveInv'
  <2> SUFFICES ASSUME NEW i \in Insts, st'[i] \in {"CLEAN", "DIRTY", "NEW"}
               PROVE  registry'[oidOf[i]] = i
    BY <1>1 DEF LiveInv
  <2>1. CASE oidOf[i] \in Oids /\ Pending[oidOf[i]] = i
    BY <1>1, <2>1, EngineConstants DEF Registered
  <2>2. CASE st'[i] = st[i] /\ \A o \in Oids : Pending[o] # i
    <3>1. CASE st[i] = "NEW"
      BY <1>6, <2>2, <3>1
    <3>2. CASE st[i] \in {"CLEAN", "DIRTY"}
      BY <1>1, <1>2, <3>2, EngineConstants DEF LiveInv, Registered
    <3> QED  BY <2>2, <3>1, <3>2
  <2> QED  BY <1>5, <2>1, <2>2
<1>8. BufferInv'
  <2> SUFFICES ASSUME NEW o \in Oids, NEW i \in Insts, deleted[o] = i
               PROVE  registry'[o] = i \/ Gone(o)'
    BY <1>1, <1>3, EngineConstants DEF BufferInv, NoInsts
  <2>1. Pending[o] = None /\ (registry[o] = i \/ Gone(o))
    BY EngineConstants DEF BufferInv, Pending
  <2> QED  BY <1>1, <2>1 DEF Gone, Registered
<1>9. WriteInv'
  <2> SUFFICES ASSUME NEW i \in Insts, st'[i] \in {"NEW", "DIRTY"}
               PROVE  deleted[oidOf[i]] # None /\ oidOf[i] \in Oids
    BY <1>1, <1>3 DEF WriteInv, Removed
  <2>1. st[i] = st'[i] /\ \A o \in Oids : Pending[o] # i
    BY <1>5
  <2>2. CASE st[i] = "NEW"
    BY <1>6, <2>1, <2>2
  <2>3. CASE st[i] = "DIRTY"
    BY <1>1, <2>1, <2>3, EngineConstants DEF WriteInv, Removed, NoCapture, NoBatch, Pending
  <2> QED  BY <2>1, <2>2, <2>3
<1> QED  BY <1>4, <1>7, <1>8, <1>9

LEMMA GraphReject ==
    ASSUME BaseInv, SlotInv, FreshInv, GraphInv, P1RejectUnique \/ P1RejectPriors
    PROVE  FreshInv' /\ GraphInv'
<1>1. UNCHANGED <<objVars, bufVars, registry, idVars, p2Vars>>
  BY DEF P1RejectUnique, P1RejectPriors
<1>2. \A k \in Keys : unique'[k] # None => unique'[k] < db.nextOid
  BY EnsuredFresh DEF P1RejectUnique, P1RejectPriors, EnsureForCheck, FreshInv
<1>3. FreshInv'
  BY <1>1, <1>2 DEF FreshInv, InFlight, objVars, bufVars, idVars, p2Vars
<1>4. GraphInv'
  BY <1>1 DEF GraphInv, LiveInv, Unregistered, BufferInv, Gone, WriteInv, Removed, InFlight,
              objVars, bufVars, idVars, p2Vars
<1> QED  BY <1>3, <1>4

(* P3 bars the live object of every record it deletes. *)
LEMMA GraphFinalize ==
    ASSUME BaseInv, SlotInv, FreshInv, GraphInv, P3Finalize
    PROVE  FreshInv' /\ GraphInv'
<1> USE SlotFacts DEF BaseInv, SlotInv, GraphInv
<1> DEFINE dels == capture.batch.dels
<1>1. /\ capture.status = "durable" /\ InFlight /\ ~InFlight'
      /\ capture' = NoCapture
      /\ UNCHANGED <<oidOf, new, dirty, deleted, nextOid, db>>
      /\ db.nextOid = capture.batch.nextOid
  BY DEF P3Finalize, InFlight, NoCapture, FreshInv
<1>2. /\ \A o \in Oids : o \in dels <=> capture.deletes[o] # None
      /\ \A o \in dels : o \in Oids /\ o < db.nextOid /\ db.objs[o] = None
  BY <1>1 DEF UniqueInv, BatchInv, FreshInv
<1>3. \A o \in Oids : registry'[o] = IF o \in dels THEN None ELSE registry[o]
  BY <1>2 DEF P3Finalize
<1>4. \A i \in Insts : st'[i] = IF i \in Barred(capture) THEN "DELETED" ELSE st[i]
  BY DEF P3Finalize
<1>5. ASSUME NEW i \in Insts, i \in Barred(capture)
      PROVE  oidOf[i] \in dels
  <2>1. PICK o \in Oids : /\ capture.deletes[o] # None
                          /\ i = IF capture.deletes[o] = NoLive THEN registry[o]
                                 ELSE capture.deletes[o]
    BY <1>5 DEF Barred
  <2> QED  BY <1>2, <2>1 DEF Holds
<1>6. ASSUME NEW i \in Insts, oidOf[i] \in dels, registry[oidOf[i]] = i
      PROVE  i \in Barred(capture)
  <2> DEFINE o == oidOf[i]
  <2>1. o \in Oids /\ capture.deletes[o] # None
    BY <1>2, <1>6
  <2>2. capture.deletes[o] \in Insts => capture.deletes[o] = i
    BY <1>6, <2>1, EngineConstants DEF BufferInv, Gone
  <2>3. capture.deletes[o] \in {NoLive, i}
    BY <2>1, <2>2 DEF TypeInv, TypeOK, DeleteMap
  <2> QED  BY <1>6, <2>1, <2>3 DEF Barred
<1>7. FreshInv'
  <2>1. \A k \in Keys : unique'[k] # None => unique'[k] < db.nextOid
    <3>1. \A o \in Oids : capture.batch.recs[o] # None => o < db.nextOid
      BY <1>1 DEF FlippedInv, FreshInv
    <3>2. ASSUME NEW k \in Keys, built
          PROVE  \/ unique'[k] \in {None, unique[k]}
                 \/ unique'[k] \in Oids /\ capture.batch.recs[unique'[k]] = k
      BY <3>2 DEF P3Finalize, FoldIndex
    <3>3. ~built => unique' = unique
      BY DEF P3Finalize
    <3> QED  BY <3>1, <3>2, <3>3, EngineConstants DEF FreshInv
  <2> QED  BY <1>1, <2>1 DEF FreshInv, NoCapture
<1>8. LiveInv'
  <2> SUFFICES ASSUME NEW i \in Insts, st'[i] \in {"CLEAN", "DIRTY", "NEW"}
               PROVE  registry'[oidOf[i]] = i \/ (st'[i] = "NEW" /\ Unregistered(i)')
    BY <1>1 DEF LiveInv
  <2>1. st'[i] = st[i] /\ i \notin Barred(capture) /\ oidOf[i] \in Oids
    BY <1>4
  <2>2. CASE registry[oidOf[i]] = i
    BY <1>3, <1>6, <2>1, <2>2
  <2>3. CASE st[i] = "NEW" /\ Unregistered(i)
    BY <1>1, <1>3, <2>1, <2>3 DEF Unregistered
  <2> QED  BY <2>1, <2>2, <2>3 DEF LiveInv
<1>9. BufferInv'
  <2> SUFFICES ASSUME NEW o \in Oids, NEW i \in Insts
               PROVE  /\ new[o] = i => st'[i] = "NEW"
                      /\ dirty[o] = i => st'[i] = "DIRTY" \/ (st'[i] = "DELETED" /\ Gone(o)')
                      /\ deleted[o] = i => registry'[o] = i \/ Gone(o)'
    BY <1>1, EngineConstants DEF BufferInv, NoCapture, NoInsts
  <2>1. o \in dels => Gone(o)'
    BY <1>1, <1>2, <1>3 DEF Gone
  <2>2. Gone(o) => Gone(o)'
    BY <1>1, <1>3 DEF Gone
  <2>3. ASSUME new[o] = i PROVE st'[i] = "NEW"
    <3>1. oidOf[i] = o /\ st[i] = "NEW" /\ capture.batch.nextOid <= o
      BY <1>1, <2>3 DEF BufferInv, Holds
    <3>2. o \notin dels
      BY <1>1, <1>2, <3>1 DEF TypeInv, TypeOK, Oids
    <3> QED  BY <1>4, <1>5, <3>1, <3>2
  <2>4. ASSUME dirty[o] = i
        PROVE  st'[i] = "DIRTY" \/ (st'[i] = "DELETED" /\ Gone(o)')
    <3>1. oidOf[i] = o /\ st[i] = "DIRTY"
      BY <1>1, <2>4 DEF BufferInv, Holds
    <3> QED  BY <1>4, <1>5, <2>1, <3>1
  <2>5. ASSUME deleted[o] = i PROVE registry'[o] = i \/ Gone(o)'
    BY <1>3, <2>1, <2>2, <2>5 DEF BufferInv
  <2> QED  BY <2>3, <2>4, <2>5
<1>10. WriteInv'
  <2> SUFFICES ASSUME NEW i \in Insts, st'[i] \in {"NEW", "DIRTY"}
               PROVE  (IF st'[i] = "NEW" THEN new ELSE dirty)[oidOf[i]] = i
                      \/ deleted[oidOf[i]] # None
    BY <1>1 DEF WriteInv, Removed
  <2>1. st'[i] = st[i] /\ i \notin Barred(capture) /\ oidOf[i] \in Oids
    BY <1>4
  <2>2. oidOf[i] \in dels => registry[oidOf[i]] # i
    BY <1>6, <2>1
  <2>3. oidOf[i] \in dels => FALSE
    <3>1. oidOf[i] \in dels => oidOf[i] < db.nextOid /\ oidOf[i] \in Oids
      BY <1>2
    <3> QED  BY <2>1, <2>2, <3>1 DEF LiveInv, Unregistered, TypeInv, TypeOK, Oids
  <2> QED  BY <2>1, <2>3 DEF WriteInv, Removed
<1> QED  BY <1>7, <1>8, <1>9, <1>10

LEMMA GraphRollback ==
    ASSUME BaseInv, SlotInv, FreshInv, GraphInv, P2Rollback
    PROVE  FreshInv' /\ GraphInv'
<1> USE SlotFacts DEF BaseInv, SlotInv, GraphInv
<1>1. /\ InFlight /\ ~InFlight' /\ capture' = NoCapture
      /\ UNCHANGED <<oidOf, registry, nextOid, unique, db>>
  BY DEF P2Rollback, Rollback, InFlight, NoCapture, idxVars
<1>2. \A o \in Oids :
        /\ new'[o] = IF capture.flipped[o] # None /\ capture.prior[o] = "NEW"
                     THEN capture.flipped[o] ELSE new[o]
        /\ dirty'[o] = IF capture.flipped[o] = None THEN dirty[o]
                       ELSE IF capture.prior[o] = "NEW" THEN None ELSE capture.flipped[o]
        /\ deleted'[o] = IF capture.deletes[o] # None THEN capture.deletes[o] ELSE deleted[o]
  BY DEF P2Rollback, Rollback, RollbackNew, RollbackDirty
<1>3. \A o \in Oids : capture.flipped[o] # None =>
         /\ capture.flipped[o] \in Insts /\ oidOf[capture.flipped[o]] = o
         /\ registry[o] = capture.flipped[o]
         /\ st'[capture.flipped[o]] = IF capture.prior[o] = "NEW" THEN "NEW" ELSE "DIRTY"
  BY <1>1 DEF P2Rollback, Rollback, RollbackState, FlippedInv, Holds
<1>4. \A i \in Insts : \/ oidOf[i] \in Oids /\ capture.flipped[oidOf[i]] = i
                       \/ st'[i] = st[i] /\ \A o \in Oids : capture.flipped[o] # i
  <2> SUFFICES ASSUME NEW i \in Insts, NEW o \in Oids, capture.flipped[o] = i
               PROVE  oidOf[i] \in Oids /\ capture.flipped[oidOf[i]] = i
    BY DEF P2Rollback, Rollback, RollbackState, TypeInv, TypeOK
  <2> QED  BY DEF Holds
<1>5. FreshInv'
  <2>1. \A o \in Oids : deleted'[o] # None => o < nextOid
    <3>1. capture.batch.nextOid <= nextOid /\ capture.batch.nextOid \in Nat /\ nextOid \in Nat
      BY <1>1 DEF FreshInv, TypeInv, TypeOK, Batches
    <3> QED  BY <1>1, <1>2, <3>1 DEF FreshInv
  <2> QED  BY <1>1, <2>1 DEF FreshInv, NoCapture
<1>6. ASSUME NEW i \in Insts, st[i] \in {"CLEAN", "DIRTY", "NEW"}, oidOf[i] \in Oids,
             capture.flipped[oidOf[i]] # None, capture.flipped[oidOf[i]] # i
      PROVE  FALSE
  <2> DEFINE o == oidOf[i]
  <2>1. registry[o] = capture.flipped[o] /\ o < capture.batch.nextOid
    BY <1>1, <1>3, <1>6 DEF FreshInv
  <2> QED  BY <1>6, <2>1 DEF LiveInv, Unregistered
<1>7. LiveInv'
  <2> SUFFICES ASSUME NEW i \in Insts, st'[i] \in {"CLEAN", "DIRTY", "NEW"}, st'[i] = st[i]
               PROVE  registry[oidOf[i]] = i \/ (st'[i] = "NEW" /\ Unregistered(i)')
    <3>1. \A i \in Insts : oidOf[i] \in Oids /\ capture.flipped[oidOf[i]] = i
                            => registry[oidOf[i]] = i
      BY <1>3, EngineConstants
    <3> QED  BY <1>1, <1>4, <3>1 DEF LiveInv
  <2>1. oidOf[i] \in Oids
    OBVIOUS
  <2>2. CASE st[i] = "NEW" /\ Unregistered(i)
    <3>1. capture.flipped[oidOf[i]] = None /\ capture.deletes[oidOf[i]] = None
      BY <1>1, <2>1, <2>2 DEF Unregistered, FreshInv, TypeInv, TypeOK, Batches, Oids
    <3> QED  BY <1>1, <1>2, <2>1, <2>2, <3>1 DEF Unregistered
  <2> QED  BY <2>1, <2>2 DEF LiveInv
<1>8. BufferInv'
  <2> SUFFICES ASSUME NEW o \in Oids, NEW i \in Insts
               PROVE  /\ new'[o] = i => st'[i] = "NEW"
                      /\ dirty'[o] = i => st'[i] = "DIRTY"
                      /\ deleted'[o] = i => registry[o] = i \/ Gone(o)'
    BY <1>1, EngineConstants DEF BufferInv, NoCapture, NoInsts
  <2>1. ASSUME new'[o] = i PROVE st'[i] = "NEW"
    <3>1. CASE capture.flipped[o] = i
      <4>1. new[o] # i
        BY <1>1, <3>1, EngineConstants DEF BufferInv, FreshInv, TypeInv, TypeOK, Batches, Oids
      <4> QED  BY <1>2, <1>3, <2>1, <3>1, <4>1, EngineConstants
    <3>2. CASE capture.flipped[o] # i
      <4>1. new[o] = i /\ oidOf[i] = o /\ st[i] = "NEW"
        BY <1>2, <2>1, <3>2 DEF BufferInv, Holds
      <4> QED  BY <1>4, <3>2, <4>1
    <3> QED  BY <3>1, <3>2
  <2>2. ASSUME dirty'[o] = i PROVE st'[i] = "DIRTY"
    <3>1. CASE capture.flipped[o] = i
      BY <1>2, <1>3, <2>2, <3>1, EngineConstants
    <3>2. CASE capture.flipped[o] # i
      <4>1. dirty[o] = i /\ oidOf[i] = o /\ st[i] = "DIRTY"
        BY <1>1, <1>2, <2>2, <3>2, EngineConstants DEF BufferInv, Holds
      <4> QED  BY <1>4, <3>2, <4>1
    <3> QED  BY <3>1, <3>2
  <2>3. ASSUME deleted'[o] = i PROVE registry[o] = i \/ Gone(o)'
    BY <1>1, <1>2, <2>3 DEF BufferInv, Gone
  <2> QED  BY <2>1, <2>2, <2>3
<1>9. WriteInv'
  <2> SUFFICES ASSUME NEW i \in Insts, st'[i] \in {"NEW", "DIRTY"}
               PROVE  (IF st'[i] = "NEW" THEN new' ELSE dirty')[oidOf[i]] = i
                      \/ deleted'[oidOf[i]] # None
    BY <1>1 DEF WriteInv, Removed
  <2>1. CASE oidOf[i] \in Oids /\ capture.flipped[oidOf[i]] = i
    BY <1>2, <1>3, <2>1, EngineConstants
  <2>2. CASE st'[i] = st[i] /\ \A o \in Oids : capture.flipped[o] # i
    <3>1. oidOf[i] \in Oids /\ capture.flipped[oidOf[i]] = None
      BY <1>6, <2>2
    <3>2. oidOf[i] \in capture.batch.dels => capture.deletes[oidOf[i]] # None
      BY <1>1, <3>1 DEF UniqueInv, BatchInv, InFlight
    <3> QED  BY <1>2, <2>2, <3>1, <3>2 DEF WriteInv, Removed
  <2> QED  BY <1>4, <2>1, <2>2
<1> QED  BY <1>5, <1>7, <1>8, <1>9

LEMMA GraphWorker ==
    ASSUME BaseInv, SlotInv, FreshInv, GraphInv, WorkerStep
    PROVE  FreshInv' /\ GraphInv'
<1> USE SlotFacts, WorkerEffects DEF BaseInv, SlotInv, GraphInv, objVars, bufVars, idVars, idxVars
<1>1. InFlight /\ InFlight'
  BY DEF InFlight
<1>2. CASE capture'.status # "durable"
  BY <1>1, <1>2 DEF FreshInv, LiveInv, Unregistered, BufferInv, WriteInv, Removed, Gone
<1>3. CASE capture'.status = "durable"
  <2>0. /\ db.nextOid \in Nat /\ nextOid \in Nat /\ capture.batch.nextOid \in Nat
        /\ db.nextOid <= db'.nextOid /\ db'.nextOid <= nextOid
        /\ db'.nextOid = capture.batch.nextOid
    BY <1>1, <1>3 DEF FreshInv, TypeInv, TypeOK, Batches
  <2>1. \A o \in Oids : /\ db'.objs[o] # None => db.objs[o] # None \/ capture.flipped[o] # None
                        /\ registry[o] = None => capture.flipped[o] = None
    BY <1>1, <1>3 DEF Applied, WithRecords, FlippedInv
  <2>2. FreshInv'
    <3>1. \A k \in Keys : unique[k] # None => unique[k] \in Nat
      BY DEF TypeInv, TypeOK
    <3>2. \A i \in Insts : oidOf[i] # None => oidOf[i] < nextOid
      BY DEF FreshInv
    <3>3. \A o \in Oids : db'.objs[o] # None => o < db'.nextOid
      BY <1>1, <2>0, <2>1 DEF FreshInv
    <3>4. \A k \in Keys : unique[k] # None => unique[k] < db'.nextOid
      BY <2>0, <3>1 DEF FreshInv
    <3> QED  BY <1>1, <2>0, <3>2, <3>3, <3>4 DEF FreshInv
  <2>3. LiveInv'
    BY <1>1, <2>0 DEF LiveInv, Unregistered
  <2>4. \A o \in Oids : Gone(o) => Gone(o)'
    BY <2>0, <2>1 DEF Gone
  <2>5. BufferInv'
    BY <1>1, <2>4 DEF BufferInv
  <2>6. WriteInv'
    BY DEF WriteInv, Removed
  <2> QED  BY <2>2, <2>3, <2>5, <2>6
<1> QED  BY <1>2, <1>3

LEMMA GraphRest ==
    ASSUME Retaining, BaseInv, SlotInv, FreshInv, GraphInv,
           ConsumerStep \/ Discard \/ Crash \/ UNCHANGED vars
    PROVE  FreshInv' /\ GraphInv'
<1>1. CASE ConsumerStep \/ UNCHANGED vars
  <2>1. UNCHANGED <<objVars, bufVars, registry, idVars, idxVars, p2Vars>>
    BY <1>1 DEF ConsumerStep, Rebuild, Attach, Detach, vars
  <2> QED  BY <2>1 DEF GraphInv, FreshInv, LiveInv, Unregistered, BufferInv, Gone, WriteInv,
                       Removed, InFlight, objVars, bufVars, idVars, idxVars, p2Vars
<1>2. CASE Crash
  <2>1. FreshInv'
    <3>1. \A o \in Oids : db.objs[o] # None => o < db.nextOid
      BY DEF FreshInv
    <3> QED  BY <1>2, <3>1 DEF Crash, LoadState, FreshInv, InFlight, NoCapture, NoInsts,
                        EmptyIndex, BaseInv, TypeInv, TypeOK
  <2>2. GraphInv'
    BY <1>2, EngineConstants DEF Crash, LoadState, GraphInv, LiveInv, BufferInv, WriteInv,
       NoInsts, NoCapture
  <2> QED  BY <2>1, <2>2
<1> QED  BY <1>1, <1>2 DEF Discard, Retaining

LEMMA GraphInvariant ==
    ASSUME Retaining
    PROVE  Spec => [](BaseInv /\ SlotInv /\ FreshInv /\ GraphInv)
<1>0. NoCancel
  BY DEF Retaining
<1>1. BaseInv /\ SlotInv /\ FreshInv /\ GraphInv /\ [Next]_vars => FreshInv' /\ GraphInv'
  BY <1>0, FreshWorkUnit, GraphWorkUnit, GraphReject, GraphCapture, GraphFinalize, GraphRollback,
     GraphWorker, GraphRest DEF Next, CommitStep, Cancel, NoCancel
<1> QED  BY <1>0, <1>1, SlotInvariant, GraphInit, PTL DEF Spec

(* No write is lost: a NEW or DIRTY object is buffered, or a delete of its  *)
(* OID wins, through commits that fail while the program goes on writing.   *)
THEOREM EngineWritesBuffered ==
    ASSUME Retaining
    PROVE  Spec => []WritesBuffered
<1>1. GraphInv => WritesBuffered
  BY DEF GraphInv, WriteInv, Removed, WritesBuffered
<1> QED  BY <1>1, GraphInvariant, PTL

(* Identity: the buffered object of an OID is the one the registry gives.   *)
THEOREM EngineOneLiveInstance ==
    ASSUME Retaining
    PROVE  Spec => []OneLiveInstance
<1>1. BaseInv /\ SlotInv /\ GraphInv => OneLiveInstance
  <2> SUFFICES ASSUME BaseInv, SlotInv, GraphInv,
                      NEW o \in Oids, dirty[o] # None, registry[o] # None
               PROVE  dirty[o] = registry[o]
    BY DEF OneLiveInstance
  <2>1. dirty[o] \in Insts /\ oidOf[dirty[o]] = o
    BY SlotFacts DEF BaseInv, SlotInv, Holds
  <2> QED  BY <2>1 DEF GraphInv, BufferInv, LiveInv, Gone
<1> QED  BY <1>1, GraphInvariant, PTL

-----------------------------------------------------------------------------
(* The blocking facade: commit() returns only after P3 or the rollback, so  *)
(* the owner buffers nothing while a commit is in flight.                   *)

Blocking == "async" \notin Env

LEMMA BlockingFacts ==
    ASSUME Blocking
    PROVE  /\ NoCancel
           /\ OwnerFree <=> ~InFlight
BY EngineConstants DEF Blocking, NoCancel, OwnerFree, InFlight

SyncInv ==
    /\ InFlight => new = NoInsts /\ dirty = NoInsts /\ deleted = NoInsts
    /\ \A o \in Oids, i \in Insts :
          /\ new[o] = i => st[i] = "NEW"
          /\ dirty[o] = i => st[i] = "DIRTY"

LEMMA SyncInit == Init => SyncInv
BY EngineConstants DEF Init, SyncInv, InFlight, NoInsts, NoCapture

LEMMA SyncWorkUnit ==
    ASSUME Blocking, BaseInv, SlotInv, SyncInv, WorkUnitStep
    PROVE  SyncInv'
<1> USE SlotFacts DEF BaseInv, SlotInv
<1>0. UNCHANGED capture /\ (InFlight => \E i \in Insts : Forget(i))
  BY WorkUnitEffects, BlockingFacts
<1>1. ASSUME NEW i \in Insts, Forget(i) PROVE SyncInv'
  <2>1. UNCHANGED <<new, dirty, deleted>>
    BY <1>1 DEF Forget, bufVars
  <2>2. \A o \in Oids : i # new[o] /\ i # dirty[o]
    BY <1>1 DEF Forget, Held
  <2>3. \A j \in Insts \ {i} : st'[j] = st[j]
    BY <1>1 DEF Forget, TypeInv, TypeOK
  <2> QED  BY <1>0, <2>1, <2>2, <2>3 DEF SyncInv, InFlight
<1>2. ASSUME NEW i \in Insts, NEW v \in Vals, ~InFlight, AdoptStep(i, v) PROVE SyncInv'
  <2>1. /\ st'[i] = "NEW" /\ \A j \in Insts \ {i} : st'[j] = st[j]
        /\ \A o \in Oids : new'[o] = i \/ new'[o] = new[o]
        /\ dirty' = dirty /\ \A o \in Oids : dirty[o] # i
    BY <1>2 DEF AdoptStep, Adopt, TypeInv, TypeOK, InstMap, Holds
  <2> QED  BY <1>0, <1>2, <2>1 DEF SyncInv, InFlight
<1>3. ASSUME NEW i \in Insts, NEW v \in Vals, ~InFlight, TouchStep(i, v) PROVE SyncInv'
  <2>1. /\ new' = new
        /\ \A j \in Insts : st'[j] = st[j] \/ (j = i /\ st[j] = "CLEAN" /\ st'[j] = "DIRTY")
        /\ \A o \in Oids : dirty'[o] = dirty[o] \/ (dirty'[o] = i /\ st'[i] = "DIRTY")
    BY <1>3 DEF TouchStep, TouchAndSet, TypeInv, TypeOK, InstMap
  <2> QED  BY <1>0, <1>3, <2>1 DEF SyncInv, InFlight
<1>4. ASSUME NEW i \in Insts, NEW o \in Oids, NEW v \in Vals, ~InFlight, HydrateStep(i, o, v)
      PROVE  SyncInv'
  <2>1. /\ new' = new /\ \A p \in Oids : new[p] # i /\ dirty[p] # i
        /\ \A j \in Insts \ {i} : st'[j] = st[j]
        /\ \A p \in Oids : dirty'[p] = dirty[p] \/ (dirty'[p] = i /\ st'[i] = "DIRTY")
    BY <1>4 DEF HydrateStep, Hydrate, TypeInv, TypeOK, InstMap, Holds
  <2> QED  BY <1>0, <1>4, <2>1 DEF SyncInv, InFlight
<1>5. ASSUME NEW obj \in Insts \cup {None}, NEW o \in Oids, ~InFlight, DeleteStep(obj, o)
      PROVE  SyncInv'
  <2>1. obj # None => obj \in Insts /\ oidOf[obj] = o
    BY <1>5 DEF DeleteStep, Holds
  <2>2. /\ \A j \in Insts : j # obj => st'[j] = st[j]
        /\ \A p \in Oids : new'[p] \in {None, new[p]} /\ dirty'[p] \in {None, dirty[p]}
        /\ dirty'[o] = None
        /\ obj \in Insts /\ st[obj] = "NEW" => new'[o] = None
        /\ ~(obj \in Insts /\ st[obj] = "NEW") => new' = new
    BY <1>5, <2>1, EngineConstants DEF DeleteStep, DeleteOid, TypeInv, TypeOK, InstMap
  <2>3. ASSUME NEW p \in Oids, NEW j \in Insts, j = new'[p] \/ j = dirty'[p]
        PROVE  st'[j] = st[j] /\ (j = new'[p] => j = new[p]) /\ (j = dirty'[p] => j = dirty[p])
    <3>1. (j = new'[p] => j = new[p]) /\ (j = dirty'[p] => j = dirty[p])
      BY <2>2, <2>3, EngineConstants
    <3>2. oidOf[j] = p
      BY <2>3, <3>1 DEF Holds
    <3>3. j # obj
      <4>1. j = obj => p = o /\ j # dirty'[p] /\ j = new[p] /\ st[j] # "NEW"
        BY <2>1, <2>2, <2>3, <3>1, <3>2, EngineConstants
      <4> QED  BY <4>1 DEF SyncInv
    <3> QED  BY <2>2, <3>1, <3>3
  <2> QED  BY <1>0, <1>5, <2>3 DEF SyncInv, InFlight
<1>6. ASSUME QuietStep PROVE SyncInv'
  BY <1>0, <1>6 DEF QuietStep, objVars, SyncInv, InFlight
<1> QED  BY WorkUnitEffects, <1>0, <1>1, <1>2, <1>3, <1>4, <1>5, <1>6

LEMMA SyncRest ==
    ASSUME Blocking, BaseInv, SlotInv, SyncInv,
           CommitStep \/ WorkerStep \/ ConsumerStep \/ Discard \/ Crash \/ UNCHANGED vars
    PROVE  SyncInv'
<1> USE SlotFacts DEF BaseInv, SlotInv
<1>1. CASE P1RejectUnique \/ P1RejectPriors \/ ConsumerStep \/ UNCHANGED vars
  BY <1>1 DEF P1RejectUnique, P1RejectPriors, ConsumerStep, Rebuild, Attach, Detach, vars,
              objVars, bufVars, p2Vars, SyncInv, InFlight
<1>2. CASE P1Capture \/ Discard \/ Crash
  BY <1>2, EngineConstants DEF P1Capture, Discard, Crash, LoadState, SyncInv, NoInsts
<1>3. CASE P3Finalize
  BY <1>3 DEF P3Finalize, SyncInv, InFlight, NoCapture, NoInsts
<1>4. CASE P2Rollback
  <2>1. InFlight /\ ~InFlight'
    BY <1>4 DEF P2Rollback, Rollback, InFlight, NoCapture
  <2> SUFFICES ASSUME NEW o \in Oids, NEW i \in Insts
               PROVE  /\ new'[o] = i => st'[i] = "NEW"
                      /\ dirty'[o] = i => st'[i] = "DIRTY"
    BY <2>1 DEF SyncInv
  <2>2. capture.flipped[o] = i => oidOf[i] = o /\ oidOf[i] # None
    BY DEF Holds
  <2> QED
    BY <1>4, <2>1, <2>2
       DEF P2Rollback, Rollback, RollbackNew, RollbackDirty, RollbackState, SyncInv, NoInsts
<1>5. CASE WorkerStep
  BY <1>5, WorkerEffects DEF objVars, bufVars, SyncInv, InFlight
<1> QED
  BY <1>1, <1>2, <1>3, <1>4, <1>5, BlockingFacts DEF CommitStep, Cancel, NoCancel

LEMMA SyncInvariant ==
    ASSUME Blocking
    PROVE  Spec => [](BaseInv /\ SlotInv /\ SyncInv)
<1>1. BaseInv /\ SlotInv /\ SyncInv /\ [Next]_vars => SyncInv'
  BY SyncWorkUnit, SyncRest DEF Next
<1> QED  BY <1>1, BlockingFacts, SlotInvariant, SyncInit, PTL DEF Spec

(* A delete wins over every buffered write of its OID: no DELETED object is *)
(* left in a buffer, whichever of two twins was deleted, and a discard or a *)
(* failed commit in between changes nothing of it.                          *)
THEOREM EngineDeleteWins ==
    ASSUME Blocking
    PROVE  Spec => []DeleteWins
<1>1. SyncInv => DeleteWins
  BY DEF SyncInv, DeleteWins, Storable
<1> QED  BY <1>1, SyncInvariant, PTL

-----------------------------------------------------------------------------
(* The delta stream.  A consumer's state belongs to its watermark, attached *)
(* or not: that is why attach() may compare watermarks only.                *)

DeltaInv ==
    /\ db.nextTid = 1 => db.objs = NoVals
    /\ consumer.wm < db.nextTid
    /\ consumer.wm = db.nextTid - 1 => consumer.objs = db.objs
    /\ consumer.att => consumer.wm = lastTid
    /\ InFlight => capture.delta = consumer.att
    /\ consumer.att /\ capture.status = "durable" =>
          db.objs = Applied(consumer.objs, capture.batch)

LEMMA DeltaInit == Init => DeltaInv
BY DEF Init, DeltaInv, InFlight, NoCapture

LEMMA DeltaStep ==
    ASSUME Blocking, BaseInv, DeltaInv, [Next]_vars
    PROVE  DeltaInv'
<1> USE DEF BaseInv
<1>0. /\ db.nextTid \in Nat /\ lastTid \in Nat /\ consumer.wm \in Nat /\ capture.batch.tid \in Nat
      /\ consumer \in [att : BOOLEAN, wm : 0..MaxTid, objs : Objects]
  BY DEF TypeInv, TypeOK, Batches
<1>1. CASE UNCHANGED <<capture, db, lastTid, consumer>>
  BY <1>1 DEF DeltaInv, InFlight
<1>2. CASE WorkUnitStep \/ P1RejectUnique \/ P1RejectPriors \/ Discard \/ UNCHANGED vars
  <2>1. WorkUnitStep => UNCHANGED <<capture, db, lastTid, consumer>>
    BY DEF WorkUnitStep, Store, Adopt, Write, Load, Forget, DeleteInstance, DeleteByKey,
         UpsertMerge, UpsertInsert, UpsertHydrate, UpsertTracked, Lookup, idVars, p2Vars
  <2>2. Discard => UNCHANGED <<capture, db, lastTid, consumer>>
    BY <1>0 DEF Discard, LoadState, TidInv, p2Vars
  <2> QED
    BY <1>1, <1>2, <2>1, <2>2 DEF P1RejectUnique, P1RejectPriors, idVars, p2Vars, vars
<1>3. CASE P1Capture
  BY <1>3, CaptureEffects DEF P1Capture, DeltaInv
<1>4. CASE P3Finalize
  <2>1. /\ capture.status = "durable" /\ InFlight /\ ~InFlight' /\ db' = db
        /\ lastTid' = capture.batch.tid /\ consumer' = Delivered(consumer, capture)
        /\ capture.batch.tid = db.nextTid - 1 /\ capture.batch.tid = lastTid + 1
    BY <1>0, <1>4 DEF P3Finalize, InFlight, NoCapture, TidInv
  <2>2. CASE consumer.att /\ Folds(consumer, capture)
    <3>1. consumer' = [consumer EXCEPT !.wm = capture.batch.tid,
                                       !.objs = Applied(consumer.objs, capture.batch)]
      BY <1>0, <2>1, <2>2 DEF Delivered, DeltaInv
    <3>2. consumer'.wm = capture.batch.tid /\ consumer'.objs = db.objs
      BY <1>0, <2>1, <2>2, <3>1 DEF DeltaInv
    <3> QED  BY <1>0, <2>1, <3>2 DEF DeltaInv, InFlight
  <2>3. CASE ~(consumer.att /\ Folds(consumer, capture))
    <3>1. ~consumer'.att /\ consumer'.wm = consumer.wm /\ consumer'.objs = consumer.objs
      BY <1>0, <2>1, <2>3 DEF Delivered, DeltaInv
    <3> QED  BY <1>0, <2>1, <3>1 DEF DeltaInv, InFlight
  <2> QED  BY <2>2, <2>3
<1>5. CASE P2Rollback
  BY <1>5 DEF P2Rollback, Rollback, NoCapture, DeltaInv, InFlight
<1>6. CASE WorkerStep
  <2>1. CASE capture'.status # "durable"
    BY <1>6, <2>1, WorkerEffects DEF DeltaInv, InFlight, idVars
  <2>2. CASE capture'.status = "durable"
    <3>1. /\ db'.objs = Applied(db.objs, capture.batch) /\ db'.nextTid = db.nextTid + 1
          /\ UNCHANGED <<lastTid, consumer, capture.batch, capture.delta>> /\ InFlight
      <4>1. db'.objs # db.objs \/ db'.nextTid # db.nextTid
            => db.nextTid = lastTid + 1 /\ db'.nextTid = db.nextTid + 1
        BY <1>6, UniqueWorker
      <4>2. capture.status # "durable" /\ InFlight
        BY <1>6, WorkerEffects DEF InFlight
      <4>3. db'.nextTid # db.nextTid
        BY <1>0, <1>6, <2>2, <4>2, WorkerEffects, TidWorker DEF TidInv, InFlight
      <4> QED  BY <1>6, <2>2, <4>1, <4>2, <4>3, WorkerEffects DEF idVars
    <3>2. consumer.att => consumer.objs = db.objs
      BY <1>0, <1>6, WorkerEffects DEF DeltaInv, TidInv
    <3> QED  BY <1>0, <2>2, <3>1, <3>2 DEF DeltaInv, Applied, WithRecords
  <2> QED  BY <2>1, <2>2
<1>7. CASE Rebuild
  <2>1. /\ UNCHANGED <<capture, db, lastTid>>
        /\ consumer.att = FALSE /\ consumer'.att = FALSE
        /\ consumer'.wm = db.nextTid - 1 /\ consumer'.objs = db.objs
    BY <1>0, <1>7 DEF Rebuild, p2Vars, idVars
  <2>2. InFlight => capture.delta = consumer'.att
    BY <2>1 DEF DeltaInv
  <2> QED  BY <1>0, <2>1, <2>2 DEF DeltaInv, InFlight
<1>8. CASE Attach \/ Detach
  BY <1>0, <1>8, BlockingFacts DEF Attach, Detach, DeltaInv, InFlight, p2Vars, idVars
<1>9. CASE Crash
  BY <1>0, <1>9 DEF Crash, LoadState, NoCapture, DeltaInv, InFlight
<1> QED
  BY <1>2, <1>3, <1>4, <1>5, <1>6, <1>7, <1>8, <1>9, BlockingFacts
     DEF Next, CommitStep, Cancel, NoCancel, ConsumerStep

(* An attached consumer has exactly the committed records at its watermark, *)
(* and its watermark is the store's: through failed commits, detaching and  *)
(* attaching again, rebuilding, discards and crashes.                       *)
THEOREM EngineConsumerInSync ==
    ASSUME Blocking
    PROVE  Spec => []ConsumerInSync
<1>1. BaseInv /\ DeltaInv => ConsumerInSync
  BY DEF BaseInv, TypeInv, TypeOK, TidInv, DeltaInv, ConsumerInSync
<1>2. BaseInv /\ DeltaInv /\ [Next]_vars => DeltaInv'
  BY DeltaStep
<1> QED  BY <1>1, <1>2, BlockingFacts, SlotInvariant, DeltaInit, PTL DEF Spec

=============================================================================
