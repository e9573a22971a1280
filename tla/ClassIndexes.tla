---------------------------- MODULE ClassIndexes ----------------------------
(***************************************************************************)
(* The in-memory indexes of one class and the reverse-reference index:      *)
(* built lazily from the records, folded forward by every commit, dumped to *)
(* the sidecar index.cache by close(), served from it by the next open when *)
(* the watermark and the class's index markers still agree, and dropped     *)
(* when a commit lands before the cached form was used.                     *)
(*                                                                          *)
(* A record is a function from the class's fields to values plus the set of *)
(* OIDs it references.  An old record was written before field Added        *)
(* existed and reads with that field's default.  Postings are functions     *)
(* from the keys that ever had an entry to sets of OIDs.                    *)
(***************************************************************************)
EXTENDS ReadFence, Sequences, FiniteSets, SequencesExt

CONSTANTS
    MaxOid,       \* bound: the OIDs 1..MaxOid
    Rows,         \* the field values a commit may write
    EqFields,     \* fields marked Index or SortedIndex
    SortedFields, \* ... those marked SortedIndex
    ListFields,   \* ... those whose value is a list: the elements are the keys
    UniqueFields, \* fields marked Unique and nothing else
    Added,        \* the SortedIndex field an old record lacks
    Defaults,     \* the defaults a version of the class may give to it
    NULL,         \* None
    NoRec,        \* no record
    NoIndex,      \* not built, not cached
    NoCommit,     \* no commit under way
    MaxTid,       \* bound: number of commits
    MaxBatch,     \* bound: writes and deletes of one commit
    Env           \* what the environment does, a subset of Features

(* "remark": a new version of the class adds or drops the SortedIndex marker  *)
(* of Added.  "redefault": a new version gives Added another default.         *)
(* "plain": the class may have no index marker at all.  "async": other tasks   *)
(* read during P2.  "late": one of them may be the first to ask incoming().    *)
Features == {"remark", "redefault", "plain", "async", "late"}

ASSUME IndexConstants ==
    /\ MaxOid \in Nat
    /\ SortedFields \subseteq EqFields
    /\ ListFields \subseteq EqFields \ SortedFields
    /\ UniqueFields \cap EqFields = {}
    /\ Added \in SortedFields
    /\ MaxTid \in Nat /\ MaxBatch \in Nat
    /\ Env \subseteq Features

(* Every row has a value in every indexed field; a record is not NoRec. *)
ASSUME IndexRows ==
    /\ \A row \in Rows : EqFields \cup UniqueFields \subseteq DOMAIN row
    /\ NoRec \notin [old : BOOLEAN, row : Rows]

VARIABLES
    recs,    \* the records on the backend
    nextOid, \* the allocator, as the backend knows it
    tid,     \* the backend's watermark
    code,    \* the class as the running program declares it
    up,      \* the store is open
    inflight,\* the capture of the commit under way
    ci,      \* IndexManager._by_cls[cls]
    blob,    \* IndexManager._cache_blobs[typename]
    rev,     \* IndexManager._reverse, _reverse_refs, _reverse_refs_dirty
    revBlob, \* IndexManager._reverse_blob
    sidecar  \* the file index.cache

indexVars == <<ci, blob, rev, revBlob>>
vars == <<recs, nextOid, tid, code, up, inflight, indexVars, sidecar>>

-----------------------------------------------------------------------------
(* The class as declared, and its records as it decodes them. *)

Oids == 1..MaxOid

eqFields == IF ~code.marked THEN {} ELSE IF code.ranked THEN EqFields ELSE EqFields \ {Added}
sortedFields == SortedFields \cap eqFields
uniqueFields == IF code.marked /\ code.keyed THEN UniqueFields ELSE {}
_maintained_fields == eqFields \cup uniqueFields

Live == {o \in Oids : recs[o] # NoRec}

(* Additive schema evolution: the default fills the field an old shape lacks. *)
Row(o) == IF recs[o].old THEN [recs[o].row EXCEPT ![Added] = code.default]
          ELSE recs[o].row

(* The keys one record contributes to a field. *)
KeysOf(f, v) == IF f \in ListFields THEN (IF v = NULL THEN {} ELSE v) ELSE {v}

(* m, with key k mapped to v *)
Put(m, k, v) == [x \in DOMAIN m \cup {k} |-> IF x = k THEN v ELSE m[x]]
Without(m, S) == [x \in DOMAIN m \ S |-> m[x]]
At(m, k) == IF k \in DOMAIN m THEN m[k] ELSE {}

(***************************************************************************)
(* build_class_indexes: one scan of the class's records.                    *)
(***************************************************************************)
build_class_indexes ==
    LET keys(f) == UNION {KeysOf(f, Row(o)[f]) : o \in Live}
        held(f) == {Row(o)[f] : o \in Live} \ {NULL}
    IN  [extent |-> Live,
         eq     |-> [f \in eqFields |->
                        [k \in keys(f) |-> {o \in Live : k \in KeysOf(f, Row(o)[f])}]],
         run    |-> [f \in sortedFields |-> keys(f) \ {NULL}],
         unique |-> [f \in uniqueFields |->
                        [v \in held(f) |-> CHOOSE o \in Live : Row(o)[f] = v]],
         last   |-> [o \in Live |-> [f \in _maintained_fields |-> Row(o)[f]]],
         dirty  |-> FALSE]

(***************************************************************************)
(* _rebuild_last_values: the un-index memory, inverted from the postings.    *)
(* A list without elements and an absent unique value leave no entry.        *)
(***************************************************************************)
Remembered(c, o) ==
    [f \in {g \in DOMAIN c.eq : \E k \in DOMAIN c.eq[g] : o \in c.eq[g][k]}
           \cup {g \in DOMAIN c.unique : \E v \in DOMAIN c.unique[g] : c.unique[g][v] = o} |->
        IF f \in ListFields THEN {k \in DOMAIN c.eq[f] : o \in c.eq[f][k]}
        ELSE IF f \in DOMAIN c.eq THEN CHOOSE k \in DOMAIN c.eq[f] : o \in c.eq[f][k]
        ELSE CHOOSE v \in DOMAIN c.unique[f] : c.unique[f][v] = o]

WithLastValues(c) ==
    IF ~c.dirty THEN c
    ELSE LET known == {o \in c.extent : DOMAIN Remembered(c, o) # {}}
         IN  [c EXCEPT !.last = [o \in known |-> Remembered(c, o)], !.dirty = FALSE]

(* What the un-index memory says o contributes to field f. *)
Knows(c, o, f, k) ==
    o \in DOMAIN c.last /\ f \in DOMAIN c.last[o] /\ k \in KeysOf(f, c.last[o][f])

(* A bug: the unique map forgets a key whoever holds it by now. *)
Bug_unindex(c, O) ==
    [c EXCEPT
       !.eq = [f \in DOMAIN c.eq |-> [k \in DOMAIN c.eq[f] |->
                  c.eq[f][k] \ {o \in O : Knows(c, o, f, k)}]],
       !.unique = [f \in DOMAIN c.unique |->
           Without(c.unique[f], {v \in DOMAIN c.unique[f] : \E o \in O : Knows(c, o, f, v)})],
       !.last = Without(c.last, O)]

(* _unindex, of the objects O: they leave the postings and the unique map of   *)
(* their old values; a key that another object holds by now stays.             *)
_unindex(c, O) ==
    [c EXCEPT
       !.eq = [f \in DOMAIN c.eq |-> [k \in DOMAIN c.eq[f] |->
                  c.eq[f][k] \ {o \in O : Knows(c, o, f, k)}]],
       !.unique = [f \in DOMAIN c.unique |->
           Without(c.unique[f], {v \in DOMAIN c.unique[f] :
               c.unique[f][v] \in O /\ Knows(c, c.unique[f][v], f, v)})],
       !.last = Without(c.last, O)]

(* insert: the row replaces what the index remembers of o. *)
Insert(c0, o, row) ==
    LET c == _unindex(WithLastValues(c0), {o})
        keys(f) == KeysOf(f, row[f])
    IN  [c EXCEPT
           !.extent = @ \cup {o},
           !.eq = [f \in DOMAIN c.eq |-> [k \in DOMAIN c.eq[f] \cup keys(f) |->
                      At(c.eq[f], k) \cup (IF k \in keys(f) THEN {o} ELSE {})]],
           !.run = [f \in DOMAIN c.run |->
                      c.run[f] \cup (keys(f) \ (DOMAIN c.eq[f] \cup {NULL}))],
           !.unique = [f \in DOMAIN c.unique |->
                      IF row[f] = NULL THEN c.unique[f] ELSE Put(c.unique[f], row[f], o)],
           !.last = Put(c.last, o, [f \in _maintained_fields |-> row[f]])]

(* remove: the committed deletes leave the index, from its own memory. *)
RemoveOids(c, O) ==
    IF O = {} THEN c
    ELSE [_unindex(WithLastValues(c), O) EXCEPT !.extent = @ \ O]

(* dump and load: the postings travel, the un-index memory does not, and the  *)
(* sorted runs are sorted again from the keys.                                *)
dump(c) == [extent |-> c.extent, eq |-> c.eq, unique |-> c.unique,
            sorted |-> DOMAIN c.run]
load(b) == [extent |-> b.extent, eq |-> b.eq, unique |-> b.unique,
            run |-> [f \in b.sorted |-> DOMAIN b.eq[f] \ {NULL}],
            last |-> <<>>, dirty |-> TRUE]
MarkersMatch(b) ==
    /\ DOMAIN b.eq = eqFields
    /\ DOMAIN b.unique = uniqueFields
    /\ b.sorted = sortedFields

(* IndexManager.ensure: built already, from the cache, or from the records. *)
Ensured ==
    IF ci # NoIndex THEN ci
    ELSE IF blob # NoIndex /\ MarkersMatch(blob) THEN load(blob)
    ELSE build_class_indexes

-----------------------------------------------------------------------------
(* The reverse-reference index: post maps a target to its referrers, refs a  *)
(* referrer to its targets.                                                  *)

Referrers(t) == {o \in Live : t \in recs[o].row.refs}

harvested ==
    [post |-> [t \in Oids |-> Referrers(t)],
     refs |-> [o \in Oids |-> IF o \in Live THEN recs[o].row.refs ELSE {}],
     dirty |-> FALSE]

EnsuredReverse ==
    IF rev # NoIndex THEN rev
    ELSE IF revBlob # NoIndex
         THEN [post |-> revBlob, refs |-> [o \in Oids |-> {}], dirty |-> TRUE]
    ELSE harvested

(* A bug: the diff memory of a cached reverse index is never rebuilt. *)
Bug_WithRefs(r) == [r EXCEPT !.dirty = FALSE]

(* _rebuild_reverse_refs: the diff memory, inverted from the postings. *)
WithRefs(r) ==
    IF ~r.dirty THEN r
    ELSE [r EXCEPT !.refs = [o \in Oids |-> {t \in Oids : o \in r.post[t]}],
                   !.dirty = FALSE]

(* The outgoing references of the referrers in targets become what it gives.   *)
Redirect(r, targets) ==
    [r EXCEPT !.post = [t \in Oids |->
                           {o \in @[t] : o \in DOMAIN targets => t \notin r.refs[o]}
                           \cup {o \in DOMAIN targets : t \in targets[o]}],
              !.refs = [o \in Oids |-> IF o \in DOMAIN targets THEN targets[o] ELSE @[o]]]

-----------------------------------------------------------------------------
(* A commit in its three phases.  P1 validates and captures; P2 makes the      *)
(* batch durable; P3 folds it.  On the asyncio facade other tasks read in      *)
(* between.                                                                    *)

Idle == inflight = NoCommit
Reading == up /\ nextOid > 1 /\ (Idle \/ "async" \in Env)
LastTid == IF ~Idle /\ inflight.landed THEN tid - 1 ELSE tid

(* The writes of a batch, of distinct OIDs, in buffer order. *)
Batches == {es \in SeqOf(Oids \X Rows, MaxBatch) :
               \A i, j \in DOMAIN es : es[i][1] = es[j][1] => i = j}
Written(es) == {es[i][1] : i \in DOMAIN es}
(* the row a batch writes to o *)
Entry(es, o) == (CHOOSE e \in ToSet(es) : e[1] = o)[2]
(* the allocator after a batch *)
Allocated(es) == 1 + Max({nextOid - 1} \cup Written(es))

(* check_unique: a key belongs to another entity, or two entries claim it. *)
check_unique(c, es, D) ==
    \A f \in uniqueFields : \A i \in DOMAIN es :
        LET v == es[i][2][f] IN
        v # NULL =>
            /\ v \in DOMAIN c.unique[f] => c.unique[f][v] \in D \cup {es[i][1]}
            /\ \A j \in DOMAIN es : es[j][2][f] = v => i = j

(* One commit at a time; the run bounds their number. *)
Capturable == up /\ Idle /\ tid < MaxTid

(* P1: validating a unique field builds the index; the outgoing references    *)
(* are harvested only if the reverse index is built; a class without markers   *)
(* contributes no index entries.                                               *)
Capture(es, D) ==
    LET c == IF uniqueFields # {} /\ es # <<>> THEN Ensured ELSE ci IN
    /\ Capturable
    /\ es # <<>> \/ D # {}
    /\ D \subseteq Live \ Written(es)
    /\ \A o \in Written(es) : o \in Live \/ o >= nextOid
    /\ \A i \in DOMAIN es : \A t \in es[i][2].refs : t < Allocated(es)
    /\ check_unique(c, es, D)
    /\ inflight' = [es |-> es, D |-> D, landed |-> FALSE,
                    entries |-> IF _maintained_fields = {} THEN <<>> ELSE es,
                    refs |-> IF rev = NoIndex THEN <<>> ELSE es]
    /\ ci' = c
    /\ UNCHANGED <<recs, nextOid, tid, code, up, blob, rev, revBlob, sidecar>>

(* P2: the batch is durable, or fails and is buffered again. *)
Land ==
    LET es == inflight.es IN
    /\ ~Idle /\ ~inflight.landed
    /\ inflight' = [inflight EXCEPT !.landed = TRUE]
    /\ recs' = [o \in Oids |->
          IF o \in inflight.D THEN NoRec
          ELSE IF o \in Written(es) THEN [old |-> FALSE, row |-> Entry(es, o)]
          ELSE recs[o]]
    /\ tid' = tid + 1
    /\ nextOid' = Allocated(es)
    /\ UNCHANGED <<code, up, indexVars, sidecar>>

LandFails ==
    /\ ~Idle /\ ~inflight.landed
    /\ inflight' = NoCommit
    /\ UNCHANGED <<recs, nextOid, tid, code, up, indexVars, sidecar>>

(* apply, entry by entry, then apply_deletes, on a built index. *)
Folded(c, entries, D) ==
    LET after[i \in 0..Len(entries)] ==
            IF i = 0 THEN c ELSE Insert(after[i - 1], entries[i][1], entries[i][2])
    IN  RemoveOids(after[Len(entries)], D)

(* apply_reverse, then remove_reverse: the referrers of a batch are distinct, a *)
(* deleted one refers to nothing, a deleted target keeps its postings.          *)
FoldedReverse(r, refs, D) ==
    Redirect(WithRefs(r), [o \in Written(refs) \cup D |->
                              IF o \in D THEN {} ELSE Entry(refs, o).refs])

(* P3: fold the batch into what is built; what is not built loses its cached  *)
(* form, which a commit has made stale.                                        *)
Fold ==
    LET i == inflight
        touched == i.entries # <<>> \/ i.D # {} IN
    /\ ~Idle /\ inflight.landed
    /\ ci' = IF ci = NoIndex THEN NoIndex ELSE Folded(ci, i.entries, i.D)
    /\ blob' = IF ci = NoIndex /\ touched THEN NoIndex ELSE blob
    /\ rev' = IF rev = NoIndex THEN NoIndex ELSE FoldedReverse(rev, i.refs, i.D)
    /\ revBlob' = IF rev = NoIndex /\ touched THEN NoIndex ELSE revBlob
    /\ inflight' = NoCommit
    /\ UNCHANGED <<recs, nextOid, tid, code, up, sidecar>>

-----------------------------------------------------------------------------
(* Reads that build, and the life of the store. *)

(* A query over the class: the first one builds or loads the index. *)
ensure ==
    /\ Reading
    /\ ci' = Ensured
    /\ UNCHANGED <<recs, nextOid, tid, code, up, inflight, blob, rev, revBlob, sidecar>>

(* committed_labels, from a read under a principal: the un-index memory is    *)
(* rebuilt if the index came from the cache.                                  *)
committed_labels ==
    /\ Reading
    /\ ci' = WithLastValues(Ensured)
    /\ UNCHANGED <<recs, nextOid, tid, code, up, inflight, blob, rev, revBlob, sidecar>>

(* incoming(): the first one builds or loads the reverse index. *)
ensure_reverse ==
    /\ Reading
    /\ Idle \/ "late" \in Env
    /\ rev' = EnsuredReverse
    /\ revBlob' = IF rev = NoIndex THEN NoIndex ELSE revBlob
    /\ UNCHANGED <<recs, nextOid, tid, code, up, inflight, ci, blob, sidecar>>

Down ==
    /\ up' = FALSE /\ inflight' = NoCommit
    /\ ci' = NoIndex /\ blob' = NoIndex
    /\ rev' = NoIndex /\ revBlob' = NoIndex

(* close() lets a running P2 end, stamps the built indexes at the watermark    *)
(* this session has seen, and with none built leaves the file alone.           *)
Close ==
    /\ up /\ Down
    /\ ~Idle => "async" \in Env /\ inflight.landed
    /\ sidecar' = IF ci = NoIndex /\ rev = NoIndex THEN sidecar
                  ELSE [watermark |-> LastTid,
                        class |-> IF ci = NoIndex THEN NoIndex ELSE dump(ci),
                        reverse |-> IF rev = NoIndex THEN NoIndex ELSE rev.post]
    /\ UNCHANGED <<recs, nextOid, tid, code>>

(* The process dies, or close() does before the rename of the temporary file. *)
Crash ==
    /\ up /\ Down
    /\ UNCHANGED <<recs, nextOid, tid, code, sidecar>>

(* _load_state: the sidecar is served only at the backend's own watermark. *)
Open ==
    LET current == sidecar # NoIndex /\ sidecar.watermark = tid IN
    /\ ~up /\ up' = TRUE
    /\ blob' = IF current THEN sidecar.class ELSE NoIndex
    /\ revBlob' = IF current THEN sidecar.reverse ELSE NoIndex
    /\ UNCHANGED <<recs, nextOid, tid, code, inflight, ci, rev, sidecar>>

(* A new version of the program declares the class differently. *)
Redeploy ==
    /\ ~up
    /\ \/ /\ "remark" \in Env
          /\ code' = [code EXCEPT !.ranked = ~@]
       \/ /\ "redefault" \in Env
          /\ \E d \in Defaults : code' = [code EXCEPT !.default = d]
    /\ UNCHANGED <<recs, nextOid, tid, up, inflight, indexVars, sidecar>>

(* The store as some earlier sessions left it: any records whose unique keys   *)
(* differ, the old shape on the first of them, deleted ones forgotten, and one *)
(* OID still to hand out.                                                      *)
Init ==
    /\ code \in [ranked : {TRUE}, keyed : BOOLEAN, default : Defaults,
                 marked : IF "plain" \in Env THEN BOOLEAN ELSE {TRUE}]
    /\ recs \in [Oids -> {NoRec} \cup [old : BOOLEAN, row : Rows]]
    /\ nextOid = MaxOid
    /\ \A o \in Live :
          /\ o < nextOid
          /\ recs[o].old => o = 1 /\ recs[o].row.refs = {}
          /\ \A t \in recs[o].row.refs : t < nextOid
          /\ \A f \in uniqueFields : \A u \in Live \ {o} :
                recs[o].row[f] = recs[u].row[f] => recs[o].row[f] = NULL
    /\ tid = 0
    /\ up = FALSE
    /\ inflight = NoCommit
    /\ ci = NoIndex /\ blob = NoIndex
    /\ rev = NoIndex /\ revBlob = NoIndex
    /\ sidecar = NoIndex

Next ==
    \/ /\ Capturable
       /\ \E es \in Batches, D \in SUBSET Live :
             Len(es) + Cardinality(D) <= MaxBatch /\ Capture(es, D)
    \/ Land \/ LandFails \/ Fold
    \/ ensure \/ committed_labels \/ ensure_reverse
    \/ Open \/ Close \/ Crash \/ Redeploy

Spec == Init /\ [][Next]_vars

Captures == [es : Batches, D : SUBSET Oids, landed : BOOLEAN, entries : Batches, refs : Batches]

ASSUME CaptureIsCommit == NoCommit \notin Captures

-----------------------------------------------------------------------------
(* Reading the index. *)

(* _range_slice: the postings of the keys in the sorted run that satisfy the  *)
(* comparison; a None bound matches nothing.                                  *)
Compare(op, a, b) ==
    \/ op = "<" /\ a < b
    \/ op = "<=" /\ a <= b
    \/ op = ">" /\ a > b
    \/ op = ">=" /\ a >= b

_range_slice(c, f, op, v) ==
    IF v = NULL THEN {}
    ELSE UNION {c.eq[f][k] : k \in {key \in c.run[f] : Compare(op, key, v)}}

(* readable_bitmap: the owner's postings, and for each group held the group's *)
(* postings whose read floor the level held there reaches.                    *)
readable_bitmap(p, c) ==
    IF is_root(p) THEN c.extent
    ELSE (IF p.uid # 0 THEN At(c.eq["owner"], p.uid) ELSE {})
         \cup UNION {At(c.eq["groups"], g)
                     \cap _range_slice(c, "floor", "<=", level(p, g)) : g \in Held(p)}

-----------------------------------------------------------------------------
(* Properties *)

Postings(c, f, k) == At(c.eq[f], k)

(* Index c answers like a scan of the records of the class.  The un-index      *)
(* memory, once there, names each record's keys.                               *)
Serves(c) ==
    LET s == build_class_indexes IN
    /\ c.extent = s.extent
    /\ DOMAIN c.eq = DOMAIN s.eq /\ DOMAIN c.run = DOMAIN s.run
    /\ \A f \in DOMAIN s.eq : \A k \in DOMAIN s.eq[f] \cup DOMAIN c.eq[f] :
           Postings(c, f, k) = Postings(s, f, k)
    /\ \A f \in DOMAIN s.run : s.run[f] \subseteq c.run[f] /\ c.run[f] \subseteq DOMAIN c.eq[f]
    /\ c.unique = s.unique
    /\ ~c.dirty => \A o \in Live : \A f \in DOMAIN s.eq :
           KeysOf(f, Row(o)[f]) =
               IF o \in DOMAIN c.last /\ f \in DOMAIN c.last[o] THEN KeysOf(f, c.last[o][f]) ELSE {}

(***************************************************************************)
(* The index the store answers from, or would serve from the cache, holds    *)
(* exactly the committed records: whatever the order of builds, folds, dumps  *)
(* and loads, and whatever of it came out of the sidecar.                     *)
(***************************************************************************)
IndexServes ==
    Idle =>
    /\ ci # NoIndex => Serves(ci)
    /\ blob # NoIndex /\ ci = NoIndex /\ MarkersMatch(blob) => Serves(load(blob))

(***************************************************************************)
(* incoming() names exactly the referrers of a target, also of a deleted one: *)
(* the reverse postings are those of a scan, built, folded or cached.         *)
(***************************************************************************)
ReverseServes ==
    LET exact(post) == \A t \in Oids : post[t] = Referrers(t) IN
    Idle =>
    /\ rev # NoIndex => exact(rev.post)
    /\ revBlob # NoIndex => exact(revBlob)

=============================================================================
