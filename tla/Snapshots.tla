------------------------------ MODULE Snapshots ------------------------------
(***************************************************************************)
(* A snapshot: a pinned read view and the state derived from it on demand.  *)
(* One core is shared by the handles of every principal: the views already   *)
(* materialized, the indexes of a class, the reverse references.  A handle    *)
(* adds what its principal may read.  The surfaces are operators on a core    *)
(* and on a handle's compiled readable sets; what a surface fills in is an    *)
(* operator of its own.                                                       *)
(*                                                                          *)
(* A record is [type, labelled, owner, groups, floor, key, size, refs];       *)
(* "labelled" says whether the shape it was written with has label columns.   *)
(***************************************************************************)
EXTENDS ReadFence, FiniteSets, SequencesExt

CONSTANTS
    MaxOid,     \* bound: the objects 1..MaxOid
    Live,       \* the typenames with a live class in this process
    Protected,  \* those whose live class is protected
    NULL, NoRec, NotBuilt

Oids == 1..MaxOid

ASSUME SnapshotTypes == Protected \subseteq Live

Present(recs) == {o \in Oids : recs[o] # NoRec}
Extent(recs, type) == {o \in Present(recs) : recs[o].type = type}

-----------------------------------------------------------------------------
(* Decoding: by name through the persisted shape. *)

(* The labels of a record older than the protection of its class. *)
LegacyLabels == [owner |-> 0, groups |-> {WORLD}, floor |-> VIEWER]
Columns(rec) == [owner |-> rec.owner, groups |-> rec.groups, floor |-> rec.floor]

(* A live class shows its own fields, with the legacy fill for those the shape *)
(* lacks; without a live class the persisted shape is shown, labels and all.   *)
decode_labels(rec) ==
    IF rec.type \in Live \ Protected THEN NULL
    ELSE IF rec.labelled THEN Columns(rec)
    ELSE IF rec.type \in Protected THEN LegacyLabels ELSE NULL

decode_values(o, rec) ==
    [oid |-> o, type |-> rec.type, key |-> rec.key, size |-> rec.size,
     labels |-> decode_labels(rec)]

-----------------------------------------------------------------------------
(* The core. *)

(* types: the lineage at the watermark, <<typename, labelled>> rows. *)
_SnapshotCore(tid, recs, types) ==
    [tid |-> tid, recs |-> recs, types |-> types, closed |-> FALSE,
     cache |-> <<>>, indexes |-> <<>>, reverse |-> NotBuilt]

cids_by_typename(core, type) == {t \in core.types : t[1] = type}

no_live_class_fenced(core, type) == type \notin Live /\ <<type, TRUE>> \in core.types

(* load_missing, tolerant: an absent record stays out of the cache. *)
load_missing(core, S) ==
    [core EXCEPT !.cache = [o \in DOMAIN @ \cup (S \cap Present(core.recs)) |->
        IF o \in DOMAIN @ THEN @[o] ELSE decode_values(o, core.recs[o])]]

(* The indexes of a class; the build fills the label columns a shape lacks. *)
build_class_indexes(core, type) ==
    LET extent == Extent(core.recs, type)
        fill(o) == IF core.recs[o].labelled THEN Columns(core.recs[o]) ELSE LegacyLabels
    IN  [extent |-> extent,
         eq |-> [k \in {core.recs[o].key : o \in extent} |->
                    {o \in extent : core.recs[o].key = k}],
         labels |-> IF type \in Protected THEN [o \in extent |-> fill(o)] ELSE <<>>]

class_indexes(core, type) ==
    IF type \in DOMAIN core.indexes THEN core
    ELSE [core EXCEPT !.indexes = [t \in DOMAIN @ \cup {type} |->
            IF t = type THEN build_class_indexes(core, type) ELSE @[t]]]

ensure_reverse(core) ==
    IF core.reverse # NotBuilt THEN core
    ELSE [core EXCEPT !.reverse =
            [t \in Oids |-> {o \in Present(core.recs) : t \in core.recs[o].refs}]]

-----------------------------------------------------------------------------
(* The fence of a handle. *)

(* What the bitmap compiler answers: NULL for root, who skips the intersection. *)
readable_bitmap(p, ci) ==
    IF is_root(p) THEN NULL
    ELSE {o \in ci.extent : can_read_row(p, ci.labels[o].owner, ci.labels[o].groups,
                                         ci.labels[o].floor)}

(* The readable sets a handle has compiled, by class, are kept. *)
_readable_for(readable, p, ci, type) ==
    IF type \in DOMAIN readable THEN readable
    ELSE [t \in DOMAIN readable \cup {type} |->
            IF t = type THEN readable_bitmap(p, ci) ELSE readable[t]]

_classify(p, view) ==
    IF is_root(p) THEN "ok"
    ELSE IF view.type \notin Live THEN IF view.labels = NULL THEN "ok" ELSE "deny"
    ELSE IF view.type \in Protected
            /\ ~can_read_row(p, view.labels.owner, view.labels.groups, view.labels.floor)
    THEN "twin" ELSE "ok"

-----------------------------------------------------------------------------
(* The surfaces.  c is the core with what the call fills in; h is the handle    *)
(* with its readable sets compiled.                                          *)

Refused == [answer |-> "denied"]
Dangling == [answer |-> "dangling"]

(* Snapshot.get, the strict dereference *)
get(c, p, o) ==
    IF o \notin DOMAIN c.cache THEN Dangling
    ELSE IF _classify(p, c.cache[o]) = "ok" THEN c.cache[o] ELSE Refused

(* Snapshot.get_many: a twin has the identity of the record and no field. *)
get_many(c, p, o) ==
    IF o \notin DOMAIN c.cache THEN NULL
    ELSE LET kind == _classify(p, c.cache[o]) IN
         CASE kind = "ok" -> c.cache[o]
           [] kind = "twin" -> [answer |-> "redacted", oid |-> o]
           [] kind = "deny" -> NULL

(* open_blob: the blob is fenced with its record, also for a raw view. *)
open_blob(c, p, o) == o \in DOMAIN c.cache /\ _classify(p, c.cache[o]) = "ok"

apply_window(s, limit, offset) ==
    SubSeq(s, offset + 1, IF limit = NULL \/ offset + limit > Len(s) THEN Len(s) ELSE offset + limit)

Fenced(S, h, type) == IF type \notin Protected \/ h[type] = NULL THEN S ELSE S \cap h[type]

(* The candidates of a condition on the indexed key; NULL is no condition. *)
Candidates(c, h, type, key) ==
    LET ci == c.indexes[type]
    IN  Fenced(IF key = NULL THEN ci.extent
               ELSE IF key \in DOMAIN ci.eq THEN ci.eq[key] ELSE {}, h, type)

(* A bitmap's members in the order of its iteration.                           *)
ascending(S) == CHOOSE s \in [1..Cardinality(S) -> S] :
                    \A i, j \in 1..Cardinality(S) : i < j => s[i] < s[j]

(* Snapshot.query: the window is cut before the views are materialized unless  *)
(* a residual, here a size, has to be evaluated on them.                       *)
Windowed(c, h, type, q) ==
    LET candidates == ascending(Candidates(c, h, type, q.key))
    IN  IF q.size = NULL THEN apply_window(candidates, q.limit, q.offset) ELSE candidates

query(c, h, type, q) ==
    LET w == Windowed(c, h, type, q)
        views == [i \in DOMAIN w |-> c.cache[w[i]]]
        matched == ascending({i \in DOMAIN w : views[i].size = q.size})
    IN  IF q.size = NULL THEN views
        ELSE apply_window([n \in DOMAIN matched |-> views[matched[n]]], q.limit, q.offset)

count(c, h, type, q) ==
    Cardinality({o \in Candidates(c, h, type, q.key) :
                    q.size = NULL \/ decode_values(o, c.recs[o]).size = q.size})

(* Snapshot.explain: the candidates and the extent it reports, both fenced. *)
explain(c, h, type, q) ==
    [candidates |-> Cardinality(Candidates(c, h, type, q.key)),
     extent |-> Cardinality(Candidates(c, h, type, NULL))]

(* Snapshot.all: the readable extent of a protected class; else the stream of   *)
(* the lineage, refused when it has label columns that no class could enforce.  *)
all(c, p, h, type) ==
    LET shown == IF type \in Protected THEN Candidates(c, h, type, NULL) ELSE Extent(c.recs, type)
    IN  IF no_live_class_fenced(c, type) /\ ~is_root(p) THEN Refused
        ELSE [views |-> {decode_values(o, c.recs[o]) : o \in shown}]

(* _stream, the scan the mirrors start from: all of the type or nothing. *)
_stream(c, p, type) ==
    IF (type \in Protected \/ no_live_class_fenced(c, type)) /\ ~is_root(p) THEN Refused
    ELSE [views |-> {decode_values(o, c.recs[o]) : o \in Extent(c.recs, type)}]

index_bitmaps(c, type) ==
    IF type \in Protected THEN Refused ELSE [postings |-> c.indexes[type].eq]

incoming(c, p, t) == {o \in c.reverse[t] : _classify(p, c.cache[o]) = "ok"}

=============================================================================
