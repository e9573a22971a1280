----------------------------- MODULE ArrowMirror -----------------------------
(***************************************************************************)
(* The parquet mirror, as the operators its handlers are built from: the    *)
(* value lattice of a column, a segment and how it is read under a later    *)
(* column tag, the newest-wins fold, the table a reader gets, and the       *)
(* records the mirror keeps in memory and in its manifest.  The module      *)
(* Sidecars runs them against a store.                                      *)
(*                                                                          *)
(* Each mirrored type has one column; lists, decimals, dates and integers   *)
(* beyond 64 bits are left out.                                             *)
(***************************************************************************)
EXTENDS SidecarRows, Integers, Sequences, SequencesExt

CONSTANTS
    Only,           \* the mirrored types (the "only" setting)
    MaxSegments,    \* max_segments
    MaxSegNo,       \* bound: segment numbers 1..MaxSegNo
    MaxExact,       \* the largest number a float holds exactly
    Torn            \* a file whose bytes did not land

ASSUME MirrorConstants ==
    /\ Only \subseteq Types
    /\ MaxSegments \in Nat \ {0, 1}
    /\ MaxSegNo \in Nat \ {0}
    /\ MaxExact \in Nat

SegNos == 1..MaxSegNo

-----------------------------------------------------------------------------
(* The value lattice *)

Numeric == {"bool", "int", "float"}
Rank == [bool |-> 0, int |-> 1, float |-> 2]

_tag_of(v) == v.kind

(* The least tag that covers both: null below everything, the numbers in a  *)
(* chain, "fallback" above what has nothing else in common.                 *)
_unify_tags(a, b) ==
    IF a = b \/ b = "null" THEN a
    ELSE IF a = "null" THEN b
    ELSE IF {a, b} \subseteq Numeric THEN IF Rank[a] >= Rank[b] THEN a ELSE b
    ELSE "fallback"

Rounded(v) == [kind |-> "float", n |-> IF v.n > MaxExact THEN MaxExact ELSE v.n]

(* What a cell written under a tag reads back as.  The fallback codec keeps *)
(* the value's own type; a number takes the type of its column, and a float *)
(* column rounds it.                                                        *)
_storable(v, tag) ==
    IF tag = "float" /\ v.kind \in {"bool", "int"} THEN Rounded(v)
    ELSE IF tag = "int" /\ v.kind = "bool" THEN [v EXCEPT !.kind = "int"]
    ELSE v

(* Python's ==, which the rows of two mirrors are compared by. *)
SameValue(a, b) ==
    \/ a = b
    \/ /\ Absent \notin {a, b}
       /\ {a.kind, b.kind} \subseteq Numeric
       /\ a.n = b.n

-----------------------------------------------------------------------------
(* Segments *)

(* The rows of a segment, or of what is pending, under a column tag. *)
Cells(rows, tag) == [o \in Oids |-> IF IsRow(rows[o]) THEN _storable(rows[o], tag) ELSE rows[o]]

(* The tag of a column once these rows are in it. *)
Widened(tag, rows) ==
    FoldSeq(LAMBDA o, acc : IF IsRow(rows[o]) THEN _unify_tags(acc, _tag_of(rows[o])) ELSE acc,
            tag, SetToSeq(Oids))

(* _fold: newest wins per OID, oldest part first. *)
_fold(parts) ==
    [o \in Oids |->
        LET with == {i \in 1..Len(parts) : parts[i][o] # Absent}
        IN IF with = {} THEN Absent ELSE parts[CHOOSE i \in with : \A j \in with : j <= i][o]]

_pending_table(rows, tag) == [rows |-> Cells(rows, tag), tag |-> tag, synced |-> TRUE]

Bug_read_segment(files, no, tag) == files[no].rows

(* files: the segments of one type, by number.  Cells written under an      *)
(* earlier tag are promoted to the column's.                                *)
_read_segment(files, no, tag) == Cells(files[no].rows, tag)

Parts(files, state) == [i \in 1..Len(state.segs) |-> _read_segment(files, state.segs[i], state.tag)]

(* table(): the segments, then what is pending, without the tombstones. *)
table(files, state, pending) ==
    LET tag == Widened(state.tag, pending)
    IN Live(_fold(Append(Parts(files, [state EXCEPT !.tag = tag]), Cells(pending, tag))))

(* _compact_type: the segments folded into one without tombstones.  Unlike  *)
(* _write_segment it does not fsync what it writes.                         *)
_compact_type(files, state) ==
    [rows |-> Live(_fold(Parts(files, state))), tag |-> state.tag, synced |-> FALSE]

-----------------------------------------------------------------------------
(* The mirror in memory, and its manifest *)

_TableState == [tag |-> "null", segs |-> <<>>, next |-> 1]
NoFiles == [t \in Types |-> [n \in SegNos |-> NoFile]]

(* A mirror over an empty directory. *)
FreshMirror ==
    [wm |-> 0, types |-> {}, tables |-> [t \in Types |-> _TableState], pending |-> NoRows,
     since |-> 0]

PendingOf(m, t) == [o \in Oids |-> IF TypeOf[o] = t THEN m.pending[o] ELSE Absent]
PendingTypes(m) == {t \in Types : PendingOf(m, t) # NoRows}

Manifest(m) == [wm |-> m.wm, types |-> m.types, tables |-> m.tables]

(* The files a manifest names. *)
Named(man, t) == IF man = NoFile THEN {} ELSE ToSet(man.tables[t].segs)

_load_manifest(man) ==
    IF man = NoFile THEN FreshMirror
    ELSE [FreshMirror EXCEPT !.wm = man.wm, !.types = man.types, !.tables = man.tables]

_sweep_orphans(files, man) ==
    [t \in Types |-> [n \in SegNos |-> IF n \in Named(man, t) THEN files[t][n] ELSE NoFile]]

Unlinked(files, doomed) ==
    [t \in Types |-> [n \in SegNos |-> IF <<t, n>> \in doomed THEN NoFile ELSE files[t][n]]]

(* apply(), up to the flush: every op is decoded before anything changes;   *)
(* an op of a type whose lineage the mirror never saw refuses the delta.    *)
Decodes(m, d) == {TypeOf[o] : o \in DOMAIN d.ops} \subseteq m.types \cup d.types

Taken(m, d) ==
    [m EXCEPT !.types = @ \cup d.types,
              !.wm = @ + 1,
              !.since = @ + 1,
              !.pending = [o \in Oids |-> IF o \in DOMAIN d.ops /\ TypeOf[o] \in Only
                                          THEN d.ops[o] ELSE @[o]]]

(* _write_segment, in memory. *)
WithSegment(m, t) ==
    [m EXCEPT !.tables[t].segs = Append(@, m.tables[t].next), !.tables[t].next = @ + 1]

WithColumns(m, t) == [m EXCEPT !.tables[t].tag = Widened(@, PendingOf(m, t))]

(* _compact_type, in memory. *)
WithCompacted(m, t) ==
    [m EXCEPT !.tables[t].segs = <<m.tables[t].next>>, !.tables[t].next = @ + 1]

=============================================================================
