------------------------------ MODULE TextIndex ------------------------------
(***************************************************************************)
(* The full-text sidecar, as the operators its handlers are built from: a   *)
(* delta applied inside one SQLite transaction, and the fenced search that  *)
(* widens its window over the ranked documents.  A document's rank is its   *)
(* OID, which is also the tiebreak; tokenising, stemming, snippets and the  *)
(* BM25 score are left out.  The module Sidecars runs them.                 *)
(***************************************************************************)
EXTENDS SidecarRows, Integers, Sequences, SequencesExt, FiniteSetsExt

CONSTANTS
    FullText,       \* the types with a dc.FullText field
    Widening        \* the first window is this many times the limit

(* The field as text: an upsert whose field is no string has no document. *)
IsText(v) == IsRow(v) /\ v.kind = "str"

(* What the index holds of a set of rows. *)
Documents(rows) == {<<o, rows[o]>> : o \in {p \in Oids : TypeOf[p] \in FullText /\ IsText(rows[p])}}

Bug_apply_op(docs, types, o, v) ==
    IF IsText(v) /\ TypeOf[o] \in FullText
    THEN {d \in docs : d[1] # o} \cup {<<o, v>>}
    ELSE IF v = Deleted THEN {d \in docs : d[1] # o} ELSE docs

(* _apply_op: the old document goes first; what the new row has is put in.  *)
_apply_op(docs, types, o, v) ==
    {d \in docs : d[1] # o}
        \cup (IF TypeOf[o] \in FullText /\ IsText(v) THEN {<<o, v>>} ELSE {})

(* _prose_values raises for an upsert whose lineage the index never saw. *)
Indexes(types, d) ==
    {TypeOf[o] : o \in {p \in DOMAIN d.ops : d.ops[p] # Deleted}} \subseteq types \cup d.types

(* The transaction of one apply(), or of bootstrap(). *)
Indexed(file, d) ==
    [wm |-> file.wm + 1,
     types |-> file.types \cup d.types,
     docs |-> FoldSeq(LAMBDA o, docs : _apply_op(docs, file.types \cup d.types, o, d.ops[o]),
                      file.docs, SetToSeq(DOMAIN d.ops))]

EmptyIndex == [wm |-> 0, types |-> {}, docs |-> {}]

-----------------------------------------------------------------------------
(* search() *)

Ranked(docs) == SetToSortSeq({d[1] : d \in docs}, <)

Lowest(a, b) == IF a <= b THEN a ELSE b

Bug_search_fenced(docs, readable, limit, cap) ==
    LET ranked == Ranked(docs)
        fetch == Lowest(limit * Widening, cap)
    IN SelectSeq(SubSeq(ranked, 1, Lowest(fetch, Len(ranked))), LAMBDA o : o \in readable)

(* _search_fenced: rounds over the ranked documents, each with a window     *)
(* twice as wide, that classify what the earlier rounds did not; they end   *)
(* when enough hits survive, when the documents are exhausted, or at the    *)
(* cap.  readable: the OIDs the snapshot yields to its principal.           *)
_search_fenced(docs, readable, limit, cap) ==
    LET ranked == Ranked(docs)
        Fetch(k) == Lowest((IF limit = 0 THEN 1 ELSE limit) * Widening * 2 ^ k, cap)
        rows[k \in Nat] == Lowest(Fetch(k), Len(ranked))
        survivors[k \in Nat] ==
            (IF k = 0 THEN <<>> ELSE survivors[k - 1])
                \o SelectSeq(SubSeq(ranked, (IF k = 0 THEN 0 ELSE rows[k - 1]) + 1, rows[k]),
                             LAMBDA o : o \in readable)
        Stops(k) == Len(survivors[k]) >= limit \/ rows[k] < Fetch(k) \/ Fetch(k) >= cap
        last == Min({k \in 0..cap : Stops(k)})
    IN SubSeq(survivors[last], 1, Lowest(limit, Len(survivors[last])))

=============================================================================
