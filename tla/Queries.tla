------------------------------- MODULE Queries -------------------------------
(***************************************************************************)
(* Reading a class: the planner that recurses through a condition, the      *)
(* ordering and windowing of the candidates and the reads the store composes *)
(* of them, over the index reads of IndexReads.  A recursion through a        *)
(* condition is a function on the set of the conditions there are.           *)
(***************************************************************************)
EXTENDS IndexReads

CONSTANTS
    Conditions, \* the conditions programs build, with all their parts
    Nesting,    \* how deep each of them is nested
    Questions   \* the reads asked: who, which condition, order and window

(* A condition is a finite tree. *)
Inside(part, cond) == part \in Conditions /\ Nesting[part] < Nesting[cond]

ASSUME ConditionTrees ==
    /\ NULL \notin Conditions
    /\ Nesting \in [Conditions -> Nat]
    /\ \A cond \in Conditions :
          /\ cond.k \in {"pred", "and", "or", "not"}
          /\ cond.k \in {"and", "or"} =>
                \A i \in DOMAIN cond.parts : Inside(cond.parts[i], cond)
          /\ cond.k = "not" => Inside(cond.part, cond)

(* The values of a field: those written, or a default. *)
Values(f) == {row[f] : row \in Rows} \cup (IF f = Added THEN Defaults ELSE {})

(* validate_window and parse_order_by have accepted the window and the order: *)
(* by a persisted field that is no list and whose values compare.              *)
ASSUME QuestionsPosed ==
    \A q \in Questions :
        /\ q.cond = NULL \/ q.cond \in Conditions
        /\ q.limit = NULL \/ q.limit \in Nat
        /\ q.offset \in Nat
        /\ q.order # NULL =>
              /\ q.order.f \notin ListFields
              /\ \A row \in Rows : q.order.f \in DOMAIN row
              /\ \A v \in Values(q.order.f) : v = NULL \/ v \in Int

-----------------------------------------------------------------------------
(* Condition.evaluate: what a condition says of one record, from what its     *)
(* parts say.                                                                *)
Verdict(truth, cond, row) ==
    CASE cond.k = "pred" -> Matches(cond, row)
      [] cond.k = "and" -> \A i \in DOMAIN cond.parts : truth[cond.parts[i]]
      [] cond.k = "or" -> \E i \in DOMAIN cond.parts : truth[cond.parts[i]]
      [] cond.k = "not" -> ~truth[cond.part]

evaluate(cond, row) ==
    LET truth[x \in Conditions] == Verdict(truth, x, row) IN truth[cond]

Satisfies(cond, o) == cond = NULL \/ evaluate(cond, Row(o))

(* The planner: the plan of a condition, from those of its parts. *)
PlanOf(planned, cond, c) ==
    CASE cond.k = "pred" -> _plan_pred(cond, c)
      [] cond.k = "and" -> _plan_and([i \in DOMAIN cond.parts |-> planned[cond.parts[i]]])
      [] cond.k = "or" -> _plan_or(cond, [i \in DOMAIN cond.parts |-> planned[cond.parts[i]]])
      [] cond.k = "not" -> Residual(cond)

plan(cond, c) ==
    LET planned[x \in Conditions] == PlanOf(planned, x, c) IN planned[cond]

-----------------------------------------------------------------------------
(* Ordering and windows. *)

(* apply_window: skip offset, keep limit. *)
apply_window(s, limit, offset) ==
    SubSeq(s, offset + 1,
           IF limit = NULL \/ offset + limit > Len(s) THEN Len(s) ELSE offset + limit)

(* A bitmap in the order it iterates in. *)
Ascending(S) ==
    CHOOSE s \in [1..Cardinality(S) -> S] : \A i, j \in DOMAIN s : i < j => s[i] < s[j]

(* By value in the direction asked, None last in both, and OIDs ascending      *)
(* within a value.                                                             *)
Before(value, descending, a, b) ==
    LET x == value[a]
        y == value[b]
    IN  IF x = y THEN a < b
        ELSE /\ x # NULL
             /\ y = NULL \/ IF descending THEN x > y ELSE x < y

order_by_values(S, value, descending) ==
    CHOOSE s \in [1..Cardinality(S) -> S] :
        \A i, j \in DOMAIN s : i < j => Before(value, descending, s[i], s[j])

(* Lists one after the other, stopping once the window is full. *)
Filled(out, limit, offset) == limit # NULL /\ Len(out) >= offset + limit

UntilFilled(lists, limit, offset) ==
    LET out[i \in 0..Len(lists)] ==
            IF i = 0 THEN <<>>
            ELSE IF Filled(out[i - 1], limit, offset) THEN out[i - 1]
            ELSE out[i - 1] \o lists[i]
    IN  out[Len(lists)]

(* windowed_index_order: the postings key by key, and those of None last. *)
windowed_index_order(c, matched, f, descending, limit, offset) ==
    LET present == (IF f \in DOMAIN c.run THEN c.run[f] ELSE DOMAIN c.eq[f]) \ {NULL}
        keys == IF descending THEN Reverse(Ascending(present)) ELSE Ascending(present)
        lists == [i \in DOMAIN keys |-> Ascending(c.eq[f][keys[i]] \cap matched)]
        none == Ascending(At(c.eq[f], NULL) \cap matched)
    IN  apply_window(UntilFilled(Append(lists, none), limit, offset), limit, offset)

-----------------------------------------------------------------------------
(* The reads of a protected class, as the store composes them. *)

_candidates(p, c, cond) ==
    LET pl == IF cond = NULL THEN Planned(NULL, {}) ELSE plan(cond, c)
    IN  Planned((IF pl.bitmap = NULL THEN c.extent ELSE pl.bitmap) \cap readable_bitmap(p, c),
                pl.residual)

Left(pl) == {o \in pl.bitmap : \A cond \in pl.residual : evaluate(cond, Row(o))}

(* query() and pluck(): an ordered window straight from the index when nothing *)
(* is left to evaluate and the field is indexed, the rows in full otherwise.   *)
query(q, c) ==
    LET cand == _candidates(q.p, c, q.cond)
        matched == Left(cand)
        value == [o \in matched |-> Row(o)[q.order.f]]
    IN  IF q.order = NULL THEN apply_window(Ascending(matched), q.limit, q.offset)
        ELSE IF cand.residual = {} /\ q.order.f \in DOMAIN c.eq
        THEN windowed_index_order(c, matched, q.order.f, q.order.descending, q.limit, q.offset)
        ELSE apply_window(order_by_values(matched, value, q.order.descending), q.limit, q.offset)

(* count(): the cardinality of a bitmap if that answers, the matches otherwise. *)
count(p, c, cond) ==
    LET cand == _candidates(p, c, cond) IN
    IF cand.residual = {} THEN Cardinality(cand.bitmap) ELSE Cardinality(Left(cand))

(* explain(): the candidates and the extent it reports, both fenced. *)
explain(p, c, cond) ==
    [candidates |-> Cardinality(_candidates(p, c, cond).bitmap),
     extent     |-> Cardinality(readable_bitmap(p, c))]

-----------------------------------------------------------------------------
(* Properties *)

(* The reference: filter the readable records one by one, sort, cut.          *)
Expected(q) ==
    LET matched == {o \in Readable(q.p) : Satisfies(q.cond, o)}
        value == [o \in matched |-> Row(o)[q.order.f]]
    IN  IF q.order = NULL THEN apply_window(Ascending(matched), q.limit, q.offset)
        ELSE apply_window(order_by_values(matched, value, q.order.descending), q.limit, q.offset)

(***************************************************************************)
(* Whatever mixture of postings, range slices, unique map and residual        *)
(* answers a read, and wherever its window stops, the answer is the one a      *)
(* scan of the readable committed records gives: the planner, the order_by     *)
(* short cut of windowed_index_order and the bitmap twin of can_read_row       *)
(* neither add, lose, reorder nor disclose a record.  A read of an index not    *)
(* built yet is ensure, and then this.                                         *)
(***************************************************************************)
QueryExact ==
    LET c == ci IN
    Idle /\ up /\ c # NoIndex =>
    \A q \in Questions :
        LET expected == Expected(q) IN
        /\ query(q, c) = expected
        /\ q.limit = NULL /\ q.offset = 0 =>
              /\ count(q.p, c, q.cond) = Len(expected)
              /\ explain(q.p, c, q.cond).candidates \in
                    Len(expected) .. Cardinality(Readable(q.p))

(***************************************************************************)
(* "Count the committed entities": count() of a class is the number of its     *)
(* committed records (the docstring of Store.count).                            *)
(***************************************************************************)
CountsCommitted ==
    Idle /\ up /\ nextOid > 1 => Cardinality(Ensured.extent) = Cardinality(Live)

=============================================================================
