----------------------------- MODULE IndexReads -----------------------------
(***************************************************************************)
(* What one predicate, one AND, one OR and one lookup by key read from the  *)
(* indexes of ClassIndexes, and the read fence over them.  The planner that *)
(* recurses through a condition, the windows and the counts are in Queries. *)
(*                                                                          *)
(* A condition is a predicate [k |-> "pred", f, op, v], a conjunction or a  *)
(* disjunction of parts in order, or a negation; NULL is no condition.      *)
(* Strings are sequences, so that containment and prefixes are what they    *)
(* are in the code; None is NULL.                                           *)
(***************************************************************************)
EXTENDS ClassIndexes

CONSTANTS
    StringFields, \* the fields that hold strings
    Principals,   \* who reads
    Keys          \* unique keys looked up

Orderings == {"<", "<=", ">", ">="}

-----------------------------------------------------------------------------
(* Pred.evaluate: what a predicate says of one record.                       *)

IsInfix(s, t) == \E i \in 0..(Len(t) - Len(s)) : s = SubSeq(t, i + 1, i + Len(s))

(* A scalar against one predicate; an ordering never matches None. *)
Holds(op, v, actual, isString) ==
    CASE op = "==" -> actual = v
      [] op = "!=" -> actual # v
      [] op = "in" -> actual \in v
      [] op = "contains" -> isString /\ actual # NULL /\ IsInfix(v, actual)
      [] op = "startswith" -> isString /\ actual # NULL /\ IsPrefix(v, actual)
      [] op \in Orderings -> actual # NULL /\ v # NULL /\ Compare(op, actual, v)

(* ... and a list: its elements are contained, nothing else matches here. *)
HoldsOfList(op, v, actual) ==
    CASE op = "==" -> actual = v
      [] op = "!=" -> actual # v
      [] op = "contains" -> actual # NULL /\ v \in actual
      [] OTHER -> FALSE

Matches(cond, row) ==
    IF cond.f \in ListFields THEN HoldsOfList(cond.op, cond.v, row[cond.f])
    ELSE Holds(cond.op, cond.v, row[cond.f], cond.f \in StringFields)

-----------------------------------------------------------------------------
(* The steps of the planner: a bitmap of candidates, or NULL for all of them,  *)
(* and the conditions still to be evaluated on each; several left are an And.  *)

Planned(bitmap, residual) == [bitmap |-> bitmap, residual |-> residual]
Residual(cond) == Planned(NULL, {cond})
Answer(bitmap) == Planned(bitmap, {})

(* The predicates answered from the distinct keys of an index. *)
KeyOps == {"==", "in", "contains", "startswith"}
HitKeys(cond, keys) ==
    {k \in keys : Holds(cond.op, cond.v, k, cond.f \in StringFields)}

_plan_list_field(cond, c) ==
    IF cond.op = "contains" THEN Answer(At(c.eq[cond.f], cond.v)) ELSE Residual(cond)

_plan_pred(cond, c) ==
    LET f == cond.f IN
    CASE f \in DOMAIN c.run /\ cond.op \in Orderings ->
            Answer(_range_slice(c, f, cond.op, cond.v))
      [] f \in DOMAIN c.eq \cap ListFields -> _plan_list_field(cond, c)
      [] f \in DOMAIN c.eq \ ListFields /\ cond.op \in KeyOps ->
            Answer(UNION {c.eq[f][k] : k \in HitKeys(cond, DOMAIN c.eq[f])})
      [] f \in DOMAIN c.unique /\ cond.op \in KeyOps ->
            Answer({c.unique[f][k] : k \in HitKeys(cond, DOMAIN c.unique[f])})
      [] OTHER -> Residual(cond)

(* AND combines bitmaps and residuals separately. *)
_plan_and(subs) ==
    LET bitmaps == {subs[i].bitmap : i \in DOMAIN subs} \ {NULL}
    IN  Planned(IF bitmaps = {} THEN NULL
                ELSE {o \in UNION bitmaps : \A b \in bitmaps : o \in b},
                UNION {subs[i].residual : i \in DOMAIN subs})

(* A bug: OR answers from the branches that have a bitmap. *)
Bug_plan_or(cond, subs) ==
    IF \E i \in DOMAIN subs : subs[i].bitmap = NULL
    THEN Residual(cond)
    ELSE Answer(UNION {subs[i].bitmap : i \in DOMAIN subs})

(* OR answers only when every branch is answered in full. *)
_plan_or(cond, subs) ==
    IF \E i \in DOMAIN subs : subs[i].bitmap = NULL \/ subs[i].residual # {}
    THEN Residual(cond)
    ELSE Answer(UNION {subs[i].bitmap : i \in DOMAIN subs})

-----------------------------------------------------------------------------
(* The lookups. *)

(* get(): by unique key; a record the principal may not read is absent.       *)
(* NULL is the absent answer.                                                  *)
get(p, c, f, v) ==
    LET o == c.unique[f][v]
        last == c.last[o]
    IN  IF v \notin DOMAIN c.unique[f] \/ (~is_root(p) /\ o \notin DOMAIN c.last) THEN NULL
        ELSE IF is_root(p) \/ can_read_row(p, last["owner"],
                    IF "groups" \in DOMAIN last /\ last["groups"] # NULL THEN last["groups"] ELSE {},
                    last["floor"])
        THEN o ELSE NULL

(* A bug: every referrer is named, readable or not. *)
Bug_incoming(p, t) == EnsuredReverse.post[t]

(* incoming(): the referrers the principal may read. *)
incoming(p, t) ==
    {o \in EnsuredReverse.post[t] :
        can_read_row(p, Row(o).owner, Row(o).groups, Row(o).floor)}

-----------------------------------------------------------------------------
(* Properties *)

Readable(p) == {o \in Live : can_read_row(p, Row(o).owner, Row(o).groups, Row(o).floor)}

(***************************************************************************)
(* A lookup by unique key finds the one committed record that holds the key    *)
(* if the principal may read it, and nothing otherwise, also when the index     *)
(* came out of the sidecar and its labels are rebuilt from the postings;        *)
(* incoming() names exactly the readable referrers.                             *)
(***************************************************************************)
LookupExact ==
    LET c == WithLastValues(Ensured) IN
    Idle /\ up /\ nextOid > 1 =>
    \A p \in Principals :
        /\ \A f \in uniqueFields : \A v \in Keys :
              LET holders == {o \in Readable(p) : Row(o)[f] = v} IN
              IF holders = {} THEN get(p, c, f, v) = NULL
              ELSE get(p, c, f, v) \in holders
        /\ \A t \in Oids : incoming(p, t) = Referrers(t) \cap Readable(p)

=============================================================================
