----------------------------- MODULE MCQueries -----------------------------
(* A small class of protected records: three label columns, a unique string, *)
(* an indexed string, a sorted number and a plain one.                       *)
EXTENDS Queries, TLC

R(owner, groups, floor, qid, note, rank, size, refs) ==
    [owner |-> owner, groups |-> groups, floor |-> floor, qid |-> qid,
     note |-> note, rank |-> rank, size |-> size, refs |-> refs]

MCRows == { R(1, {}, 0, <<1>>, <<1, 2>>, NULL, 1, {}),
            R(2, {1}, 100, NULL, <<2>>, 1, 2, {1}),
            R(1, {0, 1}, 500, <<1, 2>>, NULL, 2, NULL, {2}) }

(* Anonymous, root, two owners, members at and below the floors. *)
Anon == [uid |-> 0, memberships |-> [g \in {} |-> 0]]
Root == [uid |-> 9, memberships |-> [g \in {0} |-> 600]]
Owner == [uid |-> 1, memberships |-> [g \in {} |-> 0]]
Member == [uid |-> 2, memberships |-> [g \in {1} |-> 100]]
Staff == [uid |-> 3, memberships |-> [g \in {0, 1} |-> IF g = 1 THEN 500 ELSE 0]]

MCPrincipals == {Anon, Root, Owner, Member, Staff}

Pr(f, op, v) == [k |-> "pred", f |-> f, op |-> op, v |-> v]
AndOf(a, b) == [k |-> "and", parts |-> <<a, b>>]
OrOf(a, b) == [k |-> "or", parts |-> <<a, b>>]
NotOf(a) == [k |-> "not", part |-> a]

Q(p, cond) == [p |-> p, cond |-> cond, order |-> NULL, limit |-> NULL, offset |-> 0]
By(q, f, descending, limit, offset) ==
    [q EXCEPT !.order = [f |-> f, descending |-> descending],
              !.limit = limit, !.offset = offset]
Cut(q, limit, offset) == [q EXCEPT !.limit = limit, !.offset = offset]

MCQuestions == {
    Q(Anon, NULL), Q(Owner, NULL), Q(Member, NULL),
    Q(Root, Pr("note", "==", NULL)),
    Q(Root, Pr("note", "in", {<<2>>, NULL})),
    Q(Root, Pr("note", "contains", <<2>>)),
    Q(Root, Pr("qid", "startswith", <<1>>)),
    Q(Staff, AndOf(Pr("rank", ">=", 1), Pr("rank", "<", 2))),
    Q(Root, Pr("rank", "<=", NULL)),
    Q(Root, OrOf(Pr("groups", "contains", 1), Pr("size", "==", 1))),
    Q(Member, AndOf(NotOf(Pr("rank", ">", 1)), Pr("owner", "in", {1, 2}))),
    Q(Root, AndOf(Pr("size", ">", 1), AndOf(Pr("size", "<=", 2), Pr("owner", "!=", 1)))),
    Q(Root, OrOf(AndOf(Pr("rank", ">=", 1), Pr("size", "==", 1)), Pr("note", "==", <<2>>))),
    Cut(Q(Root, Pr("size", "!=", NULL)), 1, 1),
    By(Q(Root, NULL), "rank", FALSE, 1, 1),
    By(Q(Root, NULL), "rank", TRUE, NULL, 1),
    By(Q(Staff, NULL), "owner", TRUE, 2, 0),
    By(Q(Root, Pr("size", "!=", 2)), "rank", TRUE, 1, 0) }

(* The conditions asked, with their parts, and how deep they nest. *)
RECURSIVE WithParts(_)
WithParts(cond) ==
    {cond} \cup
    CASE cond.k = "pred" -> {}
      [] cond.k \in {"and", "or"} -> UNION {WithParts(cond.parts[i]) : i \in DOMAIN cond.parts}
      [] cond.k = "not" -> WithParts(cond.part)

MCConditions == UNION {WithParts(q.cond) : q \in {x \in MCQuestions : x.cond # NULL}}
MCNesting == [cond \in MCConditions |-> Cardinality(WithParts(cond))]

MCKeys == {<<1>>, <<2>>, <<1, 2>>}

(* The asyncio facade, and versions of the class that move the marker of rank. *)
LiveEnv == {"remark", "async"}
(* A class that may have no index marker at all. *)
PlainEnv == {"plain"}
=============================================================================
