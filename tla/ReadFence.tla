----------------------------- MODULE ReadFence -----------------------------
(***************************************************************************)
(* The permission predicates: who a principal is to a record, from the      *)
(* principal's memberships and the record's label columns.                  *)
(*                                                                          *)
(* A principal is [uid, memberships]; memberships is a function from the    *)
(* groups held to the level held there.  The code computes an authority as  *)
(* a maximum and only ever compares it with a floor, so the model says      *)
(* whether the authority reaches the floor.                                 *)
(***************************************************************************)
EXTENDS Integers

(* The world group, and the ends of the ladder of levels that matter here. *)
WORLD == 0
NO_STANDING == -1
VIEWER == 0
AGENT == 100
ADMIN == 500
EXECUTIVE == 600

Groups(p) == DOMAIN p.memberships

level(p, g) ==
    IF g \in Groups(p) THEN p.memberships[g]
    ELSE IF g = WORLD THEN VIEWER ELSE NO_STANDING

(* uid 0 is the anonymous principal: it owns nothing. *)
is_owner(p, owner) == p.uid # 0 /\ owner = p.uid

is_root(p) == p.uid # 0 /\ level(p, WORLD) >= EXECUTIVE

(* max(memberships.values(), default=VIEWER) >= l *)
PersonalBestReaches(p, l) ==
    \/ Groups(p) = {} /\ VIEWER >= l
    \/ \E g \in Groups(p) : p.memberships[g] >= l

(* authority_towards(p, owner, groups) >= l: the best level held in a group  *)
(* the record is shared into; the owner of an unshared record acts at the    *)
(* personal best.                                                            *)
authority_reaches(p, owner, groups, l) ==
    \/ \E g \in groups : level(p, g) >= l
    \/ is_owner(p, owner) /\ groups = {} /\ PersonalBestReaches(p, l)
    \/ groups = {} /\ ~is_owner(p, owner) /\ NO_STANDING >= l

can_read_row(p, owner, groups, read_floor) ==
    \/ is_root(p)
    \/ is_owner(p, owner)
    \/ authority_reaches(p, owner, groups, read_floor)

(* The implicit membership of the world, as the bitmap compiler adds it. *)
Held(p) == Groups(p) \cup {WORLD}

=============================================================================
