--------------------------- MODULE MCSnapshotPool ---------------------------
(* A protected class with a shape older than its protection, an unprotected  *)
(* one and one without a class in this process.                              *)
EXTENDS SnapshotPool, TLC

CONSTANTS r1, r2
MCRequests == {r1, r2}
Slots == Permutations(MCRequests)

R(type, labelled, floor, key, size, refs) ==
    [type |-> type, labelled |-> labelled, owner |-> 1, groups |-> {1}, floor |-> floor,
     key |-> key, size |-> size, refs |-> refs]

Guarded == R("doc", TRUE, AGENT, 1, 1, {1})
Legacy == R("doc", FALSE, VIEWER, 1, 2, {})
Orphan == R("old", TRUE, VIEWER, 2, 1, {1})

MCRows == {Guarded, Legacy}
MCStores == {<<Legacy, Orphan>>}

Member == [uid |-> 2, memberships |-> [g \in {1} |-> AGENT]]
Root == [uid |-> 9, memberships |-> [g \in {WORLD} |-> EXECUTIVE]]
MCPrincipals == {NULL, Member}

Q(type, key, size, limit, offset) ==
    [type |-> type, key |-> key, size |-> size, limit |-> limit, offset |-> offset]
MCAsked == { Q("doc", NULL, NULL, 1, 0), Q("doc", 1, 2, NULL, 0) }

(* An application wired either way, that may stop with requests in flight.   *)
Shutdowns == {"handwired", "undrained"}
(* A process that may be out of file descriptors. *)
Failing == {"nofile"}
=============================================================================
