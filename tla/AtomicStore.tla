----------------------------- MODULE AtomicStore -----------------------------
(***************************************************************************)
(* What a datacrystal store promises about its durable contents, whatever   *)
(* its commit phases do: records change in atomic commits only, each commit *)
(* takes the next TID, a new commit starts only after the previous one was  *)
(* acknowledged, and the natural key stays unique.                          *)
(***************************************************************************)
EXTENDS Naturals

CONSTANTS
    Keys,       \* non-null values of the unique field
    NullKey,    \* its null, exempt from uniqueness
    None,       \* no record
    MaxOid      \* bound: OIDs 1..MaxOid

VARIABLES
    objs,       \* OID -> stored value, None = no record
    tid,        \* TID of the last durable commit
    acked       \* TID of the last acknowledged commit (Store.last_tid)

Oids == 1..MaxOid
Contents == [Oids -> Keys \cup {NullKey, None}]
UniqueKeys(c) == \A o, p \in Oids : c[o] \in Keys /\ c[o] = c[p] => o = p

Init ==
    /\ objs = [o \in Oids |-> None]
    /\ tid = 0
    /\ acked = 0

(* One transaction becomes durable as a whole. *)
Commit ==
    /\ acked = tid
    /\ tid' = tid + 1
    /\ objs' \in Contents
    /\ UniqueKeys(objs')
    /\ acked' = acked

(* The caller of commit(), or whoever reopens the store, learns of it. *)
Acknowledge ==
    /\ acked # tid
    /\ acked' = tid
    /\ UNCHANGED <<objs, tid>>

Next == Commit \/ Acknowledge

Spec == Init /\ [][Next]_<<objs, tid, acked>>

=============================================================================
