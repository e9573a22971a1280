---------------------------- MODULE Permissions ----------------------------
(***************************************************************************)
(* Protected records in a running store: birth labels stamped when the walk *)
(* registers an object, labels staged by the verbs, the write gate of the    *)
(* commit, the checkpoint every dereference passes, and the registry of      *)
(* actors a session may act as.                                             *)
(*                                                                          *)
(* Every object is protected.  Its labels are owner, groups and the two      *)
(* floors; an Actor row also has memberships.  Objects are numbered, the OID *)
(* of an object is its number, and an object refers only to later ones.      *)
(***************************************************************************)
EXTENDS ReadFence, FiniteSets

CONSTANTS
    MaxOid,     \* bound: the objects 1..MaxOid
    Actors,     \* those that are Actor rows
    UidOf,      \* the uid an Actor row registers
    Claims,     \* the principals that verified claims give directly
    GroupIds,   \* the groups a record may be shared into
    Floors,     \* the read and write floors the verbs set, in pairs
    Uids,       \* the owners a program may assign by hand
    Grants,     \* the memberships an Actor row may be given
    NoRec, NoIndex, NoCommit, NoScope,
    MaxTid,     \* bound: number of commits
    MaxEdits,   \* bound: staged changes and references of one run
    Facades,    \* "sync": Store, nothing runs during P2.  "async": AsyncStore
    Env         \* what happens, a subset of Features

(* "fail": P2 may fail.  "forge": programs assign the owner column by hand.     *)
(* "revoke": programs delete Actor rows.                                      *)
Features == {"fail", "forge", "revoke"}

Objs == 1..MaxOid

ASSUME PermissionConstants ==
    /\ MaxOid \in Nat /\ MaxTid \in Nat /\ MaxEdits \in Nat
    /\ Actors \subseteq Objs
    /\ Floors \subseteq Nat \X Nat
    /\ Facades \subseteq {"sync", "async"}
    /\ Env \subseteq Features

(* Levels are integers; those of verified claims are on the ladder, which      *)
(* starts at VIEWER, and the anonymous principal is no superuser of the world. *)
ASSUME PermissionLevels ==
    /\ \A p \in Claims : \A g \in Groups(p) : p.memberships[g] \in Nat
    /\ \A p \in Claims : p.uid = 0 => level(p, WORLD) < EXECUTIVE
    /\ \A m \in Grants : \A g \in DOMAIN m : m[g] \in Int

VARIABLES
    facade,  \* the store is a Store or an AsyncStore
    state,   \* of each object: see States
    lab,     \* the labels of the live object
    holds,   \* the objects a live object has Lazy.of handles to
    births,  \* Store._birth_labels
    prestamp,\* Store._prestamp_labels
    registrar,\* history: the uid that stored the object
    disk,    \* the labels of the record on the backend
    idx,     \* the label columns of the class index
    phase,   \* of the commit: "idle", "p2" (captured) or "landed" (on the backend)
    inflight,\* the capture of the commit under way
    scope,   \* the principal of the open acting_as() scope
    tid, edits

liveVars == <<state, lab, holds, births, prestamp, registrar>>
vars == <<facade, liveVars, disk, idx, phase, inflight, scope, tid, edits>>

(* "free": built by the program, unknown to the store.  "absent": not in       *)
(* memory.  "cancelled": a deleted new object.  "dead": its deletion is final.  *)
States == {"free", "new", "clean", "dirty", "deleted", "cancelled", "torn", "absent", "dead"}

NoMemberships == [g \in {} |-> 0]
BirthLabels == [owner |-> 0, groups |-> {}, rf |-> VIEWER, wf |-> VIEWER,
                memb |-> NoMemberships]

OwnerFree == phase = "idle" \/ facade = "async"
MayEdit == OwnerFree /\ edits < MaxEdits

(* The principals code may run as. *)
Acting == Claims \cup ({scope} \ {NoScope})

In(S) == {o \in Objs : state[o] \in S}

-----------------------------------------------------------------------------
(* Registration. *)

(* The objects the walk from S expands: what they hold is queued. *)
Walk(S) ==
    LET seen[o \in Objs] ==
            /\ state[o] \in {"free", "new", "torn", "dirty"}
            /\ o \in S \/ \E h \in 1..(o - 1) : seen[h] /\ o \in holds[h]
    IN  {o \in Objs : seen[o]}

FreshIn(S) == {o \in Walk(S) : state[o] = "free"}

Untouched(l) == l.groups = {} /\ l.rf = VIEWER /\ l.wf = VIEWER

(* l with the groups and the floors of c *)
Relabelled(l, c) == [l EXCEPT !.groups = c.groups, !.rf = c.rf, !.wf = c.wf]

(* Where birth takes the groups and floors of o from: the object that enqueued *)
(* it, or o itself when it was enqueued by none or its own were touched.        *)
BirthSource(S) ==
    LET source[o \in Objs] ==
            LET holders == {h \in Walk(S) : o \in holds[h]}
            IN  IF \/ o \notin FreshIn(S) \/ o \in S \/ holders = {}
                   \/ ~Untouched(lab[o])
                THEN lab[o]
                ELSE source[CHOOSE h \in holders : \A g \in holders : h <= g]
    IN  source

(* The owner is never inherited. *)
_stamp_perm_labels(p, S) ==
    [o \in Objs |-> IF o \in FreshIn(S)
                   THEN [Relabelled(lab[o], BirthSource(S)[o]) EXCEPT !.owner = p.uid]
                   ELSE lab[o]]

(* The baseline of the gate: what inheritance gave, without what was staged. *)
Baseline(stamped, o) ==
    IF Untouched(lab[o]) THEN stamped[o]
    ELSE [stamped[o] EXCEPT !.groups = {}, !.rf = VIEWER, !.wf = VIEWER]

(* A record nobody owns must not exist: the anonymous principal creates none. *)
MayRegister(p, S) == p.uid # 0 \/ FreshIn(S) = {}

(* The store as the walk from S leaves it, every fresh object buffered as new. *)
_register_graph(p, S) ==
    LET stamped == _stamp_perm_labels(p, S)
        fresh   == FreshIn(S)
    IN  [state    |-> [o \in Objs |-> IF o \in fresh THEN "new" ELSE state[o]],
         lab      |-> stamped,
         births   |-> [o \in Objs |-> IF o \in fresh THEN Baseline(stamped, o) ELSE births[o]],
         prestamp |-> [o \in Objs |-> IF o \in fresh THEN lab[o] ELSE prestamp[o]],
         registrar |-> [o \in Objs |-> IF o \in fresh THEN p.uid ELSE registrar[o]]]

Becomes(w) ==
    /\ state' = w.state /\ lab' = w.lab
    /\ births' = w.births /\ prestamp' = w.prestamp /\ registrar' = w.registrar

store(p, o) ==
    /\ OwnerFree /\ FreshIn({o}) # {} /\ MayRegister(p, {o})
    /\ Becomes(_register_graph(p, {o}))
    /\ UNCHANGED <<facade, holds, disk, idx, phase, inflight, scope, tid, edits>>

-----------------------------------------------------------------------------
(* Staged changes.  A write to a clean object buffers it first; a deleted one *)
(* refuses writes.                                                          *)

Touch(o, l) ==
    /\ MayEdit /\ state[o] \in {"free", "new", "torn", "clean", "dirty"}
    /\ lab' = [lab EXCEPT ![o] = l]
    /\ state' = [state EXCEPT ![o] = IF @ = "clean" THEN "dirty" ELSE @]
    /\ edits' = edits + 1
    /\ UNCHANGED <<facade, births, prestamp, registrar, disk, idx, phase, inflight, scope, tid>>

share(o, g, read, write) ==
    /\ Touch(o, [lab[o] EXCEPT !.rf = read, !.wf = write, !.groups = @ \cup {g}])
    /\ UNCHANGED holds

unshare(o, g) ==
    /\ g \in lab[o].groups
    /\ Touch(o, [lab[o] EXCEPT !.groups = @ \ {g}])
    /\ UNCHANGED holds

protect(o, read, write) ==
    /\ Touch(o, [lab[o] EXCEPT !.rf = read, !.wf = write])
    /\ UNCHANGED holds

Forge(o, uid) ==
    /\ "forge" \in Env
    /\ Touch(o, [lab[o] EXCEPT !.owner = uid])
    /\ UNCHANGED holds

Grant(o, m) ==
    /\ o \in Actors
    /\ Touch(o, [lab[o] EXCEPT !.memb = m])
    /\ UNCHANGED holds

(* o.children.append(Lazy.of(c)) *)
Hold(o, c) ==
    /\ o < c /\ c \notin holds[o] /\ state[c] \notin {"absent", "dead"}
    /\ Touch(o, lab[o])
    /\ holds' = [holds EXCEPT ![o] = @ \cup {c}]

delete(o) ==
    /\ OwnerFree /\ state[o] \in {"new", "clean", "dirty"}
    /\ o \in Actors => "revoke" \in Env
    /\ state' = [state EXCEPT ![o] = IF @ = "new" THEN "cancelled" ELSE "deleted"]
    /\ UNCHANGED <<facade, lab, holds, births, prestamp, registrar, disk, idx, phase, inflight, scope, tid, edits>>

-----------------------------------------------------------------------------
(* The gate and the commit. *)

(* A principal clears write floor w of a record labelled l. *)
Clears(p, l, w) == authority_reaches(p, l.owner, l.groups, w)

_gate_label_changes(p, l, base) ==
    /\ \A g \in l.groups \ base.groups : level(p, g) # NO_STANDING
    /\ l.rf # base.rf => Clears(p, l, l.rf)
    /\ l.wf # base.wf => Clears(p, l, l.wf)

(* A bug: the grants are capped by the best level held anywhere. *)
Bug_gate_actor_memberships(p, memb, prior) ==
    \A g \in DOMAIN memb :
        (g \in DOMAIN prior /\ memb[g] = prior[g]) \/ PersonalBestReaches(p, memb[g])

_gate_actor_memberships(p, memb, prior) ==
    \A g \in DOMAIN memb :
        (g \in DOMAIN prior /\ memb[g] = prior[g]) \/ memb[g] <= level(p, g)

(* A bug: the floor and the owner compared are those staged, not those persisted. *)
Bug_gate_persisted_record(p, l, prior) == Clears(p, l, l.wf)

_gate_persisted_record(p, l, prior) == Clears(p, prior, prior.wf) /\ l.owner = prior.owner

(* The birth owner is the principal that registered the object; without a     *)
(* baseline the gate takes the owner the object has by now.                  *)
BirthBase(birth, l) == IF birth = NoRec THEN [BirthLabels EXCEPT !.owner = l.owner]
                       ELSE birth

_gate_new_record(p, l, base) == p.uid # 0 /\ l.owner = base.owner

_gate_delete(p, prior) == Clears(p, prior, prior.wf)

(* The write gate of p over the store as the walk w left it.  A new object      *)
(* whose deletion is buffered has no prior labels: the gate raises.            *)
_check_write_gate(p, w) ==
    \/ is_root(p)
    \/ /\ \A o \in Objs : w.state[o] = "new" =>
              LET base == BirthBase(w.births[o], w.lab[o])
              IN  /\ _gate_new_record(p, w.lab[o], base)
                  /\ _gate_label_changes(p, w.lab[o], base)
                  /\ _gate_actor_memberships(p, w.lab[o].memb, NoMemberships)
       /\ \A o \in Objs : w.state[o] = "dirty" =>
              /\ _gate_persisted_record(p, w.lab[o], disk[o])
              /\ _gate_label_changes(p, w.lab[o], disk[o])
              /\ _gate_actor_memberships(p, w.lab[o].memb, disk[o].memb)
       /\ \A o \in Objs : w.state[o] = "deleted" => _gate_delete(p, disk[o])
       /\ In({"torn"}) = {}

Buffered == In({"new", "dirty"})

(* A denied commit keeps its buffers, and in them what the walk just found. *)
P1Denied(p) ==
    /\ phase = "idle" /\ MayRegister(p, Buffered)
    /\ LET w == _register_graph(p, Buffered)
       IN  ~_check_write_gate(p, w) /\ Becomes(w)
    /\ UNCHANGED <<facade, holds, disk, idx, phase, inflight, scope, tid, edits>>

(* P1: the TID, the capture, the flip to clean before P2; the baselines of the *)
(* gate are dropped and cancelled insertions are final.                       *)
P1Capture(p) ==
    /\ phase = "idle" /\ MayRegister(p, Buffered) /\ tid < MaxTid
    /\ LET w    == _register_graph(p, Buffered)
           pend == {o \in Objs : w.state[o] \in {"new", "dirty"}}
           dels == In({"deleted", "torn"})
       IN  /\ pend \cup dels # {}
           /\ _check_write_gate(p, w)
           /\ inflight' = [by |-> p, before |-> disk, dels |-> dels,
                            recs |-> [o \in pend |-> w.lab[o]],
                            news |-> {o \in pend : w.state[o] = "new"}]
           /\ state' = [o \in Objs |-> CASE o \in pend -> "clean"
                                         [] w.state[o] = "cancelled" -> "dead"
                                         [] OTHER -> w.state[o]]
           /\ lab' = w.lab /\ prestamp' = w.prestamp /\ registrar' = w.registrar
           /\ births' = [o \in Objs |-> NoRec]
    /\ phase' = "p2" /\ tid' = tid + 1
    /\ UNCHANGED <<facade, holds, disk, idx, scope, edits>>

(* c with the records of the capture f written and its deletes applied *)
Folded(c, f) ==
    [o \in Objs |-> IF o \in DOMAIN f.recs THEN f.recs[o]
                    ELSE IF o \in f.dels THEN NoRec ELSE c[o]]

P2Land ==
    /\ phase = "p2" /\ phase' = "landed"
    /\ disk' = Folded(disk, inflight)
    /\ UNCHANGED <<facade, liveVars, idx, inflight, scope, tid, edits>>

(* A failed P2: the captured set is buffered again.  A new object deleted      *)
(* meanwhile is new again and its deletion stays buffered.                    *)
_p2_rollback ==
    /\ "fail" \in Env /\ phase = "p2"
    /\ state' = [o \in Objs |->
                    CASE o \in inflight.news -> IF state[o] = "deleted" THEN "torn" ELSE "new"
                      [] o \in DOMAIN inflight.recs \ inflight.news ->
                            IF state[o] = "deleted" THEN "deleted" ELSE "dirty"
                      [] OTHER -> state[o]]
    /\ phase' = "idle" /\ inflight' = NoCommit /\ tid' = tid - 1
    /\ UNCHANGED <<facade, lab, holds, births, prestamp, registrar, disk, idx, scope, edits>>

_p3_finalize ==
    /\ phase = "landed"
    /\ idx' = IF idx = NoIndex THEN NoIndex ELSE Folded(idx, inflight)
    /\ state' = [o \in Objs |-> IF o \in inflight.dels THEN "dead" ELSE state[o]]
    /\ prestamp' = [o \in Objs |-> IF o \in DOMAIN inflight.recs THEN NoRec ELSE prestamp[o]]
    /\ phase' = "idle" /\ inflight' = NoCommit
    /\ UNCHANGED <<facade, lab, holds, births, registrar, disk, scope, tid, edits>>

(* Only a Store has it.  New objects are unknown again, with the owner, the    *)
(* groups and the floors they had before registration; the persisted ones are  *)
(* read again.                                                               *)
discard ==
    /\ facade = "sync" /\ phase = "idle"
    /\ In({"new", "dirty", "deleted", "cancelled", "torn"}) # {}
    /\ LET back == In({"new", "cancelled", "torn"})
       IN  /\ state' = [o \in Objs |-> CASE o \in back -> "free"
                                         [] state[o] \in {"clean", "dirty", "deleted"} -> "absent"
                                         [] OTHER -> state[o]]
           /\ lab' = [o \in Objs |-> IF o \in back
                                     THEN [Relabelled(lab[o], prestamp[o])
                                             EXCEPT !.owner = prestamp[o].owner]
                                     ELSE IF state[o] = "free" THEN lab[o] ELSE BirthLabels]
           /\ holds' = [o \in Objs |-> IF o \in back \/ state[o] = "free" THEN holds[o] ELSE {}]
    /\ births' = [o \in Objs |-> NoRec] /\ prestamp' = births' /\ UNCHANGED registrar
    /\ idx' = NoIndex
    /\ UNCHANGED <<facade, disk, phase, inflight, scope, tid, edits>>

-----------------------------------------------------------------------------
(* Reading. *)

Ensured == IF idx = NoIndex THEN disk ELSE idx

(* In the registry, and not as a rolled-back insertion. *)
Registered(o) == state[o] \in {"clean", "dirty", "deleted"}

Reads(p, l) == can_read_row(p, l.owner, l.groups, l.rf)

(* A bug: the checkpoint judges the labels staged on the live object. *)
Bug_load_oid_deref(p, o) ==
    IF Registered(o) /\ Reads(p, lab[o]) THEN "instance"
    ELSE IF disk[o] = NoRec THEN "dangling"
    ELSE IF Reads(p, disk[o]) THEN "instance" ELSE "twin"

(* The checkpoint.  A live object is judged by the labels the index holds; one *)
(* the index does not know, or that is not live, by its record.               *)
_load_oid_deref(p, o) ==
    IF Registered(o) /\ (is_root(p) \/ Ensured[o] # NoRec)
    THEN IF is_root(p) \/ Reads(p, Ensured[o]) THEN "instance" ELSE "twin"
    ELSE IF disk[o] = NoRec THEN "dangling"
    ELSE IF Reads(p, disk[o]) THEN "instance" ELSE "twin"

(* Lazy.get of a handle made with Lazy.of *)
Lazy_get(p, o) ==
    CASE state[o] = "free" -> "instance"
      [] state[o] \in {"new", "torn"} -> IF Reads(p, lab[o]) THEN "instance" ELSE "twin"
      [] OTHER -> _load_oid_deref(p, o)

(* A registered object makes the checkpoint build the index. *)
EnsureIndex ==
    /\ OwnerFree /\ idx = NoIndex /\ \E o \in Objs : Registered(o)
    /\ idx' = disk
    /\ UNCHANGED <<facade, liveVars, disk, phase, inflight, scope, tid, edits>>

Materialized(o) ==
    /\ state' = [state EXCEPT ![o] = IF @ = "absent" THEN "clean" ELSE @]
    /\ lab' = [lab EXCEPT ![o] = IF state[o] = "absent" THEN disk[o] ELSE @]

Deref(p, o) ==
    /\ OwnerFree /\ state[o] = "absent" /\ _load_oid_deref(p, o) = "instance"
    /\ Materialized(o)
    /\ UNCHANGED <<facade, holds, births, prestamp, registrar, disk, idx, phase, inflight, scope, tid, edits>>

(* The registry holds clean objects weakly. *)
Collect(o) ==
    /\ state[o] = "clean" /\ (phase # "idle" => o \notin DOMAIN inflight.recs)
    /\ disk[o] # NoRec
    /\ state' = [state EXCEPT ![o] = "absent"]
    /\ holds' = [holds EXCEPT ![o] = {}] /\ lab' = [lab EXCEPT ![o] = BirthLabels]
    /\ UNCHANGED <<facade, births, prestamp, registrar, disk, idx, phase, inflight, scope, tid, edits>>

(* acting_as(uid): the committed registry row, read without the fence, refused *)
(* while it has uncommitted changes.                                          *)
acting_as(o) ==
    /\ OwnerFree /\ scope = NoScope /\ o \in Actors
    /\ Ensured[o] # NoRec /\ state[o] \in {"clean", "deleted", "absent"}
    /\ state[o] = "absent" => disk[o] # NoRec
    /\ Materialized(o)
    /\ idx' = Ensured
    /\ scope' = [uid |-> UidOf[o], memberships |-> lab'[o].memb]
    /\ UNCHANGED <<facade, holds, births, prestamp, registrar, disk, phase, inflight, tid, edits>>

LeaveScope ==
    /\ OwnerFree /\ scope # NoScope
    /\ scope' = NoScope
    /\ UNCHANGED <<facade, liveVars, disk, idx, phase, inflight, tid, edits>>

(* The process ends, or the store is closed and opened again. *)
Restart ==
    /\ state' = [o \in Objs |->
                    IF disk[o] # NoRec THEN "absent"
                    ELSE IF state[o] = "dead" \/ (phase # "idle" /\ inflight.before[o] # NoRec)
                    THEN "dead" ELSE "free"]
    /\ lab' = [o \in Objs |-> BirthLabels]
    /\ holds' = [o \in Objs |-> {}]
    /\ births' = [o \in Objs |-> NoRec] /\ prestamp' = births' /\ UNCHANGED registrar
    /\ idx' = NoIndex /\ phase' = "idle" /\ inflight' = NoCommit /\ scope' = NoScope
    /\ tid' = IF phase = "p2" THEN tid - 1 ELSE tid
    /\ UNCHANGED <<facade, disk, edits>>

-----------------------------------------------------------------------------
Init ==
    /\ facade \in Facades
    /\ state = [o \in Objs |-> "free"]
    /\ lab = [o \in Objs |-> BirthLabels]
    /\ holds = [o \in Objs |-> {}]
    /\ births = [o \in Objs |-> NoRec] /\ prestamp = births
    /\ registrar = [o \in Objs |-> 0]
    /\ disk = [o \in Objs |-> NoRec]
    /\ idx = NoIndex /\ phase = "idle" /\ inflight = NoCommit /\ scope = NoScope
    /\ tid = 0 /\ edits = 0

Stage ==
    \E o \in Objs :
        \/ \E g \in GroupIds, f \in Floors : share(o, g, f[1], f[2])
        \/ \E g \in GroupIds : unshare(o, g)
        \/ \E f \in Floors : protect(o, f[1], f[2])
        \/ \E uid \in Uids : Forge(o, uid)
        \/ \E m \in Grants : Grant(o, m)
        \/ \E c \in Objs : Hold(o, c)

Next ==
    \/ Stage
    \/ \E p \in Acting, o \in Objs : store(p, o) \/ Deref(p, o)
    \/ \E p \in Acting : P1Denied(p) \/ P1Capture(p)
    \/ P2Land \/ _p2_rollback \/ _p3_finalize \/ discard
    \/ \E o \in Objs : delete(o) \/ Collect(o) \/ acting_as(o)
    \/ EnsureIndex \/ LeaveScope \/ Restart

Spec == Init /\ [][Next]_vars

-----------------------------------------------------------------------------
(***************************************************************************)
(* The read fence.  While a commit is between P2 and P3 the store may answer *)
(* from the labels before it or after it; otherwise there is one committed   *)
(* set of labels.  A dereference gives the instance only if some committed   *)
(* labels let the principal read, and a twin only if some do not: never by   *)
(* the labels somebody staged on the live object, and whether or not it is   *)
(* live, indexed or deleted.  Root is given what is live, committed or not.   *)
(***************************************************************************)
CommittedLabels(o) ==
    ({disk[o]} \cup IF phase = "idle" THEN {} ELSE {inflight.before[o]}) \ {NoRec}

Fenced ==
    \A p \in Acting, o \in Objs : state[o] \notin {"free", "new", "torn"} =>
        /\ Lazy_get(p, o) = "instance" =>
               \/ is_root(p) /\ Registered(o)
               \/ \E l \in CommittedLabels(o) : Reads(p, l)
        /\ Lazy_get(p, o) = "twin" => \E l \in CommittedLabels(o) : ~Reads(p, l)

(***************************************************************************)
(* The write fence, the guarantee of curation: what replaces or deletes a    *)
(* record was committed by a principal whose authority, by the labels it     *)
(* replaces, reaches their write floor; nobody but root changes the owner.   *)
(***************************************************************************)
Curated ==
    [][\A o \in Objs : disk[o] # NoRec /\ disk'[o] # disk[o] =>
          \/ is_root(inflight.by)
          \/ /\ Clears(inflight.by, disk[o], disk[o].wf)
             /\ disk'[o] # NoRec => disk'[o].owner = disk[o].owner]_disk

(***************************************************************************)
(* Authority is conserved: while no given principal is root, whoever a       *)
(* session acts as holds in no group a level that nobody given held there.   *)
(***************************************************************************)
AuthorityConserved ==
    scope # NoScope /\ (\A p \in Claims : ~is_root(p)) =>
        \A g \in Groups(scope) : \E p \in Claims : level(p, g) >= scope.memberships[g]

(***************************************************************************)
(* An identity is durable before it acts: the memberships a session takes    *)
(* from the registry are those of a committed row.                          *)
(***************************************************************************)
DurableActs ==
    [][scope' \notin {scope, NoScope} =>
          \E o \in Actors : disk[o] # NoRec /\ scope'.memberships = disk[o].memb]_scope

(***************************************************************************)
(* A record is owned by the principal that stored it: its first commit does  *)
(* not give it to another, however the owner column was set by hand.         *)
(***************************************************************************)
BirthOwned ==
    [][\A o \in Objs : disk[o] = NoRec /\ disk'[o] # NoRec =>
          \/ is_root(inflight.by)
          \/ disk'[o].owner = registrar[o]]_disk

=============================================================================
