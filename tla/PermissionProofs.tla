-------------------------- MODULE PermissionProofs --------------------------
(***************************************************************************)
(* The fences of protected records, for every set of principals, objects,   *)
(* grants and events: a replaced record was cleared by its old labels, a     *)
(* dereference is judged by committed labels, and no session acts with       *)
(* authority nobody gave.                                                   *)
(***************************************************************************)
EXTENDS Permissions, TLAPS

-----------------------------------------------------------------------------
(* The store and its capture. *)

Unrecorded == {"free", "new", "torn", "cancelled"}
InRegistry == {"clean", "dirty", "deleted"}

TypeInv ==
    /\ state \in [Objs -> States]
    /\ DOMAIN lab = Objs
    /\ phase \in {"idle", "p2", "landed"}

(* What the store has not committed has no record. *)
RecordsInv == \A o \in Objs : state[o] \in Unrecorded => disk[o] = NoRec

(* A capture is of live objects; the backend is as it was before the capture   *)
(* until it lands, and then as the capture folds it.                          *)
CaptureInv ==
    phase # "idle" =>
        /\ DOMAIN inflight.recs \subseteq Objs /\ inflight.news \subseteq DOMAIN inflight.recs
        /\ \A o \in DOMAIN inflight.recs : state[o] \in InRegistry
        /\ \A o \in inflight.news : inflight.before[o] = NoRec
        /\ phase = "p2" => disk = inflight.before
        /\ phase = "landed" => disk = Folded(inflight.before, inflight)

(* What a capture of p may do to the record it finds: nothing is still there, *)
(* or p clears its write floor, and the owner stays.                          *)
Allowed(p, o, f) ==
    \/ disk[o] = NoRec
    \/ /\ Clears(p, disk[o], disk[o].wf)
       /\ o \in DOMAIN f.recs => f.recs[o].owner = disk[o].owner

(* The gate has passed on every record that a capture replaces or deletes. *)
GateInv ==
    phase = "p2" => \/ is_root(inflight.by)
                    \/ \A o \in DOMAIN inflight.recs \cup inflight.dels :
                           Allowed(inflight.by, o, inflight)

(* The index holds the committed labels, or those before a landed commit. *)
IdxInv == \/ idx = NoIndex \/ idx = disk
          \/ phase = "landed" /\ idx = inflight.before

StoreInv == TypeInv /\ RecordsInv /\ CaptureInv /\ GateInv /\ IdxInv

-----------------------------------------------------------------------------
(* Registration. *)

LEMMA FreshWasFree == ASSUME NEW S, NEW o \in FreshIn(S)
                      PROVE  o \in Objs /\ state[o] = "free"
  BY DEF FreshIn, Walk

LEMMA RegisteredStates ==
  ASSUME NEW p, NEW S, NEW o \in Objs
  PROVE  /\ o \in FreshIn(S) => _register_graph(p, S).state[o] = "new" /\ state[o] = "free"
         /\ o \notin FreshIn(S) => /\ _register_graph(p, S).state[o] = state[o]
                                   /\ _register_graph(p, S).lab[o] = lab[o]
<1>1. _register_graph(p, S).state = [u \in Objs |-> IF u \in FreshIn(S) THEN "new" ELSE state[u]]
  BY DEF _register_graph
<1>2. _register_graph(p, S).lab = _stamp_perm_labels(p, S)
  BY DEF _register_graph
<1>3. o \notin FreshIn(S) => _stamp_perm_labels(p, S)[o] = lab[o]
  BY DEF _stamp_perm_labels
<1> QED BY <1>1, <1>2, <1>3, FreshWasFree

LEMMA RegisteredShape ==
  ASSUME NEW p, NEW S, TypeInv
  PROVE  /\ _register_graph(p, S).state \in [Objs -> States]
         /\ DOMAIN _register_graph(p, S).lab = Objs
<1>1. _register_graph(p, S).state = [u \in Objs |-> IF u \in FreshIn(S) THEN "new" ELSE state[u]]
  BY DEF _register_graph
<1>2. _register_graph(p, S).lab = _stamp_perm_labels(p, S)
  BY DEF _register_graph
<1>3. DOMAIN _stamp_perm_labels(p, S) = Objs
  BY DEF _stamp_perm_labels
<1> QED BY <1>1, <1>2, <1>3 DEF TypeInv, States

-----------------------------------------------------------------------------
(* The steps that leave the backend and the capture alone. *)

(* What they may do to one object. *)
Mild(o) ==
    \/ state'[o] = state[o]
    \/ state[o] = "free" /\ state'[o] = "new"
    \/ state[o] = "new" /\ state'[o] = "cancelled"
    \/ state[o] \in {"clean", "dirty"} /\ state'[o] \in {"dirty", "deleted"}
    \/ state[o] = "absent" /\ state'[o] = "clean"
    \/ /\ state[o] = "clean" /\ state'[o] = "absent"
       /\ phase # "idle" => o \notin DOMAIN inflight.recs

Quiet ==
    /\ disk' = disk /\ phase' = phase /\ inflight' = inflight
    /\ idx' = idx \/ idx' = disk
    /\ state' \in [Objs -> States] /\ DOMAIN lab' = Objs
    /\ \A o \in Objs : Mild(o)

(* Rows of labels with integer levels, as far as the gate of memberships looks *)
(* into them; only a grant changes the memberships of a live object.            *)
Levels(m) == \A g \in DOMAIN m : m[g] \in Int
Row(l) == "memb" \in DOMAIN l /\ Levels(l.memb)

LEMMA RowRelabelled ==
  ASSUME NEW l, Row(l)
  PROVE  /\ \A r, w, G : /\ Row([l EXCEPT !.rf = r, !.wf = w, !.groups = G])
                         /\ [l EXCEPT !.rf = r, !.wf = w, !.groups = G].memb = l.memb
         /\ \A r, w : Row([l EXCEPT !.rf = r, !.wf = w])
         /\ \A G : Row([l EXCEPT !.groups = G])
         /\ \A u : Row([l EXCEPT !.owner = u]) /\ [l EXCEPT !.owner = u].memb = l.memb
         /\ \A c : Row(Relabelled(l, c)) /\ Relabelled(l, c).memb = l.memb
  BY DEF Row, Levels, Relabelled

LEMMA TouchQuiet == ASSUME TypeInv, NEW o \in Objs, NEW l, Touch(o, l)
                    PROVE  Quiet
<1>1. state' = [state EXCEPT ![o] = IF @ = "clean" THEN "dirty" ELSE @]
      /\ lab' = [lab EXCEPT ![o] = l]
  BY DEF Touch
<1>2. state' \in [Objs -> States] /\ DOMAIN lab' = Objs
  BY <1>1 DEF TypeInv, States
<1>3. ASSUME NEW u \in Objs PROVE Mild(u)
  BY <1>1 DEF TypeInv, Mild
<1> QED BY <1>2, <1>3 DEF Quiet, Touch

LEMMA StageTouches ==
  ASSUME Stage
  PROVE  \E o \in Objs : \E l : Touch(o, l) /\ (Row(lab[o]) => Row(l))
<1>1. PICK o \in Objs :
          \/ \E g \in GroupIds, f \in Floors : share(o, g, f[1], f[2])
          \/ \E g \in GroupIds : unshare(o, g)
          \/ \E f \in Floors : protect(o, f[1], f[2])
          \/ \E uid \in Uids : Forge(o, uid)
          \/ \E m \in Grants : Grant(o, m)
          \/ \E c \in Objs : Hold(o, c)
  BY DEF Stage
<1>2. ASSUME NEW g, NEW f, share(o, g, f[1], f[2]) PROVE \E l : Touch(o, l) /\ (Row(lab[o]) => Row(l))
  <2> DEFINE l == [lab[o] EXCEPT !.rf = f[1], !.wf = f[2], !.groups = @ \cup {g}]
  <2>1. Touch(o, l)
    BY <1>2 DEF share
  <2>2. Row(lab[o]) => Row(l)
    BY DEF Row
  <2> QED BY <2>1, <2>2
<1>3. ASSUME NEW g, unshare(o, g) PROVE \E l : Touch(o, l) /\ (Row(lab[o]) => Row(l))
  BY <1>3, RowRelabelled DEF unshare
<1>4. ASSUME NEW f, protect(o, f[1], f[2]) PROVE \E l : Touch(o, l) /\ (Row(lab[o]) => Row(l))
  BY <1>4, RowRelabelled DEF protect
<1>5. ASSUME NEW uid, Forge(o, uid) PROVE \E l : Touch(o, l) /\ (Row(lab[o]) => Row(l))
  BY <1>5, RowRelabelled DEF Forge
<1>6. ASSUME NEW m \in Grants, Grant(o, m) PROVE \E l : Touch(o, l) /\ (Row(lab[o]) => Row(l))
  <2>1. Row(lab[o]) => Row([lab[o] EXCEPT !.memb = m])
    BY PermissionLevels DEF Row, Levels
  <2> QED BY <1>6, <2>1 DEF Grant
<1>7. ASSUME NEW c, Hold(o, c) PROVE \E l : Touch(o, l) /\ (Row(lab[o]) => Row(l))
  BY <1>7 DEF Hold
<1> QED BY <1>1, <1>2, <1>3, <1>4, <1>5, <1>6, <1>7

LEMMA BecomesQuiet ==
  ASSUME TypeInv, NEW p, NEW S, Becomes(_register_graph(p, S)),
         UNCHANGED <<disk, idx, phase, inflight>>
  PROVE  Quiet
<1>1. state' \in [Objs -> States] /\ DOMAIN lab' = Objs
  BY RegisteredShape DEF Becomes
<1>2. ASSUME NEW o \in Objs PROVE Mild(o)
  BY RegisteredStates DEF Becomes, Mild
<1> QED BY <1>1, <1>2 DEF Quiet

LEMMA MaterializedQuiet ==
  ASSUME TypeInv, NEW o \in Objs, Materialized(o),
         UNCHANGED <<disk, phase, inflight>>, idx' = idx \/ idx' = disk
  PROVE  Quiet
<1>1. state' \in [Objs -> States] /\ DOMAIN lab' = Objs
  BY DEF Materialized, TypeInv, States
<1>2. ASSUME NEW u \in Objs PROVE Mild(u)
  BY DEF Materialized, TypeInv, Mild
<1> QED BY <1>1, <1>2 DEF Quiet

LEMMA DeleteQuiet == ASSUME TypeInv, NEW o \in Objs, delete(o) PROVE Quiet
<1>1. state' = [state EXCEPT ![o] = IF @ = "new" THEN "cancelled" ELSE "deleted"]
      /\ lab' = lab /\ state[o] \in {"new", "clean", "dirty"}
  BY DEF delete
<1>2. state' \in [Objs -> States] /\ DOMAIN lab' = Objs
  BY <1>1 DEF TypeInv, States
<1>3. ASSUME NEW u \in Objs PROVE Mild(u)
  BY <1>1 DEF TypeInv, Mild
<1> QED BY <1>2, <1>3 DEF Quiet, delete

LEMMA CollectQuiet == ASSUME TypeInv, NEW o \in Objs, Collect(o) PROVE Quiet
<1>1. state' = [state EXCEPT ![o] = "absent"] /\ lab' = [lab EXCEPT ![o] = BirthLabels]
      /\ state[o] = "clean" /\ (phase # "idle" => o \notin DOMAIN inflight.recs)
  BY DEF Collect
<1>2. state' \in [Objs -> States] /\ DOMAIN lab' = Objs
  BY <1>1 DEF TypeInv, States
<1>3. ASSUME NEW u \in Objs PROVE Mild(u)
  BY <1>1 DEF TypeInv, Mild
<1> QED BY <1>2, <1>3 DEF Quiet, Collect

LEMMA StillQuiet ==
  ASSUME TypeInv, UNCHANGED <<liveVars, disk, phase, inflight>>, idx' = idx \/ idx' = disk
  PROVE  Quiet
  BY DEF Quiet, TypeInv, Mild, liveVars

LEMMA QuietKeeps == ASSUME StoreInv, Quiet PROVE StoreInv'
<1>1. TypeInv'
  BY DEF StoreInv, TypeInv, Quiet
<1>2. RecordsInv'
  BY DEF StoreInv, RecordsInv, Quiet, Mild, Unrecorded
<1>3. CaptureInv'
  <2>1. ASSUME phase # "idle", NEW o \in DOMAIN inflight.recs
        PROVE  state'[o] \in InRegistry
    <3>1. o \in Objs /\ state[o] \in InRegistry
      BY <2>1 DEF StoreInv, CaptureInv
    <3>2. Mild(o)
      BY <3>1 DEF Quiet
    <3> QED BY <2>1, <3>1, <3>2 DEF Mild, InRegistry
  <2>2. phase' = phase /\ inflight' = inflight /\ disk' = disk
    BY DEF Quiet
  <2>3. Folded(inflight.before, inflight)' = Folded(inflight.before, inflight)
    BY <2>2 DEF Folded
  <2> QED BY <2>1, <2>2, <2>3 DEF StoreInv, CaptureInv
<1>4. GateInv'
  BY DEF StoreInv, GateInv, Allowed, Quiet, Clears
<1>5. IdxInv'
  BY DEF StoreInv, IdxInv, Quiet
<1> QED BY <1>1, <1>2, <1>3, <1>4, <1>5 DEF StoreInv

-----------------------------------------------------------------------------
(* The commit. *)

LEMMA CaptureKeeps == ASSUME StoreInv, NEW p, P1Capture(p) PROVE StoreInv'
<1> DEFINE w == _register_graph(p, Buffered)
           pend == {o \in Objs : w.state[o] \in {"new", "dirty"}}
           dels == In({"deleted", "torn"})
<1>1. /\ _check_write_gate(p, w)
      /\ inflight' = [by |-> p, before |-> disk, dels |-> dels,
                      recs |-> [o \in pend |-> w.lab[o]],
                      news |-> {o \in pend : w.state[o] = "new"}]
      /\ state' = [o \in Objs |-> CASE o \in pend -> "clean"
                                    [] w.state[o] = "cancelled" -> "dead"
                                    [] OTHER -> w.state[o]]
      /\ lab' = w.lab /\ phase = "idle" /\ phase' = "p2" /\ disk' = disk /\ idx' = idx
  BY DEF P1Capture
<1>2. TypeInv /\ RecordsInv /\ (idx = NoIndex \/ idx = disk)
  BY <1>1 DEF StoreInv, IdxInv
<1>3. w.state \in [Objs -> States] /\ DOMAIN w.lab = Objs
  BY <1>2, RegisteredShape
<1>4. \A o \in Objs : w.state[o] = state[o] \/ (w.state[o] = "new" /\ state[o] = "free")
  BY RegisteredStates
<1>5. /\ inflight'.by = p /\ inflight'.before = disk /\ inflight'.dels = dels
      /\ DOMAIN inflight'.recs = pend /\ \A o \in pend : inflight'.recs[o] = w.lab[o]
      /\ inflight'.news = {o \in pend : w.state[o] = "new"}
  BY <1>1
<1>6. pend \subseteq Objs /\ dels \subseteq {o \in Objs : state[o] \in {"deleted", "torn"}}
      /\ \A o \in pend : w.state[o] \in {"new", "dirty"}
  BY DEF In
<1> HIDE DEF w, dels
<1>7. TypeInv'
  BY <1>1, <1>3 DEF TypeInv, States
<1>8. RecordsInv'
  <2>1. ASSUME NEW o \in Objs, state'[o] \in Unrecorded PROVE state[o] \in Unrecorded
    BY <2>1, <1>1, <1>4 DEF Unrecorded
  <2> QED BY <2>1, <1>1, <1>2 DEF RecordsInv
<1>9. CaptureInv'
  <2>1. \A o \in pend : state'[o] = "clean"
    BY <1>1, <1>6
  <2>2. ASSUME NEW o \in inflight'.news PROVE disk[o] = NoRec
    BY <1>2, <1>4, <1>5, <1>6 DEF RecordsInv, Unrecorded
  <2> HIDE DEF pend
  <2> QED BY <2>1, <2>2, <1>1, <1>5, <1>6 DEF CaptureInv, InRegistry
<1>10. GateInv'
  <2>1. CASE is_root(p)
    BY <2>1, <1>5 DEF GateInv
  <2>2. CASE ~is_root(p)
    <3>1. /\ \A o \in Objs : w.state[o] = "dirty" => _gate_persisted_record(p, w.lab[o], disk[o])
          /\ \A o \in Objs : w.state[o] = "deleted" => _gate_delete(p, disk[o])
          /\ In({"torn"}) = {}
      BY <1>1, <2>2 DEF _check_write_gate
    <3>2. ASSUME NEW o \in pend, w.state[o] = "new" PROVE disk[o] = NoRec
      BY <3>2, <1>2, <1>4, <1>6 DEF RecordsInv, Unrecorded
    <3>3. ASSUME NEW o \in pend, w.state[o] = "dirty"
          PROVE  Clears(p, disk[o], disk[o].wf) /\ w.lab[o].owner = disk[o].owner
      BY <3>1, <3>3, <1>6 DEF _gate_persisted_record
    <3>4. ASSUME NEW o \in dels
          PROVE  w.state[o] = "deleted" /\ o \in Objs /\ Clears(p, disk[o], disk[o].wf) /\ o \notin pend
      <4>1. o \in Objs /\ state[o] = "deleted"
        BY <3>1, <1>6 DEF In
      <4>2. w.state[o] = "deleted"
        BY <4>1, <1>4
      <4> QED BY <4>1, <4>2, <3>1 DEF _gate_delete
    <3>5. ASSUME NEW o \in pend \cup dels
          PROVE  \/ disk[o] = NoRec
                 \/ /\ Clears(p, disk[o], disk[o].wf)
                    /\ o \in pend => inflight'.recs[o].owner = disk[o].owner
      BY <3>2, <3>3, <3>4, <1>5, <1>6
    <3> HIDE DEF pend
    <3>6. \A o \in pend \cup dels : Allowed(p, o, inflight)'
      BY <3>5, <1>1, <1>5 DEF Allowed, Clears
    <3> QED BY <3>6, <1>5 DEF GateInv
  <2> QED BY <2>1, <2>2
<1>11. IdxInv'
  BY <1>1, <1>2 DEF IdxInv
<1> QED BY <1>7, <1>8, <1>9, <1>10, <1>11 DEF StoreInv

LEMMA LandKeeps == ASSUME StoreInv, P2Land PROVE StoreInv'
<1>1. /\ phase = "p2" /\ phase' = "landed" /\ disk' = Folded(disk, inflight)
      /\ state' = state /\ lab' = lab /\ idx' = idx /\ inflight' = inflight
  BY DEF P2Land, liveVars
<1>2. TypeInv'
  BY <1>1 DEF StoreInv, TypeInv
<1>3. RecordsInv'
  <2>1. ASSUME NEW o \in Objs, state[o] \in Unrecorded PROVE disk'[o] = NoRec
    <3>1. o \notin DOMAIN inflight.recs
      BY <2>1, <1>1 DEF StoreInv, CaptureInv, Unrecorded, InRegistry
    <3>2. disk[o] = NoRec
      BY <2>1 DEF StoreInv, RecordsInv
    <3> QED BY <3>1, <3>2, <1>1 DEF Folded
  <2> QED BY <2>1, <1>1 DEF RecordsInv
<1>4. disk = inflight.before /\ CaptureInv
  BY <1>1 DEF StoreInv, CaptureInv
<1>5. CaptureInv'
  <2>1. Folded(inflight.before, inflight)' = Folded(inflight.before, inflight)
    BY <1>1 DEF Folded
  <2> QED BY <2>1, <1>1, <1>4 DEF CaptureInv
<1>6. GateInv'
  BY <1>1 DEF GateInv
<1>7. IdxInv'
  BY <1>1, <1>4 DEF StoreInv, IdxInv
<1> QED BY <1>2, <1>3, <1>5, <1>6, <1>7 DEF StoreInv

LEMMA RollbackKeeps == ASSUME StoreInv, _p2_rollback PROVE StoreInv'
<1>1. /\ phase = "p2" /\ phase' = "idle" /\ disk' = disk /\ lab' = lab /\ idx' = idx
      /\ state' = [o \in Objs |->
                    CASE o \in inflight.news -> IF state[o] = "deleted" THEN "torn" ELSE "new"
                      [] o \in DOMAIN inflight.recs \ inflight.news ->
                            IF state[o] = "deleted" THEN "deleted" ELSE "dirty"
                      [] OTHER -> state[o]]
  BY DEF _p2_rollback
<1>2. TypeInv'
  BY <1>1 DEF StoreInv, TypeInv, States
<1>3. RecordsInv'
  <2>1. ASSUME NEW o \in inflight.news PROVE disk[o] = NoRec
    BY <1>1 DEF StoreInv, CaptureInv
  <2>2. ASSUME NEW o \in Objs, state'[o] \in Unrecorded, o \notin inflight.news
        PROVE  state[o] \in Unrecorded
    BY <2>2, <1>1 DEF Unrecorded
  <2> QED BY <2>1, <2>2, <1>1 DEF StoreInv, RecordsInv
<1>4. CaptureInv' /\ GateInv'
  BY <1>1 DEF CaptureInv, GateInv
<1>5. IdxInv'
  BY <1>1 DEF StoreInv, IdxInv
<1> QED BY <1>2, <1>3, <1>4, <1>5 DEF StoreInv

(* Folding a capture twice is folding it once. *)
LEMMA FoldedTwice == ASSUME NEW c, NEW f PROVE Folded(Folded(c, f), f) = Folded(c, f)
  BY DEF Folded

LEMMA FinalizeKeeps == ASSUME StoreInv, _p3_finalize PROVE StoreInv'
<1>1. /\ phase = "landed" /\ phase' = "idle" /\ disk' = disk /\ lab' = lab
      /\ idx' = IF idx = NoIndex THEN NoIndex ELSE Folded(idx, inflight)
      /\ state' = [o \in Objs |-> IF o \in inflight.dels THEN "dead" ELSE state[o]]
  BY DEF _p3_finalize
<1>2. TypeInv'
  BY <1>1 DEF StoreInv, TypeInv, States
<1>3. RecordsInv'
  BY <1>1 DEF StoreInv, RecordsInv, Unrecorded
<1>4. CaptureInv' /\ GateInv'
  BY <1>1 DEF CaptureInv, GateInv
<1>5. disk = Folded(inflight.before, inflight)
  BY <1>1 DEF StoreInv, CaptureInv
<1>6. Folded(disk, inflight) = disk
  BY <1>5, FoldedTwice
<1>7. IdxInv'
  BY <1>1, <1>5, <1>6 DEF StoreInv, IdxInv
<1> QED BY <1>2, <1>3, <1>4, <1>7 DEF StoreInv

LEMMA DiscardKeeps == ASSUME StoreInv, discard PROVE StoreInv'
<1> DEFINE back == In({"new", "cancelled", "torn"})
<1>1. /\ phase = "idle" /\ phase' = phase /\ disk' = disk /\ idx' = NoIndex /\ DOMAIN lab' = Objs
      /\ state' = [o \in Objs |-> CASE o \in back -> "free"
                                    [] state[o] \in {"clean", "dirty", "deleted"} -> "absent"
                                    [] OTHER -> state[o]]
  BY DEF discard
<1>2. TypeInv'
  BY <1>1 DEF StoreInv, TypeInv, States
<1>3. RecordsInv'
  <2>1. ASSUME NEW o \in Objs, state'[o] \in Unrecorded PROVE state[o] \in Unrecorded
    BY <2>1, <1>1 DEF Unrecorded, In
  <2> QED BY <2>1, <1>1 DEF StoreInv, RecordsInv
<1>4. CaptureInv' /\ GateInv' /\ IdxInv'
  BY <1>1 DEF CaptureInv, GateInv, IdxInv
<1> QED BY <1>2, <1>3, <1>4 DEF StoreInv

LEMMA RestartKeeps == ASSUME StoreInv, Restart PROVE StoreInv'
<1>1. /\ phase' = "idle" /\ disk' = disk /\ idx' = NoIndex /\ DOMAIN lab' = Objs
      /\ state' = [o \in Objs |->
                    IF disk[o] # NoRec THEN "absent"
                    ELSE IF state[o] = "dead" \/ (phase # "idle" /\ inflight.before[o] # NoRec)
                    THEN "dead" ELSE "free"]
  BY DEF Restart
<1>2. TypeInv'
  BY <1>1 DEF TypeInv, States
<1>3. RecordsInv'
  BY <1>1 DEF RecordsInv, Unrecorded
<1>4. CaptureInv' /\ GateInv' /\ IdxInv'
  BY <1>1 DEF CaptureInv, GateInv, IdxInv
<1> QED BY <1>2, <1>3, <1>4 DEF StoreInv

-----------------------------------------------------------------------------
LEMMA NextSplit ==
  ASSUME TypeInv, [Next]_vars
  PROVE  \/ Quiet \/ \E p \in Acting : P1Capture(p)
         \/ P2Land \/ _p2_rollback \/ _p3_finalize \/ discard \/ Restart
<1>1. CASE Stage
  <2>1. PICK o \in Objs : \E l : Touch(o, l)
    BY <1>1, StageTouches
  <2> QED BY <2>1, TouchQuiet
<1>2. ASSUME NEW p, NEW o, store(p, o) PROVE Quiet
  BY <1>2, BecomesQuiet DEF store
<1>3. ASSUME NEW p, P1Denied(p) PROVE Quiet
  BY <1>3, BecomesQuiet DEF P1Denied
<1>4. ASSUME NEW p, NEW o \in Objs, Deref(p, o) PROVE Quiet
  BY <1>4, MaterializedQuiet DEF Deref
<1>5. ASSUME NEW o \in Objs, acting_as(o) PROVE Quiet
  BY <1>5, MaterializedQuiet DEF acting_as, Ensured
<1>6. CASE EnsureIndex \/ LeaveScope
  BY <1>6, StillQuiet DEF EnsureIndex, LeaveScope
<1>7. CASE UNCHANGED vars
  BY <1>7, StillQuiet DEF vars
<1> QED BY <1>1, <1>2, <1>3, <1>4, <1>5, <1>6, <1>7, DeleteQuiet, CollectQuiet DEF Next

LEMMA StoreInit == Init => StoreInv
  BY DEF Init, StoreInv, TypeInv, RecordsInv, CaptureInv, GateInv, IdxInv, States

LEMMA StoreStep == StoreInv /\ [Next]_vars => StoreInv'
<1> SUFFICES ASSUME StoreInv, [Next]_vars PROVE StoreInv'
  OBVIOUS
<1>1. TypeInv
  BY DEF StoreInv
<1> QED BY <1>1, NextSplit, QuietKeeps, CaptureKeeps, LandKeeps, RollbackKeeps, FinalizeKeeps,
           DiscardKeeps, RestartKeeps

LEMMA StoreAlways == Spec => []StoreInv
  BY StoreInit, StoreStep, PTL DEF Spec

-----------------------------------------------------------------------------
(* The write fence. *)

CuratedStep ==
    \A o \in Objs : disk[o] # NoRec /\ disk'[o] # disk[o] =>
        \/ is_root(inflight.by)
        \/ /\ Clears(inflight.by, disk[o], disk[o].wf)
           /\ disk'[o] # NoRec => disk'[o].owner = disk[o].owner

LEMMA CuratedNext == StoreInv /\ [Next]_vars => [CuratedStep]_disk
<1> SUFFICES ASSUME StoreInv, [Next]_vars PROVE CuratedStep \/ disk' = disk
  OBVIOUS
<1>1. TypeInv /\ GateInv
  BY DEF StoreInv
<1>2. CASE P2Land
  <2>1. phase = "p2" /\ disk' = Folded(disk, inflight)
    BY <1>2 DEF P2Land
  <2>2. ASSUME NEW o \in Objs, disk[o] # NoRec, disk'[o] # disk[o], ~is_root(inflight.by)
        PROVE  /\ Clears(inflight.by, disk[o], disk[o].wf)
               /\ disk'[o] # NoRec => disk'[o].owner = disk[o].owner
    <3>1. o \in DOMAIN inflight.recs \cup inflight.dels
      BY <2>1, <2>2 DEF Folded
    <3>2. Allowed(inflight.by, o, inflight)
      BY <3>1, <2>1, <2>2, <1>1 DEF GateInv
    <3>3. o \in DOMAIN inflight.recs => disk'[o] = inflight.recs[o]
      BY <2>1 DEF Folded
    <3>4. o \notin DOMAIN inflight.recs => disk'[o] = NoRec
      BY <2>1, <3>1 DEF Folded
    <3> QED BY <3>2, <3>3, <3>4, <2>2 DEF Allowed
  <2> QED BY <2>2 DEF CuratedStep
<1>3. CASE ~P2Land
  BY <1>1, <1>3, NextSplit DEF Quiet, P1Capture, _p2_rollback, _p3_finalize, discard, Restart
<1> QED BY <1>2, <1>3

(***************************************************************************)
(* The gate of P1 decides on the labels persisted when it runs, and P2       *)
(* applies the capture later: no edit, registration, delete or failed commit  *)
(* in between makes it replace a record its principal could not clear.        *)
(***************************************************************************)
THEOREM PermissionCurated == Spec => Curated
<1>1. StoreInv /\ [Next]_vars => [CuratedStep]_disk
  BY CuratedNext
<1>2. Spec => [][CuratedStep]_disk
  BY <1>1, StoreAlways, PTL DEF Spec
<1> QED BY <1>2 DEF Curated, CuratedStep

-----------------------------------------------------------------------------
(* The read fence. *)

LEMMA EnsuredCommitted ==
  ASSUME StoreInv, NEW o \in Objs, Ensured[o] # NoRec
  PROVE  Ensured[o] \in CommittedLabels(o)
<1>1. IdxInv
  BY DEF StoreInv
<1>2. CASE Ensured = disk
  BY <1>2 DEF CommittedLabels
<1>3. CASE phase = "landed" /\ Ensured = inflight.before
  BY <1>3 DEF CommittedLabels
<1> QED BY <1>1, <1>2, <1>3 DEF IdxInv, Ensured

LEMMA StoreFenced == StoreInv => Fenced
<1> SUFFICES ASSUME StoreInv, NEW p \in Acting, NEW o \in Objs,
                    state[o] \notin {"free", "new", "torn"}
             PROVE  /\ Lazy_get(p, o) = "instance" =>
                           \/ is_root(p) /\ Registered(o)
                           \/ \E l \in CommittedLabels(o) : Reads(p, l)
                    /\ Lazy_get(p, o) = "twin" => \E l \in CommittedLabels(o) : ~Reads(p, l)
  BY DEF Fenced
<1>1. Lazy_get(p, o) = _load_oid_deref(p, o)
  BY DEF Lazy_get
<1>2. disk[o] # NoRec => disk[o] \in CommittedLabels(o)
  BY DEF CommittedLabels
<1>3. CASE Registered(o) /\ is_root(p)
  BY <1>1, <1>3 DEF _load_oid_deref
<1>4. CASE Registered(o) /\ ~is_root(p) /\ Ensured[o] # NoRec
  <2>1. Ensured[o] \in CommittedLabels(o)
    BY <1>4, EnsuredCommitted
  <2>2. Lazy_get(p, o) = IF Reads(p, Ensured[o]) THEN "instance" ELSE "twin"
    BY <1>1, <1>4 DEF _load_oid_deref
  <2> QED BY <2>1, <2>2
<1>5. CASE ~(Registered(o) /\ (is_root(p) \/ Ensured[o] # NoRec))
  <2>1. Lazy_get(p, o) = IF disk[o] = NoRec THEN "dangling"
                         ELSE IF Reads(p, disk[o]) THEN "instance" ELSE "twin"
    BY <1>1, <1>5 DEF _load_oid_deref
  <2> QED BY <2>1, <1>2
<1> QED BY <1>3, <1>4, <1>5

(***************************************************************************)
(* Whatever is staged, indexed, in flight or rolled back, the checkpoint of a *)
(* dereference answers by labels that a commit put on the backend.            *)
(***************************************************************************)
THEOREM PermissionFenced == Spec => []Fenced
  BY StoreAlways, StoreFenced, PTL

-----------------------------------------------------------------------------
(* Conservation of authority, while no verified principal is root and no       *)
(* registry row is deleted.                                                   *)

NoRootGiven == \A p \in Claims : ~is_root(p)

(* Somebody given holds each level of m. *)
Conserved(m) ==
    /\ Levels(m) /\ Claims # {}
    /\ \A g \in DOMAIN m : \E p \in Claims : level(p, g) >= m[g]

RowsInv ==
    /\ \A o \in Objs : Row(lab[o]) /\ (disk[o] # NoRec => Row(disk[o]))
    /\ phase = "p2" => \A o \in DOMAIN inflight.recs : Row(inflight.recs[o])

(* Of an Actor row: its committed memberships are conserved, those of a clean   *)
(* instance and of a capture too; it is never deleted.                        *)
ActorInv(o) ==
    /\ state[o] \notin {"deleted", "torn", "cancelled"}
    /\ disk[o] # NoRec => Conserved(disk[o].memb)
    /\ state[o] \in {"clean", "dirty", "absent"} =>
           Conserved(disk[o].memb) \/ (phase = "p2" /\ o \in inflight.news)
    /\ state[o] = "clean" => Conserved(lab[o].memb)
    /\ phase = "p2" => /\ o \notin inflight.dels
                       /\ o \in DOMAIN inflight.recs => Conserved(inflight.recs[o].memb)

ScopeInv == scope # NoScope => Conserved(scope.memberships)

ActorsInv == \A o \in Actors : ActorInv(o)

AuthorityInv == StoreInv /\ RowsInv /\ ActorsInv /\ ScopeInv

LEMMA ActorsAreObjects == Actors \subseteq Objs
  BY PermissionConstants

(* Each level of a principal that acts is held by one that was given. *)
LEMMA ActingLevels ==
  ASSUME ScopeInv, NEW q \in Acting
  PROVE  \A g : level(q, g) \in Int /\ \E p \in Claims : level(p, g) \in Int /\ level(p, g) >= level(q, g)
<1>1. ASSUME NEW p \in Claims, NEW g
      PROVE  level(p, g) \in Int /\ level(p, g) >= (IF g = WORLD THEN VIEWER ELSE NO_STANDING)
  BY PermissionLevels DEF level, WORLD, VIEWER, NO_STANDING
<1>2. CASE q \in Claims
  BY <1>1, <1>2
<1>3. CASE q = scope /\ scope # NoScope
  <2>1. Conserved(q.memberships)
    BY <1>3 DEF ScopeInv
  <2>2. ASSUME NEW g \in Groups(q)
        PROVE  level(q, g) \in Int /\ \E p \in Claims : level(p, g) >= level(q, g)
    BY <2>1 DEF Conserved, Levels, Groups, level
  <2>3. ASSUME NEW g, g \notin Groups(q)
        PROVE  level(q, g) \in Int /\ \E p \in Claims : level(p, g) >= level(q, g)
    <3>1. PICK p \in Claims : TRUE
      BY <2>1 DEF Conserved
    <3>2. level(q, g) = (IF g = WORLD THEN VIEWER ELSE NO_STANDING)
      BY <2>3 DEF level
    <3>3. level(q, g) \in Int
      BY <3>2 DEF VIEWER, NO_STANDING
    <3> QED BY <3>1, <3>2, <3>3, <1>1
  <2> QED BY <2>2, <2>3, <1>1
<1> QED BY <1>2, <1>3 DEF Acting

LEMMA ActingNotRoot == ASSUME NoRootGiven, ScopeInv, NEW q \in Acting PROVE ~is_root(q)
<1>1. CASE q \in Claims
  BY <1>1 DEF NoRootGiven
<1>2. CASE q \notin Claims
  <2>1. PICK p \in Claims : level(p, WORLD) \in Int /\ level(p, WORLD) >= level(q, WORLD)
    BY ActingLevels
  <2>2. level(q, WORLD) \in Int
    BY ActingLevels
  <2>3. level(p, WORLD) < EXECUTIVE
    BY <2>1, PermissionLevels DEF NoRootGiven, is_root, EXECUTIVE
  <2> QED BY <2>1, <2>2, <2>3 DEF is_root, EXECUTIVE
<1> QED BY <1>1, <1>2

(* What the gate lets a principal put into a row is conserved. *)
LEMMA GateConserves ==
  ASSUME ScopeInv, NEW q \in Acting, NEW m, Levels(m), NEW prior,
         _gate_actor_memberships(q, m, prior),
         prior = NoMemberships \/ Conserved(prior)
  PROVE  Conserved(m)
<1>1. Claims # {}
  <2>1. PICK p \in Claims : level(p, WORLD) \in Int
    BY ActingLevels
  <2> QED BY <2>1
<1>2. ASSUME NEW g \in DOMAIN m PROVE \E p \in Claims : level(p, g) >= m[g]
  <2>1. m[g] \in Int
    BY DEF Levels
  <2>2. CASE g \in DOMAIN prior /\ m[g] = prior[g]
    BY <2>2 DEF NoMemberships, Conserved
  <2>3. CASE m[g] <= level(q, g)
    <3>1. PICK p \in Claims : level(p, g) \in Int /\ level(p, g) >= level(q, g)
      BY ActingLevels
    <3>2. level(q, g) \in Int
      BY ActingLevels
    <3> QED BY <2>1, <2>3, <3>1, <3>2
  <2> QED BY <2>2, <2>3 DEF _gate_actor_memberships
<1> QED BY <1>1, <1>2 DEF Conserved

LEMMA ScopeAuthority == ASSUME ScopeInv PROVE AuthorityConserved
  BY DEF ScopeInv, AuthorityConserved, Conserved, Groups

-----------------------------------------------------------------------------
(* Rows stay rows. *)

LEMMA BirthIsRow == Row(BirthLabels)
  BY DEF Row, BirthLabels, NoMemberships, Levels

LEMMA RegisteredRow ==
  ASSUME NEW p, NEW S, NEW o \in Objs, Row(lab[o])
  PROVE  Row(_register_graph(p, S).lab[o])
<1>1. _register_graph(p, S).lab = _stamp_perm_labels(p, S)
  BY DEF _register_graph
<1>2. _stamp_perm_labels(p, S)[o] =
        IF o \in FreshIn(S) THEN [Relabelled(lab[o], BirthSource(S)[o]) EXCEPT !.owner = p.uid]
        ELSE lab[o]
  BY DEF _stamp_perm_labels
<1>3. Row(Relabelled(lab[o], BirthSource(S)[o]))
  BY RowRelabelled
<1>4. Row([Relabelled(lab[o], BirthSource(S)[o]) EXCEPT !.owner = p.uid])
  BY <1>3, RowRelabelled
<1> QED BY <1>1, <1>2, <1>4

LEMMA MaterializedRow ==
  ASSUME TypeInv, RowsInv, NEW o \in Objs, Materialized(o), state[o] = "absent" => disk[o] # NoRec
  PROVE  \A u \in Objs : Row(lab'[u])
<1>1. lab' = [lab EXCEPT ![o] = IF state[o] = "absent" THEN disk[o] ELSE @]
  BY DEF Materialized
<1>2. \A u \in Objs : lab'[u] = IF u = o /\ state[o] = "absent" THEN disk[o] ELSE lab[u]
  BY <1>1 DEF TypeInv
<1> QED BY <1>2 DEF RowsInv

(* A handle to an object that is not live gives the instance only of a record. *)
LEMMA DerefRecorded == ASSUME NEW p, NEW o, Deref(p, o) PROVE disk[o] # NoRec
  BY DEF Deref, _load_oid_deref, Registered

LEMMA RowsKept ==
  ASSUME RowsInv, \A o \in Objs : Row(lab'[o]), UNCHANGED <<disk, phase, inflight>>
  PROVE  RowsInv'
  BY DEF RowsInv

LEMMA RowsSet ==
  ASSUME TypeInv, RowsInv, NEW o \in Objs, NEW l, Row(l), lab' = [lab EXCEPT ![o] = l]
  PROVE  \A u \in Objs : Row(lab'[u])
  BY DEF TypeInv, RowsInv

LEMMA RowsStep == ASSUME StoreInv, RowsInv, [Next]_vars PROVE RowsInv'
<1>0. TypeInv
  BY DEF StoreInv
<1>1. CASE Stage
  <2>0. PICK o \in Objs : \E l : Touch(o, l) /\ (Row(lab[o]) => Row(l))
    BY <1>1, StageTouches
  <2>1. PICK l : Touch(o, l) /\ (Row(lab[o]) => Row(l))
    BY <2>0
  <2>2. Row(l)
    BY <2>1 DEF RowsInv
  <2> QED BY <2>1, <2>2, <1>0, RowsSet, RowsKept DEF Touch
<1>2. ASSUME NEW p, NEW S, Becomes(_register_graph(p, S)), UNCHANGED <<disk, phase, inflight>>
      PROVE  RowsInv'
  <2>1. \A o \in Objs : Row(lab'[o])
    BY <1>2, RegisteredRow DEF Becomes, RowsInv
  <2> QED BY <2>1, <1>2, RowsKept
<1>3. ASSUME NEW p, NEW o, store(p, o) PROVE RowsInv'
  BY <1>2, <1>3 DEF store
<1>4. ASSUME NEW p, P1Denied(p) PROVE RowsInv'
  BY <1>2, <1>4 DEF P1Denied
<1>5. ASSUME NEW p, NEW o \in Objs, Deref(p, o) PROVE RowsInv'
  BY <1>0, <1>5, DerefRecorded, MaterializedRow, RowsKept DEF Deref
<1>6. ASSUME NEW o \in Objs, acting_as(o) PROVE RowsInv'
  BY <1>0, <1>6, MaterializedRow, RowsKept DEF acting_as
<1>7. ASSUME NEW o \in Objs, Collect(o) PROVE RowsInv'
  BY <1>0, <1>7, BirthIsRow, RowsSet, RowsKept DEF Collect
<1>8. ASSUME lab' = lab, UNCHANGED <<disk, phase, inflight>> PROVE RowsInv'
  BY <1>8, RowsKept DEF RowsInv
<1>9. ASSUME NEW p, P1Capture(p) PROVE RowsInv'
  <2> DEFINE w == _register_graph(p, Buffered)
             pend == {o \in Objs : w.state[o] \in {"new", "dirty"}}
  <2>1. /\ inflight'.recs = [o \in pend |-> w.lab[o]]
        /\ lab' = w.lab /\ disk' = disk
    BY <1>9 DEF P1Capture
  <2>2. \A o \in Objs : Row(w.lab[o])
    BY RegisteredRow DEF RowsInv
  <2>3. DOMAIN inflight'.recs = pend /\ \A o \in pend : inflight'.recs[o] = w.lab[o]
    BY <2>1
  <2>4. pend \subseteq Objs
    OBVIOUS
  <2> HIDE DEF pend, w
  <2> QED BY <2>1, <2>2, <2>3, <2>4 DEF RowsInv
<1>10. CASE P2Land
  <2>1. /\ phase = "p2" /\ phase' = "landed" /\ disk' = Folded(disk, inflight) /\ lab' = lab
    BY <1>10 DEF P2Land, liveVars
  <2>2. ASSUME NEW o \in Objs, disk'[o] # NoRec PROVE Row(disk'[o])
    BY <2>1, <2>2 DEF Folded, RowsInv
  <2> QED BY <2>1, <2>2 DEF RowsInv
<1>11. CASE _p2_rollback \/ _p3_finalize
  <2>1. lab' = lab /\ disk' = disk /\ phase' = "idle"
    BY <1>11 DEF _p2_rollback, _p3_finalize
  <2> QED BY <2>1 DEF RowsInv
<1>12. CASE discard
  <2> DEFINE back == In({"new", "cancelled", "torn"})
  <2>1. /\ disk' = disk /\ phase' = "idle"
        /\ lab' = [o \in Objs |-> IF o \in back
                                  THEN [Relabelled(lab[o], prestamp[o])
                                          EXCEPT !.owner = prestamp[o].owner]
                                  ELSE IF state[o] = "free" THEN lab[o] ELSE BirthLabels]
    BY <1>12 DEF discard
  <2>2. ASSUME NEW o \in Objs PROVE Row(lab'[o])
    <3>1. Row(lab[o])
      BY DEF RowsInv
    <3>2. Row(Relabelled(lab[o], prestamp[o]))
      BY <3>1, RowRelabelled
    <3>3. Row([Relabelled(lab[o], prestamp[o]) EXCEPT !.owner = prestamp[o].owner])
      BY <3>2, RowRelabelled
    <3> QED BY <2>1, <3>1, <3>3, BirthIsRow
  <2> QED BY <2>1, <2>2 DEF RowsInv
<1>13. CASE Restart
  <2>1. lab' = [o \in Objs |-> BirthLabels] /\ disk' = disk /\ phase' = "idle"
    BY <1>13 DEF Restart
  <2>2. \A o \in Objs : Row(lab'[o])
    BY <2>1, BirthIsRow
  <2> QED BY <2>1, <2>2 DEF RowsInv
<1>14. ASSUME NEW o, delete(o) PROVE RowsInv'
  BY <1>8, <1>14 DEF delete
<1>15. CASE EnsureIndex \/ LeaveScope
  BY <1>8, <1>15 DEF EnsureIndex, LeaveScope, liveVars
<1>16. CASE UNCHANGED vars
  BY <1>8, <1>16 DEF vars, liveVars
<1> QED BY <1>1, <1>3, <1>4, <1>5, <1>6, <1>7, <1>9, <1>10, <1>11, <1>12, <1>13, <1>14, <1>15, <1>16 DEF Next

-----------------------------------------------------------------------------
(* Actor rows. *)

(* A step that leaves the backend and the capture alone. *)
LEMMA ActorQuiet ==
  ASSUME Quiet, NEW o \in Objs, ActorInv(o),
         state'[o] \notin {"deleted", "torn", "cancelled"},
         state'[o] = "clean" => Conserved(lab'[o].memb)
  PROVE  ActorInv(o)'
<1>1. disk' = disk /\ phase' = phase /\ inflight' = inflight /\ Mild(o)
  BY DEF Quiet
<1>2. state'[o] \in {"clean", "dirty", "absent"} => state[o] \in {"clean", "dirty", "absent"}
  BY <1>1 DEF Mild, ActorInv
<1> QED BY <1>1, <1>2 DEF ActorInv

(* One that leaves the object alone too, or only its labels while it is not     *)
(* clean.                                                                     *)
LEMMA ActorAlone ==
  ASSUME Quiet, NEW o \in Objs, ActorInv(o), state'[o] = state[o],
         state[o] = "clean" => lab'[o] = lab[o]
  PROVE  ActorInv(o)'
<1>1. state'[o] \notin {"deleted", "torn", "cancelled"}
  BY DEF ActorInv
<1>2. state'[o] = "clean" => Conserved(lab'[o].memb)
  BY DEF ActorInv
<1> QED BY <1>1, <1>2, ActorQuiet

LEMMA ActorMaterialized ==
  ASSUME AuthorityInv, Quiet, NEW o \in Objs, Materialized(o), NEW u \in Actors
  PROVE  /\ ActorInv(u)'
         /\ u = o /\ state[o] \in {"clean", "absent"} => Conserved(lab'[u].memb)
<1>1. /\ state' = [state EXCEPT ![o] = IF @ = "absent" THEN "clean" ELSE @]
      /\ lab' = [lab EXCEPT ![o] = IF state[o] = "absent" THEN disk[o] ELSE @]
  BY DEF Materialized
<1>2. TypeInv /\ CaptureInv /\ ActorInv(u) /\ u \in Objs
  BY ActorsAreObjects DEF AuthorityInv, StoreInv, ActorsInv
<1>3. CASE u = o /\ state[u] = "absent"
  <2>1. state'[u] = "clean" /\ lab'[u] = disk[u]
    BY <1>1, <1>2, <1>3 DEF TypeInv
  <2>2. ~(phase = "p2" /\ u \in inflight.news)
    BY <1>2, <1>3 DEF CaptureInv, InRegistry
  <2>3. Conserved(disk[u].memb)
    BY <1>2, <1>3, <2>2 DEF ActorInv
  <2> QED BY <1>2, <2>1, <2>3, ActorQuiet
<1>4. CASE ~(u = o /\ state[u] = "absent")
  <2>1. state'[u] = state[u] /\ lab'[u] = lab[u]
    BY <1>1, <1>2, <1>4 DEF TypeInv
  <2>2. ActorInv(u)'
    BY <2>1, <1>2, ActorAlone
  <2> QED BY <2>1, <2>2, <1>2, <1>4 DEF ActorInv
<1> QED BY <1>3, <1>4

LEMMA ActorsCapture ==
  ASSUME AuthorityInv, NoRootGiven, NEW p \in Acting, P1Capture(p), NEW o \in Actors
  PROVE  ActorInv(o)'
<1> DEFINE w == _register_graph(p, Buffered)
           pend == {u \in Objs : w.state[u] \in {"new", "dirty"}}
           dels == In({"deleted", "torn"})
<1>1. /\ _check_write_gate(p, w)
      /\ inflight' = [by |-> p, before |-> disk, dels |-> dels,
                      recs |-> [u \in pend |-> w.lab[u]],
                      news |-> {u \in pend : w.state[u] = "new"}]
      /\ state' = [u \in Objs |-> CASE u \in pend -> "clean"
                                    [] w.state[u] = "cancelled" -> "dead"
                                    [] OTHER -> w.state[u]]
      /\ lab' = w.lab /\ phase = "idle" /\ phase' = "p2" /\ disk' = disk
  BY DEF P1Capture
<1>2. ActorInv(o) /\ o \in Objs /\ ScopeInv /\ RowsInv
  BY ActorsAreObjects DEF AuthorityInv, ActorsInv
<1>3. \/ w.state[o] = state[o] /\ w.lab[o] = lab[o]
      \/ w.state[o] = "new" /\ state[o] = "free"
  BY <1>2, RegisteredStates
<1>4. /\ inflight'.dels = dels /\ inflight'.news = {u \in pend : w.state[u] = "new"}
      /\ DOMAIN inflight'.recs = pend /\ \A u \in pend : inflight'.recs[u] = w.lab[u]
  BY <1>1
<1>5. o \notin dels
  BY <1>2 DEF ActorInv, In
<1>6. o \in pend => w.state[o] \in {"new", "dirty"}
  OBVIOUS
<1>7. o \notin pend => w.state[o] \notin {"new", "dirty"}
  BY <1>2
<1>8. /\ w.state[o] = "new" => _gate_actor_memberships(p, w.lab[o].memb, NoMemberships)
      /\ w.state[o] = "dirty" => _gate_actor_memberships(p, w.lab[o].memb, disk[o].memb)
  <2>1. ~is_root(p)
    BY <1>2, ActingNotRoot
  <2> QED BY <2>1, <1>1, <1>2 DEF _check_write_gate
<1>9. Levels(w.lab[o].memb)
  BY <1>2, RegisteredRow DEF RowsInv, Row
<1> HIDE DEF w, dels, pend
<1>10. CASE o \in pend
  <2>1. w.state[o] = "dirty" => Conserved(disk[o].memb)
    BY <1>1, <1>2, <1>3 DEF ActorInv
  <2>2. Conserved(w.lab[o].memb)
    <3>1. CASE w.state[o] = "new"
      BY <1>2, <1>8, <1>9, <3>1, GateConserves
    <3>2. CASE w.state[o] = "dirty"
      BY <1>2, <1>8, <1>9, <2>1, <3>2, GateConserves
    <3> QED BY <1>6, <1>10, <3>1, <3>2
  <2>3. state'[o] = "clean" /\ lab'[o] = w.lab[o] /\ inflight'.recs[o] = w.lab[o]
    <3>1. state' = [u \in Objs |-> CASE u \in pend -> "clean"
                                     [] w.state[u] = "cancelled" -> "dead"
                                     [] OTHER -> w.state[u]]
      BY <1>1
    <3>2. lab' = w.lab
      BY <1>1
    <3>3. state'[o] = "clean"
      BY <3>1, <1>2, <1>6, <1>10
    <3> QED BY <3>2, <3>3, <1>4, <1>10
  <2>4. o \in inflight'.news \/ Conserved(disk[o].memb)
    BY <1>4, <1>6, <1>10, <2>1
  <2> QED BY <2>2, <2>3, <2>4, <1>1, <1>2, <1>4, <1>5 DEF ActorInv
<1>11. CASE o \notin pend
  <2>1. w.state[o] = state[o] /\ w.lab[o] = lab[o] /\ state[o] # "cancelled"
    BY <1>2, <1>3, <1>7, <1>11 DEF ActorInv
  <2>2. state'[o] = state[o] /\ lab'[o] = lab[o]
    BY <2>1, <1>1, <1>2, <1>11
  <2>3. o \notin DOMAIN inflight'.recs /\ o \notin inflight'.dels
    BY <1>4, <1>5, <1>11
  <2> QED BY <2>2, <2>3, <1>1, <1>2 DEF ActorInv
<1> QED BY <1>10, <1>11

LEMMA ActorsLand == ASSUME AuthorityInv, P2Land, NEW o \in Actors PROVE ActorInv(o)'
<1>1. /\ phase = "p2" /\ phase' = "landed" /\ disk' = Folded(disk, inflight)
      /\ state' = state /\ lab' = lab /\ inflight' = inflight
  BY DEF P2Land, liveVars
<1>2. ActorInv(o) /\ o \in Objs /\ inflight.news \subseteq DOMAIN inflight.recs
  BY <1>1, ActorsAreObjects DEF AuthorityInv, ActorsInv, StoreInv, CaptureInv
<1>3. CASE o \in DOMAIN inflight.recs
  <2>1. disk'[o] = inflight.recs[o] /\ Conserved(inflight.recs[o].memb)
    BY <1>1, <1>2, <1>3 DEF Folded, ActorInv
  <2> QED BY <2>1, <1>1, <1>2 DEF ActorInv
<1>4. CASE o \notin DOMAIN inflight.recs
  <2>1. disk'[o] = disk[o] /\ o \notin inflight.news
    BY <1>1, <1>2, <1>4 DEF Folded, ActorInv
  <2> QED BY <2>1, <1>1, <1>2 DEF ActorInv
<1> QED BY <1>3, <1>4

LEMMA ActorsRollback == ASSUME AuthorityInv, _p2_rollback, NEW o \in Actors PROVE ActorInv(o)'
<1>1. /\ phase = "p2" /\ phase' = "idle" /\ disk' = disk /\ lab' = lab
      /\ state' = [u \in Objs |->
                    CASE u \in inflight.news -> IF state[u] = "deleted" THEN "torn" ELSE "new"
                      [] u \in DOMAIN inflight.recs \ inflight.news ->
                            IF state[u] = "deleted" THEN "deleted" ELSE "dirty"
                      [] OTHER -> state[u]]
  BY DEF _p2_rollback
<1>2. ActorInv(o) /\ o \in Objs
      /\ (o \in DOMAIN inflight.recs => state[o] \in InRegistry)
  BY <1>1, ActorsAreObjects DEF AuthorityInv, ActorsInv, StoreInv, CaptureInv
<1>3. CASE o \in inflight.news
  <2>1. state'[o] = "new"
    BY <1>1, <1>2, <1>3 DEF ActorInv
  <2> QED BY <2>1, <1>1, <1>2 DEF ActorInv
<1>4. CASE o \in DOMAIN inflight.recs \ inflight.news
  <2>1. state'[o] = "dirty" /\ state[o] \in {"clean", "dirty"}
    BY <1>1, <1>2, <1>4 DEF ActorInv, InRegistry
  <2> QED BY <2>1, <1>1, <1>2, <1>4 DEF ActorInv
<1>5. CASE o \notin inflight.news /\ o \notin DOMAIN inflight.recs
  <2>1. state'[o] = state[o]
    BY <1>1, <1>2, <1>5
  <2> QED BY <2>1, <1>1, <1>2, <1>5 DEF ActorInv
<1> QED BY <1>3, <1>4, <1>5

LEMMA ActorsRest ==
  ASSUME AuthorityInv, _p3_finalize \/ discard \/ Restart, NEW o \in Actors PROVE ActorInv(o)'
<1>1. ActorInv(o) /\ o \in Objs
  BY ActorsAreObjects DEF AuthorityInv, ActorsInv
<1>2. phase' = "idle" /\ disk' = disk
  BY DEF _p3_finalize, discard, Restart
<1>3. CASE _p3_finalize
  <2>1. /\ phase = "landed" /\ lab' = lab
        /\ state'[o] = IF o \in inflight.dels THEN "dead" ELSE state[o]
    BY <1>1, <1>3 DEF _p3_finalize
  <2> QED BY <2>1, <1>1, <1>2 DEF ActorInv
<1>4. CASE discard
  <2>1. /\ phase = "idle"
        /\ state'[o] = CASE o \in In({"new", "cancelled", "torn"}) -> "free"
                         [] state[o] \in {"clean", "dirty", "deleted"} -> "absent"
                         [] OTHER -> state[o]
    BY <1>1, <1>4 DEF discard
  <2>2. state'[o] \in {"free", "absent"} \/ (state'[o] = state[o] /\ state[o] \notin {"clean", "dirty"})
    BY <2>1
  <2>3. state'[o] = "absent" => state[o] \in {"clean", "dirty", "absent"}
    BY <2>1, <1>1 DEF ActorInv
  <2> QED BY <2>1, <2>2, <2>3, <1>1, <1>2 DEF ActorInv
<1>5. CASE Restart
  <2>1. state'[o] = IF disk[o] # NoRec THEN "absent"
                    ELSE IF state[o] = "dead" \/ (phase # "idle" /\ inflight.before[o] # NoRec)
                    THEN "dead" ELSE "free"
    BY <1>1, <1>5 DEF Restart
  <2>2. state'[o] \in {"absent", "dead", "free"} /\ (state'[o] = "absent" => disk[o] # NoRec)
    BY <2>1
  <2> QED BY <2>2, <1>1, <1>2 DEF ActorInv
<1> QED BY <1>3, <1>4, <1>5

LEMMA ActorsStep ==
  ASSUME AuthorityInv, NoRootGiven, "revoke" \notin Env, [Next]_vars, NEW u \in Actors
  PROVE  ActorInv(u)'
<1>0. TypeInv /\ ActorInv(u) /\ u \in Objs
  BY ActorsAreObjects DEF AuthorityInv, ActorsInv, StoreInv
<1>1. CASE Stage
  <2>0. PICK o \in Objs : \E l : Touch(o, l)
    BY <1>1, StageTouches
  <2>1. PICK l : Touch(o, l)
    BY <2>0
  <2>2. Quiet
    BY <1>0, <2>1, TouchQuiet
  <2>3. state' = [state EXCEPT ![o] = IF @ = "clean" THEN "dirty" ELSE @]
        /\ lab' = [lab EXCEPT ![o] = l]
    BY <2>1 DEF Touch
  <2>4. (state'[u] = state[u] /\ lab'[u] = lab[u]) \/ state'[u] # "clean"
    BY <2>3, <1>0 DEF TypeInv
  <2>5. state'[u] \notin {"deleted", "torn", "cancelled"}
    BY <2>3, <1>0 DEF TypeInv, ActorInv
  <2>6. state'[u] = "clean" => Conserved(lab'[u].memb)
    BY <2>4, <1>0 DEF ActorInv
  <2> QED BY <1>0, <2>2, <2>5, <2>6, ActorQuiet
<1>2. ASSUME NEW p, NEW S, Becomes(_register_graph(p, S)), UNCHANGED <<disk, idx, phase, inflight>>
      PROVE  ActorInv(u)'
  <2>1. Quiet
    BY <1>0, <1>2, BecomesQuiet
  <2>2. \/ state'[u] = state[u] /\ lab'[u] = lab[u]
        \/ state'[u] = "new"
    BY <1>0, <1>2, RegisteredStates DEF Becomes
  <2>3. state'[u] \notin {"deleted", "torn", "cancelled"}
    BY <2>2, <1>0 DEF ActorInv
  <2>4. state'[u] = "clean" => Conserved(lab'[u].memb)
    BY <2>2, <1>0 DEF ActorInv
  <2> QED BY <1>0, <2>1, <2>3, <2>4, ActorQuiet
<1>3. ASSUME NEW p, NEW o, store(p, o) PROVE ActorInv(u)'
  BY <1>2, <1>3 DEF store
<1>4. ASSUME NEW p, P1Denied(p) PROVE ActorInv(u)'
  BY <1>2, <1>4 DEF P1Denied
<1>5. ASSUME NEW p, NEW o \in Objs, Deref(p, o) PROVE ActorInv(u)'
  <2>1. Materialized(o) /\ UNCHANGED <<disk, phase, inflight, idx>>
    BY <1>5 DEF Deref
  <2>2. Quiet
    BY <1>0, <2>1, MaterializedQuiet
  <2> QED BY <2>1, <2>2, ActorMaterialized
<1>6. ASSUME NEW o \in Objs, acting_as(o) PROVE ActorInv(u)'
  <2>1. Materialized(o) /\ UNCHANGED <<disk, phase, inflight>> /\ (idx' = idx \/ idx' = disk)
    BY <1>6 DEF acting_as, Ensured
  <2>2. Quiet
    BY <1>0, <2>1, MaterializedQuiet
  <2> QED BY <2>1, <2>2, ActorMaterialized
<1>7. ASSUME NEW o \in Objs, Collect(o) PROVE ActorInv(u)'
  <2>1. Quiet
    BY <1>0, <1>7, CollectQuiet
  <2>2. state' = [state EXCEPT ![o] = "absent"] /\ lab' = [lab EXCEPT ![o] = BirthLabels]
    BY <1>7 DEF Collect
  <2>3. state'[u] = "absent" \/ (state'[u] = state[u] /\ lab'[u] = lab[u])
    BY <2>2, <1>0 DEF TypeInv
  <2>4. state'[u] \notin {"deleted", "torn", "cancelled"}
    BY <2>3, <1>0 DEF ActorInv
  <2>5. state'[u] = "clean" => Conserved(lab'[u].memb)
    BY <2>3, <1>0 DEF ActorInv
  <2> QED BY <1>0, <2>1, <2>4, <2>5, ActorQuiet
<1>8. ASSUME NEW o \in Objs, delete(o) PROVE ActorInv(u)'
  <2>1. Quiet
    BY <1>0, <1>8, DeleteQuiet
  <2>2. /\ state' = [state EXCEPT ![o] = IF @ = "new" THEN "cancelled" ELSE "deleted"]
        /\ lab' = lab /\ o # u
    BY <1>8 DEF delete
  <2>3. state'[u] = state[u]
    BY <2>2
  <2> QED BY <1>0, <2>1, <2>2, <2>3, ActorAlone
<1>9. ASSUME UNCHANGED <<liveVars, disk, phase, inflight>>, idx' = idx \/ idx' = disk
      PROVE  ActorInv(u)'
  <2>1. Quiet /\ state' = state /\ lab' = lab
    BY <1>0, <1>9, StillQuiet DEF liveVars
  <2> QED BY <1>0, <2>1, ActorAlone
<1>10. CASE EnsureIndex \/ LeaveScope
  BY <1>9, <1>10 DEF EnsureIndex, LeaveScope
<1>11. CASE UNCHANGED vars
  BY <1>9, <1>11 DEF vars
<1> QED BY <1>1, <1>3, <1>4, <1>5, <1>6, <1>7, <1>8, <1>10, <1>11, ActorsCapture, ActorsLand,
           ActorsRollback, ActorsRest DEF Next

LEMMA ScopeStep == ASSUME AuthorityInv, [Next]_vars PROVE ScopeInv'
<1>1. ASSUME NEW o \in Objs, acting_as(o) PROVE ScopeInv'
  <2>1. /\ Materialized(o) /\ UNCHANGED <<disk, phase, inflight>> /\ (idx' = idx \/ idx' = disk)
        /\ scope' = [uid |-> UidOf[o], memberships |-> lab'[o].memb]
        /\ o \in Actors /\ state[o] \in {"clean", "deleted", "absent"}
    BY <1>1 DEF acting_as, Ensured
  <2>2. Quiet
    BY <2>1, MaterializedQuiet DEF AuthorityInv, StoreInv
  <2>3. state[o] \in {"clean", "absent"}
    BY <2>1 DEF AuthorityInv, ActorsInv, ActorInv
  <2>4. Conserved(lab'[o].memb)
    BY <2>1, <2>2, <2>3, ActorMaterialized
  <2>5. scope'.memberships = lab'[o].memb
    BY <2>1
  <2> QED BY <2>4, <2>5 DEF ScopeInv
<1>2. CASE scope' = NoScope
  BY <1>2 DEF ScopeInv
<1>3. CASE scope' = scope
  BY <1>3 DEF AuthorityInv, ScopeInv
<1>4. CASE Stage
  BY <1>3, <1>4, StageTouches DEF Touch
<1> QED BY <1>1, <1>2, <1>3, <1>4
        DEF Next, vars, store, Deref, P1Denied, P1Capture, P2Land, _p2_rollback, _p3_finalize,
            discard, delete, Collect, EnsureIndex, LeaveScope, Restart

LEMMA AuthorityInit == Init => AuthorityInv
<1> SUFFICES ASSUME Init PROVE AuthorityInv
  OBVIOUS
<1>1. StoreInv
  BY StoreInit
<1>2. RowsInv
  BY BirthIsRow DEF Init, RowsInv
<1>3. ActorsInv
  BY ActorsAreObjects DEF Init, ActorsInv, ActorInv
<1>4. ScopeInv
  BY DEF Init, ScopeInv
<1> QED BY <1>1, <1>2, <1>3, <1>4 DEF AuthorityInv

(***************************************************************************)
(* A session acts by the memberships of a row that went through the gate of a *)
(* commit, whose principal may itself have been such a session: along any      *)
(* chain of grants, commits, failures and restarts nobody comes to hold a      *)
(* level above those given, as long as registry rows are not deleted.         *)
(***************************************************************************)
THEOREM PermissionAuthority ==
  ASSUME "revoke" \notin Env
  PROVE  Spec => []AuthorityConserved
<1>1. CASE NoRootGiven
  <2>1. AuthorityInv /\ [Next]_vars => AuthorityInv'
    <3> SUFFICES ASSUME AuthorityInv, [Next]_vars PROVE AuthorityInv'
      OBVIOUS
    <3>1. StoreInv' /\ RowsInv'
      BY StoreStep, RowsStep DEF AuthorityInv
    <3>2. \A u \in Actors : ActorInv(u)'
      BY <1>1, ActorsStep
    <3>3. ScopeInv'
      BY ScopeStep
    <3> QED BY <3>1, <3>2, <3>3 DEF AuthorityInv, ActorsInv
  <2>2. AuthorityInv => AuthorityConserved
    BY ScopeAuthority DEF AuthorityInv
  <2> QED BY <2>1, <2>2, AuthorityInit, PTL DEF Spec
<1>2. CASE ~NoRootGiven
  <2>1. AuthorityConserved
    BY <1>2 DEF AuthorityConserved, NoRootGiven
  <2> QED BY <2>1, PTL
<1> QED BY <1>1, <1>2

=============================================================================
