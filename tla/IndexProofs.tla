----------------------------- MODULE IndexProofs -----------------------------
(***************************************************************************)
(* What the indexes of a class answer, for any rows, fields and number of   *)
(* records: the bitmap compiled for a principal is the predicate on one row *)
(* (ReadableBitmapExact); the reverse index that incoming() reads is the    *)
(* one a scan gives (IncomingExact), and so are the postings, sorted runs   *)
(* and unique maps, however they came about: built, folded, dumped to the   *)
(* cache file, loaded or rebuilt (IndexAnswersExact).  Over them, what the    *)
(* planner, the windows and the fence make of a condition, an order and a      *)
(* window is what a scan makes of it (QueriesExact).                           *)
(***************************************************************************)
EXTENDS Queries, FiniteSetTheorems, FunctionTheorems, SequenceTheorems, WellFoundedInduction,
        TLAPS

(* A principal holds levels of the ladder, or any integers. *)
IsPrincipal(p) == \A g \in Groups(p) : p.memberships[g] \in Int

(* Index c holds the label columns owner, groups and floor of the rows L; its  *)
(* sorted run may keep floors that no row has any more.                        *)
LabelsIndexed(c, L) ==
    /\ \A o \in c.extent : L[o].floor \in Nat
    /\ \A k : At(c.eq["owner"], k) = {o \in c.extent : L[o].owner = k}
    /\ \A g : At(c.eq["groups"], g) = {o \in c.extent : g \in L[o].groups}
    /\ \A o \in c.extent : L[o].floor \in c.run["floor"]
    /\ \A k \in c.run["floor"] : c.eq["floor"][k] = {o \in c.extent : L[o].floor = k}

(* A level held is an integer; nobody stands below VIEWER in a group held, but *)
(* an absent group gives NO_STANDING, which no read floor is at or below.      *)
LEMMA LevelIsInt == ASSUME NEW p, IsPrincipal(p), NEW g
                    PROVE  level(p, g) \in Int
  BY DEF IsPrincipal, Groups, level, VIEWER, NO_STANDING

LEMMA LevelOutside == ASSUME NEW p, NEW g, g \notin Held(p)
                      PROVE  level(p, g) = NO_STANDING
  BY DEF Held, level

(* The range slice of the floors at or below a level. *)
LEMMA FloorSlice ==
  ASSUME NULL \notin Int, NEW c, NEW L, LabelsIndexed(c, L), NEW l \in Int
  PROVE  _range_slice(c, "floor", "<=", l) = {o \in c.extent : L[o].floor <= l}
<1> DEFINE keys == {key \in c.run["floor"] : Compare("<=", key, l)}
<1>1. _range_slice(c, "floor", "<=", l) = UNION {c.eq["floor"][k] : k \in keys}
  BY DEF _range_slice
<1>2. keys = {key \in c.run["floor"] : key <= l}
  BY DEF Compare
<1>3. ASSUME NEW o \in c.extent, L[o].floor <= l
      PROVE  o \in UNION {c.eq["floor"][k] : k \in keys}
  <2>1. L[o].floor \in keys
    BY <1>2, <1>3 DEF LabelsIndexed
  <2>2. o \in c.eq["floor"][L[o].floor]
    BY <2>1, <1>3 DEF LabelsIndexed
  <2> QED BY <2>1, <2>2
<1>4. ASSUME NEW o \in UNION {c.eq["floor"][k] : k \in keys}
      PROVE  o \in c.extent /\ L[o].floor <= l
  <2>1. PICK k \in keys : o \in c.eq["floor"][k]
    BY <1>4
  <2>2. c.eq["floor"][k] = {u \in c.extent : L[u].floor = k} /\ k <= l
    BY <2>1, <1>2 DEF LabelsIndexed
  <2> QED BY <2>1, <2>2
<1> HIDE DEF keys
<1> QED BY <1>1, <1>3, <1>4

(***************************************************************************)
(* readable_bitmap(p, c) is exactly the set of records of the extent whose    *)
(* labels can_read_row lets p read: the ownership of an unshared record, the  *)
(* implicit membership of the world and the absence of standing included.     *)
(***************************************************************************)
THEOREM ReadableBitmapExact ==
  ASSUME NULL \notin Int, NEW p, IsPrincipal(p),
         NEW c, NEW L, LabelsIndexed(c, L)
  PROVE  readable_bitmap(p, c) =
           {o \in c.extent : can_read_row(p, L[o].owner, L[o].groups, L[o].floor)}
<1> DEFINE Reads(o) == can_read_row(p, L[o].owner, L[o].groups, L[o].floor)
<1> DEFINE Owned == IF p.uid # 0 THEN At(c.eq["owner"], p.uid) ELSE {}
<1> DEFINE Shared(g) == At(c.eq["groups"], g)
                        \cap _range_slice(c, "floor", "<=", level(p, g))
<1>1. CASE is_root(p)
  BY <1>1 DEF readable_bitmap, can_read_row
<1>2. CASE ~is_root(p)
  <2>1. readable_bitmap(p, c) = Owned \cup UNION {Shared(g) : g \in Held(p)}
    BY <1>2 DEF readable_bitmap
  <2>2. ASSUME NEW g
        PROVE  Shared(g) = {o \in c.extent : g \in L[o].groups /\ L[o].floor <= level(p, g)}
    <3>1. level(p, g) \in Int
      BY LevelIsInt
    <3>2. _range_slice(c, "floor", "<=", level(p, g)) = {o \in c.extent : L[o].floor <= level(p, g)}
      BY <3>1, FloorSlice
    <3>3. At(c.eq["groups"], g) = {o \in c.extent : g \in L[o].groups}
      BY DEF LabelsIndexed
    <3> QED BY <3>2, <3>3
  <2>3. Owned = {o \in c.extent : is_owner(p, L[o].owner)}
    <3>1. \A k : At(c.eq["owner"], k) = {o \in c.extent : L[o].owner = k}
      BY DEF LabelsIndexed
    <3> QED BY <3>1 DEF is_owner
  <2> HIDE DEF Owned, Shared
  <2>4. ASSUME NEW o \in c.extent, Reads(o)
        PROVE  o \in readable_bitmap(p, c)
    <3>1. CASE is_owner(p, L[o].owner)
      BY <2>1, <2>3, <3>1
    <3>2. CASE ~is_owner(p, L[o].owner)
      <4>1. L[o].floor \in Nat
        BY DEF LabelsIndexed
      <4>2. PICK g \in L[o].groups : level(p, g) >= L[o].floor
        BY <1>2, <2>4, <3>2, <4>1 DEF can_read_row, authority_reaches, NO_STANDING
      <4>3. level(p, g) \in Int
        BY LevelIsInt
      <4>4. g \in Held(p)
        BY <4>1, <4>2, LevelOutside DEF NO_STANDING
      <4>5. o \in Shared(g)
        BY <2>2, <4>1, <4>2, <4>3
      <4> QED BY <2>1, <4>4, <4>5
    <3> QED BY <3>1, <3>2
  <2>5. ASSUME NEW o \in readable_bitmap(p, c)
        PROVE  o \in c.extent /\ Reads(o)
    <3>1. CASE o \in Owned
      BY <2>3, <3>1 DEF can_read_row
    <3>2. CASE \E g \in Held(p) : o \in Shared(g)
      <4>1. PICK g \in Held(p) : o \in Shared(g)
        BY <3>2
      <4>2. o \in c.extent /\ g \in L[o].groups /\ L[o].floor <= level(p, g)
        BY <2>2, <4>1
      <4>3. level(p, g) \in Int /\ L[o].floor \in Nat
        BY <4>2, LevelIsInt DEF LabelsIndexed
      <4>4. level(p, g) >= L[o].floor
        BY <4>2, <4>3
      <4> QED BY <4>2, <4>4 DEF can_read_row, authority_reaches
    <3> QED BY <2>1, <2>5, <3>1, <3>2
  <2> QED BY <2>4, <2>5, <2>1, <2>2, <2>3
<1> QED BY <1>1, <1>2

-----------------------------------------------------------------------------
(***************************************************************************)
(* The hypotheses on the class.  A class of which no version has an index   *)
(* marker contributes no entries to a fold, which then leaves a cached form *)
(* in place that the commit has made stale.                                 *)
(***************************************************************************)
Marked == "plain" \notin Env /\ EqFields # {Added}

(* The store, the capture of the commit under way, and what a process that is *)
(* down has lost.                                                             *)
StoreInv ==
    /\ recs \in [Oids -> {NoRec} \cup [old : BOOLEAN, row : Rows]]
    /\ tid \in Nat
    /\ up \in BOOLEAN
    /\ code \in [ranked : BOOLEAN, keyed : BOOLEAN, default : Defaults, marked : {TRUE}]
    /\ inflight \in {NoCommit} \cup Captures
    /\ ~up => Idle /\ ci = NoIndex /\ blob = NoIndex /\ rev = NoIndex /\ revBlob = NoIndex

Landed == ~Idle /\ inflight.landed

(* A batch writes or deletes something, never the same object; once it has     *)
(* landed, the records say so.                                                 *)
CaptureInv ==
    /\ ~Idle =>
          /\ inflight.es # <<>> \/ inflight.D # {}
          /\ inflight.entries = inflight.es
          /\ inflight.D \cap Written(inflight.es) = {}
    /\ Landed => \A o \in Oids :
          /\ o \in inflight.D => recs[o] = NoRec
          /\ o \in Written(inflight.es) =>
                recs[o] = [old |-> FALSE, row |-> Entry(inflight.es, o)]

LEMMA BatchFacts ==
  ASSUME NEW es \in Batches
  PROVE  /\ es \in Seq(Oids \X Rows)
         /\ Len(es) \in Nat /\ DOMAIN es = 1..Len(es)
         /\ \A i \in 1..Len(es) : es[i] \in Oids \X Rows
         /\ \A i, j \in 1..Len(es) : es[i][1] = es[j][1] => i = j
<1>1. es \in UNION {[1..m -> Oids \X Rows] : m \in 0..MaxBatch}
  BY DEF Batches, SeqOf
<1>2. PICK m \in 0..MaxBatch : es \in [1..m -> Oids \X Rows]
  BY <1>1
<1>3. m \in Nat
  BY IndexConstants
<1>4. es \in Seq(Oids \X Rows) /\ Len(es) = m
  BY <1>2, <1>3
<1>5. \A i, j \in DOMAIN es : es[i][1] = es[j][1] => i = j
  BY DEF Batches
<1> QED
  BY <1>2, <1>3, <1>4, <1>5

(* The row of an entry is the row the batch writes to its object. *)
LEMMA EntryOf ==
  ASSUME NEW es \in Batches, NEW i \in 1..Len(es)
  PROVE  /\ es[i][1] \in Written(es) /\ es[i][1] \in Oids
         /\ Entry(es, es[i][1]) = es[i][2] /\ es[i][2] \in Rows
<1>1. /\ es[i] \in Oids \X Rows /\ DOMAIN es = 1..Len(es)
      /\ \A j \in 1..Len(es) : es[j][1] = es[i][1] => j = i
  BY BatchFacts
<1> DEFINE e == CHOOSE e \in ToSet(es) : e[1] = es[i][1]
<1>2. es[i] \in ToSet(es)
  BY <1>1 DEF ToSet
<1>3. e \in ToSet(es) /\ e[1] = es[i][1]
  BY <1>2
<1>4. PICK j \in 1..Len(es) : e = es[j]
  BY <1>1, <1>3 DEF ToSet
<1>5. e = es[i]
  BY <1>1, <1>3, <1>4
<1>6. Entry(es, es[i][1]) = es[i][2]
  BY <1>5 DEF Entry
<1> QED
  BY <1>1, <1>6 DEF Written

LEMMA WrittenFacts ==
  ASSUME NEW es \in Batches
  PROVE  /\ Written(es) \subseteq Oids
         /\ \A o \in Written(es) : Entry(es, o) \in Rows
         /\ \A o : o \in Written(es) <=> \E i \in 1..Len(es) : o = es[i][1]
         /\ Written(<<>>) = {}
<1>1. \A o : o \in Written(es) <=> \E i \in 1..Len(es) : o = es[i][1]
  BY BatchFacts DEF Written
<1>2. Written(<<>>) = {}
  BY DEF Written
<1> QED
  BY <1>1, <1>2, EntryOf

LEMMA RecordFacts ==
  ASSUME NEW row \in Rows
  PROVE  LET r == [old |-> FALSE, row |-> row] IN r # NoRec /\ r.row = row /\ ~r.old
<1>1. [old |-> FALSE, row |-> row] \in [old : BOOLEAN, row : Rows]
  OBVIOUS
<1> QED
  BY <1>1, IndexRows

LEMMA EmptyBatch == <<>> \in Batches
<1>1. <<>> \in [1..0 -> Oids \X Rows] /\ 0 \in 0..MaxBatch
  BY IndexConstants
<1> QED
  BY <1>1 DEF Batches, SeqOf

(* A version of the class has a field to maintain. *)
LEMMA Maintains ==
  ASSUME Marked, StoreInv
  PROVE  _maintained_fields # {} /\ code.marked
<1>1. code.marked
  BY DEF StoreInv
<1>2. EqFields \ {Added} # {} /\ EqFields # {}
  BY IndexConstants DEF Marked
<1> QED
  BY <1>1, <1>2 DEF _maintained_fields, eqFields

(* No capture is the absence of one. *)
LEMMA CaptureFacts ==
  ASSUME NEW i, i \in Captures
  PROVE  /\ i # NoCommit
         /\ i.es \in Batches /\ i.entries \in Batches /\ i.refs \in Batches
         /\ i.D \subseteq Oids /\ i.landed \in BOOLEAN
         /\ [i EXCEPT !.landed = TRUE] \in Captures
         /\ [i EXCEPT !.landed = TRUE].landed
         /\ [i EXCEPT !.landed = TRUE].es = i.es
         /\ [i EXCEPT !.landed = TRUE].D = i.D
         /\ [i EXCEPT !.landed = TRUE].entries = i.entries
         /\ [i EXCEPT !.landed = TRUE].refs = i.refs
  BY CaptureIsCommit DEF Captures

(* Every row of the store is a row, as the class decodes it. *)
LEMMA CaptureStep ==
  ASSUME NEW es \in Batches, NEW D \in SUBSET Live, Marked, StoreInv, Capture(es, D)
  PROVE  /\ inflight' \in Captures /\ ~inflight'.landed
         /\ inflight'.es = es /\ inflight'.D = D /\ inflight'.entries = es
         /\ rev # NoIndex => inflight'.refs = es
         /\ es # <<>> \/ D # {}
         /\ D \cap Written(es) = {}
         /\ check_unique(IF uniqueFields # {} /\ es # <<>> THEN Ensured ELSE ci, es, D)
<1> DEFINE refs == IF rev = NoIndex THEN <<>> ELSE es
<1>1. inflight' = [es |-> es, D |-> D, landed |-> FALSE, entries |-> es, refs |-> refs]
  <2>1. inflight' = [es |-> es, D |-> D, landed |-> FALSE,
                     entries |-> IF _maintained_fields = {} THEN <<>> ELSE es, refs |-> refs]
    BY DEF Capture
  <2>2. _maintained_fields # {}
    BY Maintains
  <2> QED
    BY <2>1, <2>2
<1>2. refs \in Batches /\ D \in SUBSET Oids
  BY EmptyBatch DEF Live
<1> HIDE DEF refs
<1>3. inflight' \in Captures
  BY <1>1, <1>2 DEF Captures
<1>4. D \subseteq Live \ Written(es) /\ (es # <<>> \/ D # {})
  BY DEF Capture
<1>5. D \cap Written(es) = {}
  BY <1>4
<1>6. check_unique(IF uniqueFields # {} /\ es # <<>> THEN Ensured ELSE ci, es, D)
  BY Zenon DEF Capture
<1> QED
  BY <1>1, <1>3, <1>4, <1>5, <1>6 DEF refs

LEMMA LandStep ==
  ASSUME StoreInv, CaptureInv, Land
  PROVE  /\ inflight \in Captures /\ inflight # NoCommit /\ ~inflight.landed
         /\ inflight' \in Captures /\ inflight'.landed
         /\ inflight'.es = inflight.es /\ inflight'.D = inflight.D
         /\ inflight'.entries = inflight.entries /\ inflight'.refs = inflight.refs
         /\ \A o \in Oids :
               recs'[o] = IF o \in inflight.D THEN NoRec
                          ELSE IF o \in Written(inflight.es)
                               THEN [old |-> FALSE, row |-> Entry(inflight.es, o)]
                          ELSE recs[o]
         /\ recs' \in [Oids -> {NoRec} \cup [old : BOOLEAN, row : Rows]]
<1>1. inflight \in Captures /\ inflight # NoCommit /\ ~inflight.landed
  BY DEF StoreInv, Land, Idle
<1>2. inflight' = [inflight EXCEPT !.landed = TRUE]
  BY DEF Land
<1>3. recs' = [o \in Oids |->
                  IF o \in inflight.D THEN NoRec
                  ELSE IF o \in Written(inflight.es)
                       THEN [old |-> FALSE, row |-> Entry(inflight.es, o)]
                  ELSE recs[o]]
  BY DEF Land
<1>4. \A o \in Written(inflight.es) : [old |-> FALSE, row |-> Entry(inflight.es, o)]
                                        \in [old : BOOLEAN, row : Rows]
  BY <1>1, CaptureFacts, WrittenFacts
<1>5. recs \in [Oids -> {NoRec} \cup [old : BOOLEAN, row : Rows]]
  BY DEF StoreInv
<1>6. /\ inflight'.landed /\ inflight'.es = inflight.es /\ inflight'.D = inflight.D
      /\ inflight'.entries = inflight.entries /\ inflight'.refs = inflight.refs
      /\ inflight' \in Captures
  BY <1>1, <1>2, CaptureFacts
<1> QED
  BY <1>1, <1>3, <1>4, <1>5, <1>6

LEMMA StoreStep ==
  ASSUME Marked, StoreInv, CaptureInv, [Next]_vars
  PROVE  StoreInv' /\ CaptureInv'
<1> DEFINE SameRecs == recs' = recs /\ tid' = tid
           SameCode == code' = code
<1> USE DEF StoreInv
<1>1. ASSUME NEW es \in Batches, NEW D \in SUBSET Live, Capture(es, D)
      PROVE  StoreInv' /\ CaptureInv'
  <2>1. up /\ up' = up /\ SameRecs /\ SameCode
    BY <1>1 DEF Capture, Capturable
  <2>2. inflight' \in Captures /\ ~inflight'.landed
    BY <1>1, CaptureStep
  <2>3. CaptureInv'
    BY <1>1, CaptureStep DEF CaptureInv, Landed
  <2> QED
    BY <2>1, <2>2, <2>3
<1>2. CASE Land
  <2>1. up' = up /\ SameCode /\ tid' = tid + 1
    BY <1>2 DEF Land
  <2>2. up'
    BY <2>1, <1>2 DEF Land, Idle
  <2>3. CaptureInv'
    <3>1. \A o : ~(o \in inflight.D /\ o \in Written(inflight.es))
      BY LandStep, <1>2 DEF CaptureInv, Idle
    <3>2. /\ inflight.es # <<>> \/ inflight.D # {}
          /\ inflight.entries = inflight.es
          /\ inflight.D \cap Written(inflight.es) = {}
      BY LandStep, <1>2 DEF CaptureInv, Idle
    <3>3. \A o \in Oids :
             /\ o \in inflight.D => recs'[o] = NoRec
             /\ o \in Written(inflight.es) =>
                   recs'[o] = [old |-> FALSE, row |-> Entry(inflight.es, o)]
      BY LandStep, <1>2, <3>1
    <3> QED
      BY <3>2, <3>3, LandStep, <1>2 DEF CaptureInv, Landed
  <2>4. inflight' \in Captures /\ recs' \in [Oids -> {NoRec} \cup [old : BOOLEAN, row : Rows]]
    BY LandStep, <1>2
  <2>5. StoreInv'
    <3>1. tid' \in Nat /\ up' \in BOOLEAN
      BY <2>1
    <3>2. code' \in [ranked : BOOLEAN, keyed : BOOLEAN, default : Defaults, marked : {TRUE}]
      BY <2>1
    <3> QED
      BY <2>2, <2>4, <3>1, <3>2
  <2> QED
    BY <2>3, <2>5
<1>3. ASSUME recs' = recs, tid' = tid, inflight' = NoCommit, up' \in BOOLEAN, code' = code,
             up' => up,
             ~up' => ci' = NoIndex /\ blob' = NoIndex /\ rev' = NoIndex /\ revBlob' = NoIndex
      PROVE  StoreInv' /\ CaptureInv'
  BY <1>3 DEF CaptureInv, Landed, Idle
<1>4. CASE LandFails
  <2>1. ~Idle
    BY <1>4 DEF LandFails
  <2> QED
    BY <1>3, <1>4, <2>1 DEF LandFails, indexVars
<1>5. CASE Fold
  BY <1>3, <1>5 DEF Fold
<1>6. ASSUME recs' = recs, tid' = tid, inflight' = inflight, up' = up, code' = code, up
      PROVE  StoreInv' /\ CaptureInv'
  BY <1>6 DEF CaptureInv, Landed, Idle
<1>7. CASE ensure
  BY <1>6, <1>7 DEF ensure, Reading
<1>8. CASE committed_labels
  BY <1>6, <1>8 DEF committed_labels, Reading
<1>9. CASE ensure_reverse
  BY <1>6, <1>9 DEF ensure_reverse, Reading
<1>10. CASE Close
  BY <1>3, <1>10 DEF Close, Down
<1>11. CASE Crash
  BY <1>3, <1>11 DEF Crash, Down
<1>12. CASE Open
  <2>1. recs' = recs /\ tid' = tid /\ inflight' = inflight /\ code' = code /\ up'
    BY <1>12 DEF Open
  <2> QED
    BY <2>1 DEF CaptureInv, Landed, Idle
<1>13. CASE Redeploy
  <2>1. /\ recs' = recs /\ tid' = tid /\ inflight' = inflight /\ up' = up
        /\ ci' = ci /\ blob' = blob /\ rev' = rev /\ revBlob' = revBlob
    BY <1>13 DEF Redeploy, indexVars
  <2>2. code' \in [ranked : BOOLEAN, keyed : BOOLEAN, default : Defaults, marked : {TRUE}]
    BY <1>13 DEF Redeploy
  <2> QED
    BY <2>1, <2>2 DEF CaptureInv, Landed, Idle
<1>14. CASE UNCHANGED vars
  BY <1>14 DEF vars, indexVars, CaptureInv, Landed, Idle
<1> QED
  BY <1>1, <1>2, <1>4, <1>5, <1>7, <1>8, <1>9, <1>10, <1>11, <1>12, <1>13, <1>14 DEF Next

-----------------------------------------------------------------------------
(* The reverse-reference index. *)

(* The objects o refers to, as the records have it. *)
Out(o) == IF recs[o] = NoRec THEN {} ELSE recs[o].row.refs

(* The postings of o are settled when no landed batch is still to be folded    *)
(* that writes or deletes o.                                                   *)
Settled(o) == Landed => o \notin Written(inflight.es) \cup inflight.D

Points(post, o) == \A t \in Oids : o \in post[t] <=> t \in Out(o)

ExactPostings(post) == \A t \in Oids : post[t] = Referrers(t)

(* The parts of a reverse index; its diff memory is the inverse of the postings. *)
IsReverse(r) ==
    /\ r = [post |-> r.post, refs |-> r.refs, dirty |-> r.dirty]
    /\ \A t \in Oids : r.post[t] \subseteq Oids
    /\ ~r.dirty => \A o, t \in Oids : t \in r.refs[o] <=> o \in r.post[t]

ReverseBuilt ==
    rev # NoIndex =>
        /\ IsReverse(rev)
        /\ \A o \in Oids : Settled(o) => Points(rev.post, o)
        /\ revBlob = NoIndex
        /\ ~Idle => inflight.refs = inflight.es

ReverseCached == revBlob # NoIndex /\ ~Landed => ExactPostings(revBlob)

ReverseSaved ==
    sidecar # NoIndex =>
        /\ sidecar.watermark \in Int /\ sidecar.watermark <= tid
        /\ sidecar.watermark = tid /\ sidecar.reverse # NoIndex =>
              ExactPostings(sidecar.reverse)

ReverseInv == ReverseBuilt /\ ReverseCached /\ ReverseSaved

(* Postings are exact when they are within the OIDs and settled for each referrer. *)
LEMMA ExactIsPointwise ==
  ASSUME NEW post
  PROVE  ExactPostings(post) <=> /\ \A t \in Oids : post[t] \subseteq Oids
                                 /\ \A o \in Oids : Points(post, o)
<1>1. \A t : Referrers(t) = {o \in Oids : t \in Out(o)}
  BY DEF Referrers, Live, Out
<1>2. ASSUME ExactPostings(post)
      PROVE  /\ \A t \in Oids : post[t] \subseteq Oids
             /\ \A o \in Oids : Points(post, o)
  BY <1>1, <1>2 DEF ExactPostings, Points
<1>3. ASSUME \A t \in Oids : post[t] \subseteq Oids, \A o \in Oids : Points(post, o)
      PROVE  ExactPostings(post)
  <2> SUFFICES ASSUME NEW t \in Oids PROVE post[t] = Referrers(t)
    BY DEF ExactPostings
  <2>1. \A o : o \in post[t] <=> o \in Oids /\ t \in Out(o)
    BY <1>3 DEF Points
  <2> QED
    BY <1>1, <2>1
<1> QED
  BY <1>2, <1>3

(* What is built or loaded is a reverse index of the postings it comes from. *)
LEMMA HarvestedExact == IsReverse(harvested) /\ ExactPostings(harvested.post)
<1>1. \A o, t \in Oids : o \in Referrers(t) <=> t \in (IF o \in Live THEN recs[o].row.refs ELSE {})
  BY DEF Referrers, Live
<1> QED
  BY <1>1 DEF harvested, IsReverse, ExactPostings, Referrers, Live

(* The diff memory is rebuilt without touching the postings. *)
LEMMA WithRefsFacts ==
  ASSUME NEW r, IsReverse(r)
  PROVE  /\ IsReverse(WithRefs(r)) /\ ~WithRefs(r).dirty
         /\ WithRefs(r).post = r.post
<1>1. CASE ~r.dirty
  BY <1>1 DEF WithRefs
<1>2. CASE r.dirty
  <2> DEFINE refs == [o \in Oids |-> {t \in Oids : o \in r.post[t]}]
  <2>1. WithRefs(r) = [r EXCEPT !.refs = refs, !.dirty = FALSE]
    BY <1>2 DEF WithRefs
  <2>2. \A o, t \in Oids : t \in refs[o] <=> o \in r.post[t]
    OBVIOUS
  <2> HIDE DEF refs
  <2>3. r = [post |-> r.post, refs |-> r.refs, dirty |-> r.dirty]
    BY DEF IsReverse
  <2>4. WithRefs(r) = [post |-> r.post, refs |-> refs, dirty |-> FALSE]
    BY <2>1, <2>3
  <2>5. \A t \in Oids : r.post[t] \subseteq Oids
    BY DEF IsReverse
  <2> QED
    BY <2>2, <2>4, <2>5 DEF IsReverse
<1> QED
  BY <1>1, <1>2

(* Redirect replaces the postings of the referrers it is given. *)
LEMMA RedirectFacts ==
  ASSUME NEW r, IsReverse(r), ~r.dirty, NEW targets, DOMAIN targets \subseteq Oids
  PROVE  LET q == Redirect(r, targets) IN
         /\ IsReverse(q) /\ ~q.dirty
         /\ \A o, t \in Oids : o \in q.post[t] <=>
               IF o \in DOMAIN targets THEN t \in targets[o] ELSE o \in r.post[t]
<1> DEFINE post == [t \in Oids |->
                       {o \in r.post[t] : o \in DOMAIN targets => t \notin r.refs[o]}
                       \cup {o \in DOMAIN targets : t \in targets[o]}]
           refs == [o \in Oids |-> IF o \in DOMAIN targets THEN targets[o] ELSE r.refs[o]]
<1>1. r = [post |-> r.post, refs |-> r.refs, dirty |-> r.dirty]
  BY DEF IsReverse
<1>2. Redirect(r, targets) = [post |-> post, refs |-> refs, dirty |-> r.dirty]
  <2>1. Redirect(r, targets) = [r EXCEPT !.post = post, !.refs = refs]
    BY Zenon DEF Redirect
  <2> HIDE DEF post, refs
  <2> QED
    BY <1>1, <2>1
<1>3. \A t \in Oids : r.post[t] \subseteq Oids
  BY DEF IsReverse
<1>4. \A o, t \in Oids : t \in r.refs[o] <=> o \in r.post[t]
  BY DEF IsReverse
<1>5. \A o, t \in Oids : o \in post[t] <=>
          IF o \in DOMAIN targets THEN t \in targets[o] ELSE o \in r.post[t]
  BY <1>4
<1>6. \A t \in Oids : post[t] \subseteq Oids
  BY <1>3
<1>7. \A o, t \in Oids : t \in refs[o] <=> o \in post[t]
  BY <1>4, <1>5
<1> HIDE DEF post, refs
<1>8. IsReverse([post |-> post, refs |-> refs, dirty |-> r.dirty])
  BY <1>6, <1>7 DEF IsReverse
<1> QED
  BY <1>2, <1>5, <1>8

(* Folding a batch leaves every referrer settled. *)
LEMMA FoldReverseStep ==
  ASSUME StoreInv, CaptureInv, ReverseInv, Fold, rev # NoIndex
  PROVE  IsReverse(rev') /\ \A o \in Oids : Points(rev'.post, o)
<1> DEFINE es == inflight.es
           D == inflight.D
           targets == [o \in Written(es) \cup D |-> IF o \in D THEN {} ELSE Entry(es, o).refs]
           r == WithRefs(rev)
<1>1. ~Idle /\ inflight.landed /\ inflight \in Captures
  BY DEF Fold, Idle, StoreInv
<1>2. es \in Batches /\ D \subseteq Oids
  BY <1>1, CaptureFacts
<1>3. IsReverse(rev) /\ inflight.refs = es
  BY <1>1 DEF ReverseInv, ReverseBuilt
<1>4. rev' = FoldedReverse(rev, es, D)
  BY <1>3 DEF Fold
<1>5. rev' = Redirect(r, targets)
  BY <1>4 DEF FoldedReverse
<1>6. IsReverse(r) /\ ~r.dirty /\ r.post = rev.post
  BY <1>3, WithRefsFacts
<1>7. DOMAIN targets = Written(es) \cup D /\ DOMAIN targets \subseteq Oids
  BY <1>2, WrittenFacts
<1>8. /\ IsReverse(rev')
      /\ \A o, t \in Oids : o \in rev'.post[t] <=>
            IF o \in DOMAIN targets THEN t \in targets[o] ELSE o \in rev.post[t]
  <2> HIDE DEF r, targets
  <2> QED
    BY <1>5, <1>6, <1>7, RedirectFacts
<1>9. ASSUME NEW o \in Oids
      PROVE  Points(rev'.post, o)
  <2>1. CASE o \in D
    <3>1. recs[o] = NoRec
      BY <1>1, <2>1 DEF CaptureInv, Landed
    <3>2. targets[o] = {}
      BY <2>1
    <3> QED
      BY <1>7, <1>8, <2>1, <3>1, <3>2 DEF Points, Out
  <2>2. CASE o \notin D /\ o \in Written(es)
    <3>1. recs[o] = [old |-> FALSE, row |-> Entry(es, o)]
      BY <1>1, <2>2 DEF CaptureInv, Landed
    <3>2. recs[o] # NoRec /\ recs[o].row = Entry(es, o)
      <4>1. Entry(es, o) \in Rows
        BY <1>2, <2>2, WrittenFacts
      <4> QED
        BY <3>1, <4>1, RecordFacts
    <3>3. targets[o] = Entry(es, o).refs
      BY <2>2
    <3> QED
      BY <1>7, <1>8, <2>2, <3>2, <3>3 DEF Points, Out
  <2>3. CASE o \notin D /\ o \notin Written(es)
    <3>1. Points(rev.post, o)
      BY <2>3 DEF ReverseInv, ReverseBuilt, Settled
    <3> QED
      BY <1>7, <1>8, <2>3, <3>1 DEF Points
  <2> QED
    BY <2>1, <2>2, <2>3
<1> QED
  BY <1>8, <1>9

(* The parts of the store that the reverse index is about stay as they are. *)
ReverseQuiet ==
    /\ recs' = recs /\ tid' = tid
    /\ rev' = rev /\ revBlob' = revBlob /\ sidecar' = sidecar

LEMMA ReverseStep ==
  ASSUME Marked, "late" \notin Env, StoreInv, CaptureInv, ReverseInv, [Next]_vars
  PROVE  ReverseInv'
<1>1. ASSUME NEW es \in Batches, NEW D \in SUBSET Live, Capture(es, D)
      PROVE  ReverseInv'
  <2>1. ReverseQuiet /\ Idle
    BY <1>1 DEF Capture, Capturable, ReverseQuiet
  <2>2. /\ inflight' \in Captures /\ ~inflight'.landed /\ inflight'.es = es
        /\ rev # NoIndex => inflight'.refs = es
    BY <1>1, CaptureStep
  <2>3. ~Landed /\ ~Landed'
    BY <2>1, <2>2 DEF Landed
  <2> QED
    BY <2>1, <2>2, <2>3 DEF ReverseInv, ReverseBuilt, ReverseCached, ReverseSaved, ReverseQuiet,
       Settled, Points, Out, ExactPostings, Referrers, Live
<1>2. CASE Land
  <2>1. /\ ~Idle /\ tid' = tid + 1 /\ rev' = rev /\ revBlob' = revBlob /\ sidecar' = sidecar
    BY <1>2 DEF Land, indexVars
  <2>2. /\ Landed' /\ ~Landed /\ ~Idle'
        /\ inflight'.es = inflight.es /\ inflight'.D = inflight.D /\ inflight'.refs = inflight.refs
    BY <1>2, LandStep, CaptureFacts DEF Landed, Idle
  <2>3. ReverseBuilt'
    <3> SUFFICES ASSUME rev # NoIndex
                 PROVE  /\ IsReverse(rev)
                        /\ \A o \in Oids : Settled(o)' => Points(rev.post, o)'
                        /\ revBlob = NoIndex
                        /\ inflight'.refs = inflight'.es
      BY <2>1 DEF ReverseBuilt, IsReverse
    <3>1. IsReverse(rev) /\ revBlob = NoIndex /\ inflight.refs = inflight.es
      BY <2>1 DEF ReverseInv, ReverseBuilt
    <3>2. ASSUME NEW o \in Oids, Settled(o)'
          PROVE  Points(rev.post, o)'
      <4>1. o \notin Written(inflight.es) \cup inflight.D
        BY <3>2, <2>2 DEF Settled, Written
      <4>2. recs'[o] = recs[o]
        BY <1>2, LandStep, <4>1
      <4>3. Points(rev.post, o)
        BY <2>2 DEF ReverseInv, ReverseBuilt, Settled
      <4> QED
        BY <2>1, <4>2, <4>3 DEF Points, Out
    <3> QED
      BY <2>2, <3>1, <3>2
  <2>4. ReverseCached'
    BY <2>2 DEF ReverseCached
  <2>5. ReverseSaved'
    BY <2>1 DEF ReverseInv, ReverseSaved, StoreInv
  <2> QED
    BY <2>3, <2>4, <2>5 DEF ReverseInv
<1>3. CASE LandFails
  <2>1. ReverseQuiet /\ ~Landed /\ ~Landed' /\ Idle'
    BY <1>3 DEF LandFails, ReverseQuiet, Landed, Idle, indexVars
  <2> QED
    BY <2>1 DEF ReverseInv, ReverseBuilt, ReverseCached, ReverseSaved, ReverseQuiet,
       Settled, Points, Out, ExactPostings, Referrers, Live
<1>4. CASE Fold
  <2>1. recs' = recs /\ tid' = tid /\ sidecar' = sidecar /\ Idle' /\ ~Landed' /\ Landed
    BY <1>4 DEF Fold, Landed, Idle
  <2>2. rev = NoIndex => revBlob' = NoIndex /\ rev' = NoIndex
    BY <1>4 DEF Fold, CaptureInv
  <2>3. rev # NoIndex => revBlob' = NoIndex
    BY <1>4 DEF Fold, ReverseInv, ReverseBuilt
  <2>4. ReverseBuilt'
    <3>1. CASE rev = NoIndex
      BY <2>2, <3>1 DEF ReverseBuilt
    <3>2. CASE rev # NoIndex
      <4>1. IsReverse(rev') /\ \A o \in Oids : Points(rev'.post, o)
        BY <1>4, <3>2, FoldReverseStep
      <4> QED
        BY <2>1, <2>3, <3>2, <4>1 DEF ReverseBuilt, Points, Out, IsReverse
    <3> QED
      BY <3>1, <3>2
  <2> QED
    BY <2>1, <2>2, <2>3, <2>4
       DEF ReverseInv, ReverseCached, ReverseSaved, ExactPostings, Referrers, Live
<1>5. ASSUME ReverseQuiet, inflight' = inflight
      PROVE  ReverseInv'
  BY <1>5 DEF ReverseInv, ReverseBuilt, ReverseCached, ReverseSaved, ReverseQuiet, Idle,
       IsReverse, Landed, Settled, Points, Out, ExactPostings, Referrers, Live
<1>6. CASE ensure
  BY <1>5, <1>6 DEF ensure, ReverseQuiet
<1>7. CASE committed_labels
  BY <1>5, <1>7 DEF committed_labels, ReverseQuiet
<1>8. CASE ensure_reverse
  <2>1. /\ recs' = recs /\ tid' = tid /\ sidecar' = sidecar /\ inflight' = inflight
        /\ rev' = EnsuredReverse /\ revBlob' = IF rev = NoIndex THEN NoIndex ELSE revBlob
    BY <1>8 DEF ensure_reverse
  <2>2. Idle /\ Idle' /\ ~Landed /\ ~Landed'
    BY <1>8, <2>1 DEF ensure_reverse, Landed, Idle
  <2>3. CASE rev # NoIndex
    <3>1. rev' = rev /\ revBlob' = revBlob
      BY <2>1, <2>3 DEF EnsuredReverse
    <3> QED
      BY <1>5, <2>1, <3>1 DEF ReverseQuiet
  <2>4. CASE rev = NoIndex
    <3>1. IsReverse(rev') /\ ExactPostings(rev'.post)
      <4>1. CASE revBlob # NoIndex
        <5> DEFINE loaded == [post |-> revBlob, refs |-> [o \in Oids |-> {}], dirty |-> TRUE]
        <5>1. rev' = loaded
          BY <2>1, <2>4, <4>1 DEF EnsuredReverse
        <5>2. ExactPostings(revBlob)
          BY <2>2, <4>1 DEF ReverseInv, ReverseCached
        <5>3. \A t \in Oids : revBlob[t] \subseteq Oids
          BY <5>2, ExactIsPointwise
        <5> QED
          BY <5>1, <5>2, <5>3 DEF IsReverse
      <4>2. CASE revBlob = NoIndex
        BY <2>1, <2>4, <4>2, HarvestedExact DEF EnsuredReverse
      <4> QED
        BY <4>1, <4>2
    <3>2. \A o \in Oids : Points(rev'.post, o)
      BY <3>1, ExactIsPointwise
    <3>3. revBlob' = NoIndex
      BY <2>1, <2>4
    <3> QED
      BY <2>1, <2>2, <3>1, <3>2, <3>3
         DEF ReverseInv, ReverseBuilt, ReverseCached, ReverseSaved, IsReverse, Points, Out,
             ExactPostings, Referrers, Live
  <2> QED
    BY <2>3, <2>4
<1>9. CASE Close
  <2>1. /\ recs' = recs /\ tid' = tid /\ Idle' /\ rev' = NoIndex /\ revBlob' = NoIndex
    BY <1>9 DEF Close, Down, Idle
  <2>2. ReverseSaved'
    <3>1. CASE ci = NoIndex /\ rev = NoIndex
      <4>1. sidecar' = sidecar
        BY <1>9, <3>1 DEF Close
      <4> QED
        BY <2>1, <4>1 DEF ReverseInv, ReverseSaved, ExactPostings, Referrers, Live
    <3>2. CASE ~(ci = NoIndex /\ rev = NoIndex)
      <4>1. /\ sidecar'.watermark = LastTid
            /\ sidecar'.reverse = IF rev = NoIndex THEN NoIndex ELSE rev.post
        <5>1. sidecar' = [watermark |-> LastTid,
                          class |-> IF ci = NoIndex THEN NoIndex ELSE dump(ci),
                          reverse |-> IF rev = NoIndex THEN NoIndex ELSE rev.post]
          BY <1>9, <3>2 DEF Close
        <5> QED
          BY <5>1
      <4>2. tid \in Int
        BY DEF StoreInv
      <4>3. CASE Landed
        <5>1. LastTid = tid - 1
          BY <4>3 DEF LastTid, Landed
        <5> QED
          BY <2>1, <4>1, <4>2, <5>1 DEF ReverseSaved
      <4>4. CASE ~Landed
        <5>1. LastTid = tid
          BY <4>4 DEF LastTid, Landed
        <5>2. rev # NoIndex => ExactPostings(rev.post)
          BY <4>4, ExactIsPointwise DEF ReverseInv, ReverseBuilt, Settled, IsReverse
        <5> QED
          BY <2>1, <4>1, <4>2, <5>1, <5>2 DEF ReverseSaved, ExactPostings, Referrers, Live
      <4> QED
        BY <4>3, <4>4
    <3> QED
      BY <3>1, <3>2
  <2> QED
    BY <2>1, <2>2 DEF ReverseInv, ReverseBuilt, ReverseCached
<1>10. CASE Crash
  <2>1. /\ recs' = recs /\ tid' = tid /\ sidecar' = sidecar
        /\ rev' = NoIndex /\ revBlob' = NoIndex
    BY <1>10 DEF Crash, Down
  <2> QED
    BY <2>1 DEF ReverseInv, ReverseBuilt, ReverseCached, ReverseSaved, ExactPostings, Referrers, Live
<1>11. CASE Open
  <2>1. /\ recs' = recs /\ tid' = tid /\ sidecar' = sidecar /\ rev' = rev
        /\ revBlob' = IF sidecar # NoIndex /\ sidecar.watermark = tid
                      THEN sidecar.reverse ELSE NoIndex
    BY <1>11 DEF Open
  <2>2. rev = NoIndex
    BY <1>11 DEF Open, StoreInv
  <2> QED
    BY <2>1, <2>2
       DEF ReverseInv, ReverseBuilt, ReverseCached, ReverseSaved, ExactPostings, Referrers, Live
<1>12. CASE Redeploy
  BY <1>5, <1>12 DEF Redeploy, ReverseQuiet, indexVars
<1>13. CASE UNCHANGED vars
  BY <1>5, <1>13 DEF vars, indexVars, ReverseQuiet
<1> QED
  BY <1>1, <1>2, <1>3, <1>4, <1>6, <1>7, <1>8, <1>9, <1>10, <1>11, <1>12, <1>13 DEF Next

LEMMA StoreInit ==
  ASSUME Marked, Init
  PROVE  StoreInv /\ CaptureInv
  BY DEF Marked, Init, StoreInv, CaptureInv, Landed, Idle

(***************************************************************************)
(* incoming() never misses a referrer and never names one that is not: the   *)
(* postings, built from the records, loaded from the sidecar and folded with  *)
(* every commit, are those of a scan of the records whenever no commit is     *)
(* under way.  Not so when the first incoming() of the session falls between  *)
(* a capture and its fold ("late"), or when the class has no marker.          *)
(***************************************************************************)
THEOREM IncomingExact ==
  ASSUME Marked, "late" \notin Env
  PROVE  Spec => []ReverseServes
<1>1. Init => StoreInv /\ CaptureInv /\ ReverseInv
  <2> SUFFICES ASSUME Init PROVE StoreInv /\ CaptureInv /\ ReverseInv
    OBVIOUS
  <2>1. StoreInv /\ CaptureInv
    BY StoreInit
  <2>2. ReverseInv
    BY DEF Init, ReverseInv, ReverseBuilt, ReverseCached, ReverseSaved
  <2> QED
    BY <2>1, <2>2
<1>2. StoreInv /\ CaptureInv /\ ReverseInv /\ [Next]_vars => (StoreInv /\ CaptureInv /\ ReverseInv)'
  BY StoreStep, ReverseStep
<1>3. StoreInv /\ CaptureInv /\ ReverseInv => ReverseServes
  <2> SUFFICES ASSUME ReverseInv, Idle
               PROVE  /\ rev # NoIndex => ExactPostings(rev.post)
                      /\ revBlob # NoIndex => ExactPostings(revBlob)
    BY DEF ReverseServes, ExactPostings
  <2>1. ~Landed
    BY DEF Landed
  <2>2. rev # NoIndex => ExactPostings(rev.post)
    BY <2>1, ExactIsPointwise DEF ReverseInv, ReverseBuilt, Settled, IsReverse
  <2>3. revBlob # NoIndex => ExactPostings(revBlob)
    BY <2>1 DEF ReverseInv, ReverseCached
  <2> QED
    BY <2>2, <2>3
<1> QED
  BY <1>1, <1>2, <1>3, PTL DEF Spec

-----------------------------------------------------------------------------
(***************************************************************************)
(* The class index.  R maps the live objects of the class to their rows, as *)
(* the class decodes them.                                                  *)
(***************************************************************************)
Current == [o \in Live |-> Row(o)]

Holders(R, f, k) == {o \in DOMAIN R : k \in KeysOf(f, R[o][f])}

(* The parts of a class index, and the fields each is about. *)
IsClassIndex(c) ==
    /\ c = [extent |-> c.extent, eq |-> c.eq, run |-> c.run,
            unique |-> c.unique, last |-> c.last, dirty |-> c.dirty]
    /\ c.dirty \in BOOLEAN
    /\ DOMAIN c.eq \subseteq EqFields
    /\ DOMAIN c.run \subseteq DOMAIN c.eq
    /\ DOMAIN c.unique \subseteq UniqueFields
    /\ c.unique = [f \in DOMAIN c.unique |->
                      [v \in DOMAIN c.unique[f] |-> c.unique[f][v]]]

Posted(c, R) ==
    /\ c.extent = DOMAIN R
    /\ \A f \in DOMAIN c.eq : \A k : At(c.eq[f], k) = Holders(R, f, k)
    /\ \A f \in DOMAIN c.run : c.run[f] = DOMAIN c.eq[f] \ {NULL}

(* The unique map, but for the objects D on their way out: a key that one of   *)
(* them held may belong to another object by now.                              *)
Mapped(c, R, D) ==
    \A f \in DOMAIN c.unique :
        /\ \A v \in DOMAIN c.unique[f] :
              /\ v # NULL
              /\ c.unique[f][v] \in DOMAIN R
              /\ R[c.unique[f][v]][f] = v
        /\ \A o \in DOMAIN R \ D : R[o][f] # NULL =>
              R[o][f] \in DOMAIN c.unique[f] /\ c.unique[f][R[o][f]] = o

(* The un-index memory names the keys of each row. *)
Remembers(c, R) ==
    \A f \in DOMAIN c.eq \cup DOMAIN c.unique : \A o, k :
        (f \in DOMAIN c.unique => k # NULL) =>
            (Knows(c, o, f, k) <=> o \in DOMAIN R /\ k \in KeysOf(f, R[o][f]))

Agrees(c, R, D) ==
    /\ IsClassIndex(c) /\ Posted(c, R) /\ Mapped(c, R, D)
    /\ ~c.dirty => Remembers(c, R)

(* The index has the fields of the class as it is declared. *)
CurrentMarkers(c) ==
    /\ DOMAIN c.eq = eqFields
    /\ DOMAIN c.run = sortedFields
    /\ DOMAIN c.unique = uniqueFields

LEMMA FieldFacts ==
  /\ \A f \in UniqueFields : f \notin EqFields /\ f \notin ListFields
  /\ \A f \in SortedFields : f \in EqFields /\ f \notin ListFields
  /\ eqFields \subseteq EqFields /\ sortedFields \subseteq eqFields
  /\ uniqueFields \subseteq UniqueFields
  /\ _maintained_fields = eqFields \cup uniqueFields
<1>1. eqFields \subseteq EqFields /\ uniqueFields \subseteq UniqueFields
  BY DEF eqFields, uniqueFields
<1> QED
  BY <1>1, IndexConstants DEF sortedFields, _maintained_fields

(* A posting list of a key that never had an entry is empty. *)
LEMMA AtFacts ==
  ASSUME NEW m, NEW k
  PROVE  /\ k \in DOMAIN m => At(m, k) = m[k]
         /\ At(m, k) # {} => k \in DOMAIN m
  BY DEF At

-----------------------------------------------------------------------------
(* _unindex and remove. *)

ClassParts == {"extent", "eq", "run", "unique", "last", "dirty"}

LEMMA SixParts ==
  ASSUME NEW d, d = [x \in ClassParts |-> d[x]]
  PROVE  d = [extent |-> d.extent, eq |-> d.eq, run |-> d.run,
              unique |-> d.unique, last |-> d.last, dirty |-> d.dirty]
<1> DEFINE e == [extent |-> d.extent, eq |-> d.eq, run |-> d.run,
                 unique |-> d.unique, last |-> d.last, dirty |-> d.dirty]
<1>1. /\ e = [x \in ClassParts |-> e[x]]
      /\ e["extent"] = d["extent"] /\ e["eq"] = d["eq"] /\ e["run"] = d["run"]
      /\ e["unique"] = d["unique"] /\ e["last"] = d["last"] /\ e["dirty"] = d["dirty"]
  BY DEF ClassParts
<1> HIDE DEF e
<1>2. \A x \in ClassParts : d[x] = e[x]
  BY <1>1 DEF ClassParts
<1>3. d = e
  BY <1>1, <1>2
<1> QED
  BY <1>3 DEF e

(* An index with some of its parts replaced. *)
LEMMA PartsReplaced ==
  ASSUME NEW c, NEW extent, NEW eq, NEW run, NEW unique, NEW last,
         c = [extent |-> c.extent, eq |-> c.eq, run |-> c.run,
              unique |-> c.unique, last |-> c.last, dirty |-> c.dirty]
  PROVE  /\ [c EXCEPT !.extent = extent]
              = [extent |-> extent, eq |-> c.eq, run |-> c.run,
                 unique |-> c.unique, last |-> c.last, dirty |-> c.dirty]
         /\ [c EXCEPT !.eq = eq, !.unique = unique, !.last = last]
              = [extent |-> c.extent, eq |-> eq, run |-> c.run,
                 unique |-> unique, last |-> last, dirty |-> c.dirty]
         /\ [c EXCEPT !.last = last, !.dirty = FALSE]
              = [extent |-> c.extent, eq |-> c.eq, run |-> c.run,
                 unique |-> c.unique, last |-> last, dirty |-> FALSE]
         /\ [c EXCEPT !.extent = extent, !.eq = eq, !.run = run, !.unique = unique, !.last = last]
              = [extent |-> extent, eq |-> eq, run |-> run,
                 unique |-> unique, last |-> last, dirty |-> c.dirty]
<1> DEFINE d1 == [c EXCEPT !.extent = extent]
           d2 == [c EXCEPT !.eq = eq, !.unique = unique, !.last = last]
           d3 == [c EXCEPT !.last = last, !.dirty = FALSE]
           d4 == [c EXCEPT !.extent = extent, !.eq = eq, !.run = run,
                           !.unique = unique, !.last = last]
<1>1. DOMAIN c = ClassParts
  BY DEF ClassParts
<1>2. /\ d1 = [x \in ClassParts |-> d1[x]] /\ d1.extent = extent /\ d1.eq = c.eq
      /\ d1.run = c.run /\ d1.unique = c.unique /\ d1.last = c.last /\ d1.dirty = c.dirty
  BY <1>1 DEF ClassParts
<1>3. /\ d2 = [x \in ClassParts |-> d2[x]] /\ d2.extent = c.extent /\ d2.eq = eq
      /\ d2.run = c.run /\ d2.unique = unique /\ d2.last = last /\ d2.dirty = c.dirty
  BY <1>1 DEF ClassParts
<1>4. /\ d3 = [x \in ClassParts |-> d3[x]] /\ d3.extent = c.extent /\ d3.eq = c.eq
      /\ d3.run = c.run /\ d3.unique = c.unique /\ d3.last = last /\ d3.dirty = FALSE
  BY <1>1 DEF ClassParts
<1>5. /\ d4 = [x \in ClassParts |-> d4[x]] /\ d4.extent = extent /\ d4.eq = eq
      /\ d4.run = run /\ d4.unique = unique /\ d4.last = last /\ d4.dirty = c.dirty
  BY <1>1 DEF ClassParts
<1> HIDE DEF d1, d2, d3, d4
<1>6. /\ d1 = [extent |-> extent, eq |-> c.eq, run |-> c.run,
               unique |-> c.unique, last |-> c.last, dirty |-> c.dirty]
      /\ d2 = [extent |-> c.extent, eq |-> eq, run |-> c.run,
               unique |-> unique, last |-> last, dirty |-> c.dirty]
  BY <1>2, <1>3, SixParts
<1>7. /\ d3 = [extent |-> c.extent, eq |-> c.eq, run |-> c.run,
               unique |-> c.unique, last |-> last, dirty |-> FALSE]
      /\ d4 = [extent |-> extent, eq |-> eq, run |-> run,
               unique |-> unique, last |-> last, dirty |-> c.dirty]
  BY <1>4, <1>5, SixParts
<1> QED
  BY Zenon, <1>6, <1>7 DEF d1, d2, d3, d4

(* q is c, of the rows R, without the objects O in its postings. *)
Unindexed(q, c, R, O) ==
    /\ q = [extent |-> c.extent, eq |-> q.eq, run |-> c.run,
            unique |-> q.unique, last |-> q.last, dirty |-> FALSE]
    /\ DOMAIN q.eq = DOMAIN c.eq /\ DOMAIN q.unique = DOMAIN c.unique
    /\ \A f \in DOMAIN c.eq :
          /\ DOMAIN q.eq[f] = DOMAIN c.eq[f]
          /\ \A k : At(q.eq[f], k) = Holders(R, f, k) \ O
    /\ q.unique = [f \in DOMAIN q.unique |->
                     [v \in DOMAIN q.unique[f] |-> q.unique[f][v]]]
    /\ \A f \in DOMAIN c.unique :
          /\ DOMAIN q.unique[f] = {v \in DOMAIN c.unique[f] : c.unique[f][v] \notin O}
          /\ \A v \in DOMAIN q.unique[f] : q.unique[f][v] = c.unique[f][v]
    /\ \A f, o, k : Knows(q, o, f, k) <=> o \notin O /\ Knows(c, o, f, k)

LEMMA UnindexFacts ==
  ASSUME NEW c, NEW R, NEW D, NEW O, Agrees(c, R, D), ~c.dirty
  PROVE  Unindexed(_unindex(c, O), c, R, O)
<1> DEFINE eq == [f \in DOMAIN c.eq |-> [k \in DOMAIN c.eq[f] |->
                     c.eq[f][k] \ {o \in O : Knows(c, o, f, k)}]]
           out(f) == {v \in DOMAIN c.unique[f] :
                         c.unique[f][v] \in O /\ Knows(c, c.unique[f][v], f, v)}
           unique == [f \in DOMAIN c.unique |-> Without(c.unique[f], out(f))]
           last == Without(c.last, O)
           q == _unindex(c, O)
<1>1. c = [extent |-> c.extent, eq |-> c.eq, run |-> c.run,
           unique |-> c.unique, last |-> c.last, dirty |-> FALSE]
  BY DEF Agrees, IsClassIndex
<1>2. /\ \A f \in DOMAIN c.eq : \A k : At(c.eq[f], k) = Holders(R, f, k)
      /\ Mapped(c, R, D) /\ Remembers(c, R)
      /\ DOMAIN c.eq \subseteq EqFields /\ DOMAIN c.unique \subseteq UniqueFields
  BY DEF Agrees, Posted, IsClassIndex
<1>3. q = [c EXCEPT !.eq = eq, !.unique = unique, !.last = last]
  BY Zenon DEF _unindex
<1>4. ASSUME NEW f \in DOMAIN c.eq
      PROVE  /\ DOMAIN eq[f] = DOMAIN c.eq[f]
             /\ \A k : At(eq[f], k) = Holders(R, f, k) \ O
  <2>1. f \notin DOMAIN c.unique
    BY <1>2, FieldFacts
  <2>2. \A o, k : Knows(c, o, f, k) <=> o \in Holders(R, f, k)
    BY <1>2, <2>1 DEF Remembers, Holders
  <2>3. eq[f] = [k \in DOMAIN c.eq[f] |-> c.eq[f][k] \ {o \in O : Knows(c, o, f, k)}]
    OBVIOUS
  <2>4. ASSUME NEW k
        PROVE  At(eq[f], k) = Holders(R, f, k) \ O
    <3>1. At(c.eq[f], k) = Holders(R, f, k)
      BY <1>2
    <3> HIDE DEF eq
    <3>2. CASE k \in DOMAIN c.eq[f]
      BY <2>2, <2>3, <3>1, <3>2 DEF At
    <3>3. CASE k \notin DOMAIN c.eq[f]
      BY <2>3, <3>1, <3>3 DEF At
    <3> QED
      BY <3>2, <3>3
  <2> QED
    BY <2>3, <2>4
<1>5. ASSUME NEW f \in DOMAIN c.unique
      PROVE  /\ unique[f] = [v \in DOMAIN unique[f] |-> unique[f][v]]
             /\ DOMAIN unique[f] = {v \in DOMAIN c.unique[f] : c.unique[f][v] \notin O}
             /\ \A v \in DOMAIN unique[f] : unique[f][v] = c.unique[f][v]
  <2>1. unique[f] = [v \in DOMAIN c.unique[f] \ out(f) |-> c.unique[f][v]]
    BY DEF Without
  <2>2. ASSUME NEW v \in DOMAIN c.unique[f]
        PROVE  v \in out(f) <=> c.unique[f][v] \in O
    <3>1. v # NULL /\ c.unique[f][v] \in DOMAIN R /\ R[c.unique[f][v]][f] = v
      BY <1>2 DEF Mapped
    <3>2. KeysOf(f, v) = {v}
      BY <1>2, FieldFacts DEF KeysOf
    <3>3. Knows(c, c.unique[f][v], f, v)
      BY <1>2, <3>1, <3>2 DEF Remembers
    <3> QED
      BY <3>3
  <2> HIDE DEF unique, out
  <2> QED
    BY <2>1, <2>2
<1>6. \A f, o, k : Knows([extent |-> c.extent, eq |-> eq, run |-> c.run,
                          unique |-> unique, last |-> last, dirty |-> FALSE], o, f, k)
                     <=> o \notin O /\ Knows(c, o, f, k)
  <2>1. DOMAIN last = DOMAIN c.last \ O /\ \A o \in DOMAIN last : last[o] = c.last[o]
    BY DEF Without
  <2> HIDE DEF last, eq, unique
  <2> QED
    BY <2>1 DEF Knows
<1>7. DOMAIN eq = DOMAIN c.eq /\ DOMAIN unique = DOMAIN c.unique
      /\ unique = [f \in DOMAIN unique |-> unique[f]]
  OBVIOUS
<1> HIDE DEF eq, unique, last, q
<1>8. q = [extent |-> c.extent, eq |-> eq, run |-> c.run,
           unique |-> unique, last |-> last, dirty |-> FALSE]
  <2>1. IsClassIndex(c) /\ c.dirty = FALSE
    BY DEF Agrees, IsClassIndex
  <2> QED
    BY <1>3, <2>1, PartsReplaced DEF IsClassIndex
<1>9. q.eq = eq /\ q.unique = unique /\ q.last = last
  BY <1>8
<1>10. unique = [f \in DOMAIN unique |-> [v \in DOMAIN unique[f] |-> unique[f][v]]]
  BY <1>5, <1>7
<1>11. \A f, o, k : Knows(q, o, f, k) <=> o \notin O /\ Knows(c, o, f, k)
  BY <1>6, <1>8
<1>12. \A f \in DOMAIN c.eq :
           /\ DOMAIN q.eq[f] = DOMAIN c.eq[f]
           /\ \A k : At(q.eq[f], k) = Holders(R, f, k) \ O
  BY <1>4, <1>9
<1>13. \A f \in DOMAIN c.unique :
           /\ DOMAIN q.unique[f] = {v \in DOMAIN c.unique[f] : c.unique[f][v] \notin O}
           /\ \A v \in DOMAIN q.unique[f] : q.unique[f][v] = c.unique[f][v]
  BY <1>5, <1>9
<1>14. q = [extent |-> c.extent, eq |-> q.eq, run |-> c.run,
            unique |-> q.unique, last |-> q.last, dirty |-> FALSE]
  BY <1>8, <1>9
<1>15. /\ DOMAIN q.eq = DOMAIN c.eq /\ DOMAIN q.unique = DOMAIN c.unique
       /\ q.unique = [f \in DOMAIN q.unique |->
                        [v \in DOMAIN q.unique[f] |-> q.unique[f][v]]]
  BY <1>7, <1>9, <1>10
<1> QED
  BY <1>11, <1>12, <1>13, <1>14, <1>15 DEF q, Unindexed

(* The objects O leave the index. *)
Removed(c, O) == [_unindex(c, O) EXCEPT !.extent = @ \ O]

LEMMA RemoveFacts ==
  ASSUME NEW c, NEW R, NEW D, NEW O, Agrees(c, R, D), ~c.dirty
  PROVE  /\ Agrees(Removed(c, O), Without(R, O), D \ O) /\ ~Removed(c, O).dirty
         /\ DOMAIN Removed(c, O).eq = DOMAIN c.eq
         /\ DOMAIN Removed(c, O).run = DOMAIN c.run
         /\ DOMAIN Removed(c, O).unique = DOMAIN c.unique
<1> DEFINE u == _unindex(c, O)
           q == [u EXCEPT !.extent = @ \ O]
           S == Without(R, O)
<1>0. Unindexed(u, c, R, O)
  BY UnindexFacts
<1> HIDE DEF u
<1>1. /\ u = [extent |-> c.extent, eq |-> u.eq, run |-> c.run,
              unique |-> u.unique, last |-> u.last, dirty |-> FALSE]
      /\ DOMAIN u.eq = DOMAIN c.eq /\ DOMAIN u.unique = DOMAIN c.unique
      /\ u.unique = [f \in DOMAIN u.unique |-> [v \in DOMAIN u.unique[f] |-> u.unique[f][v]]]
  BY <1>0 DEF Unindexed
<1>2. \A f \in DOMAIN c.eq :
          /\ DOMAIN u.eq[f] = DOMAIN c.eq[f]
          /\ \A k : At(u.eq[f], k) = Holders(R, f, k) \ O
  BY <1>0 DEF Unindexed
<1>3. \A f \in DOMAIN c.unique :
          /\ DOMAIN u.unique[f] = {v \in DOMAIN c.unique[f] : c.unique[f][v] \notin O}
          /\ \A v \in DOMAIN u.unique[f] : u.unique[f][v] = c.unique[f][v]
  BY <1>0 DEF Unindexed
<1>4. \A f, o, k : Knows(u, o, f, k) <=> o \notin O /\ Knows(c, o, f, k)
  BY <1>0 DEF Unindexed
<1>5. DOMAIN S = DOMAIN R \ O /\ \A o \in DOMAIN S : S[o] = R[o]
  BY DEF Without
<1> HIDE DEF S
<1>6. q = [extent |-> c.extent \ O, eq |-> u.eq, run |-> c.run,
           unique |-> u.unique, last |-> u.last, dirty |-> FALSE]
  <2>1. /\ u = [extent |-> u.extent, eq |-> u.eq, run |-> u.run,
                unique |-> u.unique, last |-> u.last, dirty |-> u.dirty]
        /\ u.extent = c.extent /\ u.run = c.run /\ u.dirty = FALSE
    BY <1>1
  <2>2. [u EXCEPT !.extent = u.extent \ O]
          = [extent |-> u.extent \ O, eq |-> u.eq, run |-> u.run,
             unique |-> u.unique, last |-> u.last, dirty |-> u.dirty]
    BY <2>1, PartsReplaced
  <2> QED
    BY <2>1, <2>2
<1> HIDE DEF q
<1>7. /\ q.extent = c.extent \ O /\ q.eq = u.eq /\ q.run = c.run
      /\ q.unique = u.unique /\ q.last = u.last /\ q.dirty = FALSE
  BY <1>6
<1>8. /\ DOMAIN c.eq \subseteq EqFields /\ DOMAIN c.run \subseteq DOMAIN c.eq
      /\ DOMAIN c.unique \subseteq UniqueFields
  BY DEF Agrees, IsClassIndex
<1>9. IsClassIndex(q)
  <2>1. q = [extent |-> q.extent, eq |-> q.eq, run |-> q.run,
             unique |-> q.unique, last |-> q.last, dirty |-> q.dirty]
    BY <1>6
  <2>2. q.unique = [f \in DOMAIN q.unique |-> [v \in DOMAIN q.unique[f] |-> q.unique[f][v]]]
    BY <1>1, <1>7
  <2> QED
    BY <1>1, <1>7, <1>8, <2>1, <2>2 DEF IsClassIndex
<1>10. Posted(q, S)
  <2>1. q.extent = DOMAIN S
    BY <1>5, <1>7 DEF Agrees, Posted
  <2>2. ASSUME NEW f \in DOMAIN q.eq, NEW k
        PROVE  At(q.eq[f], k) = Holders(S, f, k)
    <3>1. At(q.eq[f], k) = Holders(R, f, k) \ O
      BY <1>1, <1>2, <1>7
    <3>2. Holders(S, f, k) = Holders(R, f, k) \ O
      BY <1>5 DEF Holders
    <3> QED
      BY <3>1, <3>2
  <2>3. \A f \in DOMAIN q.run : q.run[f] = DOMAIN q.eq[f] \ {NULL}
    BY <1>1, <1>2, <1>7, <1>8 DEF Agrees, Posted
  <2> QED
    BY <2>1, <2>2, <2>3 DEF Posted
<1>11. Mapped(q, S, D \ O)
  <2> SUFFICES ASSUME NEW f \in DOMAIN c.unique
               PROVE  /\ \A v \in DOMAIN u.unique[f] :
                            v # NULL /\ u.unique[f][v] \in DOMAIN S /\ S[u.unique[f][v]][f] = v
                      /\ \A o \in DOMAIN S \ (D \ O) : S[o][f] # NULL =>
                            S[o][f] \in DOMAIN u.unique[f] /\ u.unique[f][S[o][f]] = o
    BY <1>1, <1>7 DEF Mapped
  <2>1. /\ \A v \in DOMAIN c.unique[f] :
              v # NULL /\ c.unique[f][v] \in DOMAIN R /\ R[c.unique[f][v]][f] = v
        /\ \A o \in DOMAIN R \ D : R[o][f] # NULL =>
              R[o][f] \in DOMAIN c.unique[f] /\ c.unique[f][R[o][f]] = o
    BY DEF Agrees, Mapped
  <2> QED
    BY <1>3, <1>5, <2>1
<1>12. Remembers(q, S)
  <2>1. Remembers(c, R)
    BY DEF Agrees
  <2>2. \A f, o, k : Knows(q, o, f, k) <=> Knows(u, o, f, k)
    BY <1>7 DEF Knows
  <2> QED
    BY <1>1, <1>4, <1>5, <1>7, <2>1, <2>2 DEF Remembers
<1> QED
  <2>1. /\ Agrees(q, S, D \ O) /\ ~q.dirty
        /\ DOMAIN q.eq = DOMAIN c.eq /\ DOMAIN q.run = DOMAIN c.run
        /\ DOMAIN q.unique = DOMAIN c.unique
    BY <1>1, <1>7, <1>9, <1>10, <1>11, <1>12 DEF Agrees
  <2>2. q = Removed(c, O)
    BY DEF Removed, q, u
  <2> QED
    BY <2>1, <2>2 DEF S

-----------------------------------------------------------------------------
(* The un-index memory, rebuilt from the postings and the unique map. *)

LEMMA RememberedFacts ==
  ASSUME NEW c, NEW R, Agrees(c, R, {}), NEW o,
         NEW f \in DOMAIN c.eq \cup DOMAIN c.unique, NEW k, f \in DOMAIN c.unique => k # NULL
  PROVE  /\ o \in DOMAIN R /\ k \in KeysOf(f, R[o][f])
            <=> f \in DOMAIN Remembered(c, o) /\ k \in KeysOf(f, Remembered(c, o)[f])
<1> DEFINE posted == {g \in DOMAIN c.eq : \E x \in DOMAIN c.eq[g] : o \in c.eq[g][x]}
           mapped == {g \in DOMAIN c.unique : \E v \in DOMAIN c.unique[g] : c.unique[g][v] = o}
           rem == Remembered(c, o)
<1>1. rem = [g \in posted \cup mapped |->
                IF g \in ListFields THEN {x \in DOMAIN c.eq[g] : o \in c.eq[g][x]}
                ELSE IF g \in DOMAIN c.eq THEN CHOOSE x \in DOMAIN c.eq[g] : o \in c.eq[g][x]
                ELSE CHOOSE v \in DOMAIN c.unique[g] : c.unique[g][v] = o]
  BY Zenon DEF Remembered
<1>2. DOMAIN c.eq \subseteq EqFields /\ DOMAIN c.unique \subseteq UniqueFields
  BY DEF Agrees, IsClassIndex
<1>3. CASE f \in DOMAIN c.eq
  <2>1. f \notin DOMAIN c.unique
    BY <1>2, <1>3, FieldFacts
  <2>2. \A x : x \in DOMAIN c.eq[f] /\ o \in c.eq[f][x] <=> o \in DOMAIN R /\ x \in KeysOf(f, R[o][f])
    <3> SUFFICES ASSUME NEW x
                 PROVE  x \in DOMAIN c.eq[f] /\ o \in c.eq[f][x]
                          <=> o \in DOMAIN R /\ x \in KeysOf(f, R[o][f])
      OBVIOUS
    <3>1. At(c.eq[f], x) = Holders(R, f, x)
      BY <1>3 DEF Agrees, Posted
    <3>2. o \in At(c.eq[f], x) <=> x \in DOMAIN c.eq[f] /\ o \in c.eq[f][x]
      BY DEF At
    <3> QED
      BY <3>1, <3>2 DEF Holders
  <2>3. f \in posted \cup mapped <=> \E x : o \in DOMAIN R /\ x \in KeysOf(f, R[o][f])
    BY <1>3, <2>1, <2>2
  <2>4. CASE f \in ListFields
    <3> DEFINE keys == {x \in DOMAIN c.eq[f] : o \in c.eq[f][x]}
    <3>1. f \in posted \cup mapped => rem[f] = keys
      BY <1>1, <2>4
    <3>2. o \in DOMAIN R => keys = KeysOf(f, R[o][f])
      BY <2>2
    <3>3. o \in DOMAIN R /\ keys # {} => keys = R[o][f] /\ R[o][f] # NULL
      BY <2>4, <3>2 DEF KeysOf
    <3>4. o \in DOMAIN R /\ keys # {} => KeysOf(f, keys) = keys
      BY <2>4, <3>3 DEF KeysOf
    <3> HIDE DEF keys, posted, mapped, rem
    <3>5. DOMAIN rem = posted \cup mapped
      BY <1>1
    <3> QED
      BY <2>3, <3>1, <3>2, <3>4, <3>5 DEF rem
  <2>5. CASE f \notin ListFields
    <3> DEFINE key == CHOOSE x \in DOMAIN c.eq[f] : o \in c.eq[f][x]
    <3>1. f \in posted \cup mapped => rem[f] = key
      BY <1>1, <1>3, <2>5
    <3>2. f \in posted \cup mapped => key \in DOMAIN c.eq[f] /\ o \in c.eq[f][key]
      BY <1>3, <2>1
    <3>3. f \in posted \cup mapped => o \in DOMAIN R /\ key \in KeysOf(f, R[o][f])
      BY <2>2, <3>2
    <3>4. \A v : KeysOf(f, v) = {v}
      BY <2>5 DEF KeysOf
    <3> HIDE DEF key, posted, mapped, rem
    <3>5. DOMAIN rem = posted \cup mapped
      BY <1>1
    <3> QED
      BY <2>3, <3>1, <3>3, <3>4, <3>5 DEF rem
  <2> QED
    BY <2>4, <2>5
<1>4. CASE f \in DOMAIN c.unique
  <2>1. f \notin DOMAIN c.eq /\ f \notin ListFields
    BY <1>2, <1>4, FieldFacts
  <2>2. \A v : KeysOf(f, v) = {v}
    BY <2>1 DEF KeysOf
  <2>3. /\ \A v \in DOMAIN c.unique[f] :
              v # NULL /\ c.unique[f][v] \in DOMAIN R /\ R[c.unique[f][v]][f] = v
        /\ \A u \in DOMAIN R : R[u][f] # NULL =>
              R[u][f] \in DOMAIN c.unique[f] /\ c.unique[f][R[u][f]] = u
    BY <1>4 DEF Agrees, Mapped
  <2> DEFINE key == CHOOSE v \in DOMAIN c.unique[f] : c.unique[f][v] = o
  <2>4. f \in posted \cup mapped => rem[f] = key
    BY <1>1, <2>1
  <2>5. f \in posted \cup mapped => key \in DOMAIN c.unique[f] /\ c.unique[f][key] = o
    BY <1>4, <2>1
  <2>6. f \in posted \cup mapped <=> \E v \in DOMAIN c.unique[f] : c.unique[f][v] = o
    BY <1>4, <2>1
  <2> HIDE DEF key, posted, mapped, rem
  <2>7. DOMAIN rem = posted \cup mapped
    BY <1>1
  <2>8. f \in DOMAIN rem => o \in DOMAIN R /\ rem[f] = R[o][f]
    BY <2>3, <2>4, <2>5, <2>7
  <2>9. o \in DOMAIN R /\ R[o][f] # NULL => f \in DOMAIN rem
    BY <2>3, <2>6, <2>7
  <2> QED
    BY <1>4, <2>2, <2>8, <2>9 DEF rem
<1> QED
  BY <1>3, <1>4

LEMMA WithLastFacts ==
  ASSUME NEW c, NEW R, Agrees(c, R, {})
  PROVE  /\ Agrees(WithLastValues(c), R, {}) /\ ~WithLastValues(c).dirty
         /\ DOMAIN WithLastValues(c).eq = DOMAIN c.eq
         /\ DOMAIN WithLastValues(c).run = DOMAIN c.run
         /\ DOMAIN WithLastValues(c).unique = DOMAIN c.unique
<1>1. CASE ~c.dirty
  BY <1>1 DEF WithLastValues
<1>2. CASE c.dirty
  <2> DEFINE known == {o \in c.extent : DOMAIN Remembered(c, o) # {}}
             last == [o \in known |-> Remembered(c, o)]
             q == [c EXCEPT !.last = last, !.dirty = FALSE]
  <2>1. WithLastValues(c) = q
    BY <1>2, Zenon DEF WithLastValues
  <2>2. DOMAIN last = known /\ \A o \in known : last[o] = Remembered(c, o)
    OBVIOUS
  <2>3. \A o : o \in known <=> o \in DOMAIN R /\ DOMAIN Remembered(c, o) # {}
    BY DEF Agrees, Posted
  <2> HIDE DEF last, known
  <2>4. q = [extent |-> c.extent, eq |-> c.eq, run |-> c.run,
             unique |-> c.unique, last |-> last, dirty |-> FALSE]
    BY PartsReplaced DEF Agrees, IsClassIndex
  <2> HIDE DEF q
  <2>5. /\ q.extent = c.extent /\ q.eq = c.eq /\ q.run = c.run
        /\ q.unique = c.unique /\ q.last = last /\ q.dirty = FALSE
    BY <2>4
  <2>6. IsClassIndex(q)
    BY <2>4, <2>5 DEF Agrees, IsClassIndex
  <2>7. Posted(q, R) /\ Mapped(q, R, {})
    BY <2>5 DEF Agrees, Posted, Mapped
  <2>8. Remembers(q, R)
    <3> SUFFICES ASSUME NEW f \in DOMAIN c.eq \cup DOMAIN c.unique, NEW o, NEW k,
                        f \in DOMAIN c.unique => k # NULL
                 PROVE  Knows(q, o, f, k) <=> o \in DOMAIN R /\ k \in KeysOf(f, R[o][f])
      BY <2>5 DEF Remembers
    <3>1. Knows(q, o, f, k) <=> /\ o \in known
                                /\ f \in DOMAIN Remembered(c, o)
                                /\ k \in KeysOf(f, Remembered(c, o)[f])
      BY <2>2, <2>5 DEF Knows
    <3>2. /\ o \in DOMAIN R /\ k \in KeysOf(f, R[o][f])
             <=> f \in DOMAIN Remembered(c, o) /\ k \in KeysOf(f, Remembered(c, o)[f])
      BY RememberedFacts
    <3> QED
      BY <2>3, <3>1, <3>2
  <2> QED
    BY <2>1, <2>5, <2>6, <2>7, <2>8 DEF Agrees
<1> QED
  BY <1>1, <1>2

-----------------------------------------------------------------------------
(* insert. *)

(* No row but o's, and those on their way out, holds a unique key of row. *)
KeysFree(R, D, o, row) ==
    \A f \in uniqueFields : row[f] # NULL =>
        \A u \in DOMAIN R \ (D \cup {o}) : R[u][f] # row[f]

LEMMA PutDomain ==
  ASSUME NEW m, NEW k, NEW v
  PROVE  DOMAIN Put(m, k, v) = DOMAIN m \cup {k}
  BY DEF Put

LEMMA PutThere ==
  ASSUME NEW m, NEW k, NEW v
  PROVE  Put(m, k, v)[k] = v
  BY DEF Put

LEMMA PutElsewhere ==
  ASSUME NEW m, NEW k, NEW v
  PROVE  \A x \in DOMAIN m : x # k => Put(m, k, v)[x] = m[x]
  BY DEF Put

LEMMA PutIsFunction ==
  ASSUME NEW m, NEW k, NEW v, NEW q, q = Put(m, k, v)
  PROVE  q = [x \in DOMAIN q |-> q[x]]
  BY DEF Put

LEMMA InsertFacts ==
  ASSUME NEW c0, NEW R, NEW D, NEW o, NEW row,
         Agrees(WithLastValues(c0), R, D), ~WithLastValues(c0).dirty,
         CurrentMarkers(WithLastValues(c0)),
         o \notin D, KeysFree(R, D, o, row)
  PROVE  /\ Agrees(Insert(c0, o, row), Put(R, o, row), D) /\ ~Insert(c0, o, row).dirty
         /\ CurrentMarkers(Insert(c0, o, row))
<1> DEFINE b == WithLastValues(c0)
           c == _unindex(b, {o})
           keys(f) == KeysOf(f, row[f])
           extent == c.extent \cup {o}
           eq == [f \in DOMAIN c.eq |-> [k \in DOMAIN c.eq[f] \cup keys(f) |->
                     At(c.eq[f], k) \cup (IF k \in keys(f) THEN {o} ELSE {})]]
           run == [f \in DOMAIN c.run |->
                     c.run[f] \cup (keys(f) \ (DOMAIN c.eq[f] \cup {NULL}))]
           unique == [f \in DOMAIN c.unique |->
                     IF row[f] = NULL THEN c.unique[f] ELSE Put(c.unique[f], row[f], o)]
           last == Put(c.last, o, [f \in _maintained_fields |-> row[f]])
           S == Put(R, o, row)
           q == Insert(c0, o, row)
<1>1. q = [c EXCEPT !.extent = @ \cup {o}, !.eq = eq, !.run = run,
                    !.unique = unique, !.last = last]
  BY Zenon DEF Insert
<1>2. Unindexed(c, b, R, {o})
  BY UnindexFacts
<1>3. /\ DOMAIN b.eq = eqFields /\ DOMAIN b.run = sortedFields /\ DOMAIN b.unique = uniqueFields
  BY DEF CurrentMarkers
<1>4. /\ IsClassIndex(b) /\ Posted(b, R) /\ Mapped(b, R, D) /\ Remembers(b, R)
  BY DEF Agrees
<1> HIDE DEF b, c
<1>5. /\ c = [extent |-> c.extent, eq |-> c.eq, run |-> c.run,
              unique |-> c.unique, last |-> c.last, dirty |-> c.dirty]
      /\ c.extent = b.extent /\ c.run = b.run /\ c.dirty = FALSE
      /\ DOMAIN c.eq = eqFields /\ DOMAIN c.run = sortedFields /\ DOMAIN c.unique = uniqueFields
  BY <1>2, <1>3 DEF Unindexed
<1>6. /\ \A f \in eqFields :
            /\ DOMAIN eq[f] = DOMAIN c.eq[f] \cup keys(f)
            /\ \A k : At(eq[f], k) = At(c.eq[f], k) \cup (IF k \in keys(f) THEN {o} ELSE {})
      /\ DOMAIN eq = eqFields
  <2>1. DOMAIN eq = eqFields
    BY <1>5
  <2>2. ASSUME NEW f \in eqFields
        PROVE  eq[f] = [k \in DOMAIN c.eq[f] \cup keys(f) |->
                     At(c.eq[f], k) \cup (IF k \in keys(f) THEN {o} ELSE {})]
    BY <1>5
  <2>3. ASSUME NEW f \in eqFields, NEW k
        PROVE  /\ DOMAIN eq[f] = DOMAIN c.eq[f] \cup keys(f)
               /\ At(eq[f], k) = At(c.eq[f], k) \cup (IF k \in keys(f) THEN {o} ELSE {})
    <3>1. eq[f] = [x \in DOMAIN c.eq[f] \cup keys(f) |->
                     At(c.eq[f], x) \cup (IF x \in keys(f) THEN {o} ELSE {})]
      BY <2>2
    <3> HIDE DEF eq, keys
    <3>2. DOMAIN eq[f] = DOMAIN c.eq[f] \cup keys(f)
      BY <3>1
    <3>3. CASE k \in DOMAIN eq[f]
      <4>1. eq[f][k] = At(c.eq[f], k) \cup (IF k \in keys(f) THEN {o} ELSE {})
        BY <3>1, <3>2, <3>3
      <4> QED
        BY <3>2, <3>3, <4>1 DEF At
    <3>4. CASE k \notin DOMAIN eq[f]
      BY <3>2, <3>4 DEF At
    <3> QED
      BY <3>2, <3>3, <3>4
  <2> HIDE DEF eq, keys
  <2> QED
    BY <2>1, <2>3
<1>7. \A f \in sortedFields : run[f] = c.run[f] \cup (keys(f) \ (DOMAIN c.eq[f] \cup {NULL}))
  BY <1>5
<1>8. DOMAIN run = sortedFields /\ DOMAIN unique = uniqueFields
  BY <1>5
<1>9. \A f \in uniqueFields :
         unique[f] = IF row[f] = NULL THEN c.unique[f] ELSE Put(c.unique[f], row[f], o)
  BY <1>5
<1>10. \A u, f, k : f \in eqFields \cup uniqueFields =>
          (/\ u \in DOMAIN last /\ f \in DOMAIN last[u] /\ k \in KeysOf(f, last[u][f])
           <=> IF u = o THEN k \in keys(f) ELSE Knows(c, u, f, k))
  <2> DEFINE new == [f \in _maintained_fields |-> row[f]]
  <2>0. DOMAIN new = _maintained_fields /\ \A f \in _maintained_fields : new[f] = row[f]
    OBVIOUS
  <2> HIDE DEF new
  <2>1. /\ DOMAIN last = DOMAIN c.last \cup {o} /\ last[o] = new
        /\ \A u \in DOMAIN c.last : u # o => last[u] = c.last[u]
    <3>1. last = Put(c.last, o, new)
      BY DEF new
    <3> HIDE DEF last
    <3>2. DOMAIN last = DOMAIN c.last \cup {o}
      BY <3>1, PutDomain
    <3>3. last[o] = new
      BY <3>1, PutThere
    <3>4. \A u \in DOMAIN c.last : u # o => last[u] = c.last[u]
      BY <3>1, PutElsewhere
    <3> QED
      BY <3>2, <3>3, <3>4
  <2>2. _maintained_fields = eqFields \cup uniqueFields
    BY FieldFacts
  <2> HIDE DEF last
  <2> QED
    BY <2>0, <2>1, <2>2 DEF Knows
<1>11. unique = [f \in DOMAIN unique |-> [v \in DOMAIN unique[f] |-> unique[f][v]]]
  <2>1. ASSUME NEW f \in uniqueFields
        PROVE  unique[f] = [v \in DOMAIN unique[f] |-> unique[f][v]]
    <3>1. c.unique[f] = [v \in DOMAIN c.unique[f] |-> c.unique[f][v]]
      <4>1. c.unique = [g \in DOMAIN c.unique |->
                          [v \in DOMAIN c.unique[g] |-> c.unique[g][v]]]
        BY <1>2 DEF Unindexed
      <4> QED
        BY <1>5, <4>1
    <3> HIDE DEF unique
    <3>2. CASE row[f] = NULL
      BY <1>9, <3>1, <3>2
    <3>3. CASE row[f] # NULL
      <4>1. unique[f] = Put(c.unique[f], row[f], o)
        BY <1>9, <3>3
      <4> QED
        BY <4>1, PutIsFunction
    <3> QED
      BY <3>2, <3>3
  <2>2. unique = [f \in DOMAIN unique |-> unique[f]]
    OBVIOUS
  <2> HIDE DEF unique
  <2> QED
    BY <1>8, <2>1, <2>2
<1> HIDE DEF eq, run, unique, last, q
<1>12. q = [extent |-> extent, eq |-> eq, run |-> run,
            unique |-> unique, last |-> last, dirty |-> FALSE]
  BY <1>1, <1>5, PartsReplaced
<1>13. /\ q.extent = extent /\ q.eq = eq /\ q.run = run
       /\ q.unique = unique /\ q.last = last /\ q.dirty = FALSE
  BY <1>12
<1>14. IsClassIndex(q)
  <2>1. q = [extent |-> q.extent, eq |-> q.eq, run |-> q.run,
             unique |-> q.unique, last |-> q.last, dirty |-> q.dirty]
    BY <1>12
  <2>2. /\ q.dirty \in BOOLEAN /\ DOMAIN q.eq \subseteq EqFields
        /\ DOMAIN q.run \subseteq DOMAIN q.eq /\ DOMAIN q.unique \subseteq UniqueFields
    BY <1>6, <1>8, <1>13, FieldFacts
  <2>3. q.unique = [f \in DOMAIN q.unique |-> [v \in DOMAIN q.unique[f] |-> q.unique[f][v]]]
    BY <1>11, <1>13
  <2> QED
    BY <2>1, <2>2, <2>3 DEF IsClassIndex
<1>15. /\ DOMAIN S = DOMAIN R \cup {o} /\ S[o] = row
       /\ \A u \in DOMAIN R : u # o => S[u] = R[u]
  <2>1. S = Put(R, o, row)
    OBVIOUS
  <2> HIDE DEF S
  <2>2. DOMAIN S = DOMAIN R \cup {o}
    BY <2>1, PutDomain
  <2>3. S[o] = row
    BY <2>1, PutThere
  <2>4. \A u \in DOMAIN R : u # o => S[u] = R[u]
    BY <2>1, PutElsewhere
  <2> QED
    BY <2>2, <2>3, <2>4
<1> HIDE DEF S
<1>16. Posted(q, S)
  <2>1. q.extent = DOMAIN S
    BY <1>4, <1>5, <1>13, <1>15 DEF Posted
  <2>2. ASSUME NEW f \in eqFields, NEW k
        PROVE  At(eq[f], k) = Holders(S, f, k)
    <3>1. At(c.eq[f], k) = Holders(R, f, k) \ {o}
      BY <1>2, <1>3 DEF Unindexed
    <3>2. Holders(S, f, k) = (Holders(R, f, k) \ {o}) \cup (IF k \in keys(f) THEN {o} ELSE {})
      BY <1>15 DEF Holders
    <3> HIDE DEF keys
    <3> QED
      BY <1>6, <3>1, <3>2
  <2>3. ASSUME NEW f \in sortedFields
        PROVE  run[f] = DOMAIN eq[f] \ {NULL}
    <3>1. f \in eqFields
      BY FieldFacts
    <3>2. DOMAIN c.eq[f] = DOMAIN b.eq[f]
      BY <1>2, <1>3, <3>1 DEF Unindexed
    <3>3. c.run[f] = DOMAIN c.eq[f] \ {NULL}
      BY <1>3, <1>4, <1>5, <3>2 DEF Posted
    <3> HIDE DEF keys
    <3> QED
      BY <1>6, <1>7, <3>1, <3>3
  <2> QED
    BY <1>6, <1>8, <1>13, <2>1, <2>2, <2>3 DEF Posted
<1>17. Mapped(q, S, D)
  <2> SUFFICES ASSUME NEW f \in uniqueFields
               PROVE  /\ \A v \in DOMAIN unique[f] :
                            v # NULL /\ unique[f][v] \in DOMAIN S /\ S[unique[f][v]][f] = v
                      /\ \A u \in DOMAIN S \ D : S[u][f] # NULL =>
                            S[u][f] \in DOMAIN unique[f] /\ unique[f][S[u][f]] = u
    BY <1>8, <1>13 DEF Mapped
  <2>1. /\ \A v \in DOMAIN b.unique[f] :
              v # NULL /\ b.unique[f][v] \in DOMAIN R /\ R[b.unique[f][v]][f] = v
        /\ \A u \in DOMAIN R \ D : R[u][f] # NULL =>
              R[u][f] \in DOMAIN b.unique[f] /\ b.unique[f][R[u][f]] = u
    BY <1>3, <1>4 DEF Mapped
  <2>2. /\ DOMAIN c.unique[f] = {v \in DOMAIN b.unique[f] : b.unique[f][v] # o}
        /\ \A v \in DOMAIN c.unique[f] : c.unique[f][v] = b.unique[f][v]
    BY <1>2, <1>3 DEF Unindexed
  <2>3. row[f] # NULL => \A u \in DOMAIN R \ (D \cup {o}) : R[u][f] # row[f]
    BY DEF KeysFree
  <2>4. CASE row[f] = NULL
    <3>1. unique[f] = c.unique[f]
      BY <1>9, <2>4
    <3> QED
      BY <1>15, <2>1, <2>2, <2>4, <3>1
  <2>5. CASE row[f] # NULL
    <3>1. /\ DOMAIN unique[f] = DOMAIN c.unique[f] \cup {row[f]}
          /\ unique[f][row[f]] = o
          /\ \A v \in DOMAIN c.unique[f] : v # row[f] => unique[f][v] = c.unique[f][v]
      <4>1. unique[f] = Put(c.unique[f], row[f], o)
        BY <1>9, <2>5
      <4>2. DOMAIN unique[f] = DOMAIN c.unique[f] \cup {row[f]}
        <5>1. DOMAIN Put(c.unique[f], row[f], o) = DOMAIN c.unique[f] \cup {row[f]}
          BY PutDomain
        <5> QED
          BY <4>1, <5>1
      <4>3. unique[f][row[f]] = o
        BY <4>1, PutThere
      <4>4. \A v \in DOMAIN c.unique[f] : v # row[f] => unique[f][v] = c.unique[f][v]
        BY <4>1, PutElsewhere
      <4> QED
        BY <4>2, <4>3, <4>4
    <3> QED
      BY <1>15, <2>1, <2>2, <2>3, <2>5, <3>1
  <2> QED
    BY <2>4, <2>5
<1>18. Remembers(q, S)
  <2> SUFFICES ASSUME NEW f \in eqFields \cup uniqueFields, NEW u, NEW k,
                      f \in uniqueFields => k # NULL
               PROVE  Knows(q, u, f, k) <=> u \in DOMAIN S /\ k \in KeysOf(f, S[u][f])
    BY <1>6, <1>8, <1>13 DEF Remembers
  <2>1. Knows(q, u, f, k) <=> IF u = o THEN k \in keys(f) ELSE Knows(c, u, f, k)
    BY <1>10, <1>13 DEF Knows
  <2>2. u # o => (Knows(c, u, f, k) <=> Knows(b, u, f, k))
    BY <1>2 DEF Unindexed
  <2>3. Knows(b, u, f, k) <=> u \in DOMAIN R /\ k \in KeysOf(f, R[u][f])
    BY <1>3, <1>4 DEF Remembers
  <2> QED
    BY <1>15, <2>1, <2>2, <2>3
<1> QED
  <2>1. Agrees(q, S, D) /\ ~q.dirty /\ CurrentMarkers(q)
    BY <1>6, <1>8, <1>13, <1>14, <1>16, <1>17, <1>18 DEF Agrees, CurrentMarkers
  <2> QED
    BY <2>1 DEF q, S

-----------------------------------------------------------------------------
(***************************************************************************)
(* A whole fold.  It is a recursion over the batch; what is said of it for   *)
(* every batch is proved by the least entry at which it would fail.          *)
(***************************************************************************)
Less == {ss \in Nat \X Nat : ss[1] < ss[2]}

LEMMA LeastNumber ==
  ASSUME NEW T, T \subseteq Nat, T # {}
  PROVE  \E x \in T : \A y \in T : x <= y
<1>1. IsWellFoundedOn(Less, Nat)
  BY NatLessThanWellFounded DEF OpToRel, Less
<1>2. PICK x \in T : \A y \in T : ~(<<y, x>> \in Less)
  BY <1>1, WFMin
<1>3. ASSUME NEW y \in T, y < x
      PROVE  FALSE
  <2>1. <<y, x>> \in Nat \X Nat /\ <<y, x>>[1] = y /\ <<y, x>>[2] = x
    OBVIOUS
  <2>2. <<y, x>> \in Less
    BY <2>1, <1>3 DEF Less
  <2> QED
    BY <2>2, <1>2
<1> QED
  BY <1>3

(* The index before and after each of the first n entries. *)
Inserts(g, c, es, n) ==
    g = [i \in 0..n |-> IF i = 0 THEN c ELSE Insert(g[i - 1], es[i][1], es[i][2])]

LEMMA InsertsExist ==
  ASSUME NEW c, NEW es, NEW n \in Nat
  PROVE  \E g : Inserts(g, c, es, n)
<1> SUFFICES ASSUME ~ \E g : Inserts(g, c, es, n) PROVE FALSE
  OBVIOUS
<1> DEFINE T == {i \in Nat : ~ \E g : Inserts(g, c, es, i)}
<1>1. PICK i \in T : \A y \in T : i <= y
  <2> HIDE DEF T
  <2>1. T \subseteq Nat /\ T # {}
    BY DEF T
  <2> QED
    BY <2>1, LeastNumber
<1>2. i # 0
  <2>1. Inserts([x \in 0..0 |-> c], c, es, 0)
    BY DEF Inserts
  <2> QED
    BY <2>1
<1>3. i - 1 \in Nat /\ i - 1 \notin T
  BY <1>1, <1>2
<1>4. PICK g : Inserts(g, c, es, i - 1)
  BY <1>3
<1> DEFINE h == [x \in 0..i |-> IF x = i THEN Insert(g[i - 1], es[i][1], es[i][2]) ELSE g[x]]
<1>5. \A x \in 0..(i - 1) : g[x] = IF x = 0 THEN c ELSE Insert(g[x - 1], es[x][1], es[x][2])
  BY <1>4 DEF Inserts
<1>6. \A x \in 0..i : h[x] = IF x = 0 THEN c ELSE Insert(h[x - 1], es[x][1], es[x][2])
  BY <1>2, <1>3, <1>5
<1>7. Inserts(h, c, es, i)
  <2>1. h = [x \in 0..i |-> h[x]]
    OBVIOUS
  <2> HIDE DEF h
  <2> QED
    BY <1>6, <2>1 DEF Inserts
<1> QED
  BY <1>7

LEMMA FoldedInserts ==
  ASSUME NEW c, NEW es, Len(es) \in Nat, NEW D
  PROVE  \E g : Inserts(g, c, es, Len(es)) /\ Folded(c, es, D) = RemoveOids(g[Len(es)], D)
<1> DEFINE g == CHOOSE g : g = [i \in 0..Len(es) |->
                    IF i = 0 THEN c ELSE Insert(g[i - 1], es[i][1], es[i][2])]
<1>1. Folded(c, es, D) = RemoveOids(g[Len(es)], D)
  BY Zenon DEF Folded
<1>2. \E h : h = [i \in 0..Len(es) |-> IF i = 0 THEN c ELSE Insert(h[i - 1], es[i][1], es[i][2])]
  <2>1. \E h : Inserts(h, c, es, Len(es))
    BY InsertsExist
  <2> QED
    BY <2>1 DEF Inserts
<1>3. Inserts(g, c, es, Len(es))
  BY <1>2 DEF Inserts
<1> QED
  BY <1>1, <1>3

(* The rows after the first n entries of a batch, and after all of it. *)
WrittenTo(es, n) == {es[j][1] : j \in 1..n}
RowsTo(R, es, n) ==
    [u \in DOMAIN R \cup WrittenTo(es, n) |->
        IF u \in WrittenTo(es, n) THEN Entry(es, u) ELSE R[u]]
Applied(R, es, D) ==
    [u \in (DOMAIN R \cup Written(es)) \ D |-> IF u \in Written(es) THEN Entry(es, u) ELSE R[u]]

(* What check_unique saw to: no row but the writer's own, and those that the   *)
(* batch deletes, holds a key the batch writes, and no two entries write one.  *)
BatchFree(R, es, D) ==
    \A f \in uniqueFields : \A i \in DOMAIN es : es[i][2][f] # NULL =>
        /\ \A u \in DOMAIN R \ (D \cup {es[i][1]}) : R[u][f] # es[i][2][f]
        /\ \A j \in DOMAIN es : es[j][2][f] = es[i][2][f] => i = j

(* The entries written so far, and the row of each. *)
LEMMA RowsToFacts ==
  ASSUME NEW R, NEW es \in Batches, NEW n \in 0..Len(es)
  PROVE  /\ DOMAIN RowsTo(R, es, n) = DOMAIN R \cup WrittenTo(es, n)
         /\ \A j \in 1..n : RowsTo(R, es, n)[es[j][1]] = es[j][2]
         /\ \A u \in DOMAIN R \ WrittenTo(es, n) : RowsTo(R, es, n)[u] = R[u]
<1>1. \A j \in 1..n : j \in 1..Len(es) /\ es[j][1] \in WrittenTo(es, n)
  BY BatchFacts DEF WrittenTo
<1>2. \A j \in 1..n : Entry(es, es[j][1]) = es[j][2]
  BY <1>1, EntryOf
<1>3. \A j \in 1..n : RowsTo(R, es, n)[es[j][1]] = Entry(es, es[j][1])
  BY <1>1 DEF RowsTo
<1>4. \A u \in DOMAIN R \ WrittenTo(es, n) : RowsTo(R, es, n)[u] = R[u]
  BY DEF RowsTo
<1>5. DOMAIN RowsTo(R, es, n) = DOMAIN R \cup WrittenTo(es, n)
  BY DEF RowsTo
<1> QED
  BY <1>2, <1>3, <1>4, <1>5

LEMMA RowsToNext ==
  ASSUME NEW R, NEW es \in Batches, NEW i \in 1..Len(es)
  PROVE  RowsTo(R, es, i) = Put(RowsTo(R, es, i - 1), es[i][1], es[i][2])
<1> DEFINE q == RowsTo(R, es, i)
           m == RowsTo(R, es, i - 1)
           p == Put(m, es[i][1], es[i][2])
<1>1. Len(es) \in Nat /\ i - 1 \in 0..Len(es) /\ i \in 0..Len(es)
  BY BatchFacts
<1>2. WrittenTo(es, i) = WrittenTo(es, i - 1) \cup {es[i][1]}
  BY <1>1 DEF WrittenTo
<1>3. DOMAIN q = DOMAIN R \cup WrittenTo(es, i)
      /\ DOMAIN m = DOMAIN R \cup WrittenTo(es, i - 1)
  BY <1>1, RowsToFacts
<1>4. DOMAIN p = DOMAIN m \cup {es[i][1]}
  BY PutDomain
<1>5. q = [u \in DOMAIN q |-> q[u]]
  BY DEF RowsTo
<1>6. p = [u \in DOMAIN p |-> p[u]]
  BY PutIsFunction
<1>7. p[es[i][1]] = es[i][2]
  BY PutThere
<1>8. \A u \in DOMAIN m : u # es[i][1] => p[u] = m[u]
  BY PutElsewhere
<1>9. \A u \in DOMAIN m : m[u] = IF u \in WrittenTo(es, i - 1) THEN Entry(es, u) ELSE R[u]
  BY <1>3 DEF RowsTo
<1>10. \A u \in DOMAIN q : q[u] = IF u \in WrittenTo(es, i) THEN Entry(es, u) ELSE R[u]
  BY <1>3 DEF RowsTo
<1>11. Entry(es, es[i][1]) = es[i][2]
  BY EntryOf
<1> HIDE DEF q, m, p
<1>12. DOMAIN q = DOMAIN p
  BY <1>2, <1>3, <1>4
<1>13. \A u \in DOMAIN q : q[u] = p[u]
  BY <1>2, <1>3, <1>4, <1>7, <1>8, <1>9, <1>10, <1>11
<1>14. q = p
  BY <1>5, <1>6, <1>12, <1>13
<1> QED
  BY <1>14 DEF q, p, m

(* The next entry's keys are free among the rows before it. *)
LEMMA NextFree ==
  ASSUME NEW R, NEW es \in Batches, NEW D, BatchFree(R, es, D), NEW i \in 1..Len(es)
  PROVE  KeysFree(RowsTo(R, es, i - 1), D, es[i][1], es[i][2])
<1>1. Len(es) \in Nat /\ DOMAIN es = 1..Len(es) /\ i - 1 \in 0..Len(es)
  BY BatchFacts
<1> DEFINE n == i - 1
           m == RowsTo(R, es, n)
<1> HIDE DEF n
<1> SUFFICES ASSUME NEW f \in uniqueFields, es[i][2][f] # NULL,
                    NEW u \in DOMAIN m \ (D \cup {es[i][1]})
             PROVE  m[u][f] # es[i][2][f]
  BY DEF KeysFree, n
<1>2. n \in 0..Len(es) /\ \A j \in 1..n : j \in DOMAIN es /\ j # i
  BY <1>1 DEF n
<1>3. /\ \A w \in DOMAIN R \ (D \cup {es[i][1]}) : R[w][f] # es[i][2][f]
      /\ \A j \in DOMAIN es : es[j][2][f] = es[i][2][f] => i = j
  BY <1>1 DEF BatchFree
<1>4. /\ DOMAIN m = DOMAIN R \cup WrittenTo(es, n)
      /\ \A j \in 1..n : m[es[j][1]] = es[j][2]
      /\ \A w \in DOMAIN R \ WrittenTo(es, n) : m[w] = R[w]
  BY <1>2, RowsToFacts
<1> HIDE DEF m
<1>5. CASE u \in WrittenTo(es, n)
  <2>1. PICK j \in 1..n : u = es[j][1]
    BY <1>5 DEF WrittenTo
  <2>2. m[u] = es[j][2]
    BY <1>4, <2>1
  <2> QED
    BY <1>2, <1>3, <2>1, <2>2
<1>6. CASE u \notin WrittenTo(es, n)
  <2>1. u \in DOMAIN R /\ m[u] = R[u]
    BY <1>6, <1>4
  <2> QED
    BY <1>3, <2>1
<1> QED
  BY <1>5, <1>6

Upto(g, R, es, D, i) ==
    /\ Agrees(WithLastValues(g[i]), RowsTo(R, es, i), D) /\ ~WithLastValues(g[i]).dirty
    /\ CurrentMarkers(WithLastValues(g[i]))
    /\ i # 0 => ~g[i].dirty

LEMMA InsertsAgree ==
  ASSUME NEW c, NEW R, NEW es \in Batches, NEW D, NEW g, Inserts(g, c, es, Len(es)),
         R = [u \in DOMAIN R |-> R[u]], D \cap Written(es) = {},
         Agrees(c, R, {}), CurrentMarkers(c), BatchFree(R, es, D),
         NEW n \in 0..Len(es)
  PROVE  Upto(g, R, es, D, n)
<1> SUFFICES ASSUME ~Upto(g, R, es, D, n) PROVE FALSE
  OBVIOUS
<1> DEFINE T == {i \in 0..Len(es) : ~Upto(g, R, es, D, i)}
<1>0. Len(es) \in Nat
  BY BatchFacts
<1>1. PICK i \in T : \A y \in T : i <= y
  <2>1. n \in T /\ T \subseteq Nat
    BY <1>0
  <2> HIDE DEF T
  <2> QED
    BY <2>1, LeastNumber
<1>2. i \in 0..Len(es) /\ ~Upto(g, R, es, D, i)
  BY <1>1
<1>3. \A j \in 0..Len(es) : j < i => Upto(g, R, es, D, j)
  BY <1>0, <1>1
<1> HIDE DEF T
<1>4. g[i] = IF i = 0 THEN c ELSE Insert(g[i - 1], es[i][1], es[i][2])
  BY <1>2 DEF Inserts
<1>5. i # 0
  <2> SUFFICES ASSUME i = 0 PROVE FALSE
    OBVIOUS
  <2>1. RowsTo(R, es, 0) = R
    <3>1. WrittenTo(es, 0) = {}
      BY DEF WrittenTo
    <3> QED
      BY <3>1 DEF RowsTo
  <2>2. /\ Agrees(WithLastValues(c), R, {}) /\ ~WithLastValues(c).dirty
        /\ CurrentMarkers(WithLastValues(c))
    BY WithLastFacts DEF CurrentMarkers
  <2>3. Agrees(WithLastValues(c), R, D)
    BY <2>2 DEF Agrees, Mapped
  <2>4. g[0] = c
    BY <1>4
  <2> QED
    BY <1>2, <2>1, <2>2, <2>3, <2>4 DEF Upto
<1>6. i \in 1..Len(es) /\ i - 1 \in 0..Len(es) /\ i - 1 < i
  BY <1>0, <1>2, <1>5
<1>7. Upto(g, R, es, D, i - 1)
  BY <1>3, <1>6
<1> DEFINE row == es[i][2]
           o == es[i][1]
           m == RowsTo(R, es, i - 1)
           b == g[i - 1]
<1>8. KeysFree(m, D, o, row)
  BY <1>6, NextFree
<1>9. o \notin D
  BY <1>6, EntryOf
<1>10. g[i] = Insert(b, o, row)
  BY <1>4, <1>5
<1>11. RowsTo(R, es, i) = Put(m, o, row)
  BY <1>6, RowsToNext
<1>12. /\ Agrees(WithLastValues(b), m, D) /\ ~WithLastValues(b).dirty
       /\ CurrentMarkers(WithLastValues(b))
  BY <1>7 DEF Upto
<1> HIDE DEF row, o, m, b
<1>13. /\ Agrees(Insert(b, o, row), Put(m, o, row), D) /\ ~Insert(b, o, row).dirty
       /\ CurrentMarkers(Insert(b, o, row))
  BY <1>8, <1>9, <1>12, InsertFacts
<1>14. WithLastValues(g[i]) = g[i]
  BY <1>10, <1>13 DEF WithLastValues
<1> QED
  BY <1>2, <1>10, <1>11, <1>13, <1>14 DEF Upto

(* Folding a batch into an index of the rows R makes it one of the rows with   *)
(* the batch applied.                                                          *)
LEMMA FoldedAgrees ==
  ASSUME NEW c, NEW R, NEW es \in Batches, NEW D, es # <<>> \/ D # {},
         R = [u \in DOMAIN R |-> R[u]], D \cap Written(es) = {},
         Agrees(c, R, {}), CurrentMarkers(c), BatchFree(R, es, D)
  PROVE  /\ Agrees(Folded(c, es, D), Applied(R, es, D), {})
         /\ CurrentMarkers(Folded(c, es, D))
<1> DEFINE n == Len(es)
<1>1. n \in Nat /\ es \in Seq(Oids \X Rows)
  BY BatchFacts
<1>2. PICK g : Inserts(g, c, es, n) /\ Folded(c, es, D) = RemoveOids(g[n], D)
  BY <1>1, FoldedInserts
<1>3. Upto(g, R, es, D, n)
  <2>1. n \in 0..Len(es)
    BY <1>1
  <2> QED
    BY <1>2, <2>1, InsertsAgree
<1>4. Written(es) = WrittenTo(es, n)
  BY <1>1, BatchFacts DEF Written, WrittenTo
<1> DEFINE m == RowsTo(R, es, n)
<1>5. /\ DOMAIN m = DOMAIN R \cup Written(es)
      /\ m = [u \in DOMAIN R \cup Written(es) |->
                 IF u \in Written(es) THEN Entry(es, u) ELSE R[u]]
  BY <1>4 DEF RowsTo
<1>6. CASE D = {}
  <2>1. n # 0
    BY <1>1, <1>6
  <2>2. WithLastValues(g[n]) = g[n] /\ RemoveOids(g[n], D) = g[n]
    BY <1>3, <1>6, <2>1 DEF Upto, WithLastValues, RemoveOids
  <2>3. Applied(R, es, D) = m
    BY <1>5, <1>6 DEF Applied
  <2> QED
    BY <1>2, <1>3, <1>6, <2>2, <2>3 DEF Upto
<1>7. CASE D # {}
  <2> DEFINE b == WithLastValues(g[n])
             q == Removed(b, D)
  <2>1. Folded(c, es, D) = q
    BY <1>2, <1>7 DEF RemoveOids, Removed
  <2>2. Agrees(b, m, D) /\ ~b.dirty /\ CurrentMarkers(b)
    BY <1>3 DEF Upto
  <2>3. /\ Agrees(q, Without(m, D), D \ D) /\ ~q.dirty
        /\ DOMAIN q.eq = DOMAIN b.eq /\ DOMAIN q.run = DOMAIN b.run
        /\ DOMAIN q.unique = DOMAIN b.unique
    <3> HIDE DEF b, m
    <3> QED
      BY <2>2, RemoveFacts
  <2>4. Without(m, D) = Applied(R, es, D)
    BY <1>5 DEF Without, Applied
  <2>5. D \ D = {}
    OBVIOUS
  <2> HIDE DEF q, b, m
  <2> QED
    BY <2>1, <2>2, <2>3, <2>4, <2>5 DEF CurrentMarkers
<1> QED
  BY <1>6, <1>7

-----------------------------------------------------------------------------
(* Building, dumping and loading. *)

(* No two rows hold a unique key. *)
KeysDiffer == \A f \in uniqueFields : \A o, u \in Live :
    o # u /\ Row(o)[f] = Row(u)[f] => Row(o)[f] = NULL

LEMMA CurrentFacts ==
  /\ DOMAIN Current = Live /\ Current = [o \in DOMAIN Current |-> Current[o]]
  /\ \A o \in Live : Current[o] = Row(o)
  BY DEF Current

LEMMA BuiltAgrees ==
  ASSUME KeysDiffer
  PROVE  /\ Agrees(build_class_indexes, Current, {})
         /\ CurrentMarkers(build_class_indexes)
<1> DEFINE keys(f) == UNION {KeysOf(f, Row(o)[f]) : o \in Live}
           held(f) == {Row(o)[f] : o \in Live} \ {NULL}
           eq == [f \in eqFields |->
                     [k \in keys(f) |-> {o \in Live : k \in KeysOf(f, Row(o)[f])}]]
           run == [f \in sortedFields |-> keys(f) \ {NULL}]
           unique == [f \in uniqueFields |->
                         [v \in held(f) |-> CHOOSE o \in Live : Row(o)[f] = v]]
           last == [o \in Live |-> [f \in _maintained_fields |-> Row(o)[f]]]
           q == build_class_indexes
<1>1. q = [extent |-> Live, eq |-> eq, run |-> run, unique |-> unique,
           last |-> last, dirty |-> FALSE]
  BY Zenon DEF build_class_indexes
<1>2. DOMAIN eq = eqFields /\ DOMAIN run = sortedFields /\ DOMAIN unique = uniqueFields
  OBVIOUS
<1>3. ASSUME NEW f \in eqFields
      PROVE  /\ DOMAIN eq[f] = keys(f)
             /\ \A k : At(eq[f], k) = Holders(Current, f, k)
  <2>1. eq[f] = [k \in keys(f) |-> {o \in Live : k \in KeysOf(f, Row(o)[f])}]
    OBVIOUS
  <2>2. \A k : Holders(Current, f, k) = {o \in Live : k \in KeysOf(f, Row(o)[f])}
    BY CurrentFacts DEF Holders
  <2>3. \A k : k \notin keys(f) => {o \in Live : k \in KeysOf(f, Row(o)[f])} = {}
    OBVIOUS
  <2> HIDE DEF eq, keys
  <2>4. ASSUME NEW k
        PROVE  At(eq[f], k) = Holders(Current, f, k)
    <3>1. CASE k \in keys(f)
      BY <2>1, <2>2, <3>1 DEF At
    <3>2. CASE k \notin keys(f)
      BY <2>1, <2>2, <2>3, <3>2 DEF At
    <3> QED
      BY <3>1, <3>2
  <2> QED
    BY <2>1, <2>4
<1>4. ASSUME NEW f \in sortedFields
      PROVE  run[f] = DOMAIN eq[f] \ {NULL}
  <2>1. f \in eqFields /\ run[f] = keys(f) \ {NULL}
    BY FieldFacts
  <2> QED
    BY <1>3, <2>1
<1>5. ASSUME NEW f \in uniqueFields
      PROVE  /\ unique[f] = [v \in DOMAIN unique[f] |-> unique[f][v]]
             /\ \A v \in DOMAIN unique[f] :
                   v # NULL /\ unique[f][v] \in DOMAIN Current /\ Current[unique[f][v]][f] = v
             /\ \A o \in DOMAIN Current : Current[o][f] # NULL =>
                   Current[o][f] \in DOMAIN unique[f] /\ unique[f][Current[o][f]] = o
  <2>1. unique[f] = [v \in held(f) |-> CHOOSE o \in Live : Row(o)[f] = v]
    OBVIOUS
  <2> HIDE DEF unique
  <2>2. DOMAIN unique[f] = held(f)
    BY <2>1
  <2>3. ASSUME NEW v \in held(f)
        PROVE  unique[f][v] \in Live /\ Row(unique[f][v])[f] = v /\ v # NULL
    <3>1. \E o \in Live : Row(o)[f] = v
      OBVIOUS
    <3>2. unique[f][v] = CHOOSE o \in Live : Row(o)[f] = v
      BY <2>1
    <3> QED
      BY <3>1, <3>2
  <2>4. ASSUME NEW o \in Live, Row(o)[f] # NULL
        PROVE  Row(o)[f] \in held(f) /\ unique[f][Row(o)[f]] = o
    <3>1. Row(o)[f] \in held(f)
      BY <2>4
    <3>2. unique[f][Row(o)[f]] \in Live /\ Row(unique[f][Row(o)[f]])[f] = Row(o)[f]
      BY <2>3, <3>1
    <3> QED
      BY <2>4, <3>1, <3>2 DEF KeysDiffer
  <2> HIDE DEF held
  <2> QED
    BY <2>1, <2>2, <2>3, <2>4, CurrentFacts
<1>6. \A o, f, k : f \in eqFields \cup uniqueFields =>
         (/\ o \in DOMAIN last /\ f \in DOMAIN last[o] /\ k \in KeysOf(f, last[o][f])
          <=> o \in DOMAIN Current /\ k \in KeysOf(f, Current[o][f]))
  <2>1. DOMAIN last = Live /\ \A o \in Live : last[o] = [f \in _maintained_fields |-> Row(o)[f]]
    OBVIOUS
  <2> HIDE DEF last
  <2>2. \A o \in Live : DOMAIN last[o] = eqFields \cup uniqueFields
                        /\ \A f \in eqFields \cup uniqueFields : last[o][f] = Row(o)[f]
    BY <2>1, FieldFacts
  <2> QED
    BY <2>1, <2>2, CurrentFacts
<1>7. unique = [f \in DOMAIN unique |-> unique[f]]
  OBVIOUS
<1> HIDE DEF eq, run, unique, last, q
<1>8. /\ q.extent = Live /\ q.eq = eq /\ q.run = run
      /\ q.unique = unique /\ q.last = last /\ q.dirty = FALSE
  BY <1>1
<1>9. IsClassIndex(q)
  <2>1. q = [extent |-> q.extent, eq |-> q.eq, run |-> q.run,
             unique |-> q.unique, last |-> q.last, dirty |-> q.dirty]
    BY <1>1, <1>8
  <2>2. /\ q.dirty \in BOOLEAN /\ DOMAIN q.eq \subseteq EqFields
        /\ DOMAIN q.run \subseteq DOMAIN q.eq /\ DOMAIN q.unique \subseteq UniqueFields
    BY <1>2, <1>8, FieldFacts
  <2>3. q.unique = [f \in DOMAIN q.unique |-> [v \in DOMAIN q.unique[f] |-> q.unique[f][v]]]
    BY <1>2, <1>5, <1>7, <1>8
  <2> QED
    BY <2>1, <2>2, <2>3 DEF IsClassIndex
<1>10. Posted(q, Current)
  BY <1>2, <1>3, <1>4, <1>8, CurrentFacts DEF Posted
<1>11. Mapped(q, Current, {})
  BY <1>2, <1>5, <1>8 DEF Mapped
<1>12. Remembers(q, Current)
  BY <1>2, <1>6, <1>8 DEF Remembers, Knows
<1> QED
  <2>1. Agrees(q, Current, {}) /\ CurrentMarkers(q)
    BY <1>2, <1>8, <1>9, <1>10, <1>11, <1>12 DEF Agrees, CurrentMarkers
  <2> QED
    BY <2>1 DEF q

(* What comes back from the sidecar is the index that went into it. *)
LEMMA LoadedAgrees ==
  ASSUME NEW c, NEW R, Agrees(c, R, {})
  PROVE  Agrees(load(dump(c)), R, {})
<1> DEFINE run == [f \in DOMAIN c.run |-> DOMAIN c.eq[f] \ {NULL}]
           q == load(dump(c))
<1>1. q = [extent |-> c.extent, eq |-> c.eq, run |-> run, unique |-> c.unique,
           last |-> <<>>, dirty |-> TRUE]
  BY DEF load, dump
<1>2. DOMAIN run = DOMAIN c.run /\ \A f \in DOMAIN c.run : run[f] = DOMAIN c.eq[f] \ {NULL}
  OBVIOUS
<1> HIDE DEF run, q
<1>3. /\ q.extent = c.extent /\ q.eq = c.eq /\ q.run = run /\ q.unique = c.unique /\ q.dirty = TRUE
      /\ q = [extent |-> q.extent, eq |-> q.eq, run |-> q.run,
              unique |-> q.unique, last |-> q.last, dirty |-> q.dirty]
  BY <1>1
<1>4. IsClassIndex(q)
  <2>1. IsClassIndex(c)
    BY DEF Agrees
  <2>2. /\ q.dirty \in BOOLEAN /\ DOMAIN q.eq \subseteq EqFields
        /\ DOMAIN q.run \subseteq DOMAIN q.eq /\ DOMAIN q.unique \subseteq UniqueFields
    BY <1>2, <1>3, <2>1 DEF IsClassIndex
  <2>3. q.unique = [f \in DOMAIN q.unique |-> [v \in DOMAIN q.unique[f] |-> q.unique[f][v]]]
    BY <1>3, <2>1 DEF IsClassIndex
  <2> QED
    BY <1>3, <2>2, <2>3 DEF IsClassIndex
<1>5. Posted(q, R) /\ Mapped(q, R, {})
  BY <1>2, <1>3 DEF Agrees, Posted, Mapped
<1> QED
  BY <1>3, <1>4, <1>5 DEF Agrees, q

(* A cached form with the class's markers loads with the class's fields. *)
LEMMA LoadedMarkers ==
  ASSUME NEW b, MarkersMatch(b)
  PROVE  CurrentMarkers(load(b))
  BY DEF MarkersMatch, CurrentMarkers, load

(* Validation against an index of the rows leaves the batch's keys free. *)
LEMMA CheckedFree ==
  ASSUME NEW c, NEW R, NEW es, NEW D, Agrees(c, R, {}), CurrentMarkers(c), check_unique(c, es, D)
  PROVE  BatchFree(R, es, D)
<1> SUFFICES ASSUME NEW f \in uniqueFields, NEW i \in DOMAIN es, es[i][2][f] # NULL
             PROVE  /\ \A u \in DOMAIN R \ (D \cup {es[i][1]}) : R[u][f] # es[i][2][f]
                    /\ \A j \in DOMAIN es : es[j][2][f] = es[i][2][f] => i = j
  BY DEF BatchFree
<1>1. /\ es[i][2][f] \in DOMAIN c.unique[f] => c.unique[f][es[i][2][f]] \in D \cup {es[i][1]}
      /\ \A j \in DOMAIN es : es[j][2][f] = es[i][2][f] => i = j
  BY DEF check_unique
<1>2. \A u \in DOMAIN R : R[u][f] # NULL =>
         R[u][f] \in DOMAIN c.unique[f] /\ c.unique[f][R[u][f]] = u
  BY DEF Agrees, Mapped, CurrentMarkers
<1> QED
  BY <1>1, <1>2

(* A batch leaves unique keys unique, and applied again changes nothing. *)
LEMMA AppliedFacts ==
  ASSUME NEW R, NEW es \in Batches, NEW D, BatchFree(R, es, D)
  PROVE  /\ BatchFree(Applied(R, es, D), es, D)
         /\ Applied(Applied(R, es, D), es, D) = Applied(R, es, D)
         /\ Applied(R, es, D) = [u \in DOMAIN Applied(R, es, D) |-> Applied(R, es, D)[u]]
<1> DEFINE S == Applied(R, es, D)
           W == Written(es)
<1>1. DOMAIN S = (DOMAIN R \cup W) \ D
      /\ \A u \in DOMAIN S : S[u] = IF u \in W THEN Entry(es, u) ELSE R[u]
  BY DEF Applied
<1>2. S = [u \in DOMAIN S |-> S[u]]
  BY DEF Applied
<1>3. BatchFree(S, es, D)
  <2> SUFFICES ASSUME NEW f \in uniqueFields, NEW i \in DOMAIN es, es[i][2][f] # NULL
               PROVE  /\ \A u \in DOMAIN S \ (D \cup {es[i][1]}) : S[u][f] # es[i][2][f]
                      /\ \A j \in DOMAIN es : es[j][2][f] = es[i][2][f] => i = j
    BY DEF BatchFree
  <2>1. /\ \A u \in DOMAIN R \ (D \cup {es[i][1]}) : R[u][f] # es[i][2][f]
        /\ \A j \in DOMAIN es : es[j][2][f] = es[i][2][f] => i = j
    BY DEF BatchFree
  <2>2. ASSUME NEW u \in W, S[u][f] = es[i][2][f], u \in DOMAIN S
        PROVE  u = es[i][1]
    <3>1. PICK j \in 1..Len(es) : u = es[j][1]
      BY WrittenFacts
    <3>2. S[u] = es[j][2] /\ j \in DOMAIN es
      BY <1>1, <2>2, <3>1, EntryOf, BatchFacts
    <3> QED
      BY <2>1, <2>2, <3>1, <3>2
  <2> HIDE DEF S, W
  <2> QED
    BY <1>1, <2>1, <2>2
<1>4. Applied(S, es, D) = S
  <2>1. Applied(S, es, D) = [u \in (DOMAIN S \cup W) \ D |-> IF u \in W THEN Entry(es, u) ELSE S[u]]
    BY Zenon DEF Applied
  <2>2. (DOMAIN S \cup W) \ D = DOMAIN S
    BY <1>1
  <2> HIDE DEF S, W
  <2> QED
    BY <1>1, <1>2, <2>1, <2>2
<1> QED
  BY <1>2, <1>3, <1>4

-----------------------------------------------------------------------------
(* The index in use, and its cached forms, against the records. *)

NotIndexed == ci = NoIndex /\ blob # NoIndex

(* While a landed batch waits for its fold, the index is still one of the rows *)
(* before it, or was built since.                                              *)
ClassBehind ==
    Landed => \E R :
        /\ R = [u \in DOMAIN R |-> R[u]]
        /\ BatchFree(R, inflight.es, inflight.D)
        /\ Current = Applied(R, inflight.es, inflight.D)
        /\ ci # NoIndex => Agrees(ci, R, {}) \/ Agrees(ci, Current, {})
        /\ NotIndexed => Agrees(load(blob), R, {})

ClassBuilt ==
    ~Landed => /\ ci # NoIndex => Agrees(ci, Current, {})
               /\ NotIndexed => Agrees(load(blob), Current, {})

ClassValid == ~Idle /\ ~Landed => BatchFree(Current, inflight.es, inflight.D)

ClassSaved ==
    sidecar # NoIndex =>
        /\ sidecar.watermark \in Int /\ sidecar.watermark <= tid
        /\ sidecar.watermark = tid /\ sidecar.class # NoIndex =>
              Agrees(load(sidecar.class), Current, {})

ClassMarkers == ci # NoIndex => CurrentMarkers(ci)

ClassInv ==
    /\ KeysDiffer /\ ClassMarkers
    /\ ClassBehind /\ ClassBuilt /\ ClassValid /\ ClassSaved

(* The rows change only with the records and the default of the class. *)
SameRows == recs' = recs /\ code'.default = code.default
SameClass == code' = code

LEMMA SameRowsFacts ==
  ASSUME SameRows
  PROVE  Current' = Current
  BY DEF SameRows, Current, Live, Row

LEMMA SameClassFacts ==
  ASSUME SameClass
  PROVE  /\ uniqueFields' = uniqueFields /\ eqFields' = eqFields /\ sortedFields' = sortedFields
         /\ \A R, es, D : BatchFree(R, es, D)' <=> BatchFree(R, es, D)
         /\ \A c : CurrentMarkers(c)' <=> CurrentMarkers(c)
<1>1. uniqueFields' = uniqueFields /\ eqFields' = eqFields /\ sortedFields' = sortedFields
  BY DEF SameClass, uniqueFields, eqFields, sortedFields
<1> QED
  BY <1>1 DEF BatchFree, CurrentMarkers

LEMMA KeysDifferStays ==
  ASSUME KeysDiffer, SameRows, uniqueFields' = uniqueFields
  PROVE  KeysDiffer'
  BY DEF KeysDiffer, SameRows, Live, Row

(* Whatever ensure() finds has the fields of the class; between commits it has *)
(* the rows too.                                                               *)
LEMMA EnsuredAgrees ==
  ASSUME ClassInv
  PROVE  /\ CurrentMarkers(Ensured)
         /\ ~Landed => Agrees(Ensured, Current, {})
         /\ \/ ci # NoIndex /\ Ensured = ci
            \/ NotIndexed /\ Ensured = load(blob)
            \/ Agrees(Ensured, Current, {})
         /\ \E R : Agrees(Ensured, R, {})
<1>0. /\ ci # NoIndex => \E R : Agrees(ci, R, {})
      /\ NotIndexed => \E R : Agrees(load(blob), R, {})
  BY DEF ClassInv, ClassBehind, ClassBuilt
<1>1. CASE ci # NoIndex
  BY <1>0, <1>1 DEF Ensured, ClassInv, ClassMarkers, ClassBuilt
<1>2. CASE ci = NoIndex /\ blob # NoIndex /\ MarkersMatch(blob)
  <2>1. Ensured = load(blob) /\ NotIndexed
    BY <1>2 DEF Ensured, NotIndexed
  <2>2. CurrentMarkers(load(blob))
    BY <1>2, LoadedMarkers
  <2>3. ~Landed => Agrees(load(blob), Current, {})
    BY <2>1 DEF ClassInv, ClassBuilt
  <2> QED
    BY <1>0, <2>1, <2>2, <2>3
<1>3. CASE ci = NoIndex /\ ~(blob # NoIndex /\ MarkersMatch(blob))
  <2>1. Ensured = build_class_indexes
    BY <1>3 DEF Ensured
  <2> QED
    BY <2>1, BuiltAgrees DEF ClassInv
<1> QED
  BY <1>1, <1>2, <1>3

(* What is not built is not an index. *)
NoIndexIsNone ==
    \A extent, eq, run, unique, last, dirty :
        [extent |-> extent, eq |-> eq, run |-> run,
         unique |-> unique, last |-> last, dirty |-> dirty] # NoIndex

LEMMA SomeIndex ==
  ASSUME NoIndexIsNone, NEW c, NEW R, NEW D, Agrees(c, R, D)
  PROVE  c # NoIndex
<1>1. c = [extent |-> c.extent, eq |-> c.eq, run |-> c.run,
           unique |-> c.unique, last |-> c.last, dirty |-> c.dirty]
  BY DEF Agrees, IsClassIndex
<1> QED
  BY <1>1 DEF NoIndexIsNone

(* A read that builds, loads or rebuilds the un-index memory. *)
LEMMA ReadAgrees ==
  ASSUME NoIndexIsNone, ClassInv, NEW c, c = Ensured \/ c = WithLastValues(Ensured)
  PROVE  /\ CurrentMarkers(c) /\ c # NoIndex
         /\ ~Landed => Agrees(c, Current, {})
         /\ \/ ci # NoIndex /\ \A R : Agrees(ci, R, {}) => Agrees(c, R, {})
            \/ NotIndexed /\ \A R : Agrees(load(blob), R, {}) => Agrees(c, R, {})
            \/ Agrees(c, Current, {})
<1>1. /\ CurrentMarkers(Ensured)
      /\ ~Landed => Agrees(Ensured, Current, {})
      /\ \/ ci # NoIndex /\ Ensured = ci
         \/ NotIndexed /\ Ensured = load(blob)
         \/ Agrees(Ensured, Current, {})
      /\ \E R : Agrees(Ensured, R, {})
  BY EnsuredAgrees
<1>2. \A R : Agrees(Ensured, R, {}) => Agrees(c, R, {})
  BY WithLastFacts
<1>3. CurrentMarkers(c)
  BY <1>1, WithLastFacts DEF CurrentMarkers
<1>4. c # NoIndex
  BY <1>1, <1>2, SomeIndex
<1> QED
  BY <1>1, <1>2, <1>3, <1>4

LEMMA ClassRead ==
  ASSUME NoIndexIsNone, ClassInv, NEW c, c = Ensured \/ c = WithLastValues(Ensured), ci' = c,
         recs' = recs, tid' = tid, code' = code, inflight' = inflight,
         blob' = blob, sidecar' = sidecar
  PROVE  ClassInv'
<1>1. /\ Current' = Current /\ SameClass /\ SameRows
      /\ (Landed' <=> Landed) /\ (Idle' <=> Idle)
  BY SameRowsFacts DEF SameRows, SameClass, Landed, Idle
<1>2. KeysDiffer'
  BY <1>1, SameClassFacts, KeysDifferStays DEF ClassInv
<1>3. /\ CurrentMarkers(c) /\ c # NoIndex
      /\ ~Landed => Agrees(c, Current, {})
      /\ \/ ci # NoIndex /\ \A R : Agrees(ci, R, {}) => Agrees(c, R, {})
         \/ NotIndexed /\ \A R : Agrees(load(blob), R, {}) => Agrees(c, R, {})
         \/ Agrees(c, Current, {})
  BY ReadAgrees
<1>4. ClassMarkers'
  BY <1>1, <1>3, SameClassFacts DEF ClassMarkers
<1>5. ~NotIndexed'
  BY <1>3 DEF NotIndexed
<1>6. ClassBuilt'
  BY <1>1, <1>3, <1>5 DEF ClassBuilt
<1>7. ClassBehind'
  <2> SUFFICES ASSUME Landed
               PROVE  \E R : /\ R = [u \in DOMAIN R |-> R[u]]
                             /\ BatchFree(R, inflight.es, inflight.D)
                             /\ Current = Applied(R, inflight.es, inflight.D)
                             /\ Agrees(c, R, {}) \/ Agrees(c, Current, {})
    BY <1>1, <1>5, SameClassFacts DEF ClassBehind
  <2>1. PICK R : /\ R = [u \in DOMAIN R |-> R[u]]
                 /\ BatchFree(R, inflight.es, inflight.D)
                 /\ Current = Applied(R, inflight.es, inflight.D)
                 /\ ci # NoIndex => Agrees(ci, R, {}) \/ Agrees(ci, Current, {})
                 /\ NotIndexed => Agrees(load(blob), R, {})
    BY DEF ClassInv, ClassBehind
  <2>2. Agrees(c, R, {}) \/ Agrees(c, Current, {})
    BY <1>3, <2>1
  <2> QED
    BY <2>1, <2>2
<1>8. ClassValid'
  BY <1>1, SameClassFacts DEF ClassInv, ClassValid
<1>9. ClassSaved'
  BY <1>1 DEF ClassInv, ClassSaved
<1> QED
  BY <1>2, <1>4, <1>6, <1>7, <1>8, <1>9 DEF ClassInv

(* Landing applies the batch to the rows. *)
LEMMA LandedRows ==
  ASSUME StoreInv, CaptureInv, Land
  PROVE  Current' = Applied(Current, inflight.es, inflight.D)
<1> DEFINE es == inflight.es
           D == inflight.D
           W == Written(es)
           S == Applied(Current, es, D)
<1>1. es \in Batches /\ D \subseteq Oids /\ ~Idle
  BY LandStep, CaptureFacts DEF Idle
<1>2. W \subseteq Oids /\ \A o \in W : Entry(es, o) \in Rows
  BY <1>1, WrittenFacts
<1>3. \A o \in Oids : recs'[o] = IF o \in D THEN NoRec
                                 ELSE IF o \in W THEN [old |-> FALSE, row |-> Entry(es, o)]
                                 ELSE recs[o]
  BY LandStep
<1>4. code' = code
  BY DEF Land
<1>5. \A o \in W : LET r == [old |-> FALSE, row |-> Entry(es, o)] IN
                   r # NoRec /\ r.row = Entry(es, o) /\ ~r.old
  BY <1>2, RecordFacts
<1> HIDE DEF es, D, W
<1>6. Live' = (Live \cup W) \ D
  BY <1>2, <1>3, <1>5 DEF Live, Oids
<1>7. ASSUME NEW o \in (Live \cup W) \ D
      PROVE  Row(o)' = IF o \in W THEN Entry(es, o) ELSE Row(o)
  <2>1. o \in Oids
    BY <1>2 DEF Live
  <2>2. CASE o \in W
    <3>1. recs'[o] = [old |-> FALSE, row |-> Entry(es, o)]
      BY <1>3, <1>7, <2>1, <2>2
    <3>2. ~recs'[o].old /\ recs'[o].row = Entry(es, o)
      BY <3>1
    <3> QED
      BY <2>2, <3>2 DEF Row
  <2>3. CASE o \notin W
    <3>1. recs'[o] = recs[o]
      BY <1>3, <1>7, <2>1, <2>3
    <3> QED
      BY <1>4, <2>3, <3>1 DEF Row
  <2> QED
    BY <2>2, <2>3
<1>8. Current' = [o \in (Live \cup W) \ D |-> IF o \in W THEN Entry(es, o) ELSE Row(o)]
  <2>1. Current' = [o \in Live' |-> Row(o)']
    BY DEF Current
  <2> QED
    BY <1>6, <1>7, <2>1
<1>9. S = [o \in (Live \cup W) \ D |-> IF o \in W THEN Entry(es, o) ELSE Row(o)]
  <2>1. S = [o \in (DOMAIN Current \cup W) \ D |-> IF o \in W THEN Entry(es, o) ELSE Current[o]]
    BY Zenon DEF Applied, W
  <2> HIDE DEF S
  <2> QED
    BY <2>1, CurrentFacts
<1> QED
  BY <1>8, <1>9 DEF S, es, D

(* ... and the keys of the rows still differ. *)
LEMMA LandedDiffer ==
  ASSUME StoreInv, CaptureInv, KeysDiffer, ClassValid, Land
  PROVE  KeysDiffer'
<1> DEFINE es == inflight.es
           D == inflight.D
           W == Written(es)
           S == Applied(Current, es, D)
<1>1. Current' = S
  BY LandedRows
<1>2. es \in Batches
  BY LandStep, CaptureFacts
<1>3. BatchFree(Current, es, D)
  BY LandStep, CaptureFacts DEF ClassValid, Land, Landed
<1>4. BatchFree(S, es, D)
  BY <1>2, <1>3, AppliedFacts
<1>5. uniqueFields' = uniqueFields
  BY DEF Land, uniqueFields
<1>6. DOMAIN S = Live' /\ \A o \in Live' : S[o] = Row(o)'
  BY <1>1 DEF Current
<1>7. DOMAIN S = (Live \cup W) \ D
      /\ \A o \in DOMAIN S : S[o] = IF o \in W THEN Entry(es, o) ELSE Row(o)
  <2>1. S = [o \in (DOMAIN Current \cup W) \ D |-> IF o \in W THEN Entry(es, o) ELSE Current[o]]
    BY Zenon DEF Applied
  <2> HIDE DEF S, es, D, W
  <2> QED
    BY <2>1, CurrentFacts
<1>8. ASSUME NEW o \in W, o \in DOMAIN S
      PROVE  \E i \in DOMAIN es : o = es[i][1] /\ S[o] = es[i][2]
  <2>1. PICK i \in 1..Len(es) : o = es[i][1]
    BY <1>2, WrittenFacts
  <2>2. S[o] = es[i][2] /\ i \in DOMAIN es
    <3>1. S[o] = Entry(es, o)
      BY <1>7, <1>8
    <3>2. Entry(es, es[i][1]) = es[i][2] /\ i \in DOMAIN es
      BY <1>2, EntryOf, BatchFacts
    <3> QED
      BY <2>1, <3>1, <3>2
  <2> QED
    BY <2>1, <2>2
<1> HIDE DEF S, es, D, W
<1>9. ASSUME NEW f \in uniqueFields, NEW o \in DOMAIN S, NEW u \in DOMAIN S,
             o # u, S[o][f] = S[u][f], S[o][f] # NULL
      PROVE  FALSE
  <2>1. ASSUME NEW x \in DOMAIN S, NEW y \in DOMAIN S, x # y, x \in W, S[x][f] = S[y][f],
               S[x][f] # NULL
        PROVE  FALSE
    <3>1. PICK i \in DOMAIN es : x = es[i][1] /\ S[x] = es[i][2]
      BY <1>8, <2>1
    <3>2. \A z \in DOMAIN S \ (D \cup {x}) : S[z][f] # S[x][f]
      BY <1>4, <2>1, <3>1 DEF BatchFree
    <3> QED
      BY <1>7, <2>1, <3>2
  <2>2. CASE o \notin W /\ u \notin W
    <3>1. o \in Live /\ u \in Live /\ S[o] = Row(o) /\ S[u] = Row(u)
      BY <1>7, <2>2
    <3> QED
      BY <1>9, <3>1 DEF KeysDiffer
  <2> QED
    BY <1>9, <2>1, <2>2
<1> QED
  BY <1>5, <1>6, <1>9 DEF KeysDiffer

(* Folding the batch under way brings the index up to the records. *)
LEMMA FoldClassStep ==
  ASSUME StoreInv, CaptureInv, ClassInv, Fold, ci # NoIndex
  PROVE  Agrees(ci', Current, {}) /\ CurrentMarkers(ci')
<1> DEFINE es == inflight.es
           D == inflight.D
<1>1. Landed /\ ~Idle /\ inflight \in Captures
  BY DEF Fold, Landed, Idle, StoreInv
<1>2. /\ es \in Batches /\ inflight.entries = es /\ D \cap Written(es) = {}
      /\ es # <<>> \/ D # {}
  BY <1>1, CaptureFacts DEF CaptureInv
<1>3. ci' = Folded(ci, es, D)
  <2>1. ci' = Folded(ci, inflight.entries, D)
    BY DEF Fold
  <2> QED
    BY <1>2, <2>1
<1>4. PICK R : /\ R = [u \in DOMAIN R |-> R[u]]
               /\ BatchFree(R, es, D)
               /\ Current = Applied(R, es, D)
               /\ Agrees(ci, R, {}) \/ Agrees(ci, Current, {})
  BY <1>1 DEF ClassInv, ClassBehind
<1>5. CurrentMarkers(ci)
  BY DEF ClassInv, ClassMarkers
<1> HIDE DEF es, D
<1>6. CASE Agrees(ci, R, {})
  BY <1>2, <1>3, <1>4, <1>5, <1>6, FoldedAgrees
<1>7. CASE Agrees(ci, Current, {})
  <2>1. BatchFree(Current, es, D) /\ Applied(Current, es, D) = Current
    BY <1>2, <1>4, AppliedFacts
  <2>2. Current = [u \in DOMAIN Current |-> Current[u]]
    BY CurrentFacts
  <2>3. /\ Agrees(Folded(ci, es, D), Applied(Current, es, D), {})
        /\ CurrentMarkers(Folded(ci, es, D))
    <3> DEFINE S == Current
    <3>1. /\ BatchFree(S, es, D) /\ S = [u \in DOMAIN S |-> S[u]] /\ Agrees(ci, S, {})
      BY <1>7, <2>1, <2>2
    <3> HIDE DEF S
    <3>2. /\ Agrees(Folded(ci, es, D), Applied(S, es, D), {})
          /\ CurrentMarkers(Folded(ci, es, D))
      BY <1>2, <1>5, <3>1, FoldedAgrees
    <3> QED
      BY <3>2 DEF S
  <2> QED
    BY <1>3, <2>1, <2>3
<1> QED
  BY <1>4, <1>6, <1>7

LEMMA ClassStep ==
  ASSUME Marked, "redefault" \notin Env, NoIndexIsNone,
         StoreInv, CaptureInv, ClassInv, [Next]_vars
  PROVE  ClassInv'
<1>1. ASSUME NEW es \in Batches, NEW D \in SUBSET Live, Capture(es, D)
      PROVE  ClassInv'
  <2> DEFINE c == IF uniqueFields # {} /\ es # <<>> THEN Ensured ELSE ci
  <2>1. /\ recs' = recs /\ tid' = tid /\ code' = code /\ blob' = blob /\ sidecar' = sidecar
        /\ ci' = c /\ Idle
    BY <1>1, Zenon DEF Capture, Capturable
  <2>2. /\ inflight'.es = es /\ inflight'.D = D /\ ~inflight'.landed
        /\ check_unique(c, es, D)
    BY <1>1, CaptureStep
  <2>3. Current' = Current /\ SameClass /\ SameRows /\ ~Landed /\ ~Landed'
    BY <2>1, <2>2, SameRowsFacts DEF SameRows, SameClass, Landed
  <2>4. KeysDiffer'
    BY <2>3, SameClassFacts, KeysDifferStays DEF ClassInv
  <2>5. /\ c # NoIndex => CurrentMarkers(c) /\ Agrees(c, Current, {})
        /\ c = NoIndex => ci = NoIndex
    <3>1. CASE uniqueFields # {} /\ es # <<>>
      <4>1. c = Ensured
        BY <3>1
      <4>2. CurrentMarkers(Ensured) /\ Ensured # NoIndex /\ Agrees(Ensured, Current, {})
        BY <2>3, ReadAgrees
      <4> QED
        BY <4>1, <4>2
    <3>2. CASE ~(uniqueFields # {} /\ es # <<>>)
      BY <2>3, <3>2 DEF ClassInv, ClassMarkers, ClassBuilt
    <3> QED
      BY <3>1, <3>2
  <2>6. BatchFree(Current, es, D)
    <3>1. CASE uniqueFields = {} \/ es = <<>>
      BY <3>1 DEF BatchFree
    <3>2. CASE uniqueFields # {} /\ es # <<>>
      <4>1. c = Ensured
        BY <3>2
      <4>2. CurrentMarkers(Ensured) /\ Agrees(Ensured, Current, {})
        BY <2>3, ReadAgrees
      <4>3. check_unique(Ensured, es, D)
        BY <2>2, <4>1
      <4> HIDE DEF c
      <4> QED
        BY <4>2, <4>3, CheckedFree
    <3> QED
      BY <3>1, <3>2
  <2> HIDE DEF c
  <2>7. ClassMarkers'
    BY <2>1, <2>3, <2>5, SameClassFacts DEF ClassMarkers
  <2>8. ClassBuilt'
    BY <2>1, <2>3, <2>5 DEF ClassInv, ClassBuilt, NotIndexed
  <2>9. ClassBehind'
    BY <2>3 DEF ClassBehind
  <2>10. ClassValid'
    BY <2>2, <2>3, <2>6, SameClassFacts DEF ClassValid
  <2>11. ClassSaved'
    BY <2>1, <2>3 DEF ClassInv, ClassSaved
  <2> QED
    BY <2>4, <2>7, <2>8, <2>9, <2>10, <2>11 DEF ClassInv
<1>2. CASE Land
  <2>1. /\ tid' = tid + 1 /\ code' = code /\ ci' = ci /\ blob' = blob /\ sidecar' = sidecar
        /\ ~Landed /\ ~Idle
    BY <1>2 DEF Land, indexVars, Landed
  <2>2. /\ Landed' /\ ~Idle'
        /\ inflight'.es = inflight.es /\ inflight'.D = inflight.D /\ inflight.es \in Batches
    BY <1>2, LandStep, CaptureFacts DEF Landed, Idle
  <2>3. SameClass /\ Current' = Applied(Current, inflight.es, inflight.D)
    BY <1>2, <2>1, LandedRows DEF SameClass
  <2>4. KeysDiffer'
    BY <1>2, LandedDiffer DEF ClassInv
  <2>5. ClassMarkers'
    BY <2>1, <2>3, SameClassFacts DEF ClassInv, ClassMarkers
  <2>6. ClassBehind'
    <3>0. PICK R : R = Current
      OBVIOUS
    <3>1. /\ R = [u \in DOMAIN R |-> R[u]]
          /\ BatchFree(R, inflight.es, inflight.D)
          /\ Current' = Applied(R, inflight.es, inflight.D)
          /\ ci # NoIndex => Agrees(ci, R, {})
          /\ NotIndexed => Agrees(load(blob), R, {})
      BY <2>1, <2>3, <3>0, CurrentFacts DEF ClassInv, ClassValid, ClassBuilt
    <3>2. BatchFree(R, inflight.es, inflight.D)'
      <4>1. uniqueFields' = uniqueFields
        BY <2>3, SameClassFacts
      <4> QED
        BY <2>2, <3>1, <4>1 DEF BatchFree
    <3>3. ci' # NoIndex => Agrees(ci', R, {})
      BY <2>1, <3>1
    <3>4. NotIndexed' => Agrees(load(blob'), R, {})
      BY <2>1, <3>1 DEF NotIndexed
    <3>5. Current' = Applied(R, inflight'.es, inflight'.D)
      BY <2>2, <3>1
    <3> QED
      BY <3>1, <3>2, <3>3, <3>4, <3>5 DEF ClassBehind, load
  <2>7. ClassBuilt' /\ ClassValid'
    BY <2>2 DEF ClassBuilt, ClassValid
  <2>8. ClassSaved'
    BY <2>1 DEF ClassInv, ClassSaved, StoreInv
  <2> QED
    BY <2>4, <2>5, <2>6, <2>7, <2>8 DEF ClassInv
<1>3. CASE LandFails
  <2>1. /\ recs' = recs /\ tid' = tid /\ code' = code /\ ci' = ci /\ blob' = blob
        /\ sidecar' = sidecar /\ Idle' /\ ~Landed /\ ~Landed'
    BY <1>3 DEF LandFails, indexVars, Landed, Idle
  <2>2. Current' = Current /\ SameClass /\ SameRows
    BY <2>1, SameRowsFacts DEF SameRows, SameClass
  <2>3. KeysDiffer' /\ ClassMarkers'
    BY <2>1, <2>2, SameClassFacts, KeysDifferStays DEF ClassInv, ClassMarkers
  <2> QED
    BY <2>1, <2>2, <2>3
       DEF ClassInv, ClassBehind, ClassBuilt, ClassValid, ClassSaved, NotIndexed
<1>4. CASE Fold
  <2>1. /\ recs' = recs /\ tid' = tid /\ code' = code /\ sidecar' = sidecar
        /\ Idle' /\ ~Landed' /\ Landed
    BY <1>4 DEF Fold, Landed, Idle
  <2>2. Current' = Current /\ SameClass /\ SameRows
    BY <2>1, SameRowsFacts DEF SameRows, SameClass
  <2>3. KeysDiffer'
    BY <2>2, SameClassFacts, KeysDifferStays DEF ClassInv
  <2>4. CASE ci = NoIndex
    <3>1. ci' = NoIndex /\ blob' = NoIndex
      BY <1>4, <2>4 DEF Fold, CaptureInv
    <3> QED
      BY <2>1, <2>2, <2>3, <3>1
         DEF ClassInv, ClassMarkers, ClassBehind, ClassBuilt, ClassValid, ClassSaved, NotIndexed
  <2>5. CASE ci # NoIndex
    <3>1. Agrees(ci', Current, {}) /\ CurrentMarkers(ci')
      BY <1>4, <2>5, FoldClassStep
    <3>2. ci' # NoIndex
      BY <3>1, SomeIndex
    <3>3. ClassMarkers'
      BY <2>2, <3>1, SameClassFacts DEF ClassMarkers
    <3>4. ClassBuilt'
      BY <2>2, <3>1, <3>2 DEF ClassBuilt, NotIndexed
    <3> QED
      BY <2>1, <2>2, <2>3, <3>3, <3>4 DEF ClassInv, ClassBehind, ClassValid, ClassSaved
  <2> QED
    BY <2>4, <2>5
<1>5. CASE ensure
  BY <1>5, ClassRead DEF ensure
<1>6. CASE committed_labels
  BY <1>6, ClassRead DEF committed_labels
<1>7. ASSUME recs' = recs, tid' = tid, code' = code, ci' = ci, blob' = blob, sidecar' = sidecar,
             inflight' = inflight
      PROVE  ClassInv'
  <2>1. Current' = Current /\ SameClass /\ SameRows /\ (Landed' <=> Landed) /\ (Idle' <=> Idle)
    BY <1>7, SameRowsFacts DEF SameRows, SameClass, Landed, Idle
  <2>2. KeysDiffer' /\ ClassMarkers' /\ ClassValid'
    BY <1>7, <2>1, SameClassFacts, KeysDifferStays DEF ClassInv, ClassMarkers, ClassValid
  <2>3. ClassBehind'
    <3> SUFFICES ASSUME Landed
                 PROVE  \E R : /\ R = [u \in DOMAIN R |-> R[u]]
                               /\ BatchFree(R, inflight.es, inflight.D)
                               /\ Current = Applied(R, inflight.es, inflight.D)
                               /\ ci # NoIndex => Agrees(ci, R, {}) \/ Agrees(ci, Current, {})
                               /\ NotIndexed => Agrees(load(blob), R, {})
      BY <1>7, <2>1, SameClassFacts DEF ClassBehind, NotIndexed
    <3> QED
      BY DEF ClassInv, ClassBehind
  <2> QED
    BY <1>7, <2>1, <2>2, <2>3 DEF ClassInv, ClassBuilt, ClassSaved, NotIndexed
<1>8. CASE ensure_reverse
  BY <1>7, <1>8 DEF ensure_reverse
<1>9. ASSUME Down, recs' = recs, tid' = tid, code' = code, ClassSaved'
      PROVE  ClassInv'
  <2>1. SameClass /\ SameRows /\ Idle' /\ ~Landed' /\ ci' = NoIndex /\ blob' = NoIndex
    BY <1>9 DEF Down, SameRows, SameClass, Idle, Landed
  <2>2. KeysDiffer'
    BY <2>1, SameClassFacts, KeysDifferStays DEF ClassInv
  <2> QED
    BY <1>9, <2>1, <2>2
       DEF ClassInv, ClassMarkers, ClassBehind, ClassBuilt, ClassValid, NotIndexed
<1>10. CASE Close
  <2>1. Down /\ recs' = recs /\ tid' = tid /\ code' = code
    BY <1>10 DEF Close
  <2>2. Current' = Current
    BY <2>1, SameRowsFacts DEF SameRows
  <2>3. ClassSaved'
    <3>1. CASE ci = NoIndex /\ rev = NoIndex
      <4>1. sidecar' = sidecar
        BY <1>10, <3>1 DEF Close
      <4> QED
        BY <2>1, <2>2, <4>1 DEF ClassInv, ClassSaved
    <3>2. CASE ~(ci = NoIndex /\ rev = NoIndex)
      <4>1. /\ sidecar'.watermark = LastTid
            /\ sidecar'.class = IF ci = NoIndex THEN NoIndex ELSE dump(ci)
        <5>1. sidecar' = [watermark |-> LastTid,
                          class |-> IF ci = NoIndex THEN NoIndex ELSE dump(ci),
                          reverse |-> IF rev = NoIndex THEN NoIndex ELSE rev.post]
          BY <1>10, <3>2 DEF Close
        <5> QED
          BY <5>1
      <4>2. tid \in Int
        BY DEF StoreInv
      <4>3. CASE Landed
        <5>1. LastTid = tid - 1
          BY <4>3 DEF LastTid, Landed
        <5> QED
          BY <2>1, <4>1, <4>2, <5>1 DEF ClassSaved
      <4>4. CASE ~Landed
        <5>1. LastTid = tid
          BY <4>4 DEF LastTid, Landed
        <5>2. ci # NoIndex => Agrees(load(dump(ci)), Current, {})
          BY <4>4, LoadedAgrees DEF ClassInv, ClassBuilt
        <5> QED
          BY <2>1, <2>2, <4>1, <4>2, <5>1, <5>2 DEF ClassSaved
      <4> QED
        BY <4>3, <4>4
    <3> QED
      BY <3>1, <3>2
  <2> QED
    BY <1>9, <2>1, <2>3
<1>11. CASE Crash
  <2>1. Down /\ recs' = recs /\ tid' = tid /\ code' = code /\ sidecar' = sidecar
    BY <1>11 DEF Crash
  <2>2. ClassSaved'
    BY <2>1, SameRowsFacts DEF ClassInv, ClassSaved, SameRows
  <2> QED
    BY <1>9, <2>1, <2>2
<1>12. CASE Open
  <2>1. /\ recs' = recs /\ tid' = tid /\ code' = code /\ sidecar' = sidecar
        /\ inflight' = inflight /\ ci' = ci
        /\ blob' = IF sidecar # NoIndex /\ sidecar.watermark = tid
                   THEN sidecar.class ELSE NoIndex
    BY <1>12 DEF Open
  <2>2. ci = NoIndex /\ Idle /\ Idle' /\ ~Landed'
    BY <1>12, <2>1 DEF Open, StoreInv, Idle, Landed
  <2>3. Current' = Current /\ SameClass /\ SameRows
    BY <2>1, SameRowsFacts DEF SameRows, SameClass
  <2>4. KeysDiffer'
    BY <2>3, SameClassFacts, KeysDifferStays DEF ClassInv
  <2>5. NotIndexed' => Agrees(load(blob'), Current, {})
    BY <2>1 DEF ClassInv, ClassSaved, NotIndexed
  <2> QED
    BY <2>1, <2>2, <2>3, <2>4, <2>5
       DEF ClassInv, ClassMarkers, ClassBehind, ClassBuilt, ClassValid, ClassSaved, load
<1>13. CASE Redeploy
  <2>1. /\ recs' = recs /\ tid' = tid /\ sidecar' = sidecar /\ inflight' = inflight
        /\ ci' = ci /\ blob' = blob
    BY <1>13 DEF Redeploy, indexVars
  <2>2. ci = NoIndex /\ blob = NoIndex /\ Idle /\ Idle' /\ ~Landed'
    BY <1>13, <2>1 DEF Redeploy, StoreInv, Idle, Landed
  <2>3. code'.default = code.default /\ code'.marked = code.marked /\ code'.keyed = code.keyed
    <3>1. code' = [code EXCEPT !.ranked = ~@]
      BY <1>13 DEF Redeploy
    <3>2. code \in [ranked : BOOLEAN, keyed : BOOLEAN, default : Defaults, marked : {TRUE}]
      BY DEF StoreInv
    <3> QED
      BY <3>1, <3>2
  <2>4. Current' = Current /\ SameRows /\ uniqueFields' = uniqueFields
    BY <2>1, <2>3, SameRowsFacts DEF SameRows, uniqueFields
  <2>5. KeysDiffer'
    BY <2>4, KeysDifferStays DEF ClassInv
  <2> QED
    BY <2>1, <2>2, <2>4, <2>5
       DEF ClassInv, ClassMarkers, ClassBehind, ClassBuilt, ClassValid, ClassSaved, NotIndexed
<1>14. CASE UNCHANGED vars
  BY <1>7, <1>14 DEF vars, indexVars
<1> QED
  BY <1>1, <1>2, <1>3, <1>4, <1>5, <1>6, <1>8, <1>10, <1>11, <1>12, <1>13, <1>14 DEF Next

(* An index that agrees with the rows answers like a scan of the records. *)
LEMMA AgreesServes ==
  ASSUME KeysDiffer, NEW c, Agrees(c, Current, {}), CurrentMarkers(c)
  PROVE  Serves(c)
<1> DEFINE s == build_class_indexes
<1>1. Agrees(s, Current, {}) /\ CurrentMarkers(s)
  BY BuiltAgrees
<1>2. \A f \in eqFields : \A k \in DOMAIN s.eq[f] : At(s.eq[f], k) # {}
  <2> SUFFICES ASSUME NEW f \in eqFields, NEW k \in DOMAIN s.eq[f]
               PROVE  At(s.eq[f], k) # {}
    OBVIOUS
  <2> DEFINE keys == UNION {KeysOf(f, Row(o)[f]) : o \in Live}
  <2>1. s.eq = [g \in eqFields |-> [x \in UNION {KeysOf(g, Row(o)[g]) : o \in Live} |->
                                      {o \in Live : x \in KeysOf(g, Row(o)[g])}]]
    BY DEF build_class_indexes
  <2>2. s.eq[f] = [x \in keys |-> {o \in Live : x \in KeysOf(f, Row(o)[f])}]
    BY <2>1
  <2> HIDE DEF s
  <2>3. k \in keys /\ s.eq[f][k] = {o \in Live : k \in KeysOf(f, Row(o)[f])}
    BY <2>2
  <2>4. \E o \in Live : k \in KeysOf(f, Row(o)[f])
    BY <2>3
  <2> QED
    BY <2>3, <2>4 DEF At
<1> HIDE DEF s
<1>3. /\ c.extent = s.extent
      /\ DOMAIN c.eq = eqFields /\ DOMAIN s.eq = eqFields
      /\ DOMAIN c.run = sortedFields /\ DOMAIN s.run = sortedFields
      /\ DOMAIN c.unique = uniqueFields /\ DOMAIN s.unique = uniqueFields
  BY <1>1 DEF Agrees, Posted, CurrentMarkers
<1>4. \A f \in eqFields : \A k : At(c.eq[f], k) = At(s.eq[f], k)
  BY <1>1, <1>3 DEF Agrees, Posted
<1>5. ASSUME NEW f \in sortedFields
      PROVE  s.run[f] \subseteq c.run[f] /\ c.run[f] \subseteq DOMAIN c.eq[f]
  <2>1. f \in eqFields
    BY FieldFacts
  <2>2. s.run[f] = DOMAIN s.eq[f] \ {NULL} /\ c.run[f] = DOMAIN c.eq[f] \ {NULL}
    BY <1>1, <1>3 DEF Agrees, Posted
  <2>3. \A k \in DOMAIN s.eq[f] : k \in DOMAIN c.eq[f]
    BY <1>2, <1>4, <2>1, AtFacts
  <2> QED
    BY <2>2, <2>3
<1>6. c.unique = s.unique
  <2>1. /\ c.unique = [f \in uniqueFields |-> [v \in DOMAIN c.unique[f] |-> c.unique[f][v]]]
        /\ s.unique = [f \in uniqueFields |-> [v \in DOMAIN s.unique[f] |-> s.unique[f][v]]]
    BY <1>1, <1>3 DEF Agrees, IsClassIndex
  <2>2. ASSUME NEW f \in uniqueFields, NEW a, NEW b, Mapped(a, Current, {}), Mapped(b, Current, {}),
               f \in DOMAIN a.unique, f \in DOMAIN b.unique, NEW v \in DOMAIN a.unique[f]
        PROVE  v \in DOMAIN b.unique[f] /\ a.unique[f][v] = b.unique[f][v]
    <3>1. v # NULL /\ a.unique[f][v] \in DOMAIN Current /\ Current[a.unique[f][v]][f] = v
      BY <2>2 DEF Mapped
    <3>2. \A o \in DOMAIN Current : Current[o][f] # NULL =>
             Current[o][f] \in DOMAIN b.unique[f] /\ b.unique[f][Current[o][f]] = o
      BY <2>2 DEF Mapped
    <3> QED
      BY <3>1, <3>2
  <2>3. ASSUME NEW f \in uniqueFields
        PROVE  /\ DOMAIN c.unique[f] = DOMAIN s.unique[f]
               /\ \A v \in DOMAIN c.unique[f] : c.unique[f][v] = s.unique[f][v]
    <3>1. Mapped(c, Current, {}) /\ Mapped(s, Current, {})
      BY <1>1 DEF Agrees
    <3> QED
      BY <1>3, <2>2, <3>1, SMTT(30)
  <2> QED
    BY <2>1, <2>3
<1>7. ASSUME ~c.dirty, NEW o \in Live, NEW f \in eqFields
      PROVE  KeysOf(f, Row(o)[f]) =
               IF o \in DOMAIN c.last /\ f \in DOMAIN c.last[o] THEN KeysOf(f, c.last[o][f]) ELSE {}
  <2>1. f \notin DOMAIN c.unique
    BY <1>3, FieldFacts
  <2>2. \A k : Knows(c, o, f, k) <=> k \in KeysOf(f, Row(o)[f])
    BY <1>3, <1>7, <2>1, CurrentFacts DEF Agrees, Remembers
  <2>3. \A k : k \in KeysOf(f, Row(o)[f]) <=>
           /\ o \in DOMAIN c.last /\ f \in DOMAIN c.last[o]
           /\ k \in KeysOf(f, c.last[o][f])
    BY <2>2 DEF Knows
  <2>4. CASE o \in DOMAIN c.last /\ f \in DOMAIN c.last[o]
    <3>1. \A k : k \in KeysOf(f, Row(o)[f]) <=> k \in KeysOf(f, c.last[o][f])
      BY <2>3, <2>4
    <3>2. KeysOf(f, Row(o)[f]) = KeysOf(f, c.last[o][f])
      BY <3>1
    <3> QED
      BY <2>4, <3>2
  <2>5. CASE ~(o \in DOMAIN c.last /\ f \in DOMAIN c.last[o])
    <3>1. KeysOf(f, Row(o)[f]) = {}
      BY <2>3, <2>5
    <3> QED
      BY <2>5, <3>1
  <2> QED
    BY <2>4, <2>5
<1> QED
  BY <1>3, <1>4, <1>5, <1>6, <1>7 DEF Serves, Postings, s

LEMMA ClassInit ==
  ASSUME Marked, Init
  PROVE  ClassInv
<1>1. /\ ci = NoIndex /\ blob = NoIndex /\ sidecar = NoIndex /\ Idle
  BY DEF Init, Idle
<1>2. KeysDiffer
  <2> SUFFICES ASSUME NEW f \in uniqueFields, NEW o \in Live, NEW u \in Live,
                      o # u, Row(o)[f] = Row(u)[f]
               PROVE  Row(o)[f] = NULL
    BY DEF KeysDiffer
  <2>1. f \in UniqueFields /\ f # Added
    BY FieldFacts, IndexConstants
  <2>2. ASSUME NEW x \in Live
        PROVE  Row(x)[f] = recs[x].row[f]
    <3>1. recs \in [Oids -> {NoRec} \cup [old : BOOLEAN, row : Rows]]
      BY DEF Init
    <3>2. recs[x].row \in Rows
      BY <3>1 DEF Live
    <3>3. f \in DOMAIN recs[x].row
      BY <2>1, <3>2, IndexRows
    <3> QED
      BY <2>1, <3>3 DEF Row
  <2>3. recs[o].row[f] = recs[u].row[f] => recs[o].row[f] = NULL
    BY DEF Init
  <2> QED
    BY <2>2, <2>3
<1> QED
  BY <1>1, <1>2 DEF ClassInv, ClassMarkers, ClassBehind, ClassBuilt, ClassValid, ClassSaved,
     NotIndexed, Landed

(***************************************************************************)
(* The class index answers like a scan of the records whenever no commit is  *)
(* under way, in every order of first reads, rebuilt un-index memories,       *)
(* validations, folds, failed and asynchronous commits, clean closes, crashes, *)
(* cached reopens and versions of the class that move the marker of a field:   *)
(* built from the records or loaded from the sidecar and folded forward with    *)
(* each commit, whose entries may be folded into an index built after they      *)
(* landed, and in which a key may pass from a deleted object to a written one.   *)
(* Not so for a class without any marker, or one that changes the default of a    *)
(* field old records lack.                                                       *)
(***************************************************************************)
THEOREM IndexAnswersExact ==
  ASSUME Marked, "redefault" \notin Env, NoIndexIsNone
  PROVE  Spec => []IndexServes
<1>1. Init => StoreInv /\ CaptureInv /\ ClassInv
  BY StoreInit, ClassInit
<1>2. StoreInv /\ CaptureInv /\ ClassInv /\ [Next]_vars => (StoreInv /\ CaptureInv /\ ClassInv)'
  BY StoreStep, ClassStep
<1>3. StoreInv /\ CaptureInv /\ ClassInv => IndexServes
  <2> SUFFICES ASSUME ClassInv, Idle
               PROVE  /\ ci # NoIndex => Serves(ci)
                      /\ blob # NoIndex /\ ci = NoIndex /\ MarkersMatch(blob) => Serves(load(blob))
    BY DEF IndexServes
  <2>1. ~Landed /\ KeysDiffer
    BY DEF Landed, ClassInv
  <2>2. ASSUME ci # NoIndex
        PROVE  Serves(ci)
    <3>1. Agrees(ci, Current, {}) /\ CurrentMarkers(ci)
      BY <2>1, <2>2 DEF ClassInv, ClassBuilt, ClassMarkers
    <3> QED
      BY <2>1, <3>1, AgreesServes
  <2>3. ASSUME blob # NoIndex, ci = NoIndex, MarkersMatch(blob)
        PROVE  Serves(load(blob))
    <3>1. Agrees(load(blob), Current, {}) /\ CurrentMarkers(load(blob))
      BY <2>1, <2>3, LoadedMarkers DEF ClassInv, ClassBuilt, NotIndexed
    <3> QED
      BY <2>1, <3>1, AgreesServes
  <2> QED
    BY <2>2, <2>3
<1> QED
  BY <1>1, <1>2, <1>3, PTL DEF Spec

-----------------------------------------------------------------------------
(* Reads of a class under the fence, in every state between commits.         *)

(* The label columns are indexed whatever the version of the class; groups is *)
(* a list and not None, and a read floor is a number.                         *)
LabelRows ==
    /\ NULL \notin Int
    /\ {"owner", "groups", "floor"} \subseteq EqFields \ {Added}
    /\ "groups" \in ListFields /\ "owner" \notin ListFields /\ "floor" \in SortedFields
    /\ \A row \in Rows : row["groups"] # NULL /\ row["floor"] \in Nat

LEMMA LabelFacts ==
  ASSUME StoreInv, LabelRows
  PROVE  /\ {"owner", "groups", "floor"} \subseteq eqFields /\ "floor" \in sortedFields
         /\ \A o \in Live : Row(o)["groups"] # NULL /\ Row(o)["floor"] \in Nat
<1>1. code.marked
  BY DEF StoreInv
<1>2. EqFields \ {Added} \subseteq eqFields
  BY <1>1 DEF eqFields
<1>3. ASSUME NEW o \in Live
      PROVE  Row(o)["groups"] # NULL /\ Row(o)["floor"] \in Nat
  <2>1. recs[o].row \in Rows
    BY DEF StoreInv, Live
  <2>2. "groups" # Added /\ "floor" # Added
    BY DEF LabelRows
  <2>3. {"groups", "floor"} \subseteq DOMAIN recs[o].row
    BY <2>1, IndexRows DEF LabelRows
  <2>4. Row(o)["groups"] = recs[o].row["groups"] /\ Row(o)["floor"] = recs[o].row["floor"]
    BY <2>2, <2>3 DEF Row
  <2> QED
    BY <2>1, <2>4 DEF LabelRows
<1> QED
  BY <1>2, <1>3 DEF LabelRows, sortedFields

(* What an index that agrees with the records posts for a field. *)
LEMMA PostingFacts ==
  ASSUME NEW c, Agrees(c, Current, {}), CurrentMarkers(c), NEW f \in eqFields
  PROVE  /\ f \in DOMAIN c.eq
         /\ \A k : At(c.eq[f], k) = {o \in Live : k \in KeysOf(f, Row(o)[f])}
         /\ f \notin ListFields => \A k : At(c.eq[f], k) = {o \in Live : Row(o)[f] = k}
         /\ \A k \in DOMAIN c.eq[f] : c.eq[f][k] = At(c.eq[f], k)
         /\ f \in sortedFields => f \in DOMAIN c.run /\ c.run[f] = DOMAIN c.eq[f] \ {NULL}
<1>1. f \in DOMAIN c.eq
  BY DEF CurrentMarkers
<1>2. \A k : At(c.eq[f], k) = {o \in Live : k \in KeysOf(f, Row(o)[f])}
  <2>1. \A k : At(c.eq[f], k) = Holders(Current, f, k)
    BY <1>1 DEF Agrees, Posted
  <2>2. \A k : Holders(Current, f, k) = {o \in Live : k \in KeysOf(f, Row(o)[f])}
    BY CurrentFacts DEF Holders
  <2> QED
    BY <2>1, <2>2
<1>3. ASSUME f \notin ListFields, NEW k
      PROVE  At(c.eq[f], k) = {o \in Live : Row(o)[f] = k}
  <2>1. \A v : k \in KeysOf(f, v) <=> v = k
    BY <1>3 DEF KeysOf
  <2> QED
    BY <1>2, <2>1
<1>4. f \in sortedFields => f \in DOMAIN c.run /\ c.run[f] = DOMAIN c.eq[f] \ {NULL}
  BY DEF CurrentMarkers, Agrees, Posted
<1> QED
  BY <1>1, <1>2, <1>3, <1>4, AtFacts

LEMMA LabelsAgree ==
  ASSUME StoreInv, LabelRows, NEW c, Agrees(c, Current, {}), CurrentMarkers(c)
  PROVE  c.extent = Live /\ LabelsIndexed(c, Current)
<1>1. c.extent = Live
  BY CurrentFacts DEF Agrees, Posted
<1>2. /\ {"owner", "groups", "floor"} \subseteq eqFields /\ "floor" \in sortedFields
      /\ \A o \in Live : Row(o)["groups"] # NULL /\ Row(o)["floor"] \in Nat
  BY LabelFacts
<1>3. \A k : At(c.eq["owner"], k) = {o \in Live : Row(o)["owner"] = k}
  BY <1>2, PostingFacts DEF LabelRows
<1>4. \A g : At(c.eq["groups"], g) = {o \in Live : g \in Row(o)["groups"]}
  <2>1. \A k : At(c.eq["groups"], k) = {o \in Live : k \in KeysOf("groups", Row(o)["groups"])}
    BY <1>2, PostingFacts
  <2>2. \A o \in Live : KeysOf("groups", Row(o)["groups"]) = Row(o)["groups"]
    BY <1>2 DEF KeysOf, LabelRows
  <2> QED
    BY <2>1, <2>2
<1>5. /\ "floor" \notin ListFields
      /\ \A k : At(c.eq["floor"], k) = {o \in Live : Row(o)["floor"] = k}
      /\ \A k \in DOMAIN c.eq["floor"] : c.eq["floor"][k] = At(c.eq["floor"], k)
      /\ c.run["floor"] = DOMAIN c.eq["floor"] \ {NULL}
  BY <1>2, FieldFacts, PostingFacts DEF LabelRows
<1>6. \A o \in Live : Row(o)["floor"] \in c.run["floor"]
  <2> SUFFICES ASSUME NEW o \in Live PROVE Row(o)["floor"] \in c.run["floor"]
    OBVIOUS
  <2>1. Row(o)["floor"] # NULL
    BY <1>2 DEF LabelRows
  <2>2. o \in At(c.eq["floor"], Row(o)["floor"])
    BY <1>5
  <2>3. Row(o)["floor"] \in DOMAIN c.eq["floor"]
    BY <2>2, AtFacts
  <2> QED
    BY <1>5, <2>1, <2>3
<1>7. \A k \in c.run["floor"] : c.eq["floor"][k] = {o \in Live : Row(o)["floor"] = k}
  BY <1>5
<1> QED
  BY <1>1, <1>2, <1>3, <1>4, <1>6, <1>7, CurrentFacts DEF LabelsIndexed

(* The index in use between two commits. *)
LEMMA IndexInUse ==
  ASSUME ClassInv, Idle, ci # NoIndex
  PROVE  Agrees(ci, Current, {}) /\ CurrentMarkers(ci)
  BY DEF ClassInv, ClassBuilt, ClassMarkers, Landed

(* The bitmap of readable records, of an index that agrees with the records.   *)
LEMMA ReadableExact ==
  ASSUME StoreInv, LabelRows, NEW c, Agrees(c, Current, {}), CurrentMarkers(c),
         NEW p, IsPrincipal(p)
  PROVE  readable_bitmap(p, c) = Readable(p)
<1>1. c.extent = Live /\ LabelsIndexed(c, Current)
  BY LabelsAgree
<1>2. NULL \notin Int
  BY DEF LabelRows
<1>3. PICK L : L = Current
  OBVIOUS
<1>4. readable_bitmap(p, c) =
         {o \in c.extent : can_read_row(p, L[o].owner, L[o].groups, L[o].floor)}
  BY <1>1, <1>2, <1>3, ReadableBitmapExact
<1> QED
  BY <1>1, <1>3, <1>4, CurrentFacts DEF Readable

(***************************************************************************)
(* The bitmap compiled for a principal holds exactly the records whose       *)
(* committed labels let the principal read them, whenever no commit is under  *)
(* way: however the index came about, and whatever floors, groups and owners   *)
(* its postings remember of records since rewritten or deleted.                *)
(***************************************************************************)
THEOREM FenceExact ==
  ASSUME Marked, "redefault" \notin Env, NoIndexIsNone, LabelRows, NEW p, IsPrincipal(p)
  PROVE  Spec => [](Idle /\ ci # NoIndex => readable_bitmap(p, ci) = Readable(p))
<1>1. Init => StoreInv /\ CaptureInv /\ ClassInv
  BY StoreInit, ClassInit
<1>2. StoreInv /\ CaptureInv /\ ClassInv /\ [Next]_vars => (StoreInv /\ CaptureInv /\ ClassInv)'
  BY StoreStep, ClassStep
<1>3. StoreInv /\ ClassInv => (Idle /\ ci # NoIndex => readable_bitmap(p, ci) = Readable(p))
  <2> SUFFICES ASSUME StoreInv, ClassInv, Idle, ci # NoIndex
               PROVE  readable_bitmap(p, ci) = Readable(p)
    OBVIOUS
  <2>1. PICK c : c = ci
    OBVIOUS
  <2> QED
    BY <2>1, IndexInUse, ReadableExact
<1> QED
  BY <1>1, <1>2, <1>3, PTL DEF Spec

-----------------------------------------------------------------------------
(* The lookups. *)

(* The labels of a live object, as the un-index memory has them. *)
LEMMA RememberedLabels ==
  ASSUME StoreInv, LabelRows, NEW c, Agrees(c, Current, {}), CurrentMarkers(c), ~c.dirty,
         NEW o \in Live
  PROVE  /\ o \in DOMAIN c.last
         /\ c.last[o]["owner"] = Row(o)["owner"] /\ c.last[o]["floor"] = Row(o)["floor"]
         /\ Row(o)["groups"] =
              IF "groups" \in DOMAIN c.last[o] /\ c.last[o]["groups"] # NULL
              THEN c.last[o]["groups"] ELSE {}
<1>1. /\ {"owner", "groups", "floor"} \subseteq eqFields /\ "floor" \in sortedFields
      /\ \A u \in Live : Row(u)["groups"] # NULL /\ Row(u)["floor"] \in Nat
  BY LabelFacts
<1>2. ASSUME NEW f \in eqFields, NEW k
      PROVE  /\ o \in DOMAIN c.last /\ f \in DOMAIN c.last[o] /\ k \in KeysOf(f, c.last[o][f])
                <=> k \in KeysOf(f, Row(o)[f])
  <2>1. f \in DOMAIN c.eq /\ f \notin DOMAIN c.unique
    BY FieldFacts DEF CurrentMarkers
  <2>2. Knows(c, o, f, k) <=> o \in DOMAIN Current /\ k \in KeysOf(f, Current[o][f])
    BY <2>1 DEF Agrees, Remembers
  <2> QED
    BY <2>2, CurrentFacts DEF Knows
<1>3. ASSUME NEW f \in eqFields, f \notin ListFields
      PROVE  o \in DOMAIN c.last /\ c.last[o][f] = Row(o)[f]
  <2>1. \A v : KeysOf(f, v) = {v}
    BY <1>3 DEF KeysOf
  <2>2. o \in DOMAIN c.last /\ Row(o)[f] \in KeysOf(f, c.last[o][f])
    BY <1>2, <2>1
  <2> QED
    BY <2>1, <2>2
<1>4. "floor" \notin ListFields /\ "owner" \notin ListFields /\ "groups" \in ListFields
  BY FieldFacts DEF LabelRows
<1>5. \A v : KeysOf("groups", v) = IF v = NULL THEN {} ELSE v
  BY <1>4 DEF KeysOf
<1>6. \A k : /\ "groups" \in DOMAIN c.last[o]
             /\ k \in (IF c.last[o]["groups"] = NULL THEN {} ELSE c.last[o]["groups"])
             <=> k \in Row(o)["groups"]
  BY <1>1, <1>2, <1>3, <1>4, <1>5
<1>7. Row(o)["groups"] =
        IF "groups" \in DOMAIN c.last[o] /\ c.last[o]["groups"] # NULL
        THEN c.last[o]["groups"] ELSE {}
  <2>1. CASE "groups" \in DOMAIN c.last[o] /\ c.last[o]["groups"] # NULL
    <3>1. \A k : k \in c.last[o]["groups"] <=> k \in Row(o)["groups"]
      BY <1>6, <2>1
    <3>2. c.last[o]["groups"] = Row(o)["groups"]
      BY <3>1
    <3> QED
      BY <2>1, <3>2
  <2>2. CASE ~("groups" \in DOMAIN c.last[o] /\ c.last[o]["groups"] # NULL)
    <3>1. \A k : k \notin Row(o)["groups"]
      BY <1>6, <2>2
    <3>2. Row(o)["groups"] = {}
      BY <3>1
    <3> QED
      BY <2>2, <3>2
  <2> QED
    BY <2>1, <2>2
<1> QED
  BY <1>1, <1>3, <1>4, <1>7

(* get() by a key that is not None: the holder, if p may read it. *)
LEMMA GetFacts ==
  ASSUME StoreInv, LabelRows, NEW c, Agrees(c, Current, {}), CurrentMarkers(c), ~c.dirty,
         NULL \notin Oids, NEW p, NEW f \in uniqueFields, NEW v, v # NULL
  PROVE  LET holders == {o \in Readable(p) : Row(o)[f] = v}
         IN  IF holders = {} THEN get(p, c, f, v) = NULL ELSE get(p, c, f, v) \in holders
<1> DEFINE Reads(o) == can_read_row(p, Row(o).owner, Row(o).groups, Row(o).floor)
<1>1. /\ \A u \in DOMAIN c.unique[f] : c.unique[f][u] \in Live /\ Row(c.unique[f][u])[f] = u
      /\ \A o \in Live : Row(o)[f] # NULL =>
            Row(o)[f] \in DOMAIN c.unique[f] /\ c.unique[f][Row(o)[f]] = o
  <2>1. f \in DOMAIN c.unique /\ Mapped(c, Current, {})
    BY DEF CurrentMarkers, Agrees
  <2> QED
    BY <2>1, CurrentFacts DEF Mapped
<1>2. Readable(p) = {o \in Live : Reads(o)}
  BY DEF Readable
<1>3. CASE v \notin DOMAIN c.unique[f]
  <2>1. get(p, c, f, v) = NULL
    BY <1>3 DEF get
  <2>2. {o \in Readable(p) : Row(o)[f] = v} = {}
    BY <1>1, <1>2, <1>3
  <2> QED
    BY <2>1, <2>2
<1>4. CASE v \in DOMAIN c.unique[f]
  <2>1. PICK o \in Live : o = c.unique[f][v] /\ Row(o)[f] = v
    BY <1>1, <1>4
  <2>2. \A u \in Live : Row(u)[f] = v => u = o
    BY <1>1, <2>1
  <2>3. /\ o \in DOMAIN c.last
        /\ c.last[o]["owner"] = Row(o)["owner"] /\ c.last[o]["floor"] = Row(o)["floor"]
        /\ Row(o)["groups"] =
             IF "groups" \in DOMAIN c.last[o] /\ c.last[o]["groups"] # NULL
             THEN c.last[o]["groups"] ELSE {}
    BY RememberedLabels
  <2>4. get(p, c, f, v) = IF is_root(p) \/ Reads(o) THEN o ELSE NULL
    BY <1>4, <2>1, <2>3 DEF get
  <2>5. is_root(p) => Reads(o)
    BY DEF can_read_row
  <2>6. o # NULL
    BY DEF Live
  <2> HIDE DEF Reads
  <2>7. CASE Reads(o)
    <3>1. o \in {u \in Readable(p) : Row(u)[f] = v}
      BY <1>2, <2>1, <2>7
    <3> QED
      BY <2>4, <2>7, <3>1
  <2>8. CASE ~Reads(o)
    <3>1. {u \in Readable(p) : Row(u)[f] = v} = {}
      BY <1>2, <2>2, <2>8
    <3>2. get(p, c, f, v) = NULL
      BY <2>4, <2>5, <2>8
    <3> QED
      BY <3>1, <3>2
  <2> QED
    BY <2>7, <2>8
<1> QED
  BY <1>3, <1>4

(* incoming() between two commits. *)
LEMMA IncomingFacts ==
  ASSUME ReverseInv, Idle, NEW p, NEW t \in Oids
  PROVE  incoming(p, t) = Referrers(t) \cap Readable(p)
<1>1. ~Landed
  BY DEF Landed
<1>2. EnsuredReverse.post[t] = Referrers(t)
  <2>1. CASE rev # NoIndex
    BY <1>1, <2>1, ExactIsPointwise
       DEF ReverseInv, ReverseBuilt, Settled, IsReverse, EnsuredReverse, ExactPostings
  <2>2. CASE rev = NoIndex /\ revBlob # NoIndex
    BY <1>1, <2>2 DEF ReverseInv, ReverseCached, EnsuredReverse, ExactPostings
  <2>3. CASE rev = NoIndex /\ revBlob = NoIndex
    BY <2>3, HarvestedExact DEF EnsuredReverse, ExactPostings
  <2> QED
    BY <2>1, <2>2, <2>3
<1>3. Referrers(t) \subseteq Live
  BY DEF Referrers
<1> QED
  BY <1>2, <1>3 DEF incoming, Readable

(***************************************************************************)
(* get() by a unique key and incoming() answer what a scan of the readable   *)
(* records does, whenever no commit is under way: from an index built, folded *)
(* or loaded, with the labels the un-index memory keeps or rebuilds, for every *)
(* principal.  A key is not None; the reverse index is first asked for between  *)
(* commits; the class is marked and no version changes a default.               *)
(***************************************************************************)
THEOREM LookupsExact ==
  ASSUME Marked, "redefault" \notin Env, "late" \notin Env, NoIndexIsNone, LabelRows,
         NULL \notin Keys
  PROVE  Spec => []LookupExact
<1>1. Init => StoreInv /\ CaptureInv /\ ClassInv /\ ReverseInv
  <2> SUFFICES ASSUME Init PROVE StoreInv /\ CaptureInv /\ ClassInv /\ ReverseInv
    OBVIOUS
  <2>1. ReverseInv
    BY DEF Init, ReverseInv, ReverseBuilt, ReverseCached, ReverseSaved
  <2> QED
    BY <2>1, StoreInit, ClassInit
<1>2. StoreInv /\ CaptureInv /\ ClassInv /\ ReverseInv /\ [Next]_vars
        => (StoreInv /\ CaptureInv /\ ClassInv /\ ReverseInv)'
  BY StoreStep, ClassStep, ReverseStep
<1>3. StoreInv /\ ClassInv /\ ReverseInv => LookupExact
  <2> SUFFICES ASSUME StoreInv, ClassInv, ReverseInv, Idle, NEW p \in Principals
               PROVE  /\ \A f \in uniqueFields : \A v \in Keys :
                            LET holders == {o \in Readable(p) : Row(o)[f] = v} IN
                            IF holders = {} THEN get(p, WithLastValues(Ensured), f, v) = NULL
                            ELSE get(p, WithLastValues(Ensured), f, v) \in holders
                      /\ \A t \in Oids : incoming(p, t) = Referrers(t) \cap Readable(p)
    BY DEF LookupExact
  <2>1. PICK c : c = WithLastValues(Ensured)
    OBVIOUS
  <2>2. Agrees(c, Current, {}) /\ CurrentMarkers(c)
    BY <2>1, ReadAgrees DEF Landed
  <2>3. ~c.dirty
    BY <2>1, EnsuredAgrees, WithLastFacts DEF Landed
  <2>4. NULL \notin Oids
    BY DEF LabelRows, Oids
  <2>5. ASSUME NEW f \in uniqueFields, NEW v \in Keys
        PROVE  LET holders == {o \in Readable(p) : Row(o)[f] = v} IN
               IF holders = {} THEN get(p, c, f, v) = NULL ELSE get(p, c, f, v) \in holders
    BY <2>2, <2>3, <2>4, GetFacts
  <2>6. \A t \in Oids : incoming(p, t) = Referrers(t) \cap Readable(p)
    BY IncomingFacts
  <2> QED
    BY <2>1, <2>5, <2>6
<1> QED
  BY <1>1, <1>2, <1>3, PTL DEF Spec

-----------------------------------------------------------------------------
(***************************************************************************)
(* The steps of the planner.  T[cond] is the set of the records of X that    *)
(* satisfy cond; a plan selects the candidates in its bitmap that satisfy     *)
(* its residual, or those of the whole of X without a bitmap.                 *)
(***************************************************************************)
Selected(pl, X, T) ==
    {o \in X : /\ pl.bitmap = NULL \/ o \in pl.bitmap
               /\ \A cond \in pl.residual : o \in T[cond]}

(* The plan selects S, from candidates within X. *)
Selects(pl, X, S, T) ==
    /\ pl.bitmap # NULL => pl.bitmap \subseteq X
    /\ pl.residual \subseteq DOMAIN T
    /\ Selected(pl, X, T) = S

(***************************************************************************)
(* AND: when the plan of every part selects the records that satisfy the     *)
(* part, the intersected bitmaps and the residuals that are left select those *)
(* that satisfy them all.                                                     *)
(***************************************************************************)
THEOREM ConjunctionPlanExact ==
  ASSUME NEW X, NULL \notin SUBSET X, NEW T, NEW subs, NEW S,
         \A i \in DOMAIN subs : Selects(subs[i], X, S[i], T)
  PROVE  Selects(_plan_and(subs), X, {o \in X : \A i \in DOMAIN subs : o \in S[i]}, T)
<1> DEFINE bitmaps == {subs[i].bitmap : i \in DOMAIN subs} \ {NULL}
           bitmap == IF bitmaps = {} THEN NULL
                     ELSE {o \in UNION bitmaps : \A b \in bitmaps : o \in b}
           residual == UNION {subs[i].residual : i \in DOMAIN subs}
           In(o, i) == /\ subs[i].bitmap = NULL \/ o \in subs[i].bitmap
                       /\ \A cond \in subs[i].residual : o \in T[cond]
<1>1. _plan_and(subs).bitmap = bitmap /\ _plan_and(subs).residual = residual
  BY DEF _plan_and, Planned
<1>2. \A i \in DOMAIN subs : subs[i].bitmap # NULL => subs[i].bitmap \subseteq X
  BY DEF Selects
<1>3. \A i \in DOMAIN subs : S[i] = {o \in X : In(o, i)} /\ subs[i].residual \subseteq DOMAIN T
  BY DEF Selects, Selected
<1>4. /\ bitmap # NULL => bitmap \subseteq X
      /\ \A o \in X : (bitmap = NULL \/ o \in bitmap)
                        <=> \A i \in DOMAIN subs : subs[i].bitmap = NULL \/ o \in subs[i].bitmap
  <2>1. CASE bitmaps = {}
    <3>1. \A i \in DOMAIN subs : subs[i].bitmap = NULL
      BY <2>1
    <3> QED
      BY <2>1, <3>1
  <2>2. CASE bitmaps # {}
    <3>1. bitmap = {o \in UNION bitmaps : \A b \in bitmaps : o \in b}
      BY <2>2
    <3>2. PICK i0 \in DOMAIN subs : subs[i0].bitmap \in bitmaps
      BY <2>2
    <3>3. \A o : o \in bitmap <=> \A b \in bitmaps : o \in b
      BY <3>1, <3>2
    <3>4. bitmap \subseteq X
      BY <1>2, <3>2, <3>3
    <3>5. bitmap # NULL
      BY <3>4
    <3>6. \A o : (\A b \in bitmaps : o \in b)
                    <=> \A i \in DOMAIN subs : subs[i].bitmap = NULL \/ o \in subs[i].bitmap
      OBVIOUS
    <3> HIDE DEF bitmap, bitmaps
    <3> QED
      BY <3>3, <3>4, <3>5, <3>6
  <2> QED
    BY <2>1, <2>2
<1>5. /\ residual \subseteq DOMAIN T
      /\ \A o : (\A cond \in residual : o \in T[cond])
                  <=> \A i \in DOMAIN subs : \A cond \in subs[i].residual : o \in T[cond]
  BY <1>3
<1> HIDE DEF bitmap, residual, bitmaps
<1>6. Selected(_plan_and(subs), X, T) = {o \in X : \A i \in DOMAIN subs : In(o, i)}
  BY <1>1, <1>4, <1>5 DEF Selected
<1>7. {o \in X : \A i \in DOMAIN subs : In(o, i)} = {o \in X : \A i \in DOMAIN subs : o \in S[i]}
  BY <1>3
<1> QED
  BY <1>1, <1>4, <1>5, <1>6, <1>7 DEF Selects

(***************************************************************************)
(* OR: the union of the bitmaps only when every part is answered in full, so  *)
(* that no record is lost that a part leaves to evaluation.                   *)
(***************************************************************************)
THEOREM DisjunctionPlanExact ==
  ASSUME NEW X, NULL \notin SUBSET X, NEW T, NEW subs, NEW S, NEW cond \in DOMAIN T,
         \A i \in DOMAIN subs : Selects(subs[i], X, S[i], T),
         X \cap T[cond] = {o \in X : \E i \in DOMAIN subs : o \in S[i]}
  PROVE  Selects(_plan_or(cond, subs), X, {o \in X : \E i \in DOMAIN subs : o \in S[i]}, T)
<1>1. CASE \E i \in DOMAIN subs : subs[i].bitmap = NULL \/ subs[i].residual # {}
  <2>1. _plan_or(cond, subs) = Residual(cond)
    BY <1>1 DEF _plan_or
  <2>2. Residual(cond).bitmap = NULL /\ Residual(cond).residual = {cond}
    BY DEF Residual, Planned
  <2> QED
    BY <2>1, <2>2 DEF Selects, Selected
<1>2. CASE ~\E i \in DOMAIN subs : subs[i].bitmap = NULL \/ subs[i].residual # {}
  <2>1. _plan_or(cond, subs) = Answer(UNION {subs[i].bitmap : i \in DOMAIN subs})
    BY <1>2 DEF _plan_or
  <2>2. \A i \in DOMAIN subs : S[i] = subs[i].bitmap /\ subs[i].bitmap \subseteq X
    BY <1>2 DEF Selects, Selected
  <2>3. UNION {subs[i].bitmap : i \in DOMAIN subs} = {o \in X : \E i \in DOMAIN subs : o \in S[i]}
    BY <2>2
  <2>4. PICK U : U = UNION {subs[i].bitmap : i \in DOMAIN subs}
    OBVIOUS
  <2>5. Answer(U).bitmap = U /\ Answer(U).residual = {}
    BY DEF Answer, Planned
  <2>6. U \subseteq X /\ U # NULL
    BY <2>3, <2>4
  <2> QED
    BY <2>1, <2>3, <2>4, <2>5, <2>6 DEF Selects, Selected
<1> QED
  BY <1>1, <1>2

(* A field that is Unique and nothing else is not asked for None: the map has  *)
(* no entry for the records without a key, and the planner does not evaluate.  *)
Askable(cond) ==
    cond.f \in UniqueFields =>
        /\ cond.op = "==" => cond.v # NULL
        /\ cond.op = "in" => NULL \notin cond.v

LEMMA PredicateAnswered ==
  ASSUME NEW c, Agrees(c, Current, {}), CurrentMarkers(c), NEW cond, Askable(cond)
  PROVE  _plan_pred(cond, c) \in {Residual(cond), Answer({o \in Live : Matches(cond, Row(o))})}
<1> DEFINE f == cond.f
           S == {o \in Live : Matches(cond, Row(o))}
           Hit(v) == Holds(cond.op, cond.v, v, f \in StringFields)
<1>1. SUFFICES _plan_pred(cond, c) \in {Residual(cond), Answer(S)}
  OBVIOUS
<1>2. /\ f \in DOMAIN c.unique => f \notin DOMAIN c.eq
      /\ f \in DOMAIN c.run => f \notin ListFields
      /\ cond.op \in Orderings => cond.op \notin KeyOps
  BY FieldFacts DEF CurrentMarkers, sortedFields, Orderings, KeyOps
<1>3. f \notin ListFields => S = {o \in Live : Hit(Row(o)[f])}
  BY DEF Matches
<1>4. CASE f \in DOMAIN c.run /\ cond.op \in Orderings
  <2>1. _plan_pred(cond, c) = Answer(_range_slice(c, f, cond.op, cond.v))
    BY <1>2, <1>4 DEF _plan_pred
  <2>2. f \in sortedFields /\ f \in eqFields /\ f \notin ListFields
    BY <1>4, FieldFacts DEF CurrentMarkers, sortedFields
  <2>3. /\ \A k : At(c.eq[f], k) = {o \in Live : Row(o)[f] = k}
        /\ \A k \in DOMAIN c.eq[f] : c.eq[f][k] = At(c.eq[f], k)
        /\ c.run[f] = DOMAIN c.eq[f] \ {NULL}
    BY <2>2, PostingFacts
  <2>4. \A v : Hit(v) <=> v # NULL /\ cond.v # NULL /\ Compare(cond.op, v, cond.v)
    <3> SUFFICES ASSUME NEW v
                 PROVE  Holds(cond.op, cond.v, v, f \in StringFields)
                           <=> v # NULL /\ cond.v # NULL /\ Compare(cond.op, v, cond.v)
      OBVIOUS
    <3>1. cond.op \in {"<", "<=", ">", ">="}
      BY <1>4 DEF Orderings
    <3> QED
      BY <1>4, <3>1 DEF Holds
  <2>5. S = {o \in Live : Row(o)[f] # NULL /\ cond.v # NULL /\ Compare(cond.op, Row(o)[f], cond.v)}
    BY <1>3, <2>2, <2>4
  <2>6. CASE cond.v = NULL
    <3>1. S = {} /\ _range_slice(c, f, cond.op, cond.v) = {}
      BY <2>5, <2>6 DEF _range_slice
    <3> QED
      BY <2>1, <3>1
  <2>7. CASE cond.v # NULL
    <3> DEFINE hits == {key \in c.run[f] : Compare(cond.op, key, cond.v)}
    <3>1. _range_slice(c, f, cond.op, cond.v) = UNION {c.eq[f][k] : k \in hits}
      BY <2>7 DEF _range_slice
    <3>2. \A k \in hits : k # NULL /\ Compare(cond.op, k, cond.v)
                          /\ c.eq[f][k] = {o \in Live : Row(o)[f] = k}
      BY <2>3
    <3>3. ASSUME NEW o \in S
          PROVE  Row(o)[f] \in hits
      <4>1. o \in At(c.eq[f], Row(o)[f])
        BY <2>3
      <4>2. Row(o)[f] \in DOMAIN c.eq[f]
        BY <4>1, AtFacts
      <4> QED
        BY <2>3, <2>5, <4>2
    <3> HIDE DEF hits
    <3>4. UNION {c.eq[f][k] : k \in hits} \subseteq S
      BY <2>5, <2>7, <3>2
    <3>5. S \subseteq UNION {c.eq[f][k] : k \in hits}
      BY <3>2, <3>3, <2>5
    <3>6. _range_slice(c, f, cond.op, cond.v) = S
      BY <3>1, <3>4, <3>5
    <3> QED
      BY <2>1, <3>6
  <2> QED
    BY <2>6, <2>7
<1>5. CASE ~(f \in DOMAIN c.run /\ cond.op \in Orderings) /\ f \in DOMAIN c.eq \cap ListFields
  <2>1. _plan_pred(cond, c) = _plan_list_field(cond, c)
    BY <1>2, <1>5 DEF _plan_pred
  <2>2. CASE cond.op = "contains"
    <3>1. _plan_pred(cond, c) = Answer(At(c.eq[f], cond.v))
      BY <2>1, <2>2 DEF _plan_list_field
    <3>2. At(c.eq[f], cond.v) = {o \in Live : cond.v \in KeysOf(f, Row(o)[f])}
      <4>1. f \in eqFields
        BY <1>5 DEF CurrentMarkers
      <4>2. \A k : At(c.eq[f], k) = {o \in Live : k \in KeysOf(f, Row(o)[f])}
        BY <4>1, PostingFacts
      <4> QED
        BY <4>2
    <3>3. \A v : cond.v \in KeysOf(f, v) <=> v # NULL /\ cond.v \in v
      BY <1>5 DEF KeysOf
    <3>4. \A o : Matches(cond, Row(o)) <=> Row(o)[f] # NULL /\ cond.v \in Row(o)[f]
      BY <1>5, <2>2 DEF Matches, HoldsOfList
    <3>5. At(c.eq[f], cond.v) = S
      BY <3>2, <3>3, <3>4
    <3> QED
      BY <3>1, <3>5
  <2>3. CASE cond.op # "contains"
    BY <2>1, <2>3 DEF _plan_list_field
  <2> QED
    BY <2>2, <2>3
<1>6. CASE /\ ~(f \in DOMAIN c.run /\ cond.op \in Orderings)
           /\ f \in DOMAIN c.eq \ ListFields /\ cond.op \in KeyOps
  <2> DEFINE hits == HitKeys(cond, DOMAIN c.eq[f])
  <2>1. _plan_pred(cond, c) = Answer(UNION {c.eq[f][k] : k \in hits})
    BY <1>2, <1>6 DEF _plan_pred
  <2>2. /\ \A k : At(c.eq[f], k) = {o \in Live : Row(o)[f] = k}
        /\ \A k \in DOMAIN c.eq[f] : c.eq[f][k] = At(c.eq[f], k)
    BY <1>6, PostingFacts DEF CurrentMarkers
  <2>3. hits = {k \in DOMAIN c.eq[f] : Hit(k)}
    BY DEF HitKeys
  <2> HIDE DEF hits, Hit
  <2>4. \A k \in hits : Hit(k) /\ c.eq[f][k] = {o \in Live : Row(o)[f] = k}
    BY <2>2, <2>3
  <2>5. S = {o \in Live : Hit(Row(o)[f])}
    BY <1>3, <1>6
  <2>6. ASSUME NEW o \in S
        PROVE  Row(o)[f] \in hits
    <3>1. o \in At(c.eq[f], Row(o)[f])
      BY <2>2
    <3>2. Row(o)[f] \in DOMAIN c.eq[f]
      BY <3>1, AtFacts
    <3> QED
      BY <2>3, <2>5, <3>2
  <2>7. UNION {c.eq[f][k] : k \in hits} = S
    <3> HIDE DEF S
    <3>1. \A o : o \in S <=> o \in Live /\ Hit(Row(o)[f])
      BY <2>5
    <3>2. \A o \in S : o \in c.eq[f][Row(o)[f]]
      BY <2>4, <2>6, <3>1
    <3>3. \A k \in hits : c.eq[f][k] \subseteq S
      BY <2>4, <3>1
    <3> QED
      BY <2>6, <3>2, <3>3
  <2> QED
    BY <2>1, <2>7
<1>7. CASE /\ ~(f \in DOMAIN c.run /\ cond.op \in Orderings)
           /\ f \notin DOMAIN c.eq
           /\ f \in DOMAIN c.unique /\ cond.op \in KeyOps
  <2> DEFINE hits == HitKeys(cond, DOMAIN c.unique[f])
  <2>1. _plan_pred(cond, c) = Answer({c.unique[f][k] : k \in hits})
    BY <1>2, <1>7 DEF _plan_pred
  <2>2. f \in UniqueFields /\ f \notin ListFields
    BY <1>7, FieldFacts DEF CurrentMarkers
  <2>3. /\ \A v \in DOMAIN c.unique[f] : c.unique[f][v] \in Live /\ Row(c.unique[f][v])[f] = v
        /\ \A o \in Live : Row(o)[f] # NULL =>
              Row(o)[f] \in DOMAIN c.unique[f] /\ c.unique[f][Row(o)[f]] = o
    BY <1>7, CurrentFacts DEF Agrees, Mapped
  <2>4. ~Hit(NULL)
    <3>1. cond.op \in {"==", "in", "contains", "startswith"}
      BY <1>7 DEF KeyOps
    <3> QED
      BY <2>2, <3>1 DEF Holds, Askable
  <2>5. hits = {k \in DOMAIN c.unique[f] : Hit(k)}
    BY DEF HitKeys
  <2>6. S = {o \in Live : Hit(Row(o)[f])}
    BY <1>3, <2>2
  <2> HIDE DEF hits, Hit, S
  <2>7. \A k \in hits : c.unique[f][k] \in S
    BY <2>3, <2>5, <2>6
  <2>8. \A o \in S : Row(o)[f] \in hits /\ c.unique[f][Row(o)[f]] = o
    <3> SUFFICES ASSUME NEW o \in S PROVE Row(o)[f] \in hits /\ c.unique[f][Row(o)[f]] = o
      OBVIOUS
    <3>1. o \in Live /\ Hit(Row(o)[f]) /\ Row(o)[f] # NULL
      BY <2>4, <2>6
    <3> QED
      BY <2>3, <2>5, <3>1
  <2>9. {c.unique[f][k] : k \in hits} = S
    BY <2>7, <2>8
  <2> QED
    BY <2>1, <2>9
<1>8. CASE /\ ~(f \in DOMAIN c.run /\ cond.op \in Orderings)
           /\ f \notin DOMAIN c.eq \cap ListFields
           /\ ~(f \in DOMAIN c.eq \ ListFields /\ cond.op \in KeyOps)
           /\ ~(f \in DOMAIN c.unique /\ cond.op \in KeyOps)
  <2>1. _plan_pred(cond, c) = Residual(cond)
    BY <1>8 DEF _plan_pred
  <2> QED
    BY <2>1
<1> QED
  BY <1>2, <1>4, <1>5, <1>6, <1>7, <1>8

(***************************************************************************)
(* A single predicate is either left to be evaluated, or answered in full:    *)
(* the sorted run, the postings, the elements of a list or the unique map give *)
(* exactly the committed records that satisfy it, whenever no commit is under  *)
(* way.                                                                        *)
(***************************************************************************)
THEOREM PredicatePlanExact ==
  ASSUME Marked, "redefault" \notin Env, NoIndexIsNone, NEW cond, Askable(cond)
  PROVE  Spec => [](Idle /\ ci # NoIndex =>
            _plan_pred(cond, ci) \in
                {Residual(cond), Answer({o \in Live : Matches(cond, Row(o))})})
<1>1. Init => StoreInv /\ CaptureInv /\ ClassInv
  BY StoreInit, ClassInit
<1>2. StoreInv /\ CaptureInv /\ ClassInv /\ [Next]_vars => (StoreInv /\ CaptureInv /\ ClassInv)'
  BY StoreStep, ClassStep
<1>3. ClassInv => (Idle /\ ci # NoIndex =>
         _plan_pred(cond, ci) \in {Residual(cond), Answer({o \in Live : Matches(cond, Row(o))})})
  <2> SUFFICES ASSUME ClassInv, Idle, ci # NoIndex
               PROVE  _plan_pred(cond, ci) \in
                        {Residual(cond), Answer({o \in Live : Matches(cond, Row(o))})}
    OBVIOUS
  <2>1. Agrees(ci, Current, {}) /\ CurrentMarkers(ci)
    BY IndexInUse
  <2> QED
    BY <2>1, PredicateAnswered
<1> QED
  BY <1>1, <1>2, <1>3, PTL DEF Spec

-----------------------------------------------------------------------------
(***************************************************************************)
(* Conditions.  What is recursive on them has one solution: by the least      *)
(* nesting at which it would fail.                                            *)
(***************************************************************************)
Level(n) == {x \in Conditions : Nesting[x] < n}

LEMMA PartsInside ==
  ASSUME NEW x \in Conditions
  PROVE  /\ Nesting[x] \in Nat
         /\ x.k = "pred" \/ x.k = "and" \/ x.k = "or" \/ x.k = "not"
         /\ x.k = "and" \/ x.k = "or" =>
               \A i \in DOMAIN x.parts : x.parts[i] \in Level(Nesting[x])
         /\ x.k = "not" => x.part \in Level(Nesting[x])
BY ConditionTrees DEF Inside, Level

LEMMA LevelFacts ==
  ASSUME NEW n \in Nat, NEW x \in Level(n)
  PROVE  /\ x \in Conditions /\ Nesting[x] \in Nat /\ Nesting[x] < n
         /\ \A y \in Level(Nesting[x]) : y \in Level(n)
BY PartsInside DEF Level

Means(f, S, row) == f = [x \in S |-> Verdict(f, x, row)]

LEMMA MeaningSame ==
  ASSUME NEW f, NEW g, NEW x \in Conditions, NEW row,
         \A y \in Level(Nesting[x]) : f[y] = g[y]
  PROVE  Verdict(f, x, row) = Verdict(g, x, row)
<1>1. CASE x.k = "pred"
  BY <1>1 DEF Verdict
<1>2. CASE x.k = "and"
  <2>1. \A i \in DOMAIN x.parts : f[x.parts[i]] = g[x.parts[i]]
    BY <1>2, PartsInside
  <2>2. (\A i \in DOMAIN x.parts : f[x.parts[i]]) = (\A i \in DOMAIN x.parts : g[x.parts[i]])
    BY <2>1, Zenon
  <2> QED
    BY <1>2, <2>2, Zenon DEF Verdict
<1>3. CASE x.k = "or"
  <2>1. \A i \in DOMAIN x.parts : f[x.parts[i]] = g[x.parts[i]]
    BY <1>3, PartsInside
  <2>2. (\E i \in DOMAIN x.parts : f[x.parts[i]]) = (\E i \in DOMAIN x.parts : g[x.parts[i]])
    BY <2>1, Zenon
  <2> QED
    BY <1>3, <2>2, Zenon DEF Verdict
<1>4. CASE x.k = "not"
  <2>1. f[x.part] = g[x.part]
    BY <1>4, PartsInside
  <2> QED
    BY <1>4, <2>1, Zenon DEF Verdict
<1> QED
  BY <1>1, <1>2, <1>3, <1>4, PartsInside


(* Two solutions agree where both are defined. *)
LEMMA MeansAgree ==
  ASSUME NEW row, NEW m \in Nat, NEW n \in Nat, m <= n, NEW f, NEW g,
         Means(f, Level(m), row), Means(g, Level(n), row)
  PROVE  \A x \in Level(m) : f[x] = g[x]
<1> SUFFICES ASSUME ~\A x \in Level(m) : f[x] = g[x] PROVE FALSE
  OBVIOUS
<1> DEFINE U == {Nesting[x] : x \in {y \in Level(m) : f[y] # g[y]}}
<1>1. PICK l \in U : \A k \in U : l <= k
  <2>1. U \subseteq Nat /\ U # {}
    BY LevelFacts
  <2> HIDE DEF U
  <2> QED
    BY <2>1, LeastNumber
<1>2. PICK x \in Level(m) : f[x] # g[x] /\ l = Nesting[x]
  BY <1>1
<1>3. x \in Conditions /\ Nesting[x] \in Nat /\ x \in Level(n)
  <2>1. x \in Conditions /\ Nesting[x] < m
    BY <1>2 DEF Level
  <2>2. Nesting[x] \in Nat
    BY <2>1, PartsInside
  <2> QED
    BY <2>1, <2>2 DEF Level
<1>4. ASSUME NEW y \in Level(Nesting[x]) PROVE f[y] = g[y]
  <2>1. y \in Level(m) /\ Nesting[y] < Nesting[x] /\ Nesting[y] \in Nat
    BY <1>3, LevelFacts
  <2>2. Nesting[y] \notin U
    BY <1>1, <1>2, <1>3, <2>1
  <2> QED
    BY <2>1, <2>2
<1>5. Verdict(f, x, row) = Verdict(g, x, row)
  BY <1>3, <1>4, MeaningSame
<1>6. f[x] = Verdict(f, x, row) /\ g[x] = Verdict(g, x, row)
  BY <1>3, Zenon DEF Means
<1> QED
  BY <1>2, <1>5, <1>6

LEMMA MeansLevel ==
  ASSUME NEW row, NEW n \in Nat
  PROVE  \E f : Means(f, Level(n), row)
<1> SUFFICES ASSUME ~\E f : Means(f, Level(n), row) PROVE FALSE
  OBVIOUS
<1> DEFINE U == {m \in Nat : ~\E f : Means(f, Level(m), row)}
<1>1. PICK m \in U : \A k \in U : m <= k
  <2>1. U \subseteq Nat /\ U # {}
    OBVIOUS
  <2> HIDE DEF U
  <2> QED
    BY <2>1, LeastNumber
<1>2. m # 0
  <2>1. Level(0) = {}
    BY ConditionTrees DEF Level
  <2>2. Means([x \in {} |-> TRUE], {}, row)
    BY DEF Means
  <2> QED
    BY <2>1, <2>2
<1>3. m - 1 \in Nat /\ m - 1 \notin U
  BY <1>1, <1>2
<1>4. PICK f : Means(f, Level(m - 1), row)
  BY <1>3
<1> DEFINE g == [x \in Level(m) |-> Verdict(f, x, row)]
<1>5. ASSUME NEW x \in Level(m), NEW y \in Level(Nesting[x]) PROVE f[y] = g[y]
  <2>1. y \in Level(m) /\ y \in Level(m - 1)
    <3>1. Nesting[x] \in Nat /\ Nesting[x] < m /\ y \in Conditions /\ Nesting[y] \in Nat
          /\ Nesting[y] < Nesting[x] /\ m \in Nat
      BY LevelFacts
    <3> QED
      BY <3>1 DEF Level
  <2>2. f[y] = Verdict(f, y, row)
    BY <1>4, <2>1, Zenon DEF Means
  <2> QED
    BY <2>1, <2>2
<1>6. \A x \in Level(m) : Verdict(f, x, row) = Verdict(g, x, row)
  <2> HIDE DEF g
  <2> QED
    BY <1>5, MeaningSame, LevelFacts
<1>7. Means(g, Level(m), row)
  <2>1. \A x \in Level(m) : g[x] = Verdict(g, x, row)
    BY <1>6
  <2>2. g = [x \in Level(m) |-> g[x]]
    OBVIOUS
  <2> HIDE DEF g
  <2> QED
    BY <2>1, <2>2 DEF Means
<1> QED
  BY <1>7

LEMMA MeansExists ==
  ASSUME NEW row
  PROVE  \E f : Means(f, Conditions, row)
<1> DEFINE F(n) == CHOOSE f : Means(f, Level(n), row)
           g == [x \in Conditions |-> F(Nesting[x] + 1)[x]]
<1>1. \A n \in Nat : Means(F(n), Level(n), row)
  BY MeansLevel
<1> HIDE DEF F
<1>2. ASSUME NEW x \in Conditions, NEW n \in Nat, Nesting[x] < n
      PROVE  g[x] = F(n)[x]
  <2>1. Nesting[x] + 1 \in Nat /\ Nesting[x] + 1 <= n /\ x \in Level(Nesting[x] + 1)
    BY <1>2, PartsInside DEF Level
  <2>2. F(Nesting[x] + 1)[x] = F(n)[x]
    BY <1>1, <2>1, MeansAgree
  <2> QED
    BY <2>2
<1>3. ASSUME NEW x \in Conditions
      PROVE  g[x] = Verdict(g, x, row)
  <2>1. Nesting[x] + 1 \in Nat /\ Nesting[x] < Nesting[x] + 1 /\ x \in Level(Nesting[x] + 1)
    BY PartsInside DEF Level
  <2> DEFINE f == F(Nesting[x] + 1)
  <2>2. \A y \in Level(Nesting[x]) : f[y] = g[y]
    <3>1. \A y \in Level(Nesting[x]) : y \in Conditions /\ Nesting[y] < Nesting[x] + 1
      <4> SUFFICES ASSUME NEW y \in Level(Nesting[x])
                   PROVE  y \in Conditions /\ Nesting[y] < Nesting[x] + 1
        OBVIOUS
      <4>1. y \in Conditions /\ Nesting[y] < Nesting[x]
        BY DEF Level
      <4>2. Nesting[y] \in Nat /\ Nesting[x] \in Nat
        BY <4>1, PartsInside
      <4> QED
        BY <4>1, <4>2
    <3> HIDE DEF g
    <3> QED
      BY <1>2, <2>1, <3>1
  <2>3. f[x] = Verdict(f, x, row)
    <3>1. Means(f, Level(Nesting[x] + 1), row)
      BY <1>1, <2>1
    <3> HIDE DEF f
    <3> QED
      BY <2>1, <3>1, Zenon DEF Means
  <2>4. g[x] = f[x]
    OBVIOUS
  <2> HIDE DEF f, g
  <2>5. Verdict(f, x, row) = Verdict(g, x, row)
    BY <2>2, MeaningSame
  <2> QED
    BY <2>3, <2>4, <2>5
<1>4. g = [x \in Conditions |-> g[x]]
  OBVIOUS
<1> HIDE DEF g
<1>5. Means(g, Conditions, row)
  BY <1>3, <1>4 DEF Means
<1> QED
  BY <1>5

(* What a condition says, by its form. *)
LEMMA EvaluateFacts ==
  ASSUME NEW row, NEW cond \in Conditions
  PROVE  /\ cond.k = "pred" => (evaluate(cond, row) <=> Matches(cond, row))
         /\ cond.k = "and" =>
               (evaluate(cond, row) <=> \A i \in DOMAIN cond.parts : evaluate(cond.parts[i], row))
         /\ cond.k = "or" =>
               (evaluate(cond, row) <=> \E i \in DOMAIN cond.parts : evaluate(cond.parts[i], row))
<1> DEFINE t == CHOOSE f : f = [x \in Conditions |-> Verdict(f, x, row)]
<1>1. ASSUME NEW y PROVE evaluate(y, row) = t[y]
  BY Zenon DEF evaluate
<1>3. Means(t, Conditions, row)
  BY MeansExists, Zenon DEF Means
<1> HIDE DEF t
<1>4. t[cond] = Verdict(t, cond, row)
  BY <1>3, Zenon DEF Means
<1> QED
  BY <1>1, <1>4, PartsInside DEF Verdict

Plans(f, S, c) == f = [x \in S |-> PlanOf(f, x, c)]

LEMMA PlanSame ==
  ASSUME NEW f, NEW g, NEW x \in Conditions, NEW c,
         \A y \in Level(Nesting[x]) : f[y] = g[y]
  PROVE  PlanOf(f, x, c) = PlanOf(g, x, c)
<1>1. CASE x.k = "pred"
  BY <1>1 DEF PlanOf
<1>2. CASE x.k = "and"
  <2>1. \A i \in DOMAIN x.parts : f[x.parts[i]] = g[x.parts[i]]
    BY <1>2, PartsInside
  <2>2. [i \in DOMAIN x.parts |-> f[x.parts[i]]] = [i \in DOMAIN x.parts |-> g[x.parts[i]]]
    BY <2>1, Zenon
  <2> QED
    BY <1>2, <2>2, Zenon DEF PlanOf
<1>3. CASE x.k = "or"
  <2>1. \A i \in DOMAIN x.parts : f[x.parts[i]] = g[x.parts[i]]
    BY <1>3, PartsInside
  <2>2. [i \in DOMAIN x.parts |-> f[x.parts[i]]] = [i \in DOMAIN x.parts |-> g[x.parts[i]]]
    BY <2>1, Zenon
  <2> QED
    BY <1>3, <2>2, Zenon DEF PlanOf
<1>4. CASE x.k = "not"
  <2> QED
    BY <1>4 DEF PlanOf
<1> QED
  BY <1>1, <1>2, <1>3, <1>4, PartsInside

(* Two solutions agree where both are defined. *)
LEMMA PlansAgree ==
  ASSUME NEW c, NEW m \in Nat, NEW n \in Nat, m <= n, NEW f, NEW g,
         Plans(f, Level(m), c), Plans(g, Level(n), c)
  PROVE  \A x \in Level(m) : f[x] = g[x]
<1> SUFFICES ASSUME ~\A x \in Level(m) : f[x] = g[x] PROVE FALSE
  OBVIOUS
<1> DEFINE U == {Nesting[x] : x \in {y \in Level(m) : f[y] # g[y]}}
<1>1. PICK l \in U : \A k \in U : l <= k
  <2>1. U \subseteq Nat /\ U # {}
    BY LevelFacts
  <2> HIDE DEF U
  <2> QED
    BY <2>1, LeastNumber
<1>2. PICK x \in Level(m) : f[x] # g[x] /\ l = Nesting[x]
  BY <1>1
<1>3. x \in Conditions /\ Nesting[x] \in Nat /\ x \in Level(n)
  <2>1. x \in Conditions /\ Nesting[x] < m
    BY <1>2 DEF Level
  <2>2. Nesting[x] \in Nat
    BY <2>1, PartsInside
  <2> QED
    BY <2>1, <2>2 DEF Level
<1>4. ASSUME NEW y \in Level(Nesting[x]) PROVE f[y] = g[y]
  <2>1. y \in Level(m) /\ Nesting[y] < Nesting[x] /\ Nesting[y] \in Nat
    BY <1>3, LevelFacts
  <2>2. Nesting[y] \notin U
    BY <1>1, <1>2, <1>3, <2>1
  <2> QED
    BY <2>1, <2>2
<1>5. PlanOf(f, x, c) = PlanOf(g, x, c)
  BY <1>3, <1>4, PlanSame
<1>6. f[x] = PlanOf(f, x, c) /\ g[x] = PlanOf(g, x, c)
  BY <1>3, Zenon DEF Plans
<1> QED
  BY <1>2, <1>5, <1>6

LEMMA PlansLevel ==
  ASSUME NEW c, NEW n \in Nat
  PROVE  \E f : Plans(f, Level(n), c)
<1> SUFFICES ASSUME ~\E f : Plans(f, Level(n), c) PROVE FALSE
  OBVIOUS
<1> DEFINE U == {m \in Nat : ~\E f : Plans(f, Level(m), c)}
<1>1. PICK m \in U : \A k \in U : m <= k
  <2>1. U \subseteq Nat /\ U # {}
    OBVIOUS
  <2> HIDE DEF U
  <2> QED
    BY <2>1, LeastNumber
<1>2. m # 0
  <2>1. Level(0) = {}
    BY ConditionTrees DEF Level
  <2>2. Plans([x \in {} |-> TRUE], {}, c)
    BY DEF Plans
  <2> QED
    BY <2>1, <2>2
<1>3. m - 1 \in Nat /\ m - 1 \notin U
  BY <1>1, <1>2
<1>4. PICK f : Plans(f, Level(m - 1), c)
  BY <1>3
<1> DEFINE g == [x \in Level(m) |-> PlanOf(f, x, c)]
<1>5. ASSUME NEW x \in Level(m), NEW y \in Level(Nesting[x]) PROVE f[y] = g[y]
  <2>1. y \in Level(m) /\ y \in Level(m - 1)
    <3>1. Nesting[x] \in Nat /\ Nesting[x] < m /\ y \in Conditions /\ Nesting[y] \in Nat
          /\ Nesting[y] < Nesting[x] /\ m \in Nat
      BY LevelFacts
    <3> QED
      BY <3>1 DEF Level
  <2>2. f[y] = PlanOf(f, y, c)
    BY <1>4, <2>1, Zenon DEF Plans
  <2> QED
    BY <2>1, <2>2
<1>6. \A x \in Level(m) : PlanOf(f, x, c) = PlanOf(g, x, c)
  <2> HIDE DEF g
  <2> QED
    BY <1>5, PlanSame, LevelFacts
<1>7. Plans(g, Level(m), c)
  <2>1. \A x \in Level(m) : g[x] = PlanOf(g, x, c)
    BY <1>6
  <2>2. g = [x \in Level(m) |-> g[x]]
    OBVIOUS
  <2> HIDE DEF g
  <2> QED
    BY <2>1, <2>2 DEF Plans
<1> QED
  BY <1>7

LEMMA PlansExist ==
  ASSUME NEW c
  PROVE  \E f : Plans(f, Conditions, c)
<1> DEFINE F(n) == CHOOSE f : Plans(f, Level(n), c)
           g == [x \in Conditions |-> F(Nesting[x] + 1)[x]]
<1>1. \A n \in Nat : Plans(F(n), Level(n), c)
  BY PlansLevel
<1> HIDE DEF F
<1>2. ASSUME NEW x \in Conditions, NEW n \in Nat, Nesting[x] < n
      PROVE  g[x] = F(n)[x]
  <2>1. Nesting[x] + 1 \in Nat /\ Nesting[x] + 1 <= n /\ x \in Level(Nesting[x] + 1)
    BY <1>2, PartsInside DEF Level
  <2>2. F(Nesting[x] + 1)[x] = F(n)[x]
    BY <1>1, <2>1, PlansAgree
  <2> QED
    BY <2>2
<1>3. ASSUME NEW x \in Conditions
      PROVE  g[x] = PlanOf(g, x, c)
  <2>1. Nesting[x] + 1 \in Nat /\ Nesting[x] < Nesting[x] + 1 /\ x \in Level(Nesting[x] + 1)
    BY PartsInside DEF Level
  <2> DEFINE f == F(Nesting[x] + 1)
  <2>2. \A y \in Level(Nesting[x]) : f[y] = g[y]
    <3>1. \A y \in Level(Nesting[x]) : y \in Conditions /\ Nesting[y] < Nesting[x] + 1
      <4> SUFFICES ASSUME NEW y \in Level(Nesting[x])
                   PROVE  y \in Conditions /\ Nesting[y] < Nesting[x] + 1
        OBVIOUS
      <4>1. y \in Conditions /\ Nesting[y] < Nesting[x]
        BY DEF Level
      <4>2. Nesting[y] \in Nat /\ Nesting[x] \in Nat
        BY <4>1, PartsInside
      <4> QED
        BY <4>1, <4>2
    <3> HIDE DEF g
    <3> QED
      BY <1>2, <2>1, <3>1
  <2>3. f[x] = PlanOf(f, x, c)
    <3>1. Plans(f, Level(Nesting[x] + 1), c)
      BY <1>1, <2>1
    <3> HIDE DEF f
    <3> QED
      BY <2>1, <3>1, Zenon DEF Plans
  <2>4. g[x] = f[x]
    OBVIOUS
  <2> HIDE DEF f, g
  <2>5. PlanOf(f, x, c) = PlanOf(g, x, c)
    BY <2>2, PlanSame
  <2> QED
    BY <2>3, <2>4, <2>5
<1>4. g = [x \in Conditions |-> g[x]]
  OBVIOUS
<1> HIDE DEF g
<1>5. Plans(g, Conditions, c)
  BY <1>3, <1>4 DEF Plans
<1> QED
  BY <1>5

(* The plan of a condition, by its form. *)
LEMMA PlanForms ==
  ASSUME NEW c, NEW cond \in Conditions
  PROVE  /\ cond.k = "pred" => plan(cond, c) = _plan_pred(cond, c)
         /\ cond.k = "and" =>
               plan(cond, c) = _plan_and([i \in DOMAIN cond.parts |-> plan(cond.parts[i], c)])
         /\ cond.k = "or" =>
               plan(cond, c) = _plan_or(cond, [i \in DOMAIN cond.parts |-> plan(cond.parts[i], c)])
         /\ cond.k = "not" => plan(cond, c) = Residual(cond)
<1> DEFINE t == CHOOSE f : f = [x \in Conditions |-> PlanOf(f, x, c)]
<1>1. ASSUME NEW y PROVE plan(y, c) = t[y]
  BY Zenon DEF plan
<1>2. Plans(t, Conditions, c)
  BY PlansExist, Zenon DEF Plans
<1> HIDE DEF t
<1>3. plan(cond, c) = PlanOf(t, cond, c)
  BY <1>1, <1>2, Zenon DEF Plans
<1>4. [i \in DOMAIN cond.parts |-> plan(cond.parts[i], c)] = [i \in DOMAIN cond.parts |-> t[cond.parts[i]]]
  BY <1>1
<1> QED
  BY <1>3, <1>4, PartsInside DEF PlanOf

-----------------------------------------------------------------------------
(* The plan of a condition. *)

(* The committed records that satisfy each condition. *)
Truth == [x \in Conditions |-> {o \in Live : evaluate(x, Row(o))}]

AskableParts == \A x \in Conditions : x.k = "pred" => Askable(x)

(* One level of the plan: if it selects for the parts, it does for the whole. *)
LEMMA PlanStep ==
  ASSUME NEW c, Agrees(c, Current, {}), CurrentMarkers(c), NULL \notin SUBSET Live,
         AskableParts, NEW x \in Conditions,
         \A y \in Level(Nesting[x]) : Selects(plan(y, c), Live, Truth[y], Truth)
  PROVE  Selects(plan(x, c), Live, Truth[x], Truth)
<1>0. /\ DOMAIN Truth = Conditions
      /\ \A y \in Conditions : Truth[y] = {o \in Live : evaluate(y, Row(o))}
      /\ \A y \in Conditions : Truth[y] \subseteq Live
  BY DEF Truth
<1>1. CASE x.k = "pred"
  <2>1. plan(x, c) \in {Residual(x), Answer({o \in Live : Matches(x, Row(o))})}
    BY <1>1, PlanForms, PredicateAnswered DEF AskableParts
  <2>2. {o \in Live : Matches(x, Row(o))} = Truth[x]
    BY <1>0, <1>1, EvaluateFacts
  <2>3. PICK S : S = Truth[x]
    OBVIOUS
  <2>4. /\ Residual(x).bitmap = NULL /\ Residual(x).residual = {x}
        /\ Answer(S).bitmap = S /\ Answer(S).residual = {}
    BY DEF Residual, Answer, Planned
  <2>5. S \subseteq Live /\ S # NULL
    BY <1>0, <2>3
  <2> QED
    <3>1. CASE plan(x, c) = Residual(x)
      BY <1>0, <2>4, <3>1 DEF Selects, Selected
    <3>2. CASE plan(x, c) = Answer(S)
      BY <1>0, <2>3, <2>4, <2>5, <3>2 DEF Selects, Selected
    <3> QED
      BY <2>1, <2>2, <2>3, <3>1, <3>2
<1>2. CASE x.k = "and"
  <2> DEFINE subs == [i \in DOMAIN x.parts |-> plan(x.parts[i], c)]
             S == [i \in DOMAIN x.parts |-> Truth[x.parts[i]]]
  <2>1. DOMAIN subs = DOMAIN x.parts
        /\ \A i \in DOMAIN subs : Selects(subs[i], Live, S[i], Truth)
    BY <1>2, PartsInside
  <2>2. plan(x, c) = _plan_and(subs)
    BY <1>2, PlanForms
  <2>3. Truth[x] = {o \in Live : \A i \in DOMAIN subs : o \in S[i]}
    <3>1. \A i \in DOMAIN x.parts : x.parts[i] \in Conditions
      BY <1>2, PartsInside DEF Level
    <3>2. \A o \in Live : (\A i \in DOMAIN x.parts : o \in S[i])
                             <=> (\A i \in DOMAIN x.parts : evaluate(x.parts[i], Row(o)))
      BY <1>0, <3>1
    <3> QED
      BY <1>0, <1>2, <2>1, <3>2, EvaluateFacts
  <2> HIDE DEF subs, S
  <2> QED
    BY <2>1, <2>2, <2>3, ConjunctionPlanExact
<1>3. CASE x.k = "or"
  <2> DEFINE subs == [i \in DOMAIN x.parts |-> plan(x.parts[i], c)]
             S == [i \in DOMAIN x.parts |-> Truth[x.parts[i]]]
  <2>1. DOMAIN subs = DOMAIN x.parts
        /\ \A i \in DOMAIN subs : Selects(subs[i], Live, S[i], Truth)
    BY <1>3, PartsInside
  <2>2. plan(x, c) = _plan_or(x, subs)
    BY <1>3, PlanForms
  <2>3. Truth[x] = {o \in Live : \E i \in DOMAIN subs : o \in S[i]}
    <3>1. \A i \in DOMAIN x.parts : x.parts[i] \in Conditions
      BY <1>3, PartsInside DEF Level
    <3>2. \A o \in Live : (\E i \in DOMAIN x.parts : o \in S[i])
                             <=> (\E i \in DOMAIN x.parts : evaluate(x.parts[i], Row(o)))
      BY <1>0, <3>1
    <3> QED
      BY <1>0, <1>3, <2>1, <3>2, EvaluateFacts
  <2> HIDE DEF subs, S
  <2>4. Live \cap Truth[x] = {o \in Live : \E i \in DOMAIN subs : o \in S[i]}
    BY <1>0, <2>3
  <2> QED
    BY <1>0, <2>1, <2>2, <2>3, <2>4, DisjunctionPlanExact, SMTT(30)
<1>4. CASE x.k = "not"
  <2>1. plan(x, c) = Residual(x)
    BY <1>4, PlanForms
  <2>2. Residual(x).bitmap = NULL /\ Residual(x).residual = {x}
    BY DEF Residual, Planned
  <2> QED
    BY <1>0, <2>1, <2>2 DEF Selects, Selected
<1> QED
  BY <1>1, <1>2, <1>3, <1>4, PartsInside

LEMMA PlanSelects ==
  ASSUME NEW c, Agrees(c, Current, {}), CurrentMarkers(c), NULL \notin SUBSET Live, AskableParts
  PROVE  \A x \in Conditions : Selects(plan(x, c), Live, Truth[x], Truth)
<1> SUFFICES ASSUME NEW z \in Conditions, ~Selects(plan(z, c), Live, Truth[z], Truth)
             PROVE  FALSE
  OBVIOUS
<1> DEFINE U == {Nesting[x] : x \in {y \in Conditions : ~Selects(plan(y, c), Live, Truth[y], Truth)}}
<1>1. PICK l \in U : \A k \in U : l <= k
  <2>1. U \subseteq Nat /\ U # {}
    BY PartsInside
  <2> HIDE DEF U
  <2> QED
    BY <2>1, LeastNumber
<1>2. PICK x \in Conditions : ~Selects(plan(x, c), Live, Truth[x], Truth) /\ l = Nesting[x]
  BY <1>1
<1>3. ASSUME NEW y \in Level(Nesting[x]) PROVE Selects(plan(y, c), Live, Truth[y], Truth)
  <2>1. y \in Conditions /\ Nesting[y] < Nesting[x] /\ Nesting[y] \in Nat /\ Nesting[x] \in Nat
    BY <1>2, PartsInside DEF Level
  <2>2. Nesting[y] \notin U
    BY <1>1, <1>2, <2>1
  <2> QED
    BY <2>1, <2>2
<1> QED
  BY <1>2, <1>3, PlanStep

-----------------------------------------------------------------------------
(***************************************************************************)
(* Lists of a set, in the order of a relation B: a set of pairs.              *)
(***************************************************************************)
OneWay(B, S) == \A a, b \in S : <<a, b>> \in B => <<b, a>> \notin B
Orders(B, S) ==
    /\ OneWay(B, S)
    /\ \A a, b \in S : a # b => <<a, b>> \in B \/ <<b, a>> \in B
    /\ \A a, b, c \in S : <<a, b>> \in B /\ <<b, c>> \in B => <<a, c>> \in B

InOrder(s, n, B) == \A i, j \in 1..n : i < j => <<s[i], s[j]>> \in B

(* s lists the n members of S. *)
Lists(s, n, S, B) ==
    /\ n \in Nat /\ s \in [1..n -> S]
    /\ InOrder(s, n, B)
    /\ \A x \in S : \E i \in 1..n : s[i] = x

LEMMA InOrderInjective ==
  ASSUME NEW B, NEW S, OneWay(B, S), NEW n \in Nat, NEW s \in [1..n -> S], InOrder(s, n, B)
  PROVE  s \in Injection(1..n, S)
<1>1. ASSUME NEW i \in 1..n, NEW j \in 1..n, i # j PROVE s[i] # s[j]
  <2>1. s[i] \in S /\ s[j] \in S
    OBVIOUS
  <2>2. i < j \/ j < i
    BY <1>1
  <2> QED
    BY <2>1, <2>2 DEF InOrder, OneWay
<1> QED
  BY <1>1, Fun_IsInj

LEMMA ListsCardinality ==
  ASSUME NEW B, NEW S, OneWay(B, S), NEW n, NEW s, Lists(s, n, S, B)
  PROVE  IsFiniteSet(S) /\ Cardinality(S) = n
<1>1. n \in Nat /\ s \in Injection(1..n, S)
  BY InOrderInjective DEF Lists
<1>2. s \in Bijection(1..n, S)
  BY <1>1, Fun_IsBij DEF Lists
<1>3. IsFiniteSet(1..n) /\ Cardinality(1..n) = n
  BY <1>1, FS_Interval
<1>4. ExistsBijection(1..n, S)
  BY <1>2 DEF ExistsBijection
<1> QED
  BY <1>3, <1>4, FS_Bijection

(* There is one such list ... *)
LEMMA ListsUnique ==
  ASSUME NEW B, NEW S, OneWay(B, S), NEW m, NEW n, NEW s, NEW t,
         Lists(s, m, S, B), Lists(t, n, S, B)
  PROVE  m = n /\ s = t
<1>1. m = n /\ n \in Nat
  <2>1. Cardinality(S) = m /\ Cardinality(S) = n
    BY ListsCardinality
  <2> QED
    BY <2>1 DEF Lists
<1> DEFINE D == {i \in 1..n : s[i] # t[i]}
<1>2. SUFFICES ASSUME D # {} PROVE FALSE
  <2>1. s \in [1..n -> S] /\ t \in [1..n -> S]
    BY <1>1 DEF Lists
  <2>2. D = {} => \A i \in 1..n : s[i] = t[i]
    OBVIOUS
  <2> HIDE DEF D
  <2> QED
    BY <1>1, <2>1, <2>2
<1>3. PICK i \in D : \A j \in D : i <= j
  <2>1. D \subseteq Nat
    OBVIOUS
  <2> HIDE DEF D
  <2> QED
    BY <1>2, <2>1, LeastNumber
<1>4. i \in 1..n /\ s[i] # t[i] /\ s[i] \in S /\ t[i] \in S
  BY <1>1 DEF Lists
<1>5. \A j \in 1..n : j < i => s[j] = t[j]
  BY <1>3
<1>6. ASSUME NEW u, NEW v, Lists(u, n, S, B), Lists(v, n, S, B), u[i] # v[i],
             \A j \in 1..n : j < i => u[j] = v[j]
      PROVE  <<v[i], u[i]>> \in B
  <2>1. u[i] \in S
    BY <1>4, <1>6 DEF Lists
  <2>2. PICK j \in 1..n : v[j] = u[i]
    BY <1>6, <2>1 DEF Lists
  <2>3. CASE j < i
    <3>1. <<u[j], u[i]>> \in B
      BY <1>4, <1>6, <2>3 DEF Lists, InOrder
    <3>2. u[j] = u[i]
      BY <1>6, <2>2, <2>3
    <3> QED
      BY <2>1, <3>1, <3>2 DEF OneWay
  <2>4. CASE i < j
    BY <1>4, <1>6, <2>2, <2>4 DEF Lists, InOrder
  <2> QED
    BY <1>4, <1>6, <2>2, <2>3, <2>4
<1>7. <<t[i], s[i]>> \in B /\ <<s[i], t[i]>> \in B
  BY <1>1, <1>4, <1>5, <1>6
<1> QED
  BY <1>4, <1>7 DEF OneWay

(* One more at the end. *)
LEMMA ListsAppend ==
  ASSUME NEW B, NEW S, NEW n, NEW s, Lists(s, n, S, B), NEW e, e \notin S,
         \A x \in S : <<x, e>> \in B
  PROVE  \E t : Lists(t, n + 1, S \cup {e}, B)
<1> DEFINE t == [i \in 1..(n + 1) |-> IF i = n + 1 THEN e ELSE s[i]]
<1>1. n \in Nat /\ s \in [1..n -> S] /\ InOrder(s, n, B)
      /\ \A x \in S : \E i \in 1..n : s[i] = x
  BY DEF Lists
<1>2. \A i \in 1..n : t[i] = s[i] /\ s[i] \in S
  BY <1>1
<1>3. t[n + 1] = e /\ n + 1 \in Nat /\ n + 1 \in 1..(n + 1)
  BY <1>1
<1>4. t \in [1..(n + 1) -> S \cup {e}]
  BY <1>1
<1> HIDE DEF t
<1>5. InOrder(t, n + 1, B)
  <2>1. SUFFICES ASSUME NEW i \in 1..(n + 1), NEW j \in 1..(n + 1), i < j
                 PROVE  <<t[i], t[j]>> \in B
    BY DEF InOrder
  <2>2. i \in 1..n /\ (j = n + 1 \/ j \in 1..n)
    BY <1>1, <2>1
  <2>3. CASE j = n + 1
    BY <1>2, <1>3, <2>2, <2>3
  <2>4. CASE j \in 1..n
    BY <1>1, <1>2, <2>1, <2>2, <2>4 DEF InOrder
  <2> QED
    BY <2>2, <2>3, <2>4
<1>6. \A x \in S \cup {e} : \E i \in 1..(n + 1) : t[i] = x
  <2> SUFFICES ASSUME NEW x \in S PROVE \E i \in 1..(n + 1) : t[i] = x
    BY <1>3
  <2>1. PICK i \in 1..n : s[i] = x
    BY <1>1
  <2>2. i \in 1..(n + 1)
    BY <1>1
  <2> QED
    BY <1>2, <2>1, <2>2
<1>7. Lists(t, n + 1, S \cup {e}, B)
  BY <1>3, <1>4, <1>5, <1>6 DEF Lists
<1> QED
  BY <1>7

LEMMA OrdersSubset ==
  ASSUME NEW B, NEW S, Orders(B, S), NEW T, T \subseteq S
  PROVE  Orders(B, T)
  BY DEF Orders, OneWay

(* ... and there is one for every finite set that B orders.                   *)
LEMMA ListsExist ==
  ASSUME NEW B, NEW S, IsFiniteSet(S), Orders(B, S)
  PROVE  \E s : Lists(s, Cardinality(S), S, B)
<1> DEFINE Fails(T) == \A s : ~Lists(s, Cardinality(T), T, B)
           U == {Cardinality(T) : T \in {X \in SUBSET S : Fails(X)}}
<1>1. SUFFICES ASSUME Fails(S) PROVE FALSE
  OBVIOUS
<1>2. \A T \in SUBSET S : IsFiniteSet(T) /\ Cardinality(T) \in Nat
  BY FS_Subset, FS_CardinalityType
<1>3. PICK m \in U : \A x \in U : m <= x
  <2>1. U \subseteq Nat /\ U # {}
    BY <1>1, <1>2
  <2> HIDE DEF U
  <2> QED
    BY <2>1, LeastNumber
<1>4. PICK T \in SUBSET S : Fails(T) /\ m = Cardinality(T)
  BY <1>3
<1>5. ASSUME NEW X \in SUBSET S, Cardinality(X) < m
      PROVE  \E s : Lists(s, Cardinality(X), X, B)
  <2>1. Cardinality(X) \notin U
    BY <1>2, <1>3, <1>4, <1>5
  <2> QED
    BY <2>1
<1> HIDE DEF U
<1>6. T # {}
  <2>1. Lists(<<>>, 0, {}, B)
    BY DEF Lists, InOrder
  <2> QED
    BY <1>4, <2>1, FS_EmptySet
(* An element that comes after all the others ends a list of T. *)
<1>7. ASSUME NEW e \in T, \A x \in T \ {e} : <<x, e>> \in B
      PROVE  FALSE
  <2>1. Cardinality(T \ {e}) = m - 1 /\ m \in Nat /\ T \ {e} \in SUBSET S
    BY <1>2, <1>4, <1>7, FS_RemoveElement
  <2>2. PICK s : Lists(s, m - 1, T \ {e}, B)
    BY <1>5, <2>1
  <2>3. PICK t : Lists(t, (m - 1) + 1, (T \ {e}) \cup {e}, B)
    BY <1>7, <2>2, ListsAppend
  <2>4. (m - 1) + 1 = m /\ (T \ {e}) \cup {e} = T
    BY <1>7, <2>1
  <2> QED
    BY <1>4, <2>3, <2>4
<1>8. PICK e : e \in T
  BY <1>6
<1>9. Cardinality(T \ {e}) = m - 1 /\ m \in Nat /\ T \ {e} \in SUBSET S
  BY <1>2, <1>4, <1>8, FS_RemoveElement
<1>10. PICK s : Lists(s, m - 1, T \ {e}, B)
  BY <1>5, <1>9
<1>11. m - 1 # 0
  <2>1. SUFFICES ASSUME m - 1 = 0 PROVE FALSE
    OBVIOUS
  <2>2. T \ {e} = {}
    BY <1>10, <2>1 DEF Lists
  <2> QED
    BY <1>7, <1>8, <2>2
<1> DEFINE l == s[m - 1]
<1>12. l \in T \ {e} /\ \A x \in T \ {e} : x # l => <<x, l>> \in B
  <2>1. m - 1 \in 1..(m - 1)
    BY <1>9, <1>10, <1>11 DEF Lists
  <2>2. l \in T \ {e}
    BY <1>10, <2>1 DEF Lists
  <2>3. ASSUME NEW x \in T \ {e}, x # l PROVE <<x, l>> \in B
    <3>1. PICK i \in 1..(m - 1) : s[i] = x
      BY <1>10 DEF Lists
    <3>2. i < m - 1
      BY <1>9, <2>3, <3>1
    <3> QED
      BY <1>10, <2>1, <3>1, <3>2 DEF Lists, InOrder
  <2> QED
    BY <2>2, <2>3
<1> HIDE DEF l
<1>13. Orders(B, T)
  BY OrdersSubset
<1>14. CASE <<l, e>> \in B
  <2>1. \A x \in T \ {e} : <<x, e>> \in B
    BY <1>8, <1>12, <1>13, <1>14 DEF Orders
  <2> QED
    BY <1>7, <1>8, <2>1
<1>15. CASE <<e, l>> \in B
  <2>1. \A x \in T \ {l} : <<x, l>> \in B
    BY <1>12, <1>15
  <2> QED
    BY <1>7, <1>12, <2>1
<1> QED
  BY <1>8, <1>12, <1>13, <1>14, <1>15 DEF Orders

(* What is in order and as long as the set lists it. *)
LEMMA InOrderLists ==
  ASSUME NEW B, NEW S, IsFiniteSet(S), OneWay(B, S), NEW s \in [1..Cardinality(S) -> S],
         InOrder(s, Cardinality(S), B)
  PROVE  Lists(s, Cardinality(S), S, B)
<1>1. Cardinality(S) \in Nat
  BY FS_CardinalityType
<1>2. s \in Injection(1..Cardinality(S), S)
  BY <1>1, InOrderInjective
<1>3. s \in Surjection(1..Cardinality(S), S)
  <2>1. Cardinality(1..Cardinality(S)) = Cardinality(S)
    BY <1>1, FS_Interval
  <2> QED
    BY <1>2, <2>1, FS_Injection
<1>4. \A x \in S : \E i \in 1..Cardinality(S) : s[i] = x
  BY <1>3 DEF Surjection
<1> QED
  BY <1>1, <1>4 DEF Lists

(* One list after another. *)
LEMMA ListsConcat ==
  ASSUME NEW B, NEW S, NEW T, NEW m, NEW n, NEW s, NEW t,
         Lists(s, m, S, B), Lists(t, n, T, B), \A x \in S, y \in T : <<x, y>> \in B
  PROVE  Lists(s \o t, m + n, S \cup T, B)
<1> DEFINE u == s \o t
<1>1. /\ m \in Nat /\ s \in [1..m -> S] /\ InOrder(s, m, B)
      /\ n \in Nat /\ t \in [1..n -> T] /\ InOrder(t, n, B)
      /\ Len(s) = m /\ Len(t) = n /\ s \in Seq(S \cup T) /\ t \in Seq(S \cup T)
  <2>1. m \in Nat /\ s \in [1..m -> S] /\ n \in Nat /\ t \in [1..n -> T]
    BY DEF Lists
  <2>2. s \in Seq(S) /\ t \in Seq(T)
    BY <2>1
  <2>3. s \in Seq(S \cup T) /\ t \in Seq(S \cup T)
    BY <2>2
  <2>4. Len(s) = m /\ Len(t) = n
    BY <2>1
  <2> QED
    BY <2>1, <2>3, <2>4 DEF Lists
<1>2. /\ u \in Seq(S \cup T) /\ Len(u) = m + n
      /\ \A i \in 1..(m + n) : u[i] = IF i <= m THEN s[i] ELSE t[i - m]
  BY <1>1, ConcatProperties
<1> HIDE DEF u
<1>3. u \in [1..(m + n) -> S \cup T]
  BY <1>2, LenProperties
<1>4. \A i \in 1..m : u[i] = s[i] /\ s[i] \in S /\ i \in 1..(m + n)
  <2> SUFFICES ASSUME NEW i \in 1..m PROVE u[i] = s[i] /\ s[i] \in S /\ i \in 1..(m + n)
    OBVIOUS
  <2>1. i \in 1..(m + n) /\ i <= m
    BY <1>1
  <2> QED
    BY <1>1, <1>2, <2>1
<1>5. \A i \in 1..n : u[m + i] = t[i] /\ t[i] \in T /\ m + i \in 1..(m + n)
  <2> SUFFICES ASSUME NEW i \in 1..n PROVE u[m + i] = t[i] /\ t[i] \in T /\ m + i \in 1..(m + n)
    OBVIOUS
  <2>1. m + i \in 1..(m + n) /\ ~(m + i <= m) /\ (m + i) - m = i
    BY <1>1
  <2> QED
    BY <1>1, <1>2, <2>1
<1>6. InOrder(u, m + n, B)
  <2>1. SUFFICES ASSUME NEW i \in 1..(m + n), NEW j \in 1..(m + n), i < j
                 PROVE  <<u[i], u[j]>> \in B
    BY DEF InOrder
  <2>2. CASE j <= m
    <3>1. i \in 1..m /\ j \in 1..m
      BY <1>1, <2>1, <2>2
    <3> QED
      BY <1>1, <1>4, <2>1, <3>1 DEF InOrder
  <2>3. CASE i <= m /\ ~(j <= m)
    <3>1. i \in 1..m /\ j - m \in 1..n /\ m + (j - m) = j
      BY <1>1, <2>1, <2>3
    <3>2. u[j] \in T
      BY <1>5, <3>1
    <3>3. u[i] \in S
      BY <1>4, <3>1
    <3> QED
      BY <3>2, <3>3
  <2>4. CASE ~(i <= m)
    <3>1. i - m \in 1..n /\ j - m \in 1..n /\ m + (j - m) = j /\ m + (i - m) = i /\ i - m < j - m
      BY <1>1, <2>1, <2>4
    <3>2. u[i] = t[i - m] /\ u[j] = t[j - m]
      BY <1>5, <3>1
    <3> QED
      BY <1>1, <3>1, <3>2 DEF InOrder
  <2> QED
    BY <1>1, <2>2, <2>3, <2>4
<1>7. \A x \in S \cup T : \E i \in 1..(m + n) : u[i] = x
  <2>1. ASSUME NEW x \in S PROVE \E i \in 1..(m + n) : u[i] = x
    <3>1. PICK i \in 1..m : s[i] = x
      BY DEF Lists
    <3> QED
      BY <1>4, <3>1
  <2>2. ASSUME NEW x \in T PROVE \E i \in 1..(m + n) : u[i] = x
    <3>1. PICK i \in 1..n : t[i] = x
      BY DEF Lists
    <3> QED
      BY <1>5, <3>1
  <2> QED
    BY <2>1, <2>2
<1>8. m + n \in Nat
  BY <1>1
<1> QED
  BY <1>3, <1>4, <1>6, <1>7, <1>8 DEF Lists, u

LEMMA ConcatBegins ==
  ASSUME NEW S, NEW T, NEW m \in Nat, NEW n \in Nat, NEW s \in [1..m -> S], NEW t \in [1..n -> T]
  PROVE  \A i \in 1..m : (s \o t)[i] = s[i]
<1>1. s \in Seq(S) /\ t \in Seq(T) /\ Len(s) = m /\ Len(t) = n
  OBVIOUS
<1>2. s \in Seq(S \cup T) /\ t \in Seq(S \cup T)
  BY <1>1
<1>3. \A i \in 1..(m + n) : (s \o t)[i] = IF i <= m THEN s[i] ELSE t[i - m]
  BY <1>1, <1>2, ConcatProperties
<1> QED
  BY <1>3

(* A list read backwards. *)
LEMMA ListsReverse ==
  ASSUME NEW B, NEW C, NEW S, NEW n, NEW s, Lists(s, n, S, B),
         \A x, y \in S : <<x, y>> \in B => <<y, x>> \in C
  PROVE  Lists(Reverse(s), n, S, C)
<1> DEFINE r == Reverse(s)
<1>1. n \in Nat /\ s \in [1..n -> S] /\ InOrder(s, n, B)
      /\ \A x \in S : \E i \in 1..n : s[i] = x
  BY DEF Lists
<1>2. Len(s) = n
  BY <1>1
<1>3. r = [i \in 1..n |-> s[(n - i) + 1]]
  BY <1>2 DEF Reverse
<1>4. \A i \in 1..n : (n - i) + 1 \in 1..n /\ (n - ((n - i) + 1)) + 1 = i
  BY <1>1
<1>5. \A i \in 1..n : r[i] = s[(n - i) + 1] /\ r[i] \in S
  BY <1>1, <1>3, <1>4
<1>6. r \in [1..n -> S]
  BY <1>3, <1>5
<1> HIDE DEF r
<1>7. InOrder(r, n, C)
  <2>1. SUFFICES ASSUME NEW i \in 1..n, NEW j \in 1..n, i < j
                 PROVE  <<r[i], r[j]>> \in C
    BY DEF InOrder
  <2>2. (n - j) + 1 < (n - i) + 1
    BY <1>1, <2>1
  <2>3. <<r[j], r[i]>> \in B
    BY <1>1, <1>4, <1>5, <2>2 DEF InOrder
  <2> QED
    BY <1>5, <2>3
<1>8. \A x \in S : \E i \in 1..n : r[i] = x
  <2> SUFFICES ASSUME NEW x \in S PROVE \E i \in 1..n : r[i] = x
    OBVIOUS
  <2>1. PICK i \in 1..n : s[i] = x
    BY <1>1
  <2>2. r[(n - i) + 1] = x
    BY <1>4, <1>5, <2>1
  <2> QED
    BY <1>4, <2>2
<1> QED
  BY <1>1, <1>6, <1>7, <1>8 DEF Lists, r

-----------------------------------------------------------------------------
(* Ascending, order_by_values and what stops at the window. *)

Upward == {ss \in Int \X Int : ss[1] < ss[2]}
Downward == {ss \in Int \X Int : ss[2] < ss[1]}
Earlier(S, value, descending) ==
    {ss \in S \X S : Before(value, descending, ss[1], ss[2])}

(* The values that can be ordered, and of which objects. *)
Orderable(S, value) == S \subseteq Int /\ \A o \in S : value[o] = NULL \/ value[o] \in Int

LEMMA UpwardOrders == ASSUME NEW S, S \subseteq Int PROVE Orders(Upward, S)
<1>1. \A a, b \in S : <<a, b>> \in Upward <=> a < b
  BY DEF Upward
<1>2. \A a, b \in S : ~(a < b /\ b < a) /\ (a # b => a < b \/ b < a)
  <2> SUFFICES ASSUME NEW a \in S, NEW b \in S
               PROVE  ~(a < b /\ b < a) /\ (a # b => a < b \/ b < a)
    OBVIOUS
  <2>1. a \in Int /\ b \in Int
    OBVIOUS
  <2> QED
    BY <2>1
<1>3. \A a, b, d \in S : a < b /\ b < d => a < d
  <2> SUFFICES ASSUME NEW a \in S, NEW b \in S, NEW d \in S, a < b, b < d
               PROVE  a < d
    OBVIOUS
  <2>1. a \in Int /\ b \in Int /\ d \in Int
    OBVIOUS
  <2> QED
    BY <2>1
<1> QED
  BY <1>1, <1>2, <1>3, Zenon DEF Orders, OneWay

LEMMA EarlierOrders ==
  ASSUME NEW S, NEW value, NEW descending, Orderable(S, value)
  PROVE  Orders(Earlier(S, value, descending), S)
<1> DEFINE E == Earlier(S, value, descending)
           Bef(a, b) == Before(value, descending, a, b)
<1>1. \A a, b \in S : <<a, b>> \in E <=> Bef(a, b)
  BY DEF Earlier
<1>2. ASSUME NEW a \in S, NEW b \in S
      PROVE  ~(Bef(a, b) /\ Bef(b, a)) /\ (a # b => Bef(a, b) \/ Bef(b, a))
  <2>1. a \in Int /\ b \in Int /\ value[a] \in Int \cup {NULL} /\ value[b] \in Int \cup {NULL}
    BY DEF Orderable
  <2> QED
    BY <2>1 DEF Before
<1>3. ASSUME NEW a \in S, NEW b \in S, NEW d \in S, Bef(a, b), Bef(b, d)
      PROVE  Bef(a, d)
  <2>1. /\ a \in Int /\ b \in Int /\ d \in Int /\ value[a] \in Int \cup {NULL}
        /\ value[b] \in Int \cup {NULL} /\ value[d] \in Int \cup {NULL}
    BY DEF Orderable
  <2> QED
    BY <1>3, <2>1 DEF Before
<1> HIDE DEF E, Bef
<1>4. Orders(E, S)
  BY <1>1, <1>2, <1>3, Zenon DEF Orders, OneWay
<1> QED
  BY <1>4 DEF E

LEMMA AscendingLists ==
  ASSUME NEW S, IsFiniteSet(S), S \subseteq Int
  PROVE  Lists(Ascending(S), Cardinality(S), S, Upward)
<1>1. Orders(Upward, S)
  BY UpwardOrders
<1>2. PICK t : Lists(t, Cardinality(S), S, Upward)
  BY <1>1, ListsExist
<1>3. \A x, y : <<x, y>> \in Upward => x < y
  BY DEF Upward
<1>4. \E s \in [1..Cardinality(S) -> S] : \A i, j \in DOMAIN s : i < j => s[i] < s[j]
  <2>1. t \in [1..Cardinality(S) -> S] /\ DOMAIN t = 1..Cardinality(S)
    BY <1>2 DEF Lists
  <2>2. \A i, j \in 1..Cardinality(S) : i < j => t[i] < t[j]
    BY <1>2, <1>3 DEF Lists, InOrder
  <2> QED
    BY <2>1, <2>2
<1> DEFINE a == Ascending(S)
<1>5. /\ a \in [1..Cardinality(S) -> S]
      /\ \A i, j \in DOMAIN a : i < j => a[i] < a[j]
  BY <1>4 DEF Ascending
<1> HIDE DEF a
<1>6. InOrder(a, Cardinality(S), Upward)
  <2> SUFFICES ASSUME NEW i \in 1..Cardinality(S), NEW j \in 1..Cardinality(S), i < j
               PROVE  <<a[i], a[j]>> \in Upward
    BY DEF InOrder
  <2>1. a[i] \in Int /\ a[j] \in Int /\ a[i] < a[j]
    BY <1>5
  <2> QED
    BY <2>1 DEF Upward
<1>7. Lists(a, Cardinality(S), S, Upward)
  BY <1>1, <1>5, <1>6, InOrderLists DEF Orders
<1> QED
  BY <1>7 DEF a

LEMMA OrderedLists ==
  ASSUME NEW S, IsFiniteSet(S), NEW value, NEW descending, Orderable(S, value)
  PROVE  Lists(order_by_values(S, value, descending), Cardinality(S), S,
               Earlier(S, value, descending))
<1> DEFINE E == Earlier(S, value, descending)
<1>1. Orders(E, S)
  BY EarlierOrders
<1>2. \A x, y : <<x, y>> \in E <=> x \in S /\ y \in S /\ Before(value, descending, x, y)
  BY DEF Earlier
<1> HIDE DEF E
<1>3. PICK t : Lists(t, Cardinality(S), S, E)
  BY <1>1, ListsExist
<1>4. \E s \in [1..Cardinality(S) -> S] :
         \A i, j \in DOMAIN s : i < j => Before(value, descending, s[i], s[j])
  <2>1. t \in [1..Cardinality(S) -> S] /\ DOMAIN t = 1..Cardinality(S)
    BY <1>3 DEF Lists
  <2>2. \A i, j \in 1..Cardinality(S) : i < j => Before(value, descending, t[i], t[j])
    BY <1>2, <1>3 DEF Lists, InOrder
  <2> QED
    BY <2>1, <2>2
<1> DEFINE a == order_by_values(S, value, descending)
<1>5. /\ a \in [1..Cardinality(S) -> S]
      /\ \A i, j \in DOMAIN a : i < j => Before(value, descending, a[i], a[j])
  BY <1>4, Zenon DEF order_by_values
<1> HIDE DEF a
<1>6. InOrder(a, Cardinality(S), E)
  <2> SUFFICES ASSUME NEW i \in 1..Cardinality(S), NEW j \in 1..Cardinality(S), i < j
               PROVE  <<a[i], a[j]>> \in E
    BY DEF InOrder
  <2>1. a[i] \in S /\ a[j] \in S /\ Before(value, descending, a[i], a[j])
    BY <1>5
  <2> QED
    BY <1>2, <2>1
<1>7. Lists(a, Cardinality(S), S, E)
  BY <1>1, <1>5, <1>6, InOrderLists DEF Orders
<1> QED
  BY <1>7 DEF a, E

(* A list in order of the first of a set begins the list of the whole set. *)
LEMMA ListsPrefix ==
  ASSUME NEW B, NEW S, NEW T, NEW m, NEW n, NEW s, NEW t, Lists(s, m, S, B), Lists(t, n, T, B),
         S \subseteq T, Orders(B, T), \A x \in S, y \in T \ S : <<x, y>> \in B
  PROVE  m <= n /\ \A i \in 1..m : s[i] = t[i]
<1>1. IsFiniteSet(T \ S) /\ Orders(B, T \ S)
  <2>1. IsFiniteSet(T)
    BY ListsCardinality DEF Orders
  <2> QED
    BY <2>1, FS_Difference, OrdersSubset
<1>2. PICK r : Lists(r, Cardinality(T \ S), T \ S, B)
  BY <1>1, ListsExist
<1>3. PICK k, Q : k = Cardinality(T \ S) /\ Q = T \ S
  OBVIOUS
<1>4. Lists(r, k, Q, B) /\ S \cup Q = T /\ k \in Nat /\ m \in Nat
  BY <1>2, <1>3 DEF Lists
<1>5. Lists(s, m, S, B) /\ Lists(r, k, Q, B) /\ \A x \in S, y \in Q : <<x, y>> \in B
  BY <1>3, <1>4
<1>6. Lists(s \o r, m + k, S \cup Q, B)
  BY <1>5, ListsConcat
<1>7. \A i \in 1..m : (s \o r)[i] = s[i]
  BY <1>5, ConcatBegins DEF Lists
<1>8. PICK u, l : u = s \o r /\ l = m + k
  OBVIOUS
<1>9. Lists(u, l, T, B) /\ OneWay(B, T)
  BY <1>4, <1>6, <1>8 DEF Orders
<1>10. l = n /\ u = t
  BY <1>9, ListsUnique
<1> QED
  BY <1>4, <1>7, <1>8, <1>10

(* What UntilFilled has after each list. *)
Fills(g, lists, limit, offset, n) ==
    g = [i \in 0..n |-> IF i = 0 THEN <<>>
                        ELSE IF Filled(g[i - 1], limit, offset) THEN g[i - 1]
                        ELSE g[i - 1] \o lists[i]]

LEMMA FillsExist ==
  ASSUME NEW lists, NEW limit, NEW offset, NEW n \in Nat
  PROVE  \E g : Fills(g, lists, limit, offset, n)
<1> DEFINE U == {m \in Nat : ~\E g : Fills(g, lists, limit, offset, m)}
<1>1. SUFFICES ASSUME U # {} PROVE FALSE
  OBVIOUS
<1>2. PICK m \in U : \A k \in U : m <= k
  <2>1. U \subseteq Nat
    OBVIOUS
  <2> HIDE DEF U
  <2> QED
    BY <1>1, <2>1, LeastNumber
<1>3. CASE m = 0
  <2> DEFINE h == [i \in 0..0 |-> <<>>]
  <2>1. Fills(h, lists, limit, offset, 0)
    BY DEF Fills
  <2> QED
    BY <1>3, <2>1
<1>4. CASE m # 0
  <2>1. m - 1 \in Nat /\ m \in Nat /\ m - 1 \notin U
    BY <1>2, <1>4
  <2>2. PICK g : Fills(g, lists, limit, offset, m - 1)
    BY <2>1
  <2> DEFINE last == IF Filled(g[m - 1], limit, offset) THEN g[m - 1] ELSE g[m - 1] \o lists[m]
             h == [i \in 0..m |-> IF i = m THEN last ELSE g[i]]
  <2>3. \A i \in 0..(m - 1) : h[i] = g[i]
    BY <2>1
  <2>4. h[m] = last
    BY <2>1
  <2>5. \A i \in 0..(m - 1) : g[i] = IF i = 0 THEN <<>>
                        ELSE IF Filled(g[i - 1], limit, offset) THEN g[i - 1]
                        ELSE g[i - 1] \o lists[i]
    BY <2>2, Zenon DEF Fills
  <2>6. h = [i \in 0..m |-> h[i]]
    OBVIOUS
  <2> HIDE DEF h
  <2>7. ASSUME NEW i \in 0..m
        PROVE  h[i] = IF i = 0 THEN <<>>
                      ELSE IF Filled(h[i - 1], limit, offset) THEN h[i - 1]
                      ELSE h[i - 1] \o lists[i]
    <3>1. CASE i = m
      <4>1. m - 1 \in 0..(m - 1)
        BY <2>1
      <4> QED
        BY <1>4, <2>3, <2>4, <3>1, <4>1
    <3>2. CASE i # m
      <4>1. i \in 0..(m - 1) /\ (i # 0 => i - 1 \in 0..(m - 1))
        BY <2>1, <3>2
      <4> QED
        BY <2>3, <2>5, <4>1
    <3> QED
      BY <3>1, <3>2
  <2>8. Fills(h, lists, limit, offset, m)
    BY <2>6, <2>7 DEF Fills
  <2> QED
    BY <2>8
<1> QED
  BY <1>3, <1>4

LEMMA UntilFilledFills ==
  ASSUME NEW lists, NEW limit, NEW offset, Len(lists) \in Nat
  PROVE  \E g : /\ Fills(g, lists, limit, offset, Len(lists))
                /\ UntilFilled(lists, limit, offset) = g[Len(lists)]
<1> DEFINE g == CHOOSE g : g = [i \in 0..Len(lists) |->
                    IF i = 0 THEN <<>>
                    ELSE IF Filled(g[i - 1], limit, offset) THEN g[i - 1]
                    ELSE g[i - 1] \o lists[i]]
<1>1. UntilFilled(lists, limit, offset) = g[Len(lists)]
  BY Zenon DEF UntilFilled
<1>2. \E h : h = [i \in 0..Len(lists) |->
                    IF i = 0 THEN <<>>
                    ELSE IF Filled(h[i - 1], limit, offset) THEN h[i - 1]
                    ELSE h[i - 1] \o lists[i]]
  <2>1. \E h : Fills(h, lists, limit, offset, Len(lists))
    BY FillsExist
  <2> QED
    BY <2>1 DEF Fills
<1>3. Fills(g, lists, limit, offset, Len(lists))
  BY <1>2 DEF Fills
<1> QED
  BY <1>1, <1>3

(* The members of the first n of the sets that are listed. *)
FirstOf(sets, n) == UNION {sets[i] : i \in 1..n}

(* Lists of sets whose members come one set after the other.                   *)
InTurn(lists, sets, N, B) ==
    /\ \A i \in 1..N : Lists(lists[i], Cardinality(sets[i]), sets[i], B)
    /\ \A i, j \in 1..N : i < j => \A x \in sets[i], y \in sets[j] : <<x, y>> \in B

(* A list of them all, or of the first of them and these fill the window.      *)
Windowed(u, sets, N, B, limit, offset) ==
    \E n \in 0..N : \E m :
        /\ Lists(u, m, FirstOf(sets, n), B)
        /\ n = N \/ Filled(u, limit, offset)

(* The lists of sets that come one after the other, until the window is full:  *)
(* a list of them all, or a list of the first of them that fills the window.   *)
LEMMA UntilFilledLists ==
  ASSUME NEW B, NEW lists, NEW sets, NEW N \in Nat, Len(lists) = N, NEW limit, NEW offset,
         InTurn(lists, sets, N, B)
  PROVE  Windowed(UntilFilled(lists, limit, offset), sets, N, B, limit, offset)
<1>1. PICK g : /\ Fills(g, lists, limit, offset, N)
               /\ UntilFilled(lists, limit, offset) = g[N]
  BY UntilFilledFills
<1> DEFINE Good(k) == Windowed(g[k], sets, k, B, limit, offset)
           U == {k \in 0..N : ~Good(k)}
<1>2. \A i \in 0..N : g[i] = IF i = 0 THEN <<>>
                        ELSE IF Filled(g[i - 1], limit, offset) THEN g[i - 1]
                        ELSE g[i - 1] \o lists[i]
  BY <1>1, Zenon DEF Fills
<1>3. SUFFICES ASSUME U # {} PROVE FALSE
  <2>1. N \in 0..N
    OBVIOUS
  <2>2. SUFFICES Good(N)
    BY <1>1
  <2> HIDE DEF Good
  <2> QED
    BY <2>1
<1>4. PICK k \in U : \A x \in U : k <= x
  <2>1. U \subseteq Nat
    OBVIOUS
  <2> HIDE DEF U
  <2> QED
    BY <1>3, <2>1, LeastNumber
<1>5. k \in 0..N /\ ~Good(k)
  OBVIOUS
<1>6. CASE k = 0
  <2>1. g[0] = <<>>
    BY <1>2
  <2>2. FirstOf(sets, 0) = {}
    BY DEF FirstOf
  <2>3. Lists(<<>>, 0, {}, B)
    BY DEF Lists, InOrder
  <2>4. 0 \in 0..k
    BY <1>6
  <2> QED
    BY <1>5, <1>6, <2>1, <2>2, <2>3, <2>4 DEF Windowed
<1>7. CASE k # 0
  <2>1. k - 1 \in 0..N /\ k \in 1..N /\ k - 1 \notin U
    BY <1>4, <1>5, <1>7
  <2>2. PICK n \in 0..(k - 1) : \E m :
            /\ Lists(g[k - 1], m, FirstOf(sets, n), B)
            /\ n = k - 1 \/ Filled(g[k - 1], limit, offset)
    BY <2>1 DEF Windowed
  <2>3. PICK m : /\ Lists(g[k - 1], m, FirstOf(sets, n), B)
                 /\ n = k - 1 \/ Filled(g[k - 1], limit, offset)
    BY <2>2
  <2>4. CASE Filled(g[k - 1], limit, offset)
    <3>1. g[k] = g[k - 1]
      BY <1>2, <1>5, <1>7, <2>4
    <3>2. n \in 0..k
      BY <2>1
    <3>3. Lists(g[k], m, FirstOf(sets, n), B) /\ Filled(g[k], limit, offset)
      BY <2>3, <2>4, <3>1
    <3> HIDE DEF U
    <3> QED
      BY <1>5, <3>2, <3>3, Zenon DEF Windowed
  <2>5. CASE ~Filled(g[k - 1], limit, offset)
    <3>1. g[k] = g[k - 1] \o lists[k] /\ n = k - 1
      BY <1>2, <1>5, <1>7, <2>3, <2>5
    <3>2. FirstOf(sets, k - 1) \cup sets[k] = FirstOf(sets, k)
      <4>1. 1..k = (1..(k - 1)) \cup {k}
        BY <2>1
      <4> QED
        BY <4>1 DEF FirstOf
    <3>3. \A x \in FirstOf(sets, k - 1), y \in sets[k] : <<x, y>> \in B
      <4> SUFFICES ASSUME NEW i \in 1..(k - 1), NEW x \in sets[i], NEW y \in sets[k]
                   PROVE  <<x, y>> \in B
        BY DEF FirstOf
      <4>1. i \in 1..N /\ i < k
        BY <2>1
      <4> QED
        BY <2>1, <4>1 DEF InTurn
    <3>4. Lists(lists[k], Cardinality(sets[k]), sets[k], B)
      BY <2>1 DEF InTurn
    <3>5. PICK d, s, t, S, T : /\ d = Cardinality(sets[k]) /\ s = g[k - 1] /\ t = lists[k]
                               /\ S = FirstOf(sets, k - 1) /\ T = sets[k]
      OBVIOUS
    <3> HIDE DEF Good, U
    <3>6. Lists(s \o t, m + d, S \cup T, B)
      <4>1. Lists(s, m, S, B)
        BY <2>3, <3>1, <3>5
      <4>2. Lists(t, d, T, B)
        BY <3>4, <3>5
      <4>3. \A x \in S, y \in T : <<x, y>> \in B
        BY <3>3, <3>5
      <4> QED
        BY <4>1, <4>2, <4>3, ListsConcat
    <3>7. g[k] = s \o t /\ FirstOf(sets, k) = S \cup T
      BY <3>1, <3>2, <3>5
    <3>8. Lists(g[k], m + d, FirstOf(sets, k), B)
      BY <3>6, <3>7, Zenon
    <3>9. k \in 0..k
      BY <2>1
    <3> QED
      BY <1>5, <3>8, <3>9, Zenon DEF Good, Windowed
  <2> QED
    BY <2>4, <2>5
<1> QED
  BY <1>6, <1>7

-----------------------------------------------------------------------------
(***************************************************************************)
(* The keys an index has for a field that is no list: finitely many, and all   *)
(* of them values of the field, also those no record has any more.             *)
(***************************************************************************)
KeysOk(m, f) == IsFiniteSet(DOMAIN m) /\ DOMAIN m \subseteq Values(f)
Keyed(c) ==
    /\ "eq" \in DOMAIN c
    /\ \A f \in DOMAIN c.eq \ ListFields : KeysOk(c.eq[f], f)

KeyInv ==
    /\ ci # NoIndex => Keyed(ci)
    /\ blob # NoIndex => Keyed(blob)
    /\ sidecar # NoIndex /\ sidecar.class # NoIndex => Keyed(sidecar.class)

LEMMA KeyedSame ==
  ASSUME NEW c, Keyed(c), NEW d, "eq" \in DOMAIN d, DOMAIN d.eq = DOMAIN c.eq,
         \A f \in DOMAIN c.eq : DOMAIN d.eq[f] = DOMAIN c.eq[f]
  PROVE  Keyed(d)
  BY DEF Keyed, KeysOk

LEMMA WithLastKeyed == ASSUME NEW c, Keyed(c) PROVE Keyed(WithLastValues(c))
<1>1. WithLastValues(c).eq = c.eq /\ "eq" \in DOMAIN WithLastValues(c)
  BY DEF WithLastValues, Keyed
<1> QED
  BY <1>1, KeyedSame

LEMMA UnindexKeyed == ASSUME NEW c, Keyed(c), NEW O PROVE Keyed(_unindex(c, O))
<1> DEFINE eq == [f \in DOMAIN c.eq |-> [k \in DOMAIN c.eq[f] |->
                     c.eq[f][k] \ {o \in O : Knows(c, o, f, k)}]]
<1>1. _unindex(c, O).eq = eq /\ "eq" \in DOMAIN _unindex(c, O)
  BY DEF _unindex, Keyed
<1>2. DOMAIN eq = DOMAIN c.eq /\ \A f \in DOMAIN c.eq : DOMAIN eq[f] = DOMAIN c.eq[f]
  OBVIOUS
<1> HIDE DEF eq
<1> QED
  BY <1>1, <1>2, KeyedSame

LEMMA InsertKeyed == ASSUME NEW c, Keyed(c), NEW o, NEW row \in Rows PROVE Keyed(Insert(c, o, row))
<1>1. PICK d : d = _unindex(WithLastValues(c), {o})
  OBVIOUS
<1>2. Keyed(d)
  BY <1>1, WithLastKeyed, UnindexKeyed
<1> DEFINE eq == [f \in DOMAIN d.eq |-> [k \in DOMAIN d.eq[f] \cup KeysOf(f, row[f]) |->
                      At(d.eq[f], k) \cup (IF k \in KeysOf(f, row[f]) THEN {o} ELSE {})]]
<1>3. Insert(c, o, row).eq = eq /\ "eq" \in DOMAIN Insert(c, o, row)
  BY <1>1, <1>2 DEF Insert, Keyed
<1>4. DOMAIN eq = DOMAIN d.eq
      /\ \A f \in DOMAIN d.eq : DOMAIN eq[f] = DOMAIN d.eq[f] \cup KeysOf(f, row[f])
  OBVIOUS
<1> HIDE DEF eq
<1>5. ASSUME NEW f \in DOMAIN d.eq \ ListFields PROVE KeysOk(eq[f], f)
  <2>1. IsFiniteSet(DOMAIN d.eq[f]) /\ DOMAIN d.eq[f] \subseteq Values(f)
    BY <1>2 DEF Keyed, KeysOk
  <2>2. DOMAIN eq[f] = DOMAIN d.eq[f] \cup {row[f]}
    BY <1>4 DEF KeysOf
  <2>3. row[f] \in Values(f)
    BY DEF Values
  <2>4. IsFiniteSet(DOMAIN d.eq[f] \cup {row[f]})
    BY <2>1, FS_AddElement
  <2> QED
    BY <2>1, <2>2, <2>3, <2>4 DEF KeysOk
<1> QED
  BY <1>3, <1>4, <1>5 DEF Keyed

LEMMA RemoveKeyed == ASSUME NEW c, Keyed(c), NEW O PROVE Keyed(RemoveOids(c, O))
<1>1. PICK d : d = _unindex(WithLastValues(c), O)
  OBVIOUS
<1>2. Keyed(d)
  BY <1>1, WithLastKeyed, UnindexKeyed
<1>3. RemoveOids(c, O) = IF O = {} THEN c ELSE [d EXCEPT !.extent = @ \ O]
  BY <1>1, Zenon DEF RemoveOids
<1>4. Keyed([d EXCEPT !.extent = @ \ O])
  <2>1. [d EXCEPT !.extent = @ \ O].eq = d.eq /\ "eq" \in DOMAIN [d EXCEPT !.extent = @ \ O]
    BY <1>2 DEF Keyed
  <2> QED
    BY <1>2, <2>1, KeyedSame
<1> QED
  BY <1>3, <1>4

LEMMA FoldedKeyed ==
  ASSUME NEW c, Keyed(c), NEW es \in Batches, NEW D PROVE Keyed(Folded(c, es, D))
<1>1. Len(es) \in Nat /\ \A i \in 1..Len(es) : es[i][2] \in Rows
  BY BatchFacts, EntryOf
<1>2. PICK g : Inserts(g, c, es, Len(es)) /\ Folded(c, es, D) = RemoveOids(g[Len(es)], D)
  BY <1>1, FoldedInserts
<1>3. \A i \in 0..Len(es) : g[i] = IF i = 0 THEN c ELSE Insert(g[i - 1], es[i][1], es[i][2])
  BY <1>2, Zenon DEF Inserts
<1> DEFINE U == {i \in 0..Len(es) : ~Keyed(g[i])}
<1>4. U = {}
  <2> SUFFICES ASSUME U # {} PROVE FALSE
    OBVIOUS
  <2>1. PICK k \in U : \A x \in U : k <= x
    <3>1. U \subseteq Nat
      OBVIOUS
    <3> HIDE DEF U
    <3> QED
      BY <3>1, LeastNumber
  <2>2. k # 0
    BY <1>3
  <2>3. k - 1 \in 0..Len(es) /\ k \in 1..Len(es) /\ k - 1 \notin U
    BY <1>1, <2>1, <2>2
  <2>4. Keyed(g[k - 1]) /\ g[k] = Insert(g[k - 1], es[k][1], es[k][2])
    BY <1>3, <2>2, <2>3
  <2>5. Keyed(g[k])
    BY <1>1, <2>3, <2>4, InsertKeyed
  <2> QED
    BY <2>5
<1>5. Keyed(g[Len(es)])
  <2>1. Len(es) \in 0..Len(es)
    BY <1>1
  <2> QED
    BY <1>4, <2>1
<1> QED
  BY <1>2, <1>5, RemoveKeyed

(* A finite image. *)
LEMMA FiniteRange ==
  ASSUME NEW S, IsFiniteSet(S), NEW g, DOMAIN g = S
  PROVE  IsFiniteSet({g[x] : x \in S})
<1> DEFINE h == [x \in S |-> g[x]]
<1>1. h \in Surjection(S, {g[x] : x \in S})
  BY DEF Surjection
<1> QED
  BY <1>1, FS_Surjection

LEMMA LiveFinite == Live \in SUBSET Int /\ IsFiniteSet(Live)
<1>1. MaxOid \in Nat
  BY IndexConstants
<1>2. IsFiniteSet(1..MaxOid)
  BY <1>1, FS_Interval
<1>3. Live \subseteq 1..MaxOid
  BY DEF Live, Oids
<1>4. IsFiniteSet(Live)
  BY <1>2, <1>3, FS_Subset
<1>5. Live \subseteq Int
  BY <1>1, <1>3
<1> QED
  BY <1>4, <1>5

LEMMA RowValues ==
  ASSUME StoreInv, NEW o \in Live, NEW f
  PROVE  Row(o)[f] \in Values(f)
<1>1. recs[o] \in [old : BOOLEAN, row : Rows] /\ code.default \in Defaults
  BY DEF StoreInv, Live
<1>2. PICK r : r = recs[o].row
  OBVIOUS
<1>3. r \in Rows /\ Added \in DOMAIN r
  BY <1>1, <1>2, IndexConstants, IndexRows
<1>4. r[f] \in Values(f)
  BY <1>3 DEF Values
<1>5. CASE recs[o].old
  <2>1. Row(o) = [r EXCEPT ![Added] = code.default]
    BY <1>2, <1>5 DEF Row
  <2>2. CASE f = Added
    <3>1. Row(o)[f] = code.default
      BY <1>3, <2>1, <2>2
    <3> QED
      BY <1>1, <2>2, <3>1 DEF Values
  <2>3. CASE f # Added
    <3>1. Row(o)[f] = r[f]
      BY <2>1, <2>3
    <3> QED
      BY <1>4, <3>1
  <2> QED
    BY <2>2, <2>3
<1>6. CASE ~recs[o].old
  BY <1>2, <1>4, <1>6 DEF Row
<1> QED
  BY <1>5, <1>6

LEMMA BuiltKeyed == ASSUME StoreInv PROVE Keyed(build_class_indexes)
<1> DEFINE b == build_class_indexes
           keys(f) == UNION {KeysOf(f, Row(o)[f]) : o \in Live}
           eq == [f \in eqFields |-> [k \in keys(f) |-> {o \in Live : k \in KeysOf(f, Row(o)[f])}]]
<1>1. b.eq = eq /\ "eq" \in DOMAIN b
  BY DEF build_class_indexes
<1>2. DOMAIN eq = eqFields /\ \A f \in eqFields : DOMAIN eq[f] = keys(f)
  OBVIOUS
<1> HIDE DEF eq, b
<1>3. ASSUME NEW f \in eqFields \ ListFields PROVE KeysOk(eq[f], f)
  <2>1. keys(f) = {Row(o)[f] : o \in Live}
    BY <1>3 DEF KeysOf
  <2> DEFINE g == [o \in Live |-> Row(o)[f]]
  <2>2. IsFiniteSet({g[o] : o \in Live})
    BY LiveFinite, FiniteRange
  <2>3. {g[o] : o \in Live} = {Row(o)[f] : o \in Live}
    OBVIOUS
  <2>4. keys(f) \subseteq Values(f)
    BY <2>1, RowValues
  <2> HIDE DEF g, keys
  <2> QED
    BY <1>2, <2>1, <2>2, <2>3, <2>4 DEF KeysOk
<1> HIDE DEF keys
<1>4. Keyed(b)
  BY <1>1, <1>2, <1>3 DEF Keyed
<1> QED
  BY <1>4 DEF b

LEMMA LoadedKeyed == ASSUME NEW b, Keyed(b) PROVE Keyed(load(b)) /\ Keyed(dump(b))
<1>1. load(b).eq = b.eq /\ "eq" \in DOMAIN load(b) /\ dump(b).eq = b.eq /\ "eq" \in DOMAIN dump(b)
  BY DEF load, dump
<1> QED
  BY <1>1, KeyedSame

LEMMA EnsuredKeyed == ASSUME StoreInv, KeyInv PROVE Keyed(Ensured)
  BY BuiltKeyed, LoadedKeyed DEF KeyInv, Ensured

LEMMA KeyStep ==
  ASSUME Marked, StoreInv, CaptureInv, KeyInv, [Next]_vars
  PROVE  KeyInv'
<1>0. \A c : Keyed(c)' <=> Keyed(c)
  BY DEF Keyed, KeysOk, Values
<1>1. ASSUME NEW es \in Batches, NEW D \in SUBSET Live, Capture(es, D)
      PROVE  KeyInv'
  <2>1. ci' = ci \/ ci' = Ensured
    BY <1>1 DEF Capture
  <2>2. blob' = blob /\ sidecar' = sidecar
    BY <1>1 DEF Capture
  <2> QED
    BY <1>0, <2>1, <2>2, EnsuredKeyed DEF KeyInv
<1>2. CASE Land \/ LandFails \/ ensure_reverse \/ Redeploy \/ vars' = vars
  <2>1. ci' = ci /\ blob' = blob /\ sidecar' = sidecar
    BY <1>2 DEF Land, LandFails, ensure_reverse, Redeploy, vars, indexVars
  <2> QED
    BY <1>0, <2>1 DEF KeyInv
<1>3. CASE Fold
  <2>1. inflight.entries \in Batches
    BY <1>3, CaptureFacts DEF StoreInv, Fold, Idle
  <2>2. /\ ci' = IF ci = NoIndex THEN NoIndex ELSE Folded(ci, inflight.entries, inflight.D)
        /\ blob' = NoIndex \/ blob' = blob
        /\ sidecar' = sidecar
    BY <1>3 DEF Fold
  <2>3. ci' # NoIndex => Keyed(ci')
    BY <2>1, <2>2, FoldedKeyed DEF KeyInv
  <2> QED
    BY <1>0, <2>2, <2>3 DEF KeyInv
<1>4. CASE ensure \/ committed_labels
  <2>1. /\ ci' = Ensured \/ ci' = WithLastValues(Ensured)
        /\ blob' = blob /\ sidecar' = sidecar
    BY <1>4 DEF ensure, committed_labels
  <2>2. Keyed(ci')
    BY <2>1, EnsuredKeyed, WithLastKeyed
  <2> QED
    BY <1>0, <2>1, <2>2 DEF KeyInv
<1>5. CASE Close
  <2>1. ci' = NoIndex /\ blob' = NoIndex
    BY <1>5 DEF Close, Down
  <2>2. \/ sidecar' = sidecar
        \/ sidecar'.class = NoIndex
        \/ ci # NoIndex /\ sidecar'.class = dump(ci)
    BY <1>5 DEF Close
  <2>3. sidecar' # NoIndex /\ sidecar'.class # NoIndex => Keyed(sidecar'.class)
    BY <2>2, LoadedKeyed DEF KeyInv
  <2> QED
    BY <1>0, <2>1, <2>3 DEF KeyInv
<1>6. CASE Crash
  <2>1. ci' = NoIndex /\ blob' = NoIndex /\ sidecar' = sidecar
    BY <1>6 DEF Crash, Down
  <2> QED
    BY <1>0, <2>1 DEF KeyInv
<1>7. CASE Open
  <2>1. /\ ci' = ci /\ sidecar' = sidecar
        /\ blob' = NoIndex \/ (sidecar # NoIndex /\ blob' = sidecar.class)
    BY <1>7 DEF Open
  <2> QED
    BY <1>0, <2>1 DEF KeyInv
<1> QED
  BY <1>1, <1>2, <1>3, <1>4, <1>5, <1>6, <1>7 DEF Next

LEMMA KeyInit == Init => KeyInv
  BY DEF Init, KeyInv

-----------------------------------------------------------------------------
(* windowed_index_order. *)

LEMMA ListsWeaken ==
  ASSUME NEW B, NEW C, NEW S, NEW n, NEW s, Lists(s, n, S, B),
         \A x, y \in S : <<x, y>> \in B => <<x, y>> \in C
  PROVE  Lists(s, n, S, C)
  BY DEF Lists, InOrder

LEMMA ListsLen ==
  ASSUME NEW B, NEW S, NEW n, NEW s, Lists(s, n, S, B)
  PROVE  Len(s) = n /\ DOMAIN s = 1..n /\ n \in Nat /\ s \in Seq(S)
<1>1. n \in Nat /\ s \in [1..n -> S]
  BY DEF Lists
<1> QED
  BY <1>1

Begins(u, m, w, n, S) ==
    /\ m \in Nat /\ n \in Nat /\ m <= n
    /\ u \in [1..m -> S] /\ w \in [1..n -> S]
    /\ \A i \in 1..m : u[i] = w[i]

IsWindow(limit, offset) == (limit = NULL \/ limit \in Nat) /\ offset \in Nat

(* A window that ends within the beginning of a list is a window of the list. *)
LEMMA WindowOfPrefix ==
  ASSUME NEW S, NEW m, NEW n, NEW u, NEW w, Begins(u, m, w, n, S),
         NEW limit, NEW offset, IsWindow(limit, offset), Filled(u, limit, offset)
  PROVE  apply_window(u, limit, offset) = apply_window(w, limit, offset)
<1>0. /\ m \in Nat /\ n \in Nat /\ m <= n /\ offset \in Nat
      /\ u \in [1..m -> S] /\ w \in [1..n -> S]
      /\ \A i \in 1..m : u[i] = w[i]
  BY DEF Begins, IsWindow
<1>1. Len(u) = m /\ Len(w) = n
  BY <1>0
<1>2. limit # NULL /\ limit \in Nat /\ offset + limit <= m
  BY <1>0, <1>1 DEF Filled, IsWindow
<1>3. PICK e : e = offset + limit
  OBVIOUS
<1>4. e \in Nat /\ e <= m /\ e <= n /\ ~(e > m) /\ ~(e > n)
  BY <1>0, <1>2, <1>3
<1>5. apply_window(u, limit, offset) = SubSeq(u, offset + 1, e)
      /\ apply_window(w, limit, offset) = SubSeq(w, offset + 1, e)
  BY <1>0, <1>1, <1>2, <1>3, <1>4 DEF apply_window
<1>6. \A i \in (offset + 1)..e : u[i] \in S /\ w[i] \in S /\ u[i] = w[i]
  <2> SUFFICES ASSUME NEW i \in (offset + 1)..e PROVE u[i] \in S /\ w[i] \in S /\ u[i] = w[i]
    OBVIOUS
  <2>1. i \in 1..m /\ i \in 1..n
    BY <1>0, <1>4
  <2> QED
    BY <1>0, <2>1
<1>7. offset + 1 \in Int /\ e \in Int
  BY <1>0, <1>4
<1>8. PICK a, b : a = SubSeq(u, offset + 1, e) /\ b = SubSeq(w, offset + 1, e)
  OBVIOUS
<1>9. /\ a \in Seq(S) /\ b \in Seq(S) /\ Len(a) = Len(b)
      /\ Len(a) = IF offset + 1 <= e THEN e - (offset + 1) + 1 ELSE 0
      /\ \A i \in 1..(e - (offset + 1) + 1) : a[i] = u[offset + 1 + i - 1]
                                              /\ b[i] = w[offset + 1 + i - 1]
  BY <1>6, <1>7, <1>8, SubSeqProperties
<1>10. \A i \in 1..Len(a) : a[i] = b[i]
  <2> SUFFICES ASSUME NEW i \in 1..Len(a) PROVE a[i] = b[i]
    OBVIOUS
  <2>1. /\ i \in 1..(e - (offset + 1) + 1)
        /\ offset + 1 + i - 1 \in (offset + 1)..e
    BY <1>0, <1>4, <1>9
  <2> QED
    BY <1>6, <1>9, <2>1
<1>11. a = b
  BY <1>9, <1>10, SeqEqual
<1> QED
  BY <1>5, <1>8, <1>11

(* Lists of sets that come one after the other and are all of M, until the     *)
(* window is full: the window is that of the list of M.                        *)
LEMMA FilledWindow ==
  ASSUME NEW B, NEW M, Orders(B, M), NEW lists, NEW sets, NEW N \in Nat, Len(lists) = N,
         NEW limit, NEW offset, IsWindow(limit, offset),
         InTurn(lists, sets, N, B),
         FirstOf(sets, N) = M, NEW n, NEW w, Lists(w, n, M, B)
  PROVE  apply_window(UntilFilled(lists, limit, offset), limit, offset)
           = apply_window(w, limit, offset)
<1>1. PICK u : u = UntilFilled(lists, limit, offset)
  OBVIOUS
<1>2. Windowed(u, sets, N, B, limit, offset)
  BY <1>1, UntilFilledLists
<1>0. PICK k \in 0..N, m \in Nat :
         Lists(u, m, FirstOf(sets, k), B) /\ (k = N \/ Filled(u, limit, offset))
  BY <1>2 DEF Windowed, Lists
<1>3. CASE k = N
  <2>1. Lists(u, m, M, B) /\ OneWay(B, M)
    BY <1>0, <1>3 DEF Orders
  <2>2. u = w
    BY <2>1, ListsUnique
  <2> QED
    BY <1>1, <2>2
<1>4. CASE Filled(u, limit, offset)
  <2>1. PICK F : F = FirstOf(sets, k)
    OBVIOUS
  <2>2. F \subseteq M
    <3>1. \A i \in 1..k : i \in 1..N
      OBVIOUS
    <3> QED
      BY <2>1, <3>1 DEF FirstOf
  <2>3. \A x \in F, y \in M \ F : <<x, y>> \in B
    <3> SUFFICES ASSUME NEW x \in F, NEW y \in M \ F PROVE <<x, y>> \in B
      OBVIOUS
    <3>1. PICK i \in 1..k : x \in sets[i]
      BY <2>1 DEF FirstOf
    <3>2. PICK j \in 1..N : y \in sets[j]
      BY DEF FirstOf
    <3>3. j \notin 1..k
      BY <2>1, <3>2 DEF FirstOf
    <3>4. i \in 1..N /\ i < j
      BY <3>1, <3>2, <3>3
    <3> QED
      BY <3>1, <3>2, <3>4 DEF InTurn
  <2>4. Lists(u, m, F, B)
    BY <1>0, <2>1
  <2>5. m <= n /\ \A i \in 1..m : u[i] = w[i]
    BY <2>2, <2>3, <2>4, ListsPrefix
  <2>6. Begins(u, m, w, n, M)
    BY <2>2, <2>4, <2>5 DEF Begins, Lists
  <2>7. apply_window(u, limit, offset) = apply_window(w, limit, offset)
    BY <1>4, <2>6, WindowOfPrefix
  <2> QED
    BY <1>1, <2>7
<1> QED
  BY <1>0, <1>3, <1>4

LEMMA FunctionIsSeq ==
  ASSUME NEW n \in Nat, NEW S, NEW s \in [1..n -> S]
  PROVE  s \in Seq(S) /\ Len(s) = n
  OBVIOUS

(* The keys in the direction asked. *)
Directed(keys, n, present, descending) ==
    /\ n \in Nat /\ keys \in [1..n -> present]
    /\ \A x \in present : \E i \in 1..n : keys[i] = x
    /\ \A i, j \in 1..n : i < j => IF descending THEN keys[j] < keys[i] ELSE keys[i] < keys[j]

LEMMA KeysInDirection ==
  ASSUME NEW present, IsFiniteSet(present), present \subseteq Int, NEW descending,
         NEW keys, keys = (IF descending THEN Reverse(Ascending(present)) ELSE Ascending(present)),
         NEW n, n = Cardinality(present)
  PROVE  Directed(keys, n, present, descending)
<1>1. PICK a : a = Ascending(present)
  OBVIOUS
<1>2. Lists(a, n, present, Upward)
  BY <1>1, AscendingLists
<1>3. CASE descending
  <2>1. \A x, y \in present : <<x, y>> \in Upward => <<y, x>> \in Downward
    BY DEF Upward, Downward
  <2>2. Lists(Reverse(a), n, present, Downward)
    BY <1>2, <2>1, ListsReverse
  <2>3. keys = Reverse(a)
    BY <1>1, <1>3
  <2>4. Lists(keys, n, present, Downward)
    BY <2>2, <2>3
  <2>5. \A x, y : <<x, y>> \in Downward => y < x
    BY DEF Downward
  <2> QED
    BY <1>3, <2>4, <2>5 DEF Lists, InOrder, Directed
<1>4. CASE ~descending
  <2>1. Lists(keys, n, present, Upward)
    BY <1>1, <1>2, <1>4
  <2>2. \A x, y : <<x, y>> \in Upward => x < y
    BY DEF Upward
  <2> QED
    BY <1>4, <2>1, <2>2 DEF Lists, InOrder, Directed
<1> QED
  BY <1>3, <1>4

(* The members of a finite set key by key, and within a key in ascending       *)
(* order, those without a key last: the window is that of the sorted list.     *)
HasKeys(M, value, present) ==
    /\ IsFiniteSet(M) /\ M \subseteq Int
    /\ IsFiniteSet(present) /\ present \subseteq Int
    /\ \A o \in M : value[o] \in present \/ value[o] = NULL

ByKey(front, none, keys, M, value) ==
    /\ front = [i \in DOMAIN keys |-> Ascending({o \in M : value[o] = keys[i]})]
    /\ none = Ascending({o \in M : value[o] = NULL})

LEMMA KeyByKey ==
  ASSUME NULL \notin Int, NEW M, NEW value, NEW present, HasKeys(M, value, present),
         NEW limit, NEW offset, IsWindow(limit, offset), NEW descending,
         NEW keys, keys = (IF descending THEN Reverse(Ascending(present)) ELSE Ascending(present)),
         NEW front, NEW none, ByKey(front, none, keys, M, value)
  PROVE  apply_window(UntilFilled(Append(front, none), limit, offset), limit, offset)
           = apply_window(order_by_values(M, value, descending), limit, offset)
<1> USE DEF HasKeys, ByKey
<1>1. PICK n : n = Cardinality(present)
  OBVIOUS
<1>2. /\ n \in Nat /\ keys \in [1..n -> present]
      /\ \A x \in present : \E i \in 1..n : keys[i] = x
      /\ \A i, j \in 1..n : i < j => IF descending THEN keys[j] < keys[i] ELSE keys[i] < keys[j]
  <2>1. Directed(keys, n, present, descending)
    BY <1>1, KeysInDirection
  <2> QED
    BY <2>1 DEF Directed
<1> DEFINE sets == [i \in 1..(n + 1) |-> IF i = n + 1 THEN {o \in M : value[o] = NULL}
                                         ELSE {o \in M : value[o] = keys[i]}]
           lists == Append(front, none)
           E == Earlier(M, value, descending)
<1>3. /\ n + 1 \in Nat
      /\ \A i \in 1..n : sets[i] = {o \in M : value[o] = keys[i]}
      /\ sets[n + 1] = {o \in M : value[o] = NULL}
  BY <1>2
<1>4. \A i \in 1..(n + 1) : i = n + 1 \/ i \in 1..n
  BY <1>2
<1>5. Len(lists) = n + 1 /\ \A i \in 1..(n + 1) : lists[i] = Ascending(sets[i])
  <2>1. DOMAIN front = 1..n /\ front = [i \in 1..n |-> front[i]]
    BY <1>2
  <2> DEFINE S == {front[i] : i \in 1..n} \cup {none}
  <2>2. front \in Seq(S) /\ none \in S /\ Len(front) = n
    <3>1. front \in [1..n -> S] /\ none \in S
      BY <2>1
    <3>2. n \in Nat
      BY <1>2
    <3> HIDE DEF S, sets, lists, E
    <3> QED
      BY <3>1, <3>2, FunctionIsSeq
  <2> HIDE DEF S, sets, lists
  <2>3. /\ Len(lists) = n + 1
        /\ \A i \in 1..n : lists[i] = front[i]
        /\ lists[n + 1] = none
    BY <1>2, <2>2, AppendProperties DEF lists
  <2>4. \A i \in 1..n : front[i] = Ascending({o \in M : value[o] = keys[i]})
    BY <1>2
  <2>5. \A i \in 1..n : lists[i] = Ascending(sets[i])
    BY <1>3, <2>3, <2>4
  <2>6. lists[n + 1] = Ascending(sets[n + 1])
    BY <1>3, <2>3
  <2> QED
    BY <1>4, <2>3, <2>5, <2>6
<1> HIDE DEF sets, lists
<1>6. \A x, y \in M : <<x, y>> \in E <=> Before(value, descending, x, y)
  BY DEF Earlier
<1>7. Orders(E, M)
  BY EarlierOrders DEF Orderable
<1>8. Lists(order_by_values(M, value, descending), Cardinality(M), M, E)
  BY OrderedLists DEF Orderable
<1> HIDE DEF E
<1>9. ASSUME NEW i \in 1..(n + 1)
      PROVE  Lists(lists[i], Cardinality(sets[i]), sets[i], E)
  <2>1. PICK S : S = sets[i]
    OBVIOUS
  <2>2. S \subseteq M /\ \A x, y \in S : value[x] = value[y]
    BY <1>3, <1>4, <2>1
  <2>3. IsFiniteSet(S) /\ S \subseteq Int
    BY <2>2, FS_Subset
  <2>4. Lists(Ascending(S), Cardinality(S), S, Upward)
    BY <2>3, AscendingLists
  <2>5. \A x, y \in S : <<x, y>> \in Upward => <<x, y>> \in E
    BY <1>6, <2>2 DEF Upward, Before
  <2>6. Lists(Ascending(S), Cardinality(S), S, E)
    BY <2>4, <2>5, ListsWeaken
  <2> QED
    BY <1>5, <2>1, <2>6
<1>10. ASSUME NEW i \in 1..(n + 1), NEW j \in 1..(n + 1), i < j, NEW x \in sets[i], NEW y \in sets[j]
       PROVE  <<x, y>> \in E
  <2>1. i \in 1..n /\ keys[i] \in present /\ keys[i] \in Int
    <3>1. i # n + 1
      BY <1>2, <1>10
    <3>2. i \in 1..n
      BY <1>4, <3>1
    <3> QED
      BY <1>2, <3>2
  <2>2. x \in M /\ value[x] = keys[i] /\ value[x] # NULL
    BY <1>3, <2>1
  <2>3. CASE j = n + 1
    <3>1. y \in M /\ value[y] = NULL
      BY <1>3, <2>3
    <3> QED
      BY <1>6, <2>2, <3>1 DEF Before
  <2>4. CASE j # n + 1
    <3>1. j \in 1..n /\ keys[j] \in present /\ keys[j] \in Int
      <4>1. j \in 1..n
        BY <1>4, <2>4
      <4> QED
        BY <1>2, <4>1
    <3>2. y \in M /\ value[y] = keys[j]
      BY <1>3, <3>1
    <3>3. IF descending THEN keys[j] < keys[i] ELSE keys[i] < keys[j]
      BY <1>2, <1>10, <2>1, <3>1
    <3>4. value[x] # value[y] /\ (IF descending THEN value[x] > value[y] ELSE value[x] < value[y])
      BY <2>1, <2>2, <3>1, <3>2, <3>3
    <3> QED
      BY <1>6, <2>2, <3>2, <3>4 DEF Before
  <2> QED
    BY <2>3, <2>4
<1>11. InTurn(lists, sets, n + 1, E)
  BY <1>9, <1>10 DEF InTurn
<1>12. FirstOf(sets, n + 1) = M
  <2>1. \A i \in 1..(n + 1) : sets[i] \subseteq M
    BY <1>3, <1>4
  <2>2. ASSUME NEW o \in M PROVE \E i \in 1..(n + 1) : o \in sets[i]
    <3>1. CASE value[o] = NULL
      <4>1. n + 1 \in 1..(n + 1) /\ o \in sets[n + 1]
        BY <1>2, <1>3, <3>1
      <4> QED
        BY <4>1
    <3>2. CASE value[o] \in present
      <4>1. PICK i \in 1..n : keys[i] = value[o]
        BY <1>2, <3>2
      <4>2. i \in 1..(n + 1) /\ o \in sets[i]
        BY <1>2, <1>3, <4>1
      <4> QED
        BY <4>2
    <3> QED
      BY <3>1, <3>2
  <2> QED
    BY <2>1, <2>2 DEF FirstOf
<1>13. PICK w, m, N : w = order_by_values(M, value, descending) /\ m = Cardinality(M) /\ N = n + 1
  OBVIOUS
<1>14. Lists(w, m, M, E) /\ FirstOf(sets, N) = M /\ InTurn(lists, sets, N, E)
       /\ N \in Nat /\ Len(lists) = N
  BY <1>3, <1>5, <1>8, <1>11, <1>12, <1>13
<1>15. apply_window(UntilFilled(lists, limit, offset), limit, offset) = apply_window(w, limit, offset)
  BY <1>7, <1>14, FilledWindow
<1> QED
  BY <1>13, <1>15 DEF lists


(* The window straight from the index is that of the sorted records. *)
LEMMA WindowedExact ==
  ASSUME StoreInv, NULL \notin Int,
         NEW c, Agrees(c, Current, {}), CurrentMarkers(c), Keyed(c),
         NEW f \in DOMAIN c.eq \ ListFields, \A v \in Values(f) : v = NULL \/ v \in Int,
         NEW M, M \subseteq Live, NEW value, value = [o \in M |-> Row(o)[f]],
         NEW descending, NEW limit, NEW offset, IsWindow(limit, offset)
  PROVE  windowed_index_order(c, M, f, descending, limit, offset)
           = apply_window(order_by_values(M, value, descending), limit, offset)
<1>1. /\ f \in eqFields /\ f \notin ListFields
      /\ f \in DOMAIN c.run => f \in sortedFields
  BY DEF CurrentMarkers
<1>2. /\ \A k : At(c.eq[f], k) = {o \in Live : Row(o)[f] = k}
      /\ \A k \in DOMAIN c.eq[f] : c.eq[f][k] = At(c.eq[f], k)
      /\ f \in DOMAIN c.run => c.run[f] = DOMAIN c.eq[f] \ {NULL}
  BY <1>1, PostingFacts
<1>3. PICK present : present = (IF f \in DOMAIN c.run THEN c.run[f] ELSE DOMAIN c.eq[f]) \ {NULL}
  OBVIOUS
<1>4. present = DOMAIN c.eq[f] \ {NULL}
  BY <1>2, <1>3
<1>5. IsFiniteSet(present) /\ present \subseteq Int
  <2>1. IsFiniteSet(DOMAIN c.eq[f]) /\ DOMAIN c.eq[f] \subseteq Values(f)
    BY DEF Keyed, KeysOk
  <2> QED
    BY <1>4, <2>1, FS_Subset
<1>6. IsFiniteSet(M) /\ M \subseteq Int
  BY LiveFinite, FS_Subset
<1>7. ASSUME NEW o \in M PROVE value[o] \in present \/ value[o] = NULL
  <2>1. o \in Live /\ value[o] = Row(o)[f]
    OBVIOUS
  <2>2. o \in At(c.eq[f], Row(o)[f])
    BY <1>2, <2>1
  <2>3. Row(o)[f] \in DOMAIN c.eq[f]
    BY <2>2, AtFacts
  <2> QED
    BY <1>4, <2>1, <2>3
<1>8. PICK keys : keys = IF descending THEN Reverse(Ascending(present)) ELSE Ascending(present)
  OBVIOUS
<1>9. PICK front, none :
         /\ front = [i \in DOMAIN keys |-> Ascending(c.eq[f][keys[i]] \cap M)]
         /\ none = Ascending(At(c.eq[f], NULL) \cap M)
  OBVIOUS
<1>10. windowed_index_order(c, M, f, descending, limit, offset)
         = apply_window(UntilFilled(Append(front, none), limit, offset), limit, offset)
  BY <1>3, <1>8, <1>9, Zenon DEF windowed_index_order
<1>11. \A k : At(c.eq[f], k) \cap M = {o \in M : value[o] = k}
  BY <1>2
<1>12. none = Ascending({o \in M : value[o] = NULL})
  BY <1>9, <1>11
<1>13. front = [i \in DOMAIN keys |-> Ascending({o \in M : value[o] = keys[i]})]
  <2>1. PICK n : n = Cardinality(present)
    OBVIOUS
  <2>2. n \in Nat /\ keys \in [1..n -> present]
    BY <1>5, <1>8, <2>1, KeysInDirection DEF Directed
  <2>3. ASSUME NEW i \in DOMAIN keys PROVE c.eq[f][keys[i]] \cap M = {o \in M : value[o] = keys[i]}
    <3>1. keys[i] \in DOMAIN c.eq[f]
      BY <1>4, <2>2
    <3> QED
      BY <1>2, <1>11, <3>1
  <2> QED
    BY <1>9, <2>3
<1>14. apply_window(UntilFilled(Append(front, none), limit, offset), limit, offset)
         = apply_window(order_by_values(M, value, descending), limit, offset)
  <2>1. HasKeys(M, value, present)
    BY <1>5, <1>6, <1>7 DEF HasKeys
  <2>2. ByKey(front, none, keys, M, value)
    BY <1>12, <1>13 DEF ByKey
  <2> QED
    BY <1>8, <2>1, <2>2, KeyByKey
<1> QED
  BY <1>10, <1>14


-----------------------------------------------------------------------------
(* The reads of the store. *)

(* The readable committed records that satisfy a condition. *)
Matched(p, cond) == {o \in Readable(p) : Satisfies(cond, o)}

(* The candidates, and what the residual leaves of them. *)
LEMMA CandidatesExact ==
  ASSUME StoreInv, LabelRows, AskableParts, NULL \notin SUBSET Oids,
         NEW c, Agrees(c, Current, {}), CurrentMarkers(c), NEW p, IsPrincipal(p),
         NEW cond, cond = NULL \/ cond \in Conditions, NEW k, k = _candidates(p, c, cond)
  PROVE  /\ Left(k) = Matched(p, cond)
         /\ k.residual = {} => k.bitmap = Matched(p, cond)
         /\ Matched(p, cond) \subseteq k.bitmap /\ k.bitmap \subseteq Readable(p)
<1>1. c.extent = Live /\ readable_bitmap(p, c) = Readable(p) /\ Readable(p) \subseteq Live
  BY ReadableExact, LabelsAgree DEF Readable
<1>2. PICK pl : pl = IF cond = NULL THEN Planned(NULL, {}) ELSE plan(cond, c)
  OBVIOUS
<1>3. /\ k.bitmap = (IF pl.bitmap = NULL THEN Live ELSE pl.bitmap) \cap Readable(p)
      /\ k.residual = pl.residual
  <2>1. k = Planned((IF pl.bitmap = NULL THEN c.extent ELSE pl.bitmap) \cap readable_bitmap(p, c),
                    pl.residual)
    BY <1>2, Zenon DEF _candidates
  <2> QED
    BY <1>1, <2>1 DEF Planned
<1>4. Left(k) = {o \in k.bitmap : \A r \in k.residual : evaluate(r, Row(o))}
  BY DEF Left
<1>5. CASE cond = NULL
  <2>1. pl.bitmap = NULL /\ pl.residual = {}
    BY <1>2, <1>5 DEF Planned
  <2>2. k.bitmap = Readable(p) /\ k.residual = {}
    BY <1>1, <1>3, <2>1
  <2>3. Matched(p, cond) = Readable(p)
    BY <1>5 DEF Matched, Satisfies
  <2> QED
    BY <1>4, <2>2, <2>3
<1>6. CASE cond \in Conditions
  <2>1. cond # NULL /\ pl = plan(cond, c)
    BY <1>2, <1>6, ConditionTrees
  <2>2. NULL \notin SUBSET Live
    BY DEF Live
  <2>3. Selects(pl, Live, Truth[cond], Truth)
    BY <1>6, <2>1, <2>2, PlanSelects
  <2>4. /\ DOMAIN Truth = Conditions
        /\ \A x \in Conditions : Truth[x] = {o \in Live : evaluate(x, Row(o))}
    BY DEF Truth
  <2>5. /\ pl.bitmap # NULL => pl.bitmap \subseteq Live
        /\ pl.residual \subseteq Conditions
        /\ \A o \in Live : o \in Truth[cond] <=>
              /\ pl.bitmap = NULL \/ o \in pl.bitmap
              /\ \A r \in pl.residual : o \in Truth[r]
    BY <2>3, <2>4 DEF Selects, Selected
  <2>6. \A o \in Live : evaluate(cond, Row(o)) <=>
              /\ pl.bitmap = NULL \/ o \in pl.bitmap
              /\ \A r \in pl.residual : evaluate(r, Row(o))
    BY <1>6, <2>4, <2>5
  <2>7. Matched(p, cond) = {o \in Readable(p) : evaluate(cond, Row(o))}
    BY <2>1 DEF Matched, Satisfies
  <2>8. \A o \in Readable(p) : o \in k.bitmap <=> pl.bitmap = NULL \/ o \in pl.bitmap
    BY <1>1, <1>3
  <2>9. k.bitmap \subseteq Readable(p)
    BY <1>3
  <2>10. Left(k) = Matched(p, cond)
    BY <1>1, <1>3, <1>4, <2>6, <2>7, <2>8, <2>9
  <2> QED
    BY <1>4, <2>9, <2>10
<1> QED
  BY <1>5, <1>6

(* A window without bounds is the whole list. *)
LEMMA WholeWindow ==
  ASSUME NEW B, NEW S, NEW n, NEW s, Lists(s, n, S, B)
  PROVE  Len(apply_window(s, NULL, 0)) = n
<1>1. n \in Nat /\ s \in Seq(S) /\ Len(s) = n /\ s \in [1..n -> S]
  BY ListsLen DEF Lists
<1>2. apply_window(s, NULL, 0) = SubSeq(s, 1, n)
  BY <1>1 DEF apply_window
<1>3. \A i \in 1..n : s[i] \in S
  BY <1>1
<1>4. Len(SubSeq(s, 1, n)) = IF 1 <= n THEN n - 1 + 1 ELSE 0
  BY <1>1, <1>3, SubSeqProperties
<1> QED
  BY <1>1, <1>2, <1>4

(* query(), count() and explain() of one question. *)
LEMMA ReadsExact ==
  ASSUME StoreInv, LabelRows, AskableParts, NULL \notin SUBSET Oids,
         NEW c, Agrees(c, Current, {}), CurrentMarkers(c), Keyed(c),
         NEW q \in Questions, IsPrincipal(q.p)
  PROVE  /\ query(q, c) = Expected(q)
         /\ q.limit = NULL /\ q.offset = 0 =>
               /\ count(q.p, c, q.cond) = Len(Expected(q))
               /\ explain(q.p, c, q.cond).candidates \in
                     Len(Expected(q)) .. Cardinality(Readable(q.p))
<1>1. PICK M, k, f, p, cond, limit, offset, descending :
         /\ M = Matched(q.p, q.cond) /\ k = _candidates(q.p, c, q.cond)
         /\ f = q.order.f /\ p = q.p /\ cond = q.cond
         /\ limit = q.limit /\ offset = q.offset /\ descending = q.order.descending
  OBVIOUS
<1>2. PICK value : value = [o \in M |-> Row(o)[f]]
  OBVIOUS
<1>3. cond = NULL \/ cond \in Conditions
  BY <1>1, QuestionsPosed
<1>4. IsWindow(limit, offset)
  BY <1>1, QuestionsPosed DEF IsWindow
<1>5. q.order # NULL => f \notin ListFields /\ \A v \in Values(f) : v = NULL \/ v \in Int
  BY <1>1, QuestionsPosed
<1>6. /\ Left(k) = M
      /\ k.residual = {} => k.bitmap = M
      /\ M \subseteq k.bitmap /\ k.bitmap \subseteq Readable(p)
  <2>1. k = _candidates(p, c, cond) /\ IsPrincipal(p) /\ M = Matched(p, cond)
    BY <1>1
  <2> QED
    BY <1>3, <2>1, CandidatesExact
<1>7. Readable(p) \subseteq Live /\ M \subseteq Live
  BY <1>6 DEF Readable
<1>8. IsFiniteSet(M) /\ M \subseteq Int
  BY <1>7, LiveFinite, FS_Subset
<1>9. query(q, c) =
        IF q.order = NULL THEN apply_window(Ascending(M), limit, offset)
        ELSE IF k.residual = {} /\ f \in DOMAIN c.eq
        THEN windowed_index_order(c, M, f, descending, limit, offset)
        ELSE apply_window(order_by_values(M, value, descending), limit, offset)
  BY <1>1, <1>2, <1>6 DEF query
<1>10. Expected(q) =
         IF q.order = NULL THEN apply_window(Ascending(M), limit, offset)
         ELSE apply_window(order_by_values(M, value, descending), limit, offset)
  BY <1>1, <1>2 DEF Expected, Matched
<1>11. q.order # NULL /\ f \in DOMAIN c.eq =>
         windowed_index_order(c, M, f, descending, limit, offset)
           = apply_window(order_by_values(M, value, descending), limit, offset)
  <2> SUFFICES ASSUME q.order # NULL, f \in DOMAIN c.eq
               PROVE  windowed_index_order(c, M, f, descending, limit, offset)
                        = apply_window(order_by_values(M, value, descending), limit, offset)
    OBVIOUS
  <2>1. f \in DOMAIN c.eq \ ListFields /\ \A v \in Values(f) : v = NULL \/ v \in Int
    BY <1>5
  <2>2. NULL \notin Int
    BY DEF LabelRows
  <2> QED
    BY <1>2, <1>4, <1>7, <2>1, <2>2, WindowedExact
<1>12. query(q, c) = Expected(q)
  BY <1>9, <1>10, <1>11
<1>13. ASSUME q.limit = NULL, q.offset = 0
       PROVE  Len(Expected(q)) = Cardinality(M)
  <2>1. CASE q.order = NULL
    <3>1. Lists(Ascending(M), Cardinality(M), M, Upward)
      BY <1>8, AscendingLists
    <3>2. Expected(q) = apply_window(Ascending(M), NULL, 0)
      BY <1>1, <1>10, <1>13, <2>1
    <3> QED
      BY <3>1, <3>2, WholeWindow
  <2>2. CASE q.order # NULL
    <3>1. Orderable(M, value)
      <4>1. \A o \in M : value[o] \in Values(f)
        BY <1>2, <1>7, RowValues
      <4> QED
        BY <1>5, <1>8, <2>2, <4>1 DEF Orderable
    <3>2. Lists(order_by_values(M, value, descending), Cardinality(M), M,
                Earlier(M, value, descending))
      BY <1>8, <3>1, OrderedLists
    <3>3. Expected(q) = apply_window(order_by_values(M, value, descending), NULL, 0)
      BY <1>1, <1>10, <1>13, <2>2
    <3> QED
      BY <3>2, <3>3, WholeWindow
  <2> QED
    BY <2>1, <2>2
<1>14. count(p, c, cond) = Cardinality(M)
  BY <1>1, <1>6 DEF count
<1>15. explain(p, c, cond).candidates \in Cardinality(M) .. Cardinality(Readable(p))
  <2>1. explain(p, c, cond).candidates = Cardinality(k.bitmap)
    BY <1>1 DEF explain
  <2>2. IsFiniteSet(Readable(p)) /\ IsFiniteSet(k.bitmap)
    BY <1>6, <1>7, LiveFinite, FS_Subset
  <2>3. Cardinality(M) <= Cardinality(k.bitmap) /\ Cardinality(k.bitmap) <= Cardinality(Readable(p))
    BY <1>6, <2>2, FS_Subset
  <2>4. Cardinality(M) \in Nat /\ Cardinality(k.bitmap) \in Nat /\ Cardinality(Readable(p)) \in Nat
    BY <1>8, <2>2, FS_CardinalityType
  <2> QED
    BY <2>1, <2>3, <2>4
<1> QED
  BY <1>1, <1>12, <1>13, <1>14, <1>15

(***************************************************************************)
(* query(), pluck(), count() and explain() of a class answer what a scan of    *)
(* its readable committed records gives, for every condition, order and        *)
(* window, whenever no commit is under way and the index is built: however it   *)
(* came about, and wherever the planner stops using it.                         *)
(***************************************************************************)
THEOREM QueriesExact ==
  ASSUME Marked, "redefault" \notin Env, NoIndexIsNone, LabelRows, AskableParts,
         NULL \notin SUBSET Oids, \A q \in Questions : IsPrincipal(q.p)
  PROVE  Spec => []QueryExact
<1>1. Init => StoreInv /\ CaptureInv /\ ClassInv /\ KeyInv
  BY StoreInit, ClassInit, KeyInit
<1>2. StoreInv /\ CaptureInv /\ ClassInv /\ KeyInv /\ [Next]_vars
        => (StoreInv /\ CaptureInv /\ ClassInv /\ KeyInv)'
  BY StoreStep, ClassStep, KeyStep
<1>3. StoreInv /\ ClassInv /\ KeyInv => QueryExact
  <2> SUFFICES ASSUME StoreInv, ClassInv, KeyInv, Idle, ci # NoIndex, NEW q \in Questions
               PROVE  /\ query(q, ci) = Expected(q)
                      /\ q.limit = NULL /\ q.offset = 0 =>
                            /\ count(q.p, ci, q.cond) = Len(Expected(q))
                            /\ explain(q.p, ci, q.cond).candidates \in
                                  Len(Expected(q)) .. Cardinality(Readable(q.p))
    BY DEF QueryExact
  <2>1. Agrees(ci, Current, {}) /\ CurrentMarkers(ci)
    BY IndexInUse
  <2>2. Keyed(ci)
    BY DEF KeyInv
  <2>3. PICK c : c = ci
    OBVIOUS
  <2> QED
    BY <2>1, <2>2, <2>3, ReadsExact
<1> QED
  BY <1>1, <1>2, <1>3, PTL DEF Spec


=============================================================================
