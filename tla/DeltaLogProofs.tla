---------------------------- MODULE DeltaLogProofs ----------------------------
(***************************************************************************)
(* Machine-checked proofs about the delta log: its durable watermark never   *)
(* lies, a replay yields every later delta once and in order, and a recorded  *)
(* delta stays readable.                                                     *)
(***************************************************************************)
EXTENDS DeltaLog, WellFoundedInduction, TLAPS

-----------------------------------------------------------------------------
(* The invariants. *)

Open_ == {"idle", "append", "manifest"}

Cell == (1..MaxTid) \X {0, 1}
Disks == [SegNos -> {NoFile} \cup Seq(Cell)]
Manifests == [wm : 0..MaxTid, genesis : 0..MaxTid, segs : Seq(Segments),
              nextSeg : 1..(MaxSegs + 1)]

(* What an open log and its manifest say of each other, in any environment. *)
TypeInv ==
    /\ TypeOK
    /\ files \in Disks
    /\ manifest \in Manifests
    /\ manifest.genesis <= manifest.wm
    /\ genesis <= watermark /\ watermark <= applied
    /\ pc \notin Open_ => InMemory = FreshManifest /\ applied = 0 /\ buffer = <<>> /\ ~attached
    /\ pc = "joining" => manifest = FreshManifest /\ files = NoFiles
    /\ pc \in {"append", "manifest"} => buffer # <<>>
    /\ pc = "manifest" => watermark = applied /\ debris \notin {"torn", "doubled"}
    /\ attached => applied = lastTid

(* The buffer ends with the delta applied last. *)
BufferInv ==
    /\ buffer = After(applied - Len(buffer), applied)
    /\ genesis <= applied - Len(buffer)
    /\ pending = Len(buffer)

(* Segments count whole frames and no more cells than their file has. *)
Shaped(fs, sg, next) ==
    \A i \in 1..Len(sg) :
        /\ sg[i].no < next
        /\ sg[i].nbytes % 2 = 0
        /\ sg[i].nbytes <= Len(Content(fs, sg[i].no))
        /\ \A j \in 1..Len(sg) : sg[i].no = sg[j].no => i = j

(* The segments of an open log are those of the manifest, the last of them  *)
(* perhaps longer, and new ones; an empty one is the last and not counted.   *)
Continues(sg, old) ==
    /\ Len(old) <= Len(sg)
    /\ \A i \in 1..Len(old) :
          IF i < Len(old) THEN sg[i] = old[i]
          ELSE /\ sg[i].no = old[i].no
               /\ old[i].nbytes <= sg[i].nbytes
               /\ old[i].last <= sg[i].last

ShapeInv ==
    /\ Shaped(files, manifest.segs, manifest.nextSeg)
    /\ \A i \in 1..Len(manifest.segs) :
          manifest.genesis < manifest.segs[i].last /\ manifest.segs[i].last <= manifest.wm
    /\ Shaped(files, segs, nextSeg)
    /\ \A i \in 1..Len(segs) :
          /\ segs[i].last <= watermark
          /\ \/ genesis < segs[i].last
             \/ i = Len(segs) /\ segs[i].nbytes = 0 /\ pc # "manifest"
    /\ pc \in Open_ =>
          /\ genesis = manifest.genesis
          /\ manifest.nextSeg <= nextSeg
          /\ Continues(segs, manifest.segs)

(* A segment holds its deltas, and the segments follow one another. *)
Holds(fs, seg) ==
    /\ seg.first <= seg.last
    /\ seg.nbytes = 2 * (seg.last - seg.first + 1)
    /\ Frames(Committed(fs, seg)) = After(seg.first - 1, seg.last)

Chain(fs, sg, g, w) ==
    /\ \A i \in 1..Len(sg) :
          Holds(fs, sg[i]) /\ sg[i].first = (IF i = 1 THEN g ELSE sg[i - 1].last) + 1
    /\ w = IF sg = <<>> THEN g ELSE sg[Len(sg)].last

(* Without debris files end with the last cell that counts. *)
Exact(fs, sg, next) ==
    /\ \A i \in 1..Len(sg) : Len(Content(fs, sg[i].no)) = sg[i].nbytes
    /\ \A n \in SegNos : next <= n => fs[n] = NoFile

HonestInv ==
    /\ debris # "counted" => Chain(files, manifest.segs, manifest.genesis, manifest.wm)
    /\ debris = "none" /\ pc \in Open_ =>
          /\ Chain(files, segs, genesis, watermark)
          /\ Exact(files, segs, nextSeg)
          /\ pc # "manifest" =>
                watermark = applied - Len(buffer) /\ watermark = manifest.wm
          /\ pc = "idle" => Len(buffer) < FlushEvery

DeltaInv == TypeInv /\ BufferInv /\ ShapeInv /\ HonestInv

-----------------------------------------------------------------------------
(* Induction.  What is said of every stage of a recursion is proved by the   *)
(* least stage at which it would fail.                                       *)

Less == {ss \in Nat \X Nat : ss[1] < ss[2]}

LEMMA LeastNumber ==
    ASSUME NEW T, T \subseteq Nat, T # {}
    PROVE  \E x \in T : \A y \in T : x <= y
<1>1. IsWellFoundedOn(Less, Nat)
  BY NatLessThanWellFounded DEF OpToRel, Less
<1>2. PICK x \in T : \A y \in T : ~(<<y, x>> \in Less)
  BY <1>1, WFMin
<1>3. ASSUME NEW y \in T, y < x
      PROVE  FALSE
  <2>1. <<y, x>> \in Nat \X Nat /\ <<y, x>>[1] = y /\ <<y, x>>[2] = x
    OBVIOUS
  <2>2. <<y, x>> \in Less
    BY <2>1, <1>3 DEF Less
  <2> QED
    BY <2>2, <1>2
<1> QED
  BY <1>3

(* A set of stages that has the first and each next one has them all. *)
LEMMA Climb ==
    ASSUME NEW n \in Nat, NEW T, 0 \in T, \A m \in 1..n : m - 1 \in T => m \in T
    PROVE  \A m \in 0..n : m \in T
<1> SUFFICES ASSUME NEW k \in 0..n, k \notin T PROVE FALSE
  OBVIOUS
<1> DEFINE U == {m \in 0..n : m \notin T}
<1>1. PICK x \in U : \A y \in U : x <= y
  <2> HIDE DEF U
  <2>1. U \subseteq Nat /\ U # {}
    BY DEF U
  <2> QED
    BY <2>1, LeastNumber
<1>2. x \in 0..n /\ x \notin T /\ x # 0
  BY <1>1
<1>3. x - 1 \in 0..n /\ x - 1 \notin U
  BY <1>1, <1>2
<1>4. x - 1 \in T /\ x \in 1..n
  BY <1>2, <1>3
<1> QED
  BY <1>2, <1>4

(* The stages of joining the pieces P, up to the n-th. *)
Joins(f, P, n) ==
    f = [m \in 0..n |-> IF m = 0 THEN <<>> ELSE f[m - 1] \o P[m]]

LEMMA JoinExists ==
    ASSUME NEW P, NEW n \in Nat
    PROVE  \E f : Joins(f, P, n)
<1> DEFINE T == {m \in Nat : \E f : Joins(f, P, m)}
<1>1. 0 \in T
  <2>1. Joins([x \in 0..0 |-> <<>>], P, 0)
    BY DEF Joins
  <2> QED
    BY <2>1
<1>2. ASSUME NEW m \in 1..n, m - 1 \in T
      PROVE  m \in T
  <2>1. PICK f : Joins(f, P, m - 1)
    BY <1>2
  <2> DEFINE g == [x \in 0..m |-> IF x = m THEN f[m - 1] \o P[m] ELSE f[x]]
  <2>2. \A x \in 0..(m - 1) : f[x] = IF x = 0 THEN <<>> ELSE f[x - 1] \o P[x]
    BY <2>1 DEF Joins
  <2>3. \A x \in 0..m : g[x] = IF x = 0 THEN <<>> ELSE g[x - 1] \o P[x]
    BY <2>2
  <2>4. Joins(g, P, m)
    <3>1. g = [x \in 0..m |-> g[x]]
      OBVIOUS
    <3> HIDE DEF g
    <3> QED
      BY <2>3, <3>1 DEF Joins
  <2> QED
    BY <2>4
<1> HIDE DEF T
<1>3. n \in T
  BY <1>1, <1>2, Climb
<1> QED
  BY <1>3 DEF T

LEMMA JoinStages ==
    ASSUME NEW P, NEW n \in Nat, NEW f, Joins(f, P, n)
    PROVE  /\ f[0] = <<>>
           /\ \A m \in 1..n : f[m] = f[m - 1] \o P[m]
<1>1. \A m \in 0..n : f[m] = IF m = 0 THEN <<>> ELSE f[m - 1] \o P[m]
  BY DEF Joins
<1>2. f[0] = <<>>
  BY <1>1
<1>3. ASSUME NEW m \in 1..n PROVE f[m] = f[m - 1] \o P[m]
  <2>1. m \in 0..n /\ m # 0
    OBVIOUS
  <2> QED
    BY <1>1, <2>1, Zenon
<1> QED
  BY <1>2, <1>3

(* The stages are sequences of what the pieces are sequences of. *)
LEMMA JoinType ==
    ASSUME NEW P, NEW n \in Nat, NEW f, Joins(f, P, n), NEW S,
           \A m \in 1..n : P[m] \in Seq(S)
    PROVE  \A m \in 0..n : f[m] \in Seq(S)
<1> DEFINE T == {m \in 0..n : f[m] \in Seq(S)}
<1>0. f[0] = <<>> /\ \A m \in 1..n : f[m] = f[m - 1] \o P[m]
  BY JoinStages
<1>1. 0 \in T
  <2>1. <<>> \in Seq(S)
    OBVIOUS
  <2>2. f[0] \in Seq(S)
    BY <1>0, <2>1, Zenon
  <2> QED
    BY <2>2
<1>2. ASSUME NEW m \in 1..n, m - 1 \in T PROVE m \in T
  <2>1. f[m - 1] \in Seq(S) /\ P[m] \in Seq(S) /\ f[m] = f[m - 1] \o P[m]
    BY <1>0, <1>2
  <2>2. f[m - 1] \o P[m] \in Seq(S)
    BY <2>1
  <2>3. f[m] \in Seq(S)
    BY <2>1, <2>2, Zenon
  <2>4. m \in 0..n
    OBVIOUS
  <2> QED
    BY <2>3, <2>4
<1> HIDE DEF T
<1>3. \A m \in 0..n : m \in T
  BY <1>1, <1>2, Climb
<1> QED
  BY <1>3 DEF T

(* What is joined of segments, and what is kept of deltas. *)
SegPieces(fs, sg, after) ==
    [n \in 1..Len(sg) |-> IF sg[n].last > after THEN Frames(Committed(fs, sg[n])) ELSE <<>>]

LaterPieces(tids, after) ==
    [n \in 1..Len(tids) |->
        IF tids[n] > after \/ tids[n] = Corrupt THEN <<tids[n]>> ELSE <<>>]

LEMMA FramedJoins ==
    ASSUME NEW fs, NEW sg, Len(sg) \in Nat, NEW after
    PROVE  \E f : /\ Joins(f, SegPieces(fs, sg, after), Len(sg))
                  /\ Framed(fs, sg, after) = f[Len(sg)]
<1> DEFINE step(f) == [n \in 0..Len(sg) |->
              IF n = 0 THEN <<>>
              ELSE f[n - 1] \o (IF sg[n].last > after THEN Frames(Committed(fs, sg[n]))
                                ELSE <<>>)]
           g == CHOOSE f : f = step(f)
<1>1. Framed(fs, sg, after) = g[Len(sg)]
  BY Zenon DEF Framed
<1>2. ASSUME NEW f PROVE Joins(f, SegPieces(fs, sg, after), Len(sg)) <=> f = step(f)
  <2>1. \A n \in 1..Len(sg) : SegPieces(fs, sg, after)[n] =
            IF sg[n].last > after THEN Frames(Committed(fs, sg[n])) ELSE <<>>
    BY DEF SegPieces
  <2>2. step(f) = [m \in 0..Len(sg) |-> IF m = 0 THEN <<>>
                                        ELSE f[m - 1] \o SegPieces(fs, sg, after)[m]]
    BY <2>1
  <2> HIDE DEF step
  <2> QED
    BY <2>2, Zenon DEF Joins
<1>3. \E f : Joins(f, SegPieces(fs, sg, after), Len(sg))
  BY JoinExists
<1> HIDE DEF step
<1>4. \E f : f = step(f)
  BY <1>2, <1>3
<1>5. g = step(g)
  BY <1>4
<1> HIDE DEF g
<1> QED
  BY <1>1, <1>2, <1>5

LEMMA LaterJoins ==
    ASSUME NEW tids, Len(tids) \in Nat, NEW after
    PROVE  \E f : /\ Joins(f, LaterPieces(tids, after), Len(tids))
                  /\ Later(tids, after) = f[Len(tids)]
<1> DEFINE step(f) == [n \in 0..Len(tids) |->
              IF n = 0 THEN <<>>
              ELSE f[n - 1] \o (IF tids[n] > after \/ tids[n] = Corrupt THEN <<tids[n]>>
                                ELSE <<>>)]
           g == CHOOSE f : f = step(f)
<1>1. Later(tids, after) = g[Len(tids)]
  BY Zenon DEF Later
<1>2. ASSUME NEW f PROVE Joins(f, LaterPieces(tids, after), Len(tids)) <=> f = step(f)
  <2>1. \A n \in 1..Len(tids) : LaterPieces(tids, after)[n] =
            IF tids[n] > after \/ tids[n] = Corrupt THEN <<tids[n]>> ELSE <<>>
    BY DEF LaterPieces
  <2>2. step(f) = [m \in 0..Len(tids) |-> IF m = 0 THEN <<>>
                                          ELSE f[m - 1] \o LaterPieces(tids, after)[m]]
    BY <2>1
  <2> HIDE DEF step
  <2> QED
    BY <2>2, Zenon DEF Joins
<1>3. \E f : Joins(f, LaterPieces(tids, after), Len(tids))
  BY JoinExists
<1> HIDE DEF step
<1>4. \E f : f = step(f)
  BY <1>2, <1>3
<1>5. g = step(g)
  BY <1>4
<1> HIDE DEF g
<1> QED
  BY <1>1, <1>2, <1>5

-----------------------------------------------------------------------------
(* Runs of TIDs. *)

LEMMA SameSequence ==
    ASSUME NEW S, NEW s \in Seq(S), NEW t \in Seq(S), Len(s) = Len(t),
           \A i \in 1..Len(s) : s[i] = t[i]
    PROVE  s = t
OBVIOUS

LEMMA ElementType ==
    ASSUME NEW S, NEW s \in Seq(S), NEW i \in 1..Len(s)
    PROVE  s[i] \in S
OBVIOUS

LEMMA ConcatType ==
    ASSUME NEW S, NEW s \in Seq(S), NEW t \in Seq(S)
    PROVE  s \o t \in Seq(S) /\ Len(s \o t) = Len(s) + Len(t)
OBVIOUS

LEMMA ConcatFirst ==
    ASSUME NEW S, NEW s \in Seq(S), NEW t \in Seq(S), NEW i \in 1..Len(s)
    PROVE  (s \o t)[i] = s[i]
OBVIOUS

LEMMA ConcatSecond ==
    ASSUME NEW S, NEW s \in Seq(S), NEW t \in Seq(S),
           NEW i \in 1..(Len(s) + Len(t)), i > Len(s)
    PROVE  (s \o t)[i] = t[i - Len(s)] /\ i - Len(s) \in 1..Len(t)
OBVIOUS

(* s is the n TIDs after a. *)
IsRun(s, a, n) == s \in Seq(Nat) /\ Len(s) = n /\ \A i \in 1..n : s[i] = a + i

LEMMA AfterIsRun ==
    ASSUME NEW a \in Nat, NEW b \in Nat, a <= b
    PROVE  IsRun(After(a, b), a, b - a)
<1>1. PICK n \in Nat : n = b - a
  OBVIOUS
<1>2. (IF b < a THEN 0 ELSE b - a) = n
  BY <1>1
<1>3. After(a, b) = [i \in 1..n |-> a + i]
  BY <1>2 DEF After
<1>4. [i \in 1..n |-> a + i] \in Seq(Nat) /\ Len([i \in 1..n |-> a + i]) = n
  OBVIOUS
<1>5. After(a, b) \in Seq(Nat) /\ Len(After(a, b)) = n
  BY <1>3, <1>4
<1>6. \A i \in 1..n : After(a, b)[i] = a + i
  BY <1>3
<1> QED
  BY <1>1, <1>5, <1>6 DEF IsRun

LEMMA RunIsAfter ==
    ASSUME NEW a \in Nat, NEW n \in Nat, NEW s, IsRun(s, a, n)
    PROVE  s = After(a, a + n)
<1>1. IsRun(After(a, a + n), a, n)
  <2>1. a + n \in Nat /\ a <= a + n /\ (a + n) - a = n
    OBVIOUS
  <2>2. IsRun(After(a, a + n), a, (a + n) - a)
    BY <2>1, AfterIsRun
  <2> QED
    BY <2>1, <2>2
<1> DEFINE r == After(a, a + n)
<1>2. r \in Seq(Nat) /\ Len(r) = n /\ \A i \in 1..n : r[i] = a + i
  BY <1>1 DEF IsRun
<1>3. s \in Seq(Nat) /\ Len(s) = n /\ \A i \in 1..n : s[i] = a + i
  BY DEF IsRun
<1> HIDE DEF r
<1>4. s = r
  BY <1>2, <1>3, SameSequence
<1> QED
  BY <1>4 DEF r

LEMMA AfterNothing ==
    ASSUME NEW a \in Nat, NEW b \in Nat, b <= a
    PROVE  After(a, b) = <<>>
<1>1. (IF b < a THEN 0 ELSE b - a) = 0
  OBVIOUS
<1>2. After(a, b) = [i \in 1..0 |-> a + i]
  BY <1>1 DEF After
<1> QED
  BY <1>2

LEMMA RunThenRun ==
    ASSUME NEW a \in Nat, NEW n \in Nat, NEW m \in Nat,
           NEW s, IsRun(s, a, n), NEW t, IsRun(t, a + n, m)
    PROVE  IsRun(s \o t, a, n + m)
<1>1. s \in Seq(Nat) /\ Len(s) = n /\ \A i \in 1..n : s[i] = a + i
  BY DEF IsRun
<1>2. t \in Seq(Nat) /\ Len(t) = m /\ \A i \in 1..m : t[i] = (a + n) + i
  BY DEF IsRun
<1>3. s \in Seq(Nat) /\ t \in Seq(Nat) /\ Len(s) = n /\ Len(t) = m
  BY <1>1, <1>2
<1>4. s \o t \in Seq(Nat) /\ Len(s \o t) = n + m
  <2>1. s \o t \in Seq(Nat) /\ Len(s \o t) = Len(s) + Len(t)
    BY <1>3, ConcatType
  <2> QED
    BY <2>1, <1>3
<1>5. ASSUME NEW i \in 1..(n + m) PROVE (s \o t)[i] = a + i
  <2>1. CASE i <= n
    <3>1. (s \o t)[i] = s[i] /\ i \in 1..n
      BY <2>1, <1>3, ConcatFirst
    <3> QED
      BY <3>1, <1>1
  <2>2. CASE i > n
    <3>1. (s \o t)[i] = t[i - n] /\ i - n \in 1..m
      BY <2>2, <1>3, ConcatSecond
    <3>2. t[i - n] = (a + n) + (i - n)
      BY <3>1, <1>2
    <3> QED
      BY <3>1, <3>2
  <2>3. i <= n \/ i > n
    OBVIOUS
  <2> QED
    BY <2>1, <2>2, <2>3, Zenon
<1> QED
  BY <1>4, <1>5 DEF IsRun

LEMMA AfterAfter ==
    ASSUME NEW a \in Nat, NEW b \in Nat, NEW c \in Nat, a <= b, b <= c
    PROVE  After(a, b) \o After(b, c) = After(a, c)
<1>1. PICK n \in Nat : b = a + n /\ n = b - a
  BY b - a \in Nat
<1>2. PICK m \in Nat : c = b + m /\ m = c - b
  BY c - b \in Nat
<1>3. IsRun(After(a, b), a, n)
  BY <1>1, AfterIsRun
<1>4. IsRun(After(b, c), a + n, m)
  BY <1>1, <1>2, AfterIsRun
<1>5. IsRun(After(a, b) \o After(b, c), a, n + m)
  BY <1>3, <1>4, RunThenRun
<1>6. n + m \in Nat /\ c = a + (n + m)
  BY <1>1, <1>2
<1> QED
  BY <1>5, <1>6, RunIsAfter

LEMMA AfterNext ==
    ASSUME NEW a \in Nat, NEW b \in Nat, a <= b
    PROVE  After(a, b) \o <<b + 1>> = After(a, b + 1)
<1>1. After(b, b + 1) = <<b + 1>>
  <2>1. IsRun(<<b + 1>>, b, 1)
    BY DEF IsRun
  <2> QED
    BY <2>1, RunIsAfter
<1>2. b + 1 \in Nat /\ b <= b + 1
  OBVIOUS
<1>3. After(a, b) \o After(b, b + 1) = After(a, b + 1)
  BY <1>2, AfterAfter
<1> QED
  BY <1>1, <1>3

(* A replay drops the deltas up to its cursor, and no other. *)
LEMMA LaterAfter ==
    ASSUME NEW e \in Nat, NEW t \in Nat, NEW a \in Nat, e <= t, t <= a
    PROVE  Later(After(e, a), t) = After(t, a)
<1> DEFINE s == After(e, a)
<1>1. s \in Seq(Nat) /\ Len(s) = a - e /\ \A i \in 1..(a - e) : s[i] = e + i
  <2>1. IsRun(After(e, a), e, a - e)
    BY AfterIsRun
  <2> QED
    BY <2>1 DEF IsRun
<1> HIDE DEF s
<1>2. Len(s) \in Nat
  BY <1>1
<1>3. PICK f : Joins(f, LaterPieces(s, t), Len(s)) /\ Later(s, t) = f[Len(s)]
  BY <1>2, LaterJoins
<1>4. f[0] = <<>> /\ \A m \in 1..Len(s) : f[m] = f[m - 1] \o LaterPieces(s, t)[m]
  BY <1>2, <1>3, JoinStages
<1> DEFINE T == {m \in 0..Len(s) : f[m] = After(t, e + m)}
<1>5. 0 \in T
  <2>1. After(t, e + 0) = <<>>
    BY AfterNothing
  <2> QED
    BY <2>1, <1>4, <1>2
<1>6. ASSUME NEW m \in 1..Len(s), m - 1 \in T
      PROVE  m \in T
  <2>1. LaterPieces(s, t)[m] = IF e + m > t \/ e + m = 0 THEN <<e + m>> ELSE <<>>
    BY <1>1, <1>2 DEF LaterPieces, Corrupt
  <2>2. f[m] = After(t, e + (m - 1)) \o LaterPieces(s, t)[m]
    BY <1>4, <1>6
  <2>3. m \in Nat /\ m - 1 \in Nat /\ m \in 0..Len(s) /\ e + (m - 1) \in Nat /\ e + m \in Nat
    BY <1>2
  <2>4. CASE e + m > t
    <3>1. t <= e + (m - 1) /\ e + (m - 1) + 1 = e + m
      BY <2>4, <2>3
    <3>2. After(t, e + (m - 1)) \o <<(e + (m - 1)) + 1>> = After(t, (e + (m - 1)) + 1)
      BY <3>1, <2>3, AfterNext
    <3>3. f[m] = After(t, e + m)
      BY <2>1, <2>2, <2>4, <3>1, <3>2
    <3> QED
      BY <3>3, <2>3
  <2>5. CASE ~(e + m > t)
    <3>1. LaterPieces(s, t)[m] = <<>>
      BY <2>1, <2>3, <2>5
    <3>2. After(t, e + (m - 1)) = <<>> /\ After(t, e + m) = <<>>
      BY <2>3, <2>5, AfterNothing
    <3>3. f[m] = After(t, e + m)
      BY <2>2, <3>1, <3>2
    <3> QED
      BY <3>3, <2>3
  <2> QED
    BY <2>4, <2>5
<1> HIDE DEF T
<1>7. \A m \in 0..Len(s) : m \in T
  BY <1>2, <1>5, <1>6, Climb
<1>8. Len(s) \in T
  BY <1>2, <1>7
<1>9. f[Len(s)] = After(t, e + Len(s)) /\ e + Len(s) = a
  BY <1>1, <1>8 DEF T
<1> QED
  BY <1>3, <1>9 DEF s

-----------------------------------------------------------------------------
(* Segments that follow one another. *)

LEMMA SegmentType ==
    ASSUME NEW sg \in Seq(Segments), NEW i \in 1..Len(sg)
    PROVE  /\ sg[i] \in Segments
           /\ sg[i].no \in SegNos
           /\ sg[i].first \in Nat /\ sg[i].last \in Nat /\ sg[i].last <= MaxTid
           /\ sg[i].nbytes \in Nat
<1>1. sg[i] \in Segments
  OBVIOUS
<1> QED
  BY <1>1, DeltaLogConstants DEF Segments

(* The TID the first m segments end with. *)
EndOf(sg, g, m) == IF m = 0 THEN g ELSE sg[m].last

LEMMA ChainStep ==
    ASSUME NEW fs, NEW sg \in Seq(Segments), NEW g \in Nat, NEW w, Chain(fs, sg, g, w),
           NEW m \in 1..Len(sg)
    PROVE  /\ EndOf(sg, g, m - 1) \in Nat /\ EndOf(sg, g, m) = sg[m].last
           /\ sg[m].last \in Nat
           /\ sg[m].first = EndOf(sg, g, m - 1) + 1
           /\ EndOf(sg, g, m - 1) < sg[m].last
           /\ sg[m].nbytes = 2 * (sg[m].last - EndOf(sg, g, m - 1))
           /\ Frames(Committed(fs, sg[m])) = After(EndOf(sg, g, m - 1), sg[m].last)
<1>1. EndOf(sg, g, m) = sg[m].last
  BY DEF EndOf
<1>2. EndOf(sg, g, m - 1) \in Nat
  <2>1. CASE m = 1
    BY <2>1 DEF EndOf
  <2>2. CASE m # 1
    <3>1. m - 1 \in 1..Len(sg) /\ m - 1 # 0
      BY <2>2
    <3>2. sg[m - 1].last \in Nat
      BY <3>1, SegmentType
    <3> QED
      BY <3>1, <3>2 DEF EndOf
  <2> QED
    BY <2>1, <2>2
<1>3. sg[m].first = EndOf(sg, g, m - 1) + 1
  <2>1. sg[m].first = (IF m = 1 THEN g ELSE sg[m - 1].last) + 1
    BY DEF Chain
  <2>2. EndOf(sg, g, m - 1) = IF m = 1 THEN g ELSE sg[m - 1].last
    BY DEF EndOf
  <2> QED
    BY <2>1, <2>2
<1>4. Holds(fs, sg[m])
  BY DEF Chain
<1>5. sg[m].last \in Nat /\ sg[m].first \in Nat
  BY SegmentType
<1>6. /\ sg[m].first <= sg[m].last
      /\ sg[m].nbytes = 2 * (sg[m].last - sg[m].first + 1)
      /\ Frames(Committed(fs, sg[m])) = After(sg[m].first - 1, sg[m].last)
  BY <1>4 DEF Holds
<1>7. sg[m].first - 1 = EndOf(sg, g, m - 1)
  BY <1>2, <1>3
<1>8. EndOf(sg, g, m - 1) < sg[m].last
  BY <1>2, <1>3, <1>5, <1>6
<1>9. sg[m].nbytes = 2 * (sg[m].last - EndOf(sg, g, m - 1))
  BY <1>2, <1>3, <1>5, <1>6
<1>10. Frames(Committed(fs, sg[m])) = After(EndOf(sg, g, m - 1), sg[m].last)
  BY <1>6, <1>7
<1> QED
  BY <1>1, <1>2, <1>3, <1>5, <1>8, <1>9, <1>10

LEMMA ChainEnd ==
    ASSUME NEW fs, NEW sg \in Seq(Segments), NEW g \in Nat, NEW w, Chain(fs, sg, g, w)
    PROVE  w = EndOf(sg, g, Len(sg)) /\ w \in Nat
<1>1. w = IF sg = <<>> THEN g ELSE sg[Len(sg)].last
  BY DEF Chain
<1>2. CASE sg = <<>>
  BY <1>1, <1>2 DEF EndOf
<1>3. CASE sg # <<>>
  <2>1. Len(sg) \in 1..Len(sg) /\ Len(sg) # 0
    BY <1>3
  <2>2. sg[Len(sg)].last \in Nat
    BY <2>1, SegmentType
  <2> QED
    BY <1>1, <1>3, <2>1, <2>2 DEF EndOf
<1> QED
  BY <1>2, <1>3

(* The segments behind a cursor end before it, and what is read of the rest *)
(* begins no later than it.                                                 *)
FromCursor(s, b, t) ==
    IF b <= t THEN s = <<>> ELSE \E e \in Nat : e <= t /\ s = After(e, b)

LEMMA ChainFramed ==
    ASSUME NEW fs, NEW sg \in Seq(Segments), NEW g \in Nat, NEW w, Chain(fs, sg, g, w),
           NEW t \in Nat, g <= t
    PROVE  FromCursor(Framed(fs, sg, t), w, t)
<1>1. Len(sg) \in Nat
  OBVIOUS
<1>2. PICK f : Joins(f, SegPieces(fs, sg, t), Len(sg)) /\ Framed(fs, sg, t) = f[Len(sg)]
  BY <1>1, FramedJoins
<1>3. f[0] = <<>> /\ \A m \in 1..Len(sg) : f[m] = f[m - 1] \o SegPieces(fs, sg, t)[m]
  BY <1>1, <1>2, JoinStages
<1> DEFINE T == {m \in 0..Len(sg) : FromCursor(f[m], EndOf(sg, g, m), t)}
<1>4. 0 \in T
  BY <1>1, <1>3 DEF FromCursor, EndOf
<1>5. ASSUME NEW m \in 1..Len(sg), m - 1 \in T
      PROVE  m \in T
  <2> DEFINE b == EndOf(sg, g, m - 1)
  <2>1. b \in Nat /\ EndOf(sg, g, m) = sg[m].last /\ sg[m].last \in Nat /\ b < sg[m].last
        /\ Frames(Committed(fs, sg[m])) = After(b, sg[m].last)
    BY ChainStep
  <2>2. FromCursor(f[m - 1], b, t)
    BY <1>5
  <2> HIDE DEF b
  <2>3. f[m] = f[m - 1] \o (IF sg[m].last > t THEN After(b, sg[m].last) ELSE <<>>)
    BY <1>3, <2>1 DEF SegPieces
  <2>4. FromCursor(f[m], sg[m].last, t)
    <3>1. CASE sg[m].last <= t
      <4>1. f[m - 1] = <<>>
        BY <2>1, <2>2, <3>1 DEF FromCursor
      <4>2. f[m] = <<>>
        BY <2>1, <2>3, <3>1, <4>1
      <4> QED
        BY <3>1, <4>2 DEF FromCursor
    <3>2. CASE ~(sg[m].last <= t) /\ b <= t
      <4>1. f[m - 1] = <<>>
        BY <2>2, <3>2 DEF FromCursor
      <4>2. f[m] = <<>> \o After(b, sg[m].last)
        BY <2>1, <2>3, <3>2, <4>1
      <4>3. After(b, sg[m].last) \in Seq(Nat)
        <5>1. b <= sg[m].last
          BY <2>1
        <5>2. IsRun(After(b, sg[m].last), b, sg[m].last - b)
          BY <2>1, <5>1, AfterIsRun
        <5> QED
          BY <5>2 DEF IsRun
      <4>4. f[m] = After(b, sg[m].last)
        BY <4>2, <4>3
      <4> QED
        BY <2>1, <3>2, <4>4 DEF FromCursor
    <3>3. CASE ~(b <= t)
      <4>1. PICK e \in Nat : e <= t /\ f[m - 1] = After(e, b)
        BY <2>2, <3>3 DEF FromCursor
      <4>2. f[m] = After(e, b) \o After(b, sg[m].last)
        BY <2>1, <2>3, <3>3, <4>1, SMTT(30)
      <4>3. After(e, b) \o After(b, sg[m].last) = After(e, sg[m].last)
        <5>1. e <= b /\ b <= sg[m].last
          BY <2>1, <3>3, <4>1
        <5> QED
          BY <2>1, <5>1, AfterAfter
      <4>4. ~(sg[m].last <= t)
        BY <2>1, <3>3
      <4> QED
        BY <4>1, <4>2, <4>3, <4>4 DEF FromCursor
    <3> QED
      BY <3>1, <3>2, <3>3
  <2> QED
    BY <2>1, <2>4, <1>1
<1> HIDE DEF T
<1>6. \A m \in 0..Len(sg) : m \in T
  BY <1>1, <1>4, <1>5, Climb
<1>7. Len(sg) \in T
  BY <1>1, <1>6
<1>8. FromCursor(f[Len(sg)], EndOf(sg, g, Len(sg)), t)
  BY <1>7 DEF T
<1>9. w = EndOf(sg, g, Len(sg))
  BY ChainEnd
<1> QED
  BY <1>2, <1>8, <1>9

(* A replay of a chain and of the buffer that follows it is the run of the   *)
(* TIDs after the cursor.                                                    *)
LEMMA ChainReplay ==
    ASSUME NEW fs, NEW sg \in Seq(Segments), NEW g \in Nat, NEW w, Chain(fs, sg, g, w),
           NEW t \in Nat, g <= t, NEW a \in Nat, w <= a, t <= a
    PROVE  Replay(fs, sg, After(w, a), t) = After(t, a)
<1>1. w \in Nat
  BY ChainEnd
<1>2. FromCursor(Framed(fs, sg, t), w, t)
  BY ChainFramed
<1>3. CASE w <= t
  <2>1. Framed(fs, sg, t) = <<>>
    BY <1>2, <1>3 DEF FromCursor
  <2>2. After(w, a) \in Seq(Nat)
    BY <1>1, AfterIsRun DEF IsRun
  <2>3. Framed(fs, sg, t) \o After(w, a) = After(w, a)
    BY <2>1, <2>2
  <2>4. Later(After(w, a), t) = After(t, a)
    BY <1>1, <1>3, LaterAfter
  <2> QED
    BY <2>3, <2>4 DEF Replay
<1>4. CASE ~(w <= t)
  <2>1. PICK e \in Nat : e <= t /\ Framed(fs, sg, t) = After(e, w)
    BY <1>2, <1>4 DEF FromCursor
  <2>2. e <= w
    BY <1>1, <1>4, <2>1
  <2>3. After(e, w) \o After(w, a) = After(e, a)
    BY <1>1, <2>2, AfterAfter
  <2>4. Later(After(e, a), t) = After(t, a)
    BY <2>1, LaterAfter
  <2> QED
    BY <2>1, <2>3, <2>4 DEF Replay
<1> QED
  BY <1>3, <1>4

-----------------------------------------------------------------------------
(* Cells and frames. *)

Tid == 0..MaxTid

Files(fs) == \A n \in SegNos : fs[n] = NoFile \/ fs[n] \in Seq(Cell)

LEMMA CellsType ==
    ASSUME NEW b \in Seq(1..MaxTid)
    PROVE  Cells(b) \in Seq(Cell) /\ Len(Cells(b)) = 2 * Len(b)
<1>1. PICK n \in Nat : n = 2 * Len(b)
  OBVIOUS
<1>2. Cells(b) = [i \in 1..n |-> <<b[(i + 1) \div 2], (i + 1) % 2>>]
  BY <1>1 DEF Cells
<1>3. ASSUME NEW i \in 1..n PROVE <<b[(i + 1) \div 2], (i + 1) % 2>> \in Cell
  <2>1. (i + 1) \div 2 \in 1..Len(b) /\ (i + 1) % 2 \in {0, 1}
    BY <1>1
  <2>2. ASSUME NEW j \in 1..Len(b) PROVE b[j] \in 1..MaxTid
    BY ElementType
  <2>3. ASSUME NEW x \in 1..MaxTid, NEW y \in {0, 1} PROVE <<x, y>> \in Cell
    BY DEF Cell
  <2> QED
    BY <2>1, <2>2, <2>3, Zenon
<1>4. Cells(b) \in [1..n -> Cell]
  BY <1>2, <1>3
<1> QED
  BY <1>1, <1>4

LEMMA CellsOf ==
    ASSUME NEW b \in Seq(1..MaxTid), NEW j \in 1..Len(b)
    PROVE  Cells(b)[2 * j - 1] = <<b[j], 0>> /\ Cells(b)[2 * j] = <<b[j], 1>>
<1>1. 2 * j - 1 \in 1..(2 * Len(b)) /\ 2 * j \in 1..(2 * Len(b))
  OBVIOUS
<1>2. ((2 * j - 1) + 1) \div 2 = j /\ ((2 * j - 1) + 1) % 2 = 0
  OBVIOUS
<1>3. (2 * j + 1) \div 2 = j /\ (2 * j + 1) % 2 = 1
  OBVIOUS
<1> QED
  BY <1>1, <1>2, <1>3 DEF Cells

(* What the i-th frame is read from. *)
FrameAt(c, d) == IF c = <<c[1], 0>> /\ d = <<c[1], 1>> THEN c[1] ELSE Corrupt

LEMMA FramesType ==
    ASSUME NEW c \in Seq(Cell)
    PROVE  /\ Frames(c) \in Seq(Tid)
           /\ Len(Frames(c)) = Len(c) \div 2
<1>1. PICK n \in Nat : n = Len(c) \div 2
  OBVIOUS
<1>2. Frames(c) = [i \in 1..n |-> FrameAt(c[2 * i - 1], c[2 * i])]
  BY <1>1, Zenon DEF Frames, FrameAt
<1>3. ASSUME NEW i \in 1..n PROVE FrameAt(c[2 * i - 1], c[2 * i]) \in Tid
  <2>1. 2 * i - 1 \in 1..Len(c)
    BY <1>1
  <2>2. c[2 * i - 1] \in Cell
    BY <2>1
  <2>3. c[2 * i - 1][1] \in 1..MaxTid
    BY <2>2 DEF Cell
  <2> QED
    BY <2>3, DeltaLogConstants DEF FrameAt, Tid, Corrupt
<1>4. Frames(c) \in [1..n -> Tid]
  BY <1>2, <1>3
<1> QED
  BY <1>1, <1>4

LEMMA FramesOf ==
    ASSUME NEW c \in Seq(Cell), NEW i \in 1..(Len(c) \div 2)
    PROVE  Frames(c)[i] = FrameAt(c[2 * i - 1], c[2 * i])
BY Zenon DEF Frames, FrameAt

(* The first of two sequences is how the second starts. *)
Starts(s, t) == Len(s) <= Len(t) /\ \A i \in 1..Len(s) : s[i] = t[i]

LEMMA StartsIsPrefix ==
    ASSUME NEW S, NEW s \in Seq(S), NEW t \in Seq(S), Starts(s, t)
    PROVE  IsPrefix(s, t)
<1>1. Len(s) <= Len(t) /\ \A i \in 1..Len(s) : s[i] = t[i]
  BY DEF Starts
<1>2. SubSeq(s, 1, Len(s)) = SubSeq(t, 1, Len(s))
  BY <1>1
<1> QED
  BY <1>1, <1>2 DEF IsPrefix

LEMMA StartsSelf == ASSUME NEW S, NEW s \in Seq(S) PROVE Starts(s, s)
BY DEF Starts

LEMMA StartsConcat ==
    ASSUME NEW S, NEW r \in Seq(S), NEW s \in Seq(S), NEW t \in Seq(S), Starts(r, s)
    PROVE  Starts(r, s \o t)
<1>1. s \o t \in Seq(S) /\ Len(s \o t) = Len(s) + Len(t)
  BY ConcatType
<1>2. \A i \in 1..Len(s) : (s \o t)[i] = s[i]
  BY ConcatFirst
<1> QED
  BY <1>1, <1>2 DEF Starts

LEMMA ConcatStarts ==
    ASSUME NEW S, NEW r \in Seq(S), NEW s \in Seq(S), NEW t \in Seq(S), Starts(s, t)
    PROVE  Starts(r \o s, r \o t)
<1>1. r \o s \in Seq(S) /\ Len(r \o s) = Len(r) + Len(s)
  BY ConcatType
<1>2. r \o t \in Seq(S) /\ Len(r \o t) = Len(r) + Len(t)
  BY ConcatType
<1>3. Len(s) <= Len(t) /\ \A i \in 1..Len(s) : s[i] = t[i]
  BY DEF Starts
<1>4. ASSUME NEW i \in 1..Len(r \o s) PROVE (r \o s)[i] = (r \o t)[i]
  <2>1. i \in 1..(Len(r) + Len(s)) /\ i \in 1..(Len(r) + Len(t))
    BY <1>1, <1>3
  <2>2. CASE i <= Len(r)
    <3>1. i \in 1..Len(r)
      BY <2>1, <2>2
    <3>2. (r \o s)[i] = r[i]
      BY <3>1, ConcatFirst
    <3>3. (r \o t)[i] = r[i]
      BY <3>1, ConcatFirst
    <3> QED
      BY <3>2, <3>3
  <2>3. CASE i > Len(r)
    <3>1. (r \o s)[i] = s[i - Len(r)] /\ i - Len(r) \in 1..Len(s)
      BY <2>1, <2>3, ConcatSecond
    <3>2. (r \o t)[i] = t[i - Len(r)]
      BY <2>1, <2>3, ConcatSecond
    <3> QED
      BY <3>1, <3>2, <1>3
  <2>4. i <= Len(r) \/ i > Len(r)
    BY <2>1
  <2> QED
    BY <2>2, <2>3, <2>4, Zenon
<1> QED
  BY <1>1, <1>2, <1>3, <1>4 DEF Starts

LEMMA FramesStart ==
    ASSUME NEW c \in Seq(Cell), NEW d \in Seq(Cell), Starts(c, d)
    PROVE  Starts(Frames(c), Frames(d))
<1>1. Len(c) <= Len(d) /\ \A i \in 1..Len(c) : c[i] = d[i]
  BY DEF Starts
<1>2. Len(Frames(c)) = Len(c) \div 2 /\ Len(Frames(d)) = Len(d) \div 2
  BY FramesType
<1>3. Len(c) \div 2 <= Len(d) \div 2
  BY <1>1
<1>4. ASSUME NEW i \in 1..(Len(c) \div 2) PROVE Frames(c)[i] = Frames(d)[i]
  <2>1. i \in 1..(Len(d) \div 2)
    BY <1>3
  <2>2. 2 * i - 1 \in 1..Len(c) /\ 2 * i \in 1..Len(c)
    OBVIOUS
  <2>3. c[2 * i - 1] = d[2 * i - 1] /\ c[2 * i] = d[2 * i]
    BY <2>2, <1>1
  <2>4. Frames(c)[i] = FrameAt(c[2 * i - 1], c[2 * i])
    BY FramesOf
  <2>5. Frames(d)[i] = FrameAt(d[2 * i - 1], d[2 * i])
    BY <2>1, FramesOf
  <2> QED
    BY <2>3, <2>4, <2>5
<1> QED
  BY <1>2, <1>3, <1>4 DEF Starts

(* Whole frames followed by those of more deltas. *)
LEMMA FramesAppend ==
    ASSUME NEW c \in Seq(Cell), NEW k \in Nat, Len(c) = 2 * k, NEW b \in Seq(1..MaxTid)
    PROVE  Frames(c \o Cells(b)) = Frames(c) \o b
<1> DEFINE d == c \o Cells(b)
<1>1. Cells(b) \in Seq(Cell) /\ Len(Cells(b)) = 2 * Len(b)
  BY CellsType
<1>2. d \in Seq(Cell) /\ Len(d) = 2 * k + 2 * Len(b)
  <2>1. d \in Seq(Cell) /\ Len(d) = Len(c) + Len(Cells(b))
    BY <1>1, ConcatType
  <2> QED
    BY <2>1, <1>1
<1>3. Frames(c) \in Seq(Tid) /\ Len(Frames(c)) = k
  BY FramesType
<1>4. Len(b) \in Nat
  OBVIOUS
<1>5. Frames(d) \in Seq(Tid) /\ Len(Frames(d)) = k + Len(b)
  <2>1. Len(d) \div 2 = k + Len(b)
    BY <1>2, <1>4, SMTT(30)
  <2> QED
    BY <1>2, <2>1, FramesType
<1>6. b \in Seq(Tid)
  BY DeltaLogConstants DEF Tid
<1>7. Frames(c) \o b \in Seq(Tid) /\ Len(Frames(c) \o b) = k + Len(b)
  <2>1. Frames(c) \o b \in Seq(Tid) /\ Len(Frames(c) \o b) = Len(Frames(c)) + Len(b)
    BY <1>3, <1>6, ConcatType
  <2> QED
    BY <2>1, <1>3
<1>8. ASSUME NEW i \in 1..(k + Len(b)) PROVE Frames(d)[i] = (Frames(c) \o b)[i]
  <2>0. i \in 1..(Len(d) \div 2) /\ (i <= k \/ i > k)
    BY <1>2, <1>4
  <2>1. Frames(d)[i] = FrameAt(d[2 * i - 1], d[2 * i])
    BY <2>0, <1>2, FramesOf
  <2>2. CASE i <= k
    <3>1. i \in 1..(Len(c) \div 2) /\ 2 * i - 1 \in 1..Len(c) /\ 2 * i \in 1..Len(c)
      BY <2>2
    <3>2. d[2 * i - 1] = c[2 * i - 1] /\ d[2 * i] = c[2 * i]
      BY <3>1, <1>1, ConcatFirst
    <3>3. Frames(c)[i] = FrameAt(c[2 * i - 1], c[2 * i])
      BY <3>1, FramesOf
    <3>4. (Frames(c) \o b)[i] = Frames(c)[i]
      BY <3>1, <2>2, <1>3, <1>6, ConcatFirst
    <3> QED
      BY <2>1, <3>2, <3>3, <3>4
  <2>3. CASE i > k
    <3>1. PICK j \in 1..Len(b) : i = k + j
      BY <2>3, <1>4, i - k \in 1..Len(b)
    <3>2. Cells(b)[2 * j - 1] = <<b[j], 0>> /\ Cells(b)[2 * j] = <<b[j], 1>>
      BY CellsOf
    <3>3. d[2 * i - 1] = Cells(b)[2 * j - 1]
      <4>1. 2 * i - 1 \in 1..(Len(c) + Len(Cells(b))) /\ 2 * i - 1 > Len(c)
            /\ (2 * i - 1) - Len(c) = 2 * j - 1
        BY <3>1, <1>1, <1>4
      <4> QED
        BY <4>1, <1>1, ConcatSecond
    <3>4. d[2 * i] = Cells(b)[2 * j]
      <4>1. 2 * i \in 1..(Len(c) + Len(Cells(b))) /\ 2 * i > Len(c)
            /\ 2 * i - Len(c) = 2 * j
        BY <3>1, <1>1, <1>4
      <4> QED
        BY <4>1, <1>1, ConcatSecond
    <3>5. Frames(d)[i] = b[j]
      <4>1. Frames(d)[i] = FrameAt(<<b[j], 0>>, <<b[j], 1>>)
        BY <2>1, <3>2, <3>3, <3>4
      <4> QED
        BY <4>1 DEF FrameAt
    <3>6. (Frames(c) \o b)[i] = b[j]
      <4>1. i \in 1..(Len(Frames(c)) + Len(b)) /\ i > Len(Frames(c)) /\ i - Len(Frames(c)) = j
        BY <3>1, <1>3, <1>4
      <4> QED
        BY <4>1, <1>3, <1>6, ConcatSecond
    <3> QED
      BY <3>5, <3>6
  <2> QED
    BY <2>0, <2>2, <2>3, Zenon
<1> HIDE DEF d
<1>9. Frames(d) = Frames(c) \o b
  <2> DEFINE x == Frames(d)
             y == Frames(c) \o b
  <2>1. x \in Seq(Tid) /\ y \in Seq(Tid) /\ Len(x) = Len(y) /\ Len(x) = k + Len(b)
    BY <1>5, <1>7
  <2>2. \A i \in 1..Len(x) : x[i] = y[i]
    BY <1>8, <2>1
  <2> HIDE DEF x, y
  <2>3. x = y
    BY <2>1, <2>2, SameSequence
  <2> QED
    BY <2>3 DEF x, y
<1> QED
  BY <1>9 DEF d

LEMMA ContentType ==
    ASSUME NEW fs, Files(fs), NEW n \in SegNos
    PROVE  Content(fs, n) \in Seq(Cell)
<1>1. fs[n] = NoFile \/ fs[n] \in Seq(Cell)
  BY DEF Files
<1>2. <<>> \in Seq(Cell)
  OBVIOUS
<1> QED
  BY <1>1, <1>2, Zenon DEF Content

(* The cells of a segment that has no more than its file. *)
LEMMA CommittedCells ==
    ASSUME NEW fs, Files(fs), NEW seg \in Segments, seg.nbytes <= Len(Content(fs, seg.no))
    PROVE  /\ Committed(fs, seg) \in Seq(Cell)
           /\ Len(Committed(fs, seg)) = seg.nbytes
           /\ \A i \in 1..seg.nbytes : Committed(fs, seg)[i] = Content(fs, seg.no)[i]
<1>1. seg.no \in SegNos /\ seg.nbytes \in Nat
  BY DEF Segments
<1>2. PICK c : c = Content(fs, seg.no)
  OBVIOUS
<1>3. c \in Seq(Cell) /\ seg.nbytes <= Len(c)
  BY <1>1, <1>2, ContentType
<1>4. SubSeq(c, 1, seg.nbytes) \in Seq(Cell)
  BY <1>1, <1>3
<1>5. Len(SubSeq(c, 1, seg.nbytes)) = seg.nbytes
  BY <1>1, <1>3
<1>6. \A i \in 1..seg.nbytes : SubSeq(c, 1, seg.nbytes)[i] = c[i]
  BY <1>1, <1>3
<1> QED
  BY <1>2, <1>4, <1>5, <1>6 DEF Committed

-----------------------------------------------------------------------------
(* What a longer record starts with. *)

LEMMA StartsLonger ==
    ASSUME NEW S, NEW r \in Seq(S), NEW s \in Seq(S), NEW t \in Seq(S),
           Starts(r, s), Starts(s, t)
    PROVE  Starts(r, t)
<1>1. Len(r) <= Len(s) /\ \A i \in 1..Len(r) : r[i] = s[i]
  BY DEF Starts
<1>2. Len(s) <= Len(t) /\ \A i \in 1..Len(s) : s[i] = t[i]
  BY DEF Starts
<1> QED
  BY <1>1, <1>2 DEF Starts

(* Pieces that are the same, but for the last, which starts the other one, and *)
(* more of them.                                                               *)
LEMMA JoinsStart ==
    ASSUME NEW S, NEW P, NEW Q, NEW n \in Nat, NEW m \in Nat, n <= m,
           NEW f, Joins(f, P, n), NEW h, Joins(h, Q, m),
           \A i \in 1..n : P[i] \in Seq(S), \A i \in 1..m : Q[i] \in Seq(S),
           \A i \in 1..n : i < n => P[i] = Q[i], n # 0 => Starts(P[n], Q[n])
    PROVE  Starts(f[n], h[m])
<1>1. f[0] = <<>> /\ \A i \in 1..n : f[i] = f[i - 1] \o P[i]
  BY JoinStages
<1>2. h[0] = <<>> /\ \A i \in 1..m : h[i] = h[i - 1] \o Q[i]
  BY JoinStages
<1>3. \A i \in 0..n : f[i] \in Seq(S)
  BY JoinType
<1>4. \A i \in 0..m : h[i] \in Seq(S)
  BY JoinType
<1>5. \A i \in 0..n : i < n => f[i] = h[i]
  <2> DEFINE T == {i \in 0..n : i < n => f[i] = h[i]}
  <2>1. 0 \in T
    BY <1>1, <1>2
  <2>2. ASSUME NEW i \in 1..n, i - 1 \in T PROVE i \in T
    <3>1. i - 1 < n /\ i \in 1..m
      OBVIOUS
    <3>2. f[i - 1] = h[i - 1]
      BY <2>2, <3>1
    <3>3. i < n => f[i] = h[i]
      BY <1>1, <1>2, <3>1, <3>2
    <3> QED
      BY <3>3
  <2> HIDE DEF T
  <2>3. \A i \in 0..n : i \in T
    BY <2>1, <2>2, Climb
  <2> QED
    BY <2>3 DEF T
<1>6. Starts(f[n], h[n])
  <2>1. CASE n = 0
    BY <2>1, <1>1, <1>2, <1>3, StartsSelf
  <2>2. CASE n # 0
    <3>1. n \in 1..n /\ n \in 1..m /\ n - 1 \in 0..n /\ n - 1 < n
      BY <2>2
    <3>2. f[n - 1] = h[n - 1] /\ f[n - 1] \in Seq(S)
      BY <3>1, <1>5, <1>3
    <3>3. f[n] = f[n - 1] \o P[n] /\ h[n] = f[n - 1] \o Q[n]
      BY <3>1, <3>2, <1>1, <1>2
    <3>4. P[n] \in Seq(S) /\ Q[n] \in Seq(S) /\ Starts(P[n], Q[n])
      BY <3>1, <2>2
    <3>5. Starts(f[n - 1] \o P[n], f[n - 1] \o Q[n])
      BY <3>2, <3>4, ConcatStarts
    <3> QED
      BY <3>3, <3>5
  <2> QED
    BY <2>1, <2>2
<1>7. f[n] \in Seq(S)
  BY <1>3
<1> DEFINE U == {i \in 0..m : n <= i => Starts(f[n], h[i])}
<1>8. 0 \in U
  BY <1>6
<1>9. ASSUME NEW i \in 1..m, i - 1 \in U PROVE i \in U
  <2>1. CASE i <= n
    <3>1. n <= i => i = n
      BY <2>1
    <3> QED
      BY <3>1, <1>6
  <2>2. CASE ~(i <= n)
    <3>1. i - 1 \in 0..m /\ n <= i - 1 /\ i \in 0..m
      BY <2>2
    <3>2. Starts(f[n], h[i - 1])
      BY <3>1, <1>9
    <3>3. h[i - 1] \in Seq(S) /\ Q[i] \in Seq(S) /\ h[i] = h[i - 1] \o Q[i]
      BY <3>1, <1>2, <1>4
    <3>4. Starts(f[n], h[i - 1] \o Q[i])
      BY <3>2, <3>3, <1>7, StartsConcat
    <3> QED
      BY <3>1, <3>3, <3>4
  <2> QED
    BY <2>1, <2>2
<1> HIDE DEF U
<1>10. \A i \in 0..m : i \in U
  BY <1>8, <1>9, Climb
<1>11. m \in U
  BY <1>10
<1> QED
  BY <1>11 DEF U

LEMMA LaterType ==
    ASSUME NEW s \in Seq(Tid), NEW c
    PROVE  \A i \in 1..Len(s) : LaterPieces(s, c)[i] \in Seq(Tid)
<1>1. ASSUME NEW i \in 1..Len(s) PROVE LaterPieces(s, c)[i] \in Seq(Tid)
  <2>1. s[i] \in Tid
    BY ElementType
  <2>2. <<s[i]>> \in Seq(Tid) /\ <<>> \in Seq(Tid)
    BY <2>1
  <2> QED
    BY <2>2, Zenon DEF LaterPieces
<1> QED
  BY <1>1

LEMMA LaterStarts ==
    ASSUME NEW s \in Seq(Tid), NEW t \in Seq(Tid), Starts(s, t), NEW c
    PROVE  /\ Starts(Later(s, c), Later(t, c))
           /\ Later(s, c) \in Seq(Tid) /\ Later(t, c) \in Seq(Tid)
<1>1. Len(s) \in Nat /\ Len(t) \in Nat
  OBVIOUS
<1>2. Len(s) <= Len(t) /\ \A i \in 1..Len(s) : s[i] = t[i]
  BY DEF Starts
<1>3. PICK f : Joins(f, LaterPieces(s, c), Len(s)) /\ Later(s, c) = f[Len(s)]
  BY <1>1, LaterJoins
<1>4. PICK h : Joins(h, LaterPieces(t, c), Len(t)) /\ Later(t, c) = h[Len(t)]
  BY <1>1, LaterJoins
<1>5. \A i \in 1..Len(s) : LaterPieces(s, c)[i] \in Seq(Tid)
  BY LaterType
<1>6. \A i \in 1..Len(t) : LaterPieces(t, c)[i] \in Seq(Tid)
  BY LaterType
<1>7. ASSUME NEW i \in 1..Len(s) PROVE LaterPieces(s, c)[i] = LaterPieces(t, c)[i]
  <2>1. i \in 1..Len(t) /\ s[i] = t[i]
    BY <1>1, <1>2
  <2> QED
    BY <2>1, Zenon DEF LaterPieces
<1>8. Len(s) # 0 => Starts(LaterPieces(s, c)[Len(s)], LaterPieces(t, c)[Len(s)])
  <2> SUFFICES ASSUME Len(s) # 0
               PROVE  Starts(LaterPieces(s, c)[Len(s)], LaterPieces(t, c)[Len(s)])
    OBVIOUS
  <2>1. Len(s) \in 1..Len(s)
    BY <1>1
  <2>2. LaterPieces(s, c)[Len(s)] = LaterPieces(t, c)[Len(s)]
    BY <2>1, <1>7
  <2>3. LaterPieces(s, c)[Len(s)] \in Seq(Tid)
    BY <2>1, <1>5
  <2> QED
    BY <2>2, <2>3, StartsSelf
<1>9. Starts(f[Len(s)], h[Len(t)])
  <2>1. \A i \in 1..Len(s) : i < Len(s) => LaterPieces(s, c)[i] = LaterPieces(t, c)[i]
    BY <1>7
  <2>2. PICK P : P = LaterPieces(s, c)
    OBVIOUS
  <2>3. PICK Q : Q = LaterPieces(t, c)
    OBVIOUS
  <2>4. PICK n \in Nat : n = Len(s)
    BY <1>1
  <2>5. PICK m \in Nat : m = Len(t)
    BY <1>1
  <2>6. Joins(f, P, n) /\ Joins(h, Q, m) /\ n <= m
    BY <1>2, <1>3, <1>4, <2>2, <2>3, <2>4, <2>5
  <2>7. (\A i \in 1..n : P[i] \in Seq(Tid)) /\ (\A i \in 1..m : Q[i] \in Seq(Tid))
    BY <1>5, <1>6, <2>2, <2>3, <2>4, <2>5
  <2>8. (\A i \in 1..n : i < n => P[i] = Q[i]) /\ (n # 0 => Starts(P[n], Q[n]))
    BY <2>1, <1>8, <2>2, <2>3, <2>4
  <2>9. Starts(f[n], h[m])
    BY <2>6, <2>7, <2>8, JoinsStart
  <2> QED
    BY <2>4, <2>5, <2>9
<1>10. f[Len(s)] \in Seq(Tid)
  <2>1. \A i \in 0..Len(s) : f[i] \in Seq(Tid)
    BY <1>1, <1>3, <1>5, JoinType
  <2> QED
    BY <2>1, <1>1
<1>11. h[Len(t)] \in Seq(Tid)
  <2>1. \A i \in 0..Len(t) : h[i] \in Seq(Tid)
    BY <1>1, <1>4, <1>6, JoinType
  <2> QED
    BY <2>1, <1>1
<1> QED
  BY <1>3, <1>4, <1>9, <1>10, <1>11

(* Segments that count no more than their files have. *)
Within(fs, sg) == \A i \in 1..Len(sg) : sg[i].nbytes <= Len(Content(fs, sg[i].no))

(* The cells the segments sg count in fs are the first that tg counts in gs. *)
Extends(fs, sg, gs, tg) ==
    /\ Len(sg) <= Len(tg)
    /\ \A i \in 1..Len(sg) :
          /\ sg[i].last <= tg[i].last
          /\ Starts(Committed(fs, sg[i]), Committed(gs, tg[i]))
          /\ i < Len(sg) => Committed(fs, sg[i]) = Committed(gs, tg[i])

LEMMA PiecesType ==
    ASSUME NEW fs, Files(fs), NEW sg \in Seq(Segments), Within(fs, sg), NEW g
    PROVE  \A i \in 1..Len(sg) : SegPieces(fs, sg, g)[i] \in Seq(Tid)
<1>1. ASSUME NEW i \in 1..Len(sg) PROVE SegPieces(fs, sg, g)[i] \in Seq(Tid)
  <2>1. sg[i] \in Segments /\ sg[i].nbytes <= Len(Content(fs, sg[i].no))
    BY ElementType DEF Within
  <2>2. Committed(fs, sg[i]) \in Seq(Cell)
    BY <2>1, CommittedCells
  <2>3. Frames(Committed(fs, sg[i])) \in Seq(Tid)
    BY <2>2, FramesType
  <2>4. <<>> \in Seq(Tid)
    OBVIOUS
  <2> QED
    BY <2>3, <2>4, Zenon DEF SegPieces
<1> QED
  BY <1>1

LEMMA RecordStarts ==
    ASSUME NEW fs, Files(fs), NEW sg \in Seq(Segments), Within(fs, sg),
           NEW gs, Files(gs), NEW tg \in Seq(Segments), Within(gs, tg),
           NEW g \in Nat, \A i \in 1..Len(sg) : g < sg[i].last, Extends(fs, sg, gs, tg)
    PROVE  IsPrefix(Replay(fs, sg, <<>>, g), Replay(gs, tg, <<>>, g))
<1>1. Len(sg) \in Nat /\ Len(tg) \in Nat
  OBVIOUS
<1>2. PICK f : Joins(f, SegPieces(fs, sg, g), Len(sg)) /\ Framed(fs, sg, g) = f[Len(sg)]
  BY <1>1, FramedJoins
<1>3. PICK h : Joins(h, SegPieces(gs, tg, g), Len(tg)) /\ Framed(gs, tg, g) = h[Len(tg)]
  BY <1>1, FramedJoins
<1>4. \A i \in 1..Len(sg) : SegPieces(fs, sg, g)[i] \in Seq(Tid)
  BY PiecesType
<1>5. \A i \in 1..Len(tg) : SegPieces(gs, tg, g)[i] \in Seq(Tid)
  BY PiecesType
<1>6. Len(sg) <= Len(tg)
  BY DEF Extends
<1>7. ASSUME NEW i \in 1..Len(sg)
      PROVE  /\ SegPieces(fs, sg, g)[i] = Frames(Committed(fs, sg[i]))
             /\ SegPieces(gs, tg, g)[i] = Frames(Committed(gs, tg[i]))
             /\ Starts(Committed(fs, sg[i]), Committed(gs, tg[i]))
             /\ i < Len(sg) => Committed(fs, sg[i]) = Committed(gs, tg[i])
  <2>1. i \in 1..Len(tg)
    BY <1>1, <1>6
  <2>2. sg[i].last \in Nat /\ tg[i].last \in Nat
    BY <2>1, SegmentType
  <2>3. sg[i].last <= tg[i].last /\ Starts(Committed(fs, sg[i]), Committed(gs, tg[i]))
        /\ (i < Len(sg) => Committed(fs, sg[i]) = Committed(gs, tg[i]))
    BY DEF Extends
  <2>4. sg[i].last > g /\ tg[i].last > g
    BY <2>2, <2>3
  <2>5. SegPieces(fs, sg, g)[i] = Frames(Committed(fs, sg[i]))
    BY <2>4, Zenon DEF SegPieces
  <2>6. SegPieces(gs, tg, g)[i] = Frames(Committed(gs, tg[i]))
    BY <2>1, <2>4, Zenon DEF SegPieces
  <2> QED
    BY <2>3, <2>5, <2>6
<1>8. \A i \in 1..Len(sg) : i < Len(sg) => SegPieces(fs, sg, g)[i] = SegPieces(gs, tg, g)[i]
  BY <1>7
<1>9. Len(sg) # 0 => Starts(SegPieces(fs, sg, g)[Len(sg)], SegPieces(gs, tg, g)[Len(sg)])
  <2> SUFFICES ASSUME Len(sg) # 0
               PROVE  Starts(SegPieces(fs, sg, g)[Len(sg)], SegPieces(gs, tg, g)[Len(sg)])
    OBVIOUS
  <2>1. PICK i \in 1..Len(sg) : i = Len(sg)
    BY <1>1
  <2>2. sg[i] \in Segments /\ sg[i].nbytes <= Len(Content(fs, sg[i].no))
    BY ElementType DEF Within
  <2>3. Committed(fs, sg[i]) \in Seq(Cell)
    BY <2>2, CommittedCells
  <2>4. i \in 1..Len(tg)
    BY <1>1, <1>6
  <2>5. tg[i] \in Segments /\ tg[i].nbytes <= Len(Content(gs, tg[i].no))
    BY <2>4, ElementType DEF Within
  <2>6. Committed(gs, tg[i]) \in Seq(Cell)
    BY <2>5, CommittedCells
  <2>7. Starts(Frames(Committed(fs, sg[i])), Frames(Committed(gs, tg[i])))
    BY <2>3, <2>6, <1>7, FramesStart
  <2> QED
    BY <2>1, <2>7, <1>7
<1>10. Starts(f[Len(sg)], h[Len(tg)])
  BY <1>1, <1>2, <1>3, <1>4, <1>5, <1>6, <1>8, <1>9, JoinsStart
<1>11. Framed(fs, sg, g) \in Seq(Tid)
  <2>1. \A i \in 0..Len(sg) : f[i] \in Seq(Tid)
    BY <1>1, <1>2, <1>4, JoinType
  <2> QED
    BY <2>1, <1>1, <1>2
<1>12. Framed(gs, tg, g) \in Seq(Tid)
  <2>1. \A i \in 0..Len(tg) : h[i] \in Seq(Tid)
    BY <1>1, <1>3, <1>5, JoinType
  <2> QED
    BY <2>1, <1>1, <1>3
<1>13. Framed(fs, sg, g) \o <<>> = Framed(fs, sg, g)
       /\ Framed(gs, tg, g) \o <<>> = Framed(gs, tg, g)
  BY <1>11, <1>12
<1>14. Starts(Framed(fs, sg, g), Framed(gs, tg, g))
  BY <1>2, <1>3, <1>10
<1>15. /\ Starts(Later(Framed(fs, sg, g), g), Later(Framed(gs, tg, g), g))
       /\ Later(Framed(fs, sg, g), g) \in Seq(Tid) /\ Later(Framed(gs, tg, g), g) \in Seq(Tid)
  BY <1>11, <1>12, <1>14, LaterStarts
<1>16. IsPrefix(Later(Framed(fs, sg, g), g), Later(Framed(gs, tg, g), g))
  BY <1>15, StartsIsPrefix
<1> QED
  BY <1>13, <1>16, Zenon DEF Replay

-----------------------------------------------------------------------------
(* Disks: what an append and a reconciliation leave of the segments. *)

LEMMA DiskFiles == ASSUME NEW fs \in Disks PROVE Files(fs)
<1>1. ASSUME NEW n \in SegNos PROVE fs[n] = NoFile \/ fs[n] \in Seq(Cell)
  BY DEF Disks
<1> QED
  BY <1>1 DEF Files

LEMMA NoFileIsNone == NoFile \notin Seq(Cell)
BY DeltaLogConstants DEF Cell

(* The cells that the segments count are in gs what they are in fs. *)
Keeps(fs, gs, sg) ==
    \A i \in 1..Len(sg) : /\ sg[i].nbytes <= Len(Content(gs, sg[i].no))
                          /\ Committed(gs, sg[i]) = Committed(fs, sg[i])

LEMMA KeepsShaped ==
    ASSUME NEW fs, NEW gs, NEW sg, NEW next, Shaped(fs, sg, next), Keeps(fs, gs, sg)
    PROVE  Shaped(gs, sg, next)
BY DEF Shaped, Keeps

LEMMA KeepsChain ==
    ASSUME NEW fs, NEW gs, NEW sg, NEW g, NEW w, Chain(fs, sg, g, w), Keeps(fs, gs, sg)
    PROVE  Chain(gs, sg, g, w)
<1>1. ASSUME NEW i \in 1..Len(sg) PROVE Holds(gs, sg[i])
  <2>1. Holds(fs, sg[i]) /\ Committed(gs, sg[i]) = Committed(fs, sg[i])
    BY DEF Chain, Keeps
  <2> QED
    BY <2>1 DEF Holds
<1>2. \A i \in 1..Len(sg) : sg[i].first = (IF i = 1 THEN g ELSE sg[i - 1].last) + 1
  BY DEF Chain
<1>3. w = IF sg = <<>> THEN g ELSE sg[Len(sg)].last
  BY DEF Chain
<1> QED
  BY <1>1, <1>2, <1>3 DEF Chain

LEMMA KeepsExtends ==
    ASSUME NEW fs \in Disks, NEW gs \in Disks, NEW sg \in Seq(Segments),
           Within(fs, sg), Keeps(fs, gs, sg)
    PROVE  Extends(fs, sg, gs, sg)
<1>1. ASSUME NEW i \in 1..Len(sg)
      PROVE  Starts(Committed(fs, sg[i]), Committed(gs, sg[i]))
  <2>1. sg[i] \in Segments /\ sg[i].nbytes <= Len(Content(fs, sg[i].no))
    BY ElementType DEF Within
  <2>2. Committed(fs, sg[i]) \in Seq(Cell)
    BY <2>1, DiskFiles, CommittedCells
  <2>3. Committed(gs, sg[i]) = Committed(fs, sg[i])
    BY DEF Keeps
  <2> QED
    BY <2>2, <2>3, StartsSelf
<1>2. \A i \in 1..Len(sg) : Committed(gs, sg[i]) = Committed(fs, sg[i])
  BY DEF Keeps
<1>3. \A i \in 1..Len(sg) : sg[i].last <= sg[i].last
  BY SegmentType
<1>4. Len(sg) <= Len(sg)
  OBVIOUS
<1> QED
  BY <1>1, <1>2, <1>3, <1>4 DEF Extends

(* Every file begins with what it was. *)
Grows(fs, gs) == \A n \in SegNos : Starts(Content(fs, n), Content(gs, n))

LEMMA GrowsSegment ==
    ASSUME NEW fs \in Disks, NEW gs \in Disks, Grows(fs, gs), NEW seg \in Segments,
           seg.nbytes <= Len(Content(fs, seg.no))
    PROVE  seg.nbytes <= Len(Content(gs, seg.no)) /\ Committed(gs, seg) = Committed(fs, seg)
<1>1. seg.no \in SegNos /\ seg.nbytes \in Nat
  BY DEF Segments
<1>2. Starts(Content(fs, seg.no), Content(gs, seg.no))
  BY <1>1 DEF Grows
<1>3. PICK c : c = Content(fs, seg.no)
  OBVIOUS
<1>4. PICK d : d = Content(gs, seg.no)
  OBVIOUS
<1>5. c \in Seq(Cell) /\ d \in Seq(Cell)
  BY <1>1, <1>3, <1>4, DiskFiles, ContentType
<1>6. Len(c) <= Len(d) /\ \A i \in 1..Len(c) : c[i] = d[i]
  BY <1>2, <1>3, <1>4 DEF Starts
<1>7. seg.nbytes <= Len(c)
  BY <1>3
<1>8. seg.nbytes <= Len(d)
  BY <1>1, <1>5, <1>6, <1>7
<1>9. SubSeq(d, 1, seg.nbytes) = SubSeq(c, 1, seg.nbytes)
  BY <1>1, <1>5, <1>6, <1>7
<1> QED
  BY <1>3, <1>4, <1>8, <1>9 DEF Committed

LEMMA GrowsKeeps ==
    ASSUME NEW fs \in Disks, NEW gs \in Disks, Grows(fs, gs), NEW sg \in Seq(Segments),
           NEW next, Shaped(fs, sg, next)
    PROVE  Keeps(fs, gs, sg)
<1>1. ASSUME NEW i \in 1..Len(sg)
      PROVE  /\ sg[i].nbytes <= Len(Content(gs, sg[i].no))
             /\ Committed(gs, sg[i]) = Committed(fs, sg[i])
  <2>1. sg[i] \in Segments /\ sg[i].nbytes <= Len(Content(fs, sg[i].no))
    BY ElementType DEF Shaped
  <2> QED
    BY <2>1, GrowsSegment
<1> QED
  BY <1>1 DEF Keeps

LEMMA AppendGrows ==
    ASSUME NEW fs \in Disks, NEW no \in SegNos, NEW c \in Seq(Cell), NEW gs,
           gs = [fs EXCEPT ![no] = Content(fs, no) \o c]
    PROVE  /\ gs \in Disks
           /\ Grows(fs, gs)
           /\ Content(gs, no) = Content(fs, no) \o c
           /\ \A n \in SegNos : n # no => gs[n] = fs[n]
<1>1. Content(fs, no) \in Seq(Cell)
  BY DiskFiles, ContentType
<1>2. Content(fs, no) \o c \in Seq(Cell)
  BY <1>1, ConcatType
<1>3. gs[no] = Content(fs, no) \o c
  BY DEF Disks
<1>4. \A n \in SegNos : n # no => gs[n] = fs[n]
  BY DEF Disks
<1>5. gs \in Disks
  <2>1. ASSUME NEW n \in SegNos PROVE gs[n] \in {NoFile} \cup Seq(Cell)
    <3>1. CASE n = no
      BY <3>1, <1>2, <1>3
    <3>2. CASE n # no
      <4>1. fs[n] \in {NoFile} \cup Seq(Cell)
        BY DEF Disks
      <4> QED
        BY <3>2, <4>1, <1>4
    <3> QED
      BY <3>1, <3>2
  <2>2. gs = [n \in SegNos |-> gs[n]]
    BY DEF Disks
  <2> QED
    BY <2>1, <2>2 DEF Disks
<1>6. Content(gs, no) = Content(fs, no) \o c
  BY <1>2, <1>3, NoFileIsNone, Zenon DEF Content
<1>7. Grows(fs, gs)
  <2>1. ASSUME NEW n \in SegNos PROVE Starts(Content(fs, n), Content(gs, n))
    <3>1. CASE n = no
      <4>1. Starts(Content(fs, no), Content(fs, no))
        BY <1>1, StartsSelf
      <4>2. Starts(Content(fs, no), Content(fs, no) \o c)
        BY <4>1, <1>1, StartsConcat
      <4> QED
        BY <3>1, <4>2, <1>6
    <3>2. CASE n # no
      <4>1. Content(gs, n) = Content(fs, n)
        BY <3>2, <1>4 DEF Content
      <4>2. Content(fs, n) \in Seq(Cell)
        BY DiskFiles, ContentType
      <4> QED
        BY <4>1, <4>2, StartsSelf
    <3> QED
      BY <3>1, <3>2
  <2> QED
    BY <2>1 DEF Grows
<1> QED
  BY <1>4, <1>5, <1>6, <1>7

(* A reconciliation cuts each named file to what is counted of it. *)
LEMMA ReconciledFile ==
    ASSUME NEW fs \in Disks, NEW sg \in Seq(Segments), NEW next, Shaped(fs, sg, next),
           NEW i \in 1..Len(sg)
    PROVE  Reconciled(fs, sg)[sg[i].no] =
               IF fs[sg[i].no] = NoFile THEN NoFile
               ELSE SubSeq(fs[sg[i].no], 1, sg[i].nbytes)
<1> DEFINE n == sg[i].no
           s == CHOOSE s \in ToSet(sg) : s.no = n
<1>1. n \in SegNos
  BY SegmentType
<1>2. sg[i] \in ToSet(sg)
  BY DEF ToSet
<1>3. s \in ToSet(sg) /\ s.no = n
  BY <1>2
<1>4. PICK j \in 1..Len(sg) : s = sg[j]
  BY <1>3 DEF ToSet
<1>5. j = i
  BY <1>3, <1>4 DEF Shaped
<1>6. s = sg[i]
  BY <1>4, <1>5
<1>7. \E k \in 1..Len(sg) : sg[k].no = n
  OBVIOUS
<1>8. Reconciled(fs, sg)[n] = IF fs[n] = NoFile THEN NoFile ELSE SubSeq(fs[n], 1, s.nbytes)
  BY <1>1, <1>7, Zenon DEF Reconciled
<1> QED
  BY <1>6, <1>8

LEMMA ReconciledContent ==
    ASSUME NEW fs \in Disks, NEW sg \in Seq(Segments), NEW next, Shaped(fs, sg, next),
           NEW i \in 1..Len(sg)
    PROVE  /\ Content(Reconciled(fs, sg), sg[i].no) = Committed(fs, sg[i])
           /\ Reconciled(fs, sg)[sg[i].no] \in {NoFile} \cup Seq(Cell)
<1>1. sg[i] \in Segments /\ sg[i].no \in SegNos /\ sg[i].nbytes \in Nat
  BY SegmentType
<1>2. sg[i].nbytes <= Len(Content(fs, sg[i].no))
  BY DEF Shaped
<1>3. Committed(fs, sg[i]) \in Seq(Cell) /\ Len(Committed(fs, sg[i])) = sg[i].nbytes
  BY <1>1, <1>2, DiskFiles, CommittedCells
<1>4. CASE fs[sg[i].no] = NoFile
  <2>1. Reconciled(fs, sg)[sg[i].no] = NoFile
    BY <1>4, ReconciledFile
  <2>2. Content(fs, sg[i].no) = <<>> /\ Content(Reconciled(fs, sg), sg[i].no) = <<>>
    BY <1>4, <2>1 DEF Content
  <2>3. Len(Content(fs, sg[i].no)) = 0
    BY <2>2
  <2>4. sg[i].nbytes = 0
    BY <1>1, <1>2, <2>3
  <2>5. Committed(fs, sg[i]) = <<>>
    BY <1>3, <2>4
  <2> QED
    BY <2>1, <2>2, <2>5
<1>5. CASE fs[sg[i].no] # NoFile
  <2>1. Content(fs, sg[i].no) = fs[sg[i].no]
    BY <1>5 DEF Content
  <2>2. Reconciled(fs, sg)[sg[i].no] = Committed(fs, sg[i])
    BY <1>5, <2>1, ReconciledFile DEF Committed
  <2>3. Content(Reconciled(fs, sg), sg[i].no) = Committed(fs, sg[i])
    BY <1>3, <2>2, NoFileIsNone, Zenon DEF Content
  <2> QED
    BY <1>3, <2>2, <2>3
<1> QED
  BY <1>4, <1>5

LEMMA ReconciledOther ==
    ASSUME NEW fs, NEW sg, NEW n \in SegNos, ~\E i \in 1..Len(sg) : sg[i].no = n
    PROVE  Reconciled(fs, sg)[n] = NoFile
BY Zenon DEF Reconciled

LEMMA ReconciledDisk ==
    ASSUME NEW fs \in Disks, NEW sg \in Seq(Segments), NEW next, Shaped(fs, sg, next)
    PROVE  Reconciled(fs, sg) \in Disks
<1>1. ASSUME NEW n \in SegNos PROVE Reconciled(fs, sg)[n] \in {NoFile} \cup Seq(Cell)
  <2>1. CASE \E i \in 1..Len(sg) : sg[i].no = n
    BY <2>1, ReconciledContent
  <2>2. CASE ~\E i \in 1..Len(sg) : sg[i].no = n
    BY <2>2, ReconciledOther
  <2> QED
    BY <2>1, <2>2
<1>2. Reconciled(fs, sg) = [n \in SegNos |-> Reconciled(fs, sg)[n]]
  <2> DEFINE file(n) ==
          IF ~\E i \in 1..Len(sg) : sg[i].no = n THEN NoFile
          ELSE LET s == CHOOSE s \in ToSet(sg) : s.no = n
               IN IF fs[n] = NoFile THEN NoFile ELSE SubSeq(fs[n], 1, s.nbytes)
  <2>1. Reconciled(fs, sg) = [n \in SegNos |-> file(n)]
    BY Zenon DEF Reconciled
  <2> HIDE DEF file
  <2> QED
    BY <2>1
<1> QED
  BY <1>1, <1>2 DEF Disks

LEMMA ReconciledKeeps ==
    ASSUME NEW fs \in Disks, NEW sg \in Seq(Segments), NEW next, Shaped(fs, sg, next)
    PROVE  Keeps(fs, Reconciled(fs, sg), sg)
<1>1. ASSUME NEW i \in 1..Len(sg)
      PROVE  /\ sg[i].nbytes <= Len(Content(Reconciled(fs, sg), sg[i].no))
             /\ Committed(Reconciled(fs, sg), sg[i]) = Committed(fs, sg[i])
  <2>1. sg[i] \in Segments /\ sg[i].nbytes \in Nat
    BY SegmentType
  <2>2. sg[i].nbytes <= Len(Content(fs, sg[i].no))
    BY DEF Shaped
  <2>3. PICK c : c = Committed(fs, sg[i])
    OBVIOUS
  <2>4. c \in Seq(Cell) /\ Len(c) = sg[i].nbytes
    BY <2>1, <2>2, <2>3, DiskFiles, CommittedCells
  <2>5. Content(Reconciled(fs, sg), sg[i].no) = c
    BY <2>3, ReconciledContent
  <2>6. SubSeq(c, 1, sg[i].nbytes) = c
    BY <2>1, <2>4
  <2>7. Committed(Reconciled(fs, sg), sg[i]) = c
    BY <2>5, <2>6 DEF Committed
  <2>8. sg[i].nbytes <= Len(Content(Reconciled(fs, sg), sg[i].no))
    BY <2>1, <2>4, <2>5
  <2> QED
    BY <2>3, <2>7, <2>8
<1> QED
  BY <1>1 DEF Keeps

LEMMA ReconciledExact ==
    ASSUME NEW fs \in Disks, NEW sg \in Seq(Segments), NEW next \in Nat,
           Shaped(fs, sg, next)
    PROVE  Exact(Reconciled(fs, sg), sg, next)
<1>1. ASSUME NEW i \in 1..Len(sg)
      PROVE  Len(Content(Reconciled(fs, sg), sg[i].no)) = sg[i].nbytes
  <2>1. sg[i] \in Segments /\ sg[i].nbytes <= Len(Content(fs, sg[i].no))
    BY ElementType DEF Shaped
  <2>2. Len(Committed(fs, sg[i])) = sg[i].nbytes
    BY <2>1, DiskFiles, CommittedCells
  <2> QED
    BY <2>2, ReconciledContent
<1>2. ASSUME NEW n \in SegNos, next <= n PROVE Reconciled(fs, sg)[n] = NoFile
  <2>1. ASSUME NEW i \in 1..Len(sg) PROVE sg[i].no # n
    <3>1. sg[i].no < next /\ sg[i].no \in SegNos
      BY SegmentType DEF Shaped
    <3> QED
      BY <3>1, <1>2 DEF SegNos
  <2> QED
    BY <2>1, ReconciledOther
<1> QED
  BY <1>1, <1>2 DEF Exact

-----------------------------------------------------------------------------
(* What the invariants say of the store, the buffer and the manifest. *)

LEMMA Counters ==
    ASSUME TypeInv
    PROVE  /\ lastTid \in Nat /\ applied \in Nat /\ watermark \in Nat /\ genesis \in Nat
           /\ genesis <= watermark /\ watermark <= applied /\ applied <= lastTid
           /\ lastTid <= MaxTid /\ MaxTid \in Nat
           /\ pending \in Nat /\ buffer \in Seq(1..MaxTid) /\ Len(buffer) \in Nat
           /\ segs \in Seq(Segments) /\ nextSeg \in 1..(MaxSegs + 1) /\ nextSeg \in Nat
           /\ files \in Disks
BY DeltaLogConstants DEF TypeInv, TypeOK

LEMMA ManifestType ==
    ASSUME NEW m \in Manifests
    PROVE  /\ m.wm \in Nat /\ m.genesis \in Nat /\ m.nextSeg \in Nat
           /\ m.wm <= MaxTid /\ m.nextSeg \in 1..(MaxSegs + 1)
           /\ m.segs \in Seq(Segments)
BY DeltaLogConstants DEF Manifests

LEMMA InMemoryType ==
    ASSUME TypeInv
    PROVE  /\ InMemory \in Manifests
           /\ InMemory.wm = watermark /\ InMemory.genesis = genesis
           /\ InMemory.segs = segs /\ InMemory.nextSeg = nextSeg
<1>1. /\ watermark \in 0..MaxTid /\ genesis \in 0..MaxTid
      /\ segs \in Seq(Segments) /\ nextSeg \in 1..(MaxSegs + 1)
  BY Counters
<1> QED
  BY <1>1 DEF InMemory, Manifests

LEMMA FreshType ==
    /\ FreshManifest \in Manifests
    /\ FreshManifest.wm = 0 /\ FreshManifest.genesis = 0
    /\ FreshManifest.segs = <<>> /\ FreshManifest.nextSeg = 1
<1>1. <<>> \in Seq(Segments) /\ 0 \in 0..MaxTid /\ 1 \in 1..(MaxSegs + 1)
  BY DeltaLogConstants
<1> QED
  BY <1>1 DEF FreshManifest, Manifests

(* Nothing recorded is a record of nothing. *)
LEMMA NoSegments ==
    ASSUME NEW fs, NEW next, NEW g
    PROVE  Shaped(fs, <<>>, next) /\ Chain(fs, <<>>, g, g)
<1>1. Len(<<>>) = 0
  OBVIOUS
<1> QED
  BY <1>1 DEF Shaped, Chain

LEMMA BufferRun ==
    ASSUME TypeInv, BufferInv
    PROVE  /\ applied - Len(buffer) \in Nat
           /\ IsRun(buffer, applied - Len(buffer), Len(buffer))
<1>1. applied \in Nat /\ Len(buffer) \in Nat /\ genesis \in Nat
  BY Counters
<1>2. buffer = After(applied - Len(buffer), applied) /\ genesis <= applied - Len(buffer)
  BY DEF BufferInv
<1>3. PICK a \in Nat : a = applied - Len(buffer)
  BY <1>1, <1>2
<1>4. a <= applied /\ applied - a = Len(buffer)
  BY <1>1, <1>3
<1>5. IsRun(After(a, applied), a, applied - a)
  BY <1>1, <1>4, AfterIsRun
<1> QED
  BY <1>2, <1>3, <1>4, <1>5

(* A buffer that is not empty goes from the delta after what is recorded to  *)
(* the one applied last.                                                     *)
LEMMA BufferEnds ==
    ASSUME TypeInv, BufferInv, buffer # <<>>
    PROVE  /\ Head(buffer) = applied - Len(buffer) + 1
           /\ Last(buffer) = applied
           /\ genesis < applied
           /\ Len(buffer) > 0
           /\ Head(buffer) \in 1..MaxTid /\ applied \in 1..MaxTid
<1>1. applied \in Nat /\ Len(buffer) \in Nat /\ genesis \in Nat /\ buffer \in Seq(1..MaxTid)
  BY Counters
<1>2. Len(buffer) > 0
  BY <1>1
<1>3. \A i \in 1..Len(buffer) : buffer[i] = applied - Len(buffer) + i
  BY BufferRun DEF IsRun
<1>4. Head(buffer) = buffer[1]
  BY <1>1, <1>2
<1>5. Last(buffer) = buffer[Len(buffer)]
  BY DEF Last
<1>6. 1 \in 1..Len(buffer) /\ Len(buffer) \in 1..Len(buffer)
  BY <1>1, <1>2
<1>7. buffer[1] = applied - Len(buffer) + 1 /\ buffer[Len(buffer)] = applied
  BY <1>1, <1>3, <1>6
<1>8. buffer[1] \in 1..MaxTid /\ buffer[Len(buffer)] \in 1..MaxTid
  BY <1>1, <1>6, ElementType
<1>9. genesis < applied
  BY <1>1, <1>2 DEF BufferInv
<1> QED
  BY <1>2, <1>4, <1>5, <1>7, <1>8, <1>9

-----------------------------------------------------------------------------
(* Steps that leave the disk and the segments as they are. *)

Untouched == UNCHANGED <<files, manifest, debris, segs, nextSeg, genesis, watermark>>

LEMMA ShapeUntouched ==
    ASSUME ShapeInv, Untouched, pc' # "manifest", pc' \in Open_ => pc \in Open_
    PROVE  ShapeInv'
<1>1. /\ files' = files /\ manifest' = manifest /\ segs' = segs /\ nextSeg' = nextSeg
      /\ genesis' = genesis /\ watermark' = watermark
  BY DEF Untouched
<1> QED
  BY <1>1 DEF ShapeInv

LEMMA HonestUntouched ==
    ASSUME HonestInv, Untouched, pc' # "manifest", pc' \in Open_ => pc \in Open_ \ {"manifest"},
           applied' - Len(buffer') = applied - Len(buffer),
           pc' = "idle" => Len(buffer') < FlushEvery \/ (pc = "idle" /\ buffer' = buffer)
    PROVE  HonestInv'
<1>1. /\ files' = files /\ manifest' = manifest /\ segs' = segs /\ nextSeg' = nextSeg
      /\ genesis' = genesis /\ watermark' = watermark /\ debris' = debris
  BY DEF Untouched
<1>2. debris' # "counted" => Chain(files, manifest.segs, manifest.genesis, manifest.wm)'
  BY <1>1 DEF HonestInv
<1>3. ASSUME debris' = "none", pc' \in Open_
      PROVE  /\ Chain(files, segs, genesis, watermark)'
             /\ Exact(files, segs, nextSeg)'
             /\ (watermark = applied - Len(buffer) /\ watermark = manifest.wm)'
             /\ pc' = "idle" => Len(buffer') < FlushEvery
  BY <1>1, <1>3 DEF HonestInv, Open_
<1> QED
  BY <1>2, <1>3 DEF HonestInv

(* Nothing is delivered: only what the store and the log are doing changes.  *)
LEMMA QuietStep ==
    ASSUME DeltaInv, Untouched, UNCHANGED <<applied, buffer, pending>>,
           lastTid' \in {lastTid, lastTid + 1}, lastTid' <= MaxTid,
           attached' \in BOOLEAN, inApply' \in BOOLEAN,
           attached' => applied = lastTid' /\ pc' \in Open_,
           \/ pc' = pc /\ pc \in {"closed", "idle"}
           \/ pc = "idle" /\ pc' = "append" /\ buffer # <<>>
    PROVE  DeltaInv'
<1>1. TypeInv /\ BufferInv /\ ShapeInv /\ HonestInv
  BY DEF DeltaInv
<1>2. /\ files' = files /\ manifest' = manifest /\ segs' = segs /\ nextSeg' = nextSeg
      /\ genesis' = genesis /\ watermark' = watermark /\ debris' = debris
      /\ applied' = applied /\ buffer' = buffer /\ pending' = pending
  BY DEF Untouched
<1>3. /\ pc' # "manifest" /\ (pc' \in Open_ => pc \in Open_ \ {"manifest"})
      /\ (pc' = "idle" => pc = "idle")
  BY DEF Open_
<1>4. TypeInv'
  <2>1. TypeOK'
    <3>1. lastTid \in 0..MaxTid /\ {applied, watermark, genesis} \subseteq 0..lastTid
          /\ manifest.wm \in 0..lastTid
      BY <1>1 DEF TypeInv, TypeOK
    <3>2. lastTid' \in 0..MaxTid /\ lastTid <= lastTid'
      BY <3>1, DeltaLogConstants
    <3>3. {applied', watermark', genesis'} \subseteq 0..lastTid' /\ manifest'.wm \in 0..lastTid'
      BY <1>2, <3>1, <3>2, DeltaLogConstants
    <3>4. pc' \in {"closed", "idle", "append", "manifest", "joining"}
      OBVIOUS
    <3>5. /\ buffer' \in Seq(1..MaxTid) /\ pending' \in 0..Len(buffer')
          /\ segs' \in Seq(Segments) /\ nextSeg' \in 1..(MaxSegs + 1)
          /\ manifest'.segs \in Seq(Segments) /\ debris' \in Debris
      BY <1>1, <1>2 DEF TypeInv, TypeOK
    <3>6. \A n \in SegNos : files'[n] = NoFile \/ files'[n] \in Seq((1..MaxTid) \X {0, 1})
      BY <1>1, <1>2 DEF TypeInv, TypeOK
    <3> QED
      BY <3>2, <3>3, <3>4, <3>5, <3>6 DEF TypeOK
  <2>2. files' \in Disks /\ manifest' \in Manifests
    BY <1>1, <1>2 DEF TypeInv
  <2>3. manifest'.genesis <= manifest'.wm /\ genesis' <= watermark' /\ watermark' <= applied'
    BY <1>1, <1>2 DEF TypeInv
  <2>4. pc' \notin Open_ => InMemory' = FreshManifest /\ applied' = 0 /\ buffer' = <<>>
                            /\ ~attached'
    BY <1>1, <1>2 DEF TypeInv, Open_, InMemory
  <2>5. /\ pc' # "joining" /\ pc' # "manifest"
        /\ (pc' \in {"append", "manifest"} => buffer' # <<>>)
    BY <1>2
  <2>6. attached' => applied' = lastTid'
    BY <1>2
  <2> QED
    BY <2>1, <2>2, <2>3, <2>4, <2>5, <2>6 DEF TypeInv
<1>5. BufferInv'
  BY <1>1, <1>2 DEF BufferInv
<1>6. ShapeInv'
  BY <1>1, <1>3, ShapeUntouched
<1>7. HonestInv'
  BY <1>1, <1>2, <1>3, HonestUntouched
<1> QED
  BY <1>4, <1>5, <1>6, <1>7 DEF DeltaInv

(* A delta is delivered and buffered. *)
LEMMA DeliverStep ==
    ASSUME DeltaInv, Untouched, pc = "idle",
           buffer' = Append(buffer, applied + 1), applied' = applied + 1,
           pending' = pending + 1,
           pc' = IF pending + 1 >= FlushEvery THEN "append" ELSE "idle",
           inApply' \in BOOLEAN, attached' \in BOOLEAN,
           lastTid' \in {lastTid, lastTid + 1}, lastTid' <= MaxTid,
           applied + 1 <= lastTid', attached' => applied + 1 = lastTid'
    PROVE  DeltaInv'
<1>1. TypeInv /\ BufferInv /\ ShapeInv /\ HonestInv
  BY DEF DeltaInv
<1>2. /\ files' = files /\ manifest' = manifest /\ segs' = segs /\ nextSeg' = nextSeg
      /\ genesis' = genesis /\ watermark' = watermark /\ debris' = debris
  BY DEF Untouched
<1>3. /\ lastTid \in Nat /\ applied \in Nat /\ watermark \in Nat /\ genesis \in Nat
      /\ genesis <= watermark /\ watermark <= applied /\ applied <= lastTid
      /\ pending \in Nat /\ buffer \in Seq(1..MaxTid) /\ Len(buffer) \in Nat
      /\ MaxTid \in Nat
  BY <1>1, Counters
<1>4. pending = Len(buffer) /\ genesis <= applied - Len(buffer)
      /\ buffer = After(applied - Len(buffer), applied)
  BY <1>1 DEF BufferInv
<1>5. Len(buffer') = Len(buffer) + 1 /\ buffer' \in Seq(1..MaxTid) /\ buffer' # <<>>
  <2>1. applied + 1 \in 1..MaxTid
    BY <1>3
  <2> QED
    BY <1>3, <2>1
<1>6. pc' \in {"append", "idle"} /\ (pc' = "idle" => pending + 1 < FlushEvery)
  BY <1>3, DeltaLogConstants
<1>7. TypeInv'
  <2>1. TypeOK'
    <3>1. {applied', watermark', genesis'} \subseteq 0..lastTid' /\ lastTid' \in 0..MaxTid
      BY <1>2, <1>3
    <3>2. manifest'.wm \in 0..lastTid'
      <4>1. manifest.wm \in 0..lastTid
        BY <1>1 DEF TypeInv, TypeOK
      <4> QED
        BY <4>1, <1>2, <1>3
    <3>3. pending' \in 0..Len(buffer')
      BY <1>3, <1>4, <1>5
    <3>4. /\ segs' \in Seq(Segments) /\ nextSeg' \in 1..(MaxSegs + 1)
          /\ manifest'.segs \in Seq(Segments) /\ debris' \in Debris
      BY <1>1, <1>2 DEF TypeInv, TypeOK
    <3>5. \A n \in SegNos : files'[n] = NoFile \/ files'[n] \in Seq((1..MaxTid) \X {0, 1})
      BY <1>1, <1>2 DEF TypeInv, TypeOK
    <3>6. pc' \in {"closed", "idle", "append", "manifest", "joining"}
      BY <1>6
    <3> QED
      BY <1>5, <3>1, <3>2, <3>3, <3>4, <3>5, <3>6 DEF TypeOK
  <2>2. files' \in Disks /\ manifest' \in Manifests /\ manifest'.genesis <= manifest'.wm
    BY <1>1, <1>2 DEF TypeInv
  <2>3. genesis' <= watermark' /\ watermark' <= applied'
    BY <1>2, <1>3
  <2>4. pc' \in Open_ /\ pc' # "joining" /\ pc' # "manifest"
    BY <1>6 DEF Open_
  <2>5. attached' => applied' = lastTid'
    OBVIOUS
  <2> QED
    BY <1>5, <2>1, <2>2, <2>3, <2>4, <2>5 DEF TypeInv
<1>8. applied' - Len(buffer') = applied - Len(buffer)
  BY <1>3, <1>5
<1>9. BufferInv'
  <2>1. PICK a \in Nat : a = applied - Len(buffer)
    BY <1>3, <1>4, SMTT(30)
  <2>2. a <= applied /\ buffer = After(a, applied)
    BY <1>3, <1>4, <2>1
  <2>3. After(a, applied) \o <<applied + 1>> = After(a, applied + 1)
    BY <1>3, <2>2, AfterNext
  <2>4. Append(buffer, applied + 1) = buffer \o <<applied + 1>>
    <3>1. buffer \in Seq(Nat) /\ applied + 1 \in Nat
      BY <1>1, <1>3, BufferRun DEF IsRun
    <3> QED
      BY <3>1
  <2>5. buffer' = After(a, applied')
    BY <2>2, <2>3, <2>4
  <2>6. applied' - Len(buffer') = a
    BY <1>8, <2>1
  <2>7. buffer' = After(applied' - Len(buffer'), applied')
    BY <2>5, <2>6
  <2>8. genesis' <= applied' - Len(buffer') /\ pending' = Len(buffer')
    BY <1>2, <1>4, <1>5, <1>8
  <2> QED
    BY <2>7, <2>8 DEF BufferInv
<1>10. ShapeInv'
  <2>1. pc' # "manifest" /\ pc \in Open_
    BY <1>6 DEF Open_
  <2> QED
    BY <1>1, <2>1, ShapeUntouched
<1>11. HonestInv'
  <2>1. pc' # "manifest" /\ pc \in Open_ \ {"manifest"}
    BY <1>6 DEF Open_
  <2>2. pc' = "idle" => Len(buffer') < FlushEvery
    BY <1>4, <1>5, <1>6
  <2> QED
    BY <1>1, <1>8, <2>1, <2>2, HonestUntouched
<1> QED
  BY <1>7, <1>9, <1>10, <1>11 DEF DeltaInv

LEMMA CommitStep == ASSUME DeltaInv, Commit PROVE DeltaInv'
<1>1. TypeInv
  BY DEF DeltaInv
<1>2. /\ pc \in {"closed", "idle"} /\ lastTid' = lastTid + 1 /\ lastTid < MaxTid
      /\ UNCHANGED diskVars
  BY DEF Commit
<1>3. /\ lastTid \in Nat /\ applied \in Nat /\ applied <= lastTid
      /\ pending \in Nat /\ MaxTid \in Nat
  BY <1>1, Counters
<1>4. lastTid' <= MaxTid /\ lastTid' \in {lastTid, lastTid + 1}
  BY <1>2, <1>3
<1>5. attached \in BOOLEAN /\ inApply \in BOOLEAN
  BY <1>1 DEF TypeInv, TypeOK
<1>6. CASE ~attached
  <2>1. UNCHANGED <<attached, pc, inApply, memVars>>
    BY <1>6 DEF Commit
  <2>2. Untouched /\ UNCHANGED <<applied, buffer, pending>>
    BY <1>2, <2>1 DEF Untouched, memVars, diskVars
  <2> QED
    BY <1>2, <1>4, <1>5, <1>6, <2>1, <2>2, QuietStep
<1>7. CASE attached
  <2>1. Apply(lastTid')
    BY <1>7 DEF Commit
  <2>2. applied = lastTid /\ pc = "idle"
    BY <1>1, <1>2, <1>7 DEF TypeInv, Open_
  <2>3. lastTid' = applied + 1 /\ ~(lastTid' <= applied)
    BY <1>2, <1>3, <2>2
  <2>4. /\ buffer' = Append(buffer, lastTid') /\ applied' = lastTid' /\ pending' = pending + 1
        /\ pc' = IF pending + 1 >= FlushEvery THEN "append" ELSE "idle"
        /\ inApply' = (pending + 1 >= FlushEvery)
        /\ UNCHANGED <<watermark, genesis, segs, nextSeg, attached>>
    BY <2>1, <2>3 DEF Apply
  <2>5. Untouched
    BY <1>2, <2>4 DEF Untouched, diskVars
  <2>6. inApply' \in BOOLEAN /\ attached' \in BOOLEAN
    <3>1. attached' \in BOOLEAN
      BY <1>5, <2>4
    <3>2. (pending + 1 >= FlushEvery) \in BOOLEAN
      OBVIOUS
    <3> QED
      BY <2>4, <3>1, <3>2, Zenon
  <2>7. /\ buffer' = Append(buffer, applied + 1) /\ applied' = applied + 1
        /\ pending' = pending + 1 /\ applied + 1 <= lastTid'
        /\ (attached' => applied + 1 = lastTid')
    BY <1>3, <2>3, <2>4
  <2>8. pc' = IF pending + 1 >= FlushEvery THEN "append" ELSE "idle"
    BY <2>4
  <2> QED
    BY <1>4, <2>2, <2>5, <2>6, <2>7, <2>8, DeliverStep
<1> QED
  BY <1>6, <1>7

LEMMA FeedStep == ASSUME DeltaInv, NEW tid \in 1..MaxTid, Feed(tid) PROVE DeltaInv'
<1>1. TypeInv
  BY DEF DeltaInv
<1>2. /\ pc = "idle" /\ ~attached /\ tid <= lastTid /\ Apply(tid)
      /\ lastTid' = lastTid /\ UNCHANGED diskVars
  BY DEF Feed
<1>3. /\ lastTid \in Nat /\ applied \in Nat /\ applied <= lastTid /\ lastTid <= MaxTid
      /\ pending \in Nat /\ MaxTid \in Nat /\ tid \in Nat
  BY <1>1, Counters
<1>4. lastTid' <= MaxTid /\ lastTid' \in {lastTid, lastTid + 1}
  BY <1>2, <1>3
<1>5. inApply \in BOOLEAN /\ attached \in BOOLEAN
  BY <1>1 DEF TypeInv, TypeOK
<1>6. CASE tid <= applied \/ tid # applied + 1
  <2>1. UNCHANGED <<pc, inApply, memVars>> /\ (attached' = attached \/ attached' = FALSE)
    BY <1>2, <1>6 DEF Apply
  <2>2. Untouched /\ UNCHANGED <<applied, buffer, pending>>
    BY <1>2, <2>1 DEF Untouched, memVars, diskVars
  <2>3. ~attached' /\ attached' \in BOOLEAN
    <3>1. attached = FALSE
      BY <1>2, <1>5
    <3>2. attached' = FALSE
      BY <2>1, <3>1
    <3> QED
      BY <3>2
  <2> QED
    BY <1>2, <1>4, <1>5, <2>1, <2>2, <2>3, QuietStep
<1>7. CASE ~(tid <= applied \/ tid # applied + 1)
  <2>1. tid = applied + 1 /\ ~(tid <= applied)
    BY <1>7
  <2>2. /\ buffer' = Append(buffer, tid) /\ applied' = tid /\ pending' = pending + 1
        /\ pc' = IF pending + 1 >= FlushEvery THEN "append" ELSE "idle"
        /\ inApply' = (pending + 1 >= FlushEvery)
        /\ UNCHANGED <<watermark, genesis, segs, nextSeg, attached>>
    BY <1>2, <2>1 DEF Apply
  <2>3. Untouched
    BY <1>2, <2>2 DEF Untouched, diskVars
  <2>4. inApply' \in BOOLEAN /\ attached' \in BOOLEAN /\ ~attached'
    <3>1. attached' \in BOOLEAN /\ ~attached'
      BY <1>2, <1>5, <2>2, Zenon
    <3>2. (pending + 1 >= FlushEvery) \in BOOLEAN
      OBVIOUS
    <3> QED
      BY <2>2, <3>1, <3>2, Zenon
  <2>5. /\ buffer' = Append(buffer, applied + 1) /\ applied' = applied + 1
        /\ pending' = pending + 1 /\ applied + 1 <= lastTid'
    BY <1>2, <1>3, <2>1, <2>2
  <2>6. pc' = IF pending + 1 >= FlushEvery THEN "append" ELSE "idle"
    BY <2>2
  <2> QED
    BY <1>2, <1>4, <2>3, <2>4, <2>5, <2>6, DeliverStep
<1> QED
  BY <1>6, <1>7

LEMMA QuietSteps ==
    ASSUME DeltaInv, Flush \/ Attach \/ Detach
    PROVE  DeltaInv'
<1>1. TypeInv
  BY DEF DeltaInv
<1>2. lastTid \in 0..MaxTid /\ attached \in BOOLEAN /\ inApply \in BOOLEAN
  BY <1>1 DEF TypeInv, TypeOK
<1>3. Untouched /\ UNCHANGED <<applied, buffer, pending>> /\ lastTid' = lastTid
  BY DEF Flush, Attach, Detach, storeVars, memVars, diskVars, Untouched
<1>4. lastTid' \in {lastTid, lastTid + 1} /\ lastTid' <= MaxTid
  BY <1>2, <1>3, DeltaLogConstants
<1>5. attached' \in BOOLEAN /\ inApply' \in BOOLEAN
  BY <1>2 DEF Flush, Attach, Detach, storeVars
<1>6. attached => applied = lastTid /\ pc \in Open_
  BY <1>1 DEF TypeInv
<1>7. attached' => applied = lastTid' /\ pc' \in Open_
  BY <1>3, <1>6 DEF Flush, Attach, Detach, storeVars, Open_
<1>8. \/ pc' = pc /\ pc \in {"closed", "idle"}
      \/ pc = "idle" /\ pc' = "append" /\ buffer # <<>>
  BY DEF Flush, Attach, Detach
<1> QED
  BY <1>3, <1>4, <1>5, <1>7, <1>8, QuietStep

LEMMA Stutter == ASSUME DeltaInv, UNCHANGED vars PROVE DeltaInv'
<1>1. /\ lastTid' = lastTid /\ attached' = attached /\ pc' = pc /\ inApply' = inApply
      /\ applied' = applied /\ watermark' = watermark /\ genesis' = genesis
      /\ buffer' = buffer /\ pending' = pending /\ segs' = segs /\ nextSeg' = nextSeg
      /\ files' = files /\ manifest' = manifest /\ debris' = debris
  BY DEF vars, storeVars, memVars, diskVars
<1>2. TypeInv'
  BY <1>1 DEF DeltaInv, TypeInv, TypeOK, InMemory
<1>3. BufferInv'
  BY <1>1 DEF DeltaInv, BufferInv
<1>4. ShapeInv'
  BY <1>1 DEF DeltaInv, ShapeInv
<1>5. HonestInv'
  BY <1>1 DEF DeltaInv, HonestInv
<1> QED
  BY <1>2, <1>3, <1>4, <1>5 DEF DeltaInv

-----------------------------------------------------------------------------
(* Steps that load a manifest: crash, bootstrap, reopening. *)

Recordable(fs, m) ==
    /\ m \in Manifests /\ m.genesis <= m.wm
    /\ Shaped(fs, m.segs, m.nextSeg)
    /\ \A i \in 1..Len(m.segs) : m.genesis < m.segs[i].last /\ m.segs[i].last <= m.wm

LEMMA FreshRecordable == ASSUME NEW fs PROVE Recordable(fs, FreshManifest)
<1>1. Shaped(fs, <<>>, 1)
  BY NoSegments
<1>2. Len(<<>>) = 0
  OBVIOUS
<1> QED
  BY <1>1, <1>2, FreshType DEF Recordable

LEMMA ManifestRecordable == ASSUME TypeInv, ShapeInv PROVE Recordable(files, manifest)
BY DEF TypeInv, ShapeInv, Recordable

(* The log is not open: its memory is fresh. *)
LEMMA CloseStep ==
    ASSUME TypeInv, Load(FreshManifest), lastTid' = lastTid, ~attached', attached' \in BOOLEAN,
           inApply' \in BOOLEAN, pc' \in {"closed", "joining"},
           files' \in Disks, Recordable(files', manifest'), manifest'.wm <= lastTid,
           debris' \in Debris,
           debris' # "counted" =>
               Chain(files', manifest'.segs, manifest'.genesis, manifest'.wm),
           pc' = "joining" => manifest' = FreshManifest /\ files' = NoFiles
    PROVE  DeltaInv'
<1>1. /\ applied' = 0 /\ watermark' = 0 /\ genesis' = 0 /\ segs' = <<>> /\ nextSeg' = 1
      /\ buffer' = <<>> /\ pending' = 0
  BY FreshType DEF Load
<1>2. pc' \notin Open_ /\ pc' # "manifest"
  BY DEF Open_
<1>3. lastTid \in Nat /\ lastTid <= MaxTid /\ MaxTid \in Nat
  BY Counters
<1>4. manifest' \in Manifests /\ manifest'.genesis <= manifest'.wm
  BY DEF Recordable
<1>5. /\ manifest'.wm \in Nat /\ manifest'.segs \in Seq(Segments)
  BY <1>4, ManifestType
<1>6. TypeInv'
  <2>1. TypeOK'
    <3>1. {applied', watermark', genesis'} \subseteq 0..lastTid' /\ lastTid' \in 0..MaxTid
          /\ manifest'.wm \in 0..lastTid'
      BY <1>1, <1>3, <1>5
    <3>2. buffer' \in Seq(1..MaxTid) /\ pending' \in 0..Len(buffer')
          /\ segs' \in Seq(Segments) /\ nextSeg' \in 1..(MaxSegs + 1)
      <4>1. Len(<<>>) = 0
        OBVIOUS
      <4> QED
        BY <1>1, <4>1, DeltaLogConstants
    <3>3. \A n \in SegNos : files'[n] = NoFile \/ files'[n] \in Seq((1..MaxTid) \X {0, 1})
      <4>1. Files(files')
        BY DiskFiles
      <4> QED
        BY <4>1 DEF Files, Cell
    <3>4. pc' \in {"closed", "idle", "append", "manifest", "joining"}
      OBVIOUS
    <3> QED
      BY <1>5, <3>1, <3>2, <3>3, <3>4 DEF TypeOK
  <2>2. InMemory' = FreshManifest
    BY <1>1 DEF InMemory, FreshManifest
  <2>3. genesis' <= watermark' /\ watermark' <= applied'
    BY <1>1
  <2>4. pc' \notin {"append", "manifest"}
    OBVIOUS
  <2> QED
    BY <1>1, <1>2, <1>4, <2>1, <2>2, <2>3, <2>4 DEF TypeInv
<1>7. BufferInv'
  <2>1. Len(<<>>) = 0 /\ After(0, 0) = <<>>
    BY AfterNothing
  <2>2. applied' - Len(buffer') = 0
    <3>1. Len(buffer') = 0
      BY <1>1, <2>1
    <3>2. applied' = 0
      BY <1>1
    <3> QED
      BY <3>1, <3>2
  <2>3. After(applied' - Len(buffer'), applied') = <<>>
    BY <1>1, <2>1, <2>2
  <2> QED
    BY <1>1, <2>1, <2>2, <2>3 DEF BufferInv
<1>8. ShapeInv'
  <2>1. Shaped(files', segs', nextSeg')
    BY <1>1, NoSegments
  <2>2. Shaped(files', manifest'.segs, manifest'.nextSeg)
        /\ \A i \in 1..Len(manifest'.segs) : manifest'.genesis < manifest'.segs[i].last
                                             /\ manifest'.segs[i].last <= manifest'.wm
    BY DEF Recordable
  <2>3. Len(segs') = 0
    BY <1>1
  <2> QED
    BY <1>2, <2>1, <2>2, <2>3 DEF ShapeInv
<1>9. HonestInv'
  BY <1>2 DEF HonestInv
<1> QED
  BY <1>6, <1>7, <1>8, <1>9 DEF DeltaInv

LEMMA CrashStep == ASSUME DeltaInv, Crash PROVE DeltaInv'
<1>1. TypeInv /\ ShapeInv /\ HonestInv
  BY DEF DeltaInv
<1>2. /\ pc' = "closed" /\ inApply' = FALSE /\ attached' = FALSE /\ Load(FreshManifest)
      /\ lastTid' = lastTid /\ files' = files /\ manifest' = manifest /\ debris' = debris
  BY DEF Crash, diskVars
<1>3. files' \in Disks /\ Recordable(files', manifest')
  BY <1>1, <1>2, ManifestRecordable DEF TypeInv
<1>4. manifest'.wm <= lastTid /\ debris' \in Debris
  <2>1. manifest.wm \in 0..lastTid /\ lastTid \in Nat /\ debris \in Debris
    BY <1>1, Counters DEF TypeInv, TypeOK
  <2> QED
    BY <1>2, <2>1
<1>5. debris' # "counted" => Chain(files', manifest'.segs, manifest'.genesis, manifest'.wm)
  BY <1>1, <1>2 DEF HonestInv
<1>6. pc' # "joining" /\ pc' \in {"closed", "joining"}
  BY <1>2
<1> QED
  BY <1>1, <1>2, <1>3, <1>4, <1>5, <1>6, CloseStep

LEMMA NoFilesType == NoFiles \in Disks
BY DEF NoFiles, Disks

LEMMA BootstrapStep == ASSUME DeltaInv, Bootstrap PROVE DeltaInv'
<1>1. TypeInv
  BY DEF DeltaInv
<1>2. /\ pc = "closed" /\ files' = NoFiles /\ manifest' = FreshManifest /\ debris' = "none"
      /\ Load(FreshManifest) /\ pc' = "joining"
      /\ lastTid' = lastTid /\ attached' = attached /\ inApply' = inApply
  BY DEF Bootstrap, storeVars
<1>3. ~attached /\ attached \in BOOLEAN /\ inApply \in BOOLEAN /\ lastTid \in Nat
  BY <1>1, <1>2, Counters DEF TypeInv, TypeOK, Open_
<1>4. files' \in Disks /\ Recordable(files', manifest') /\ manifest'.wm <= lastTid
  BY <1>2, <1>3, NoFilesType, FreshRecordable, FreshType
<1>5. Chain(files', manifest'.segs, manifest'.genesis, manifest'.wm)
  BY <1>2, FreshType, NoSegments
<1>6. debris' \in Debris /\ pc' \in {"closed", "joining"}
  BY <1>2 DEF Debris
<1> QED
  BY <1>1, <1>2, <1>3, <1>4, <1>5, <1>6, CloseStep

LEMMA ContinuesSelf == ASSUME NEW sg \in Seq(Segments) PROVE Continues(sg, sg)
<1>1. \A i \in 1..Len(sg) : sg[i].nbytes <= sg[i].nbytes /\ sg[i].last <= sg[i].last
  BY SegmentType
<1>2. Len(sg) <= Len(sg)
  OBVIOUS
<1> QED
  BY <1>1, <1>2 DEF Continues

(* The log is open with what its manifest says. *)
LEMMA LoadStep ==
    ASSUME TypeInv, Load(manifest'), lastTid' = lastTid, attached' = FALSE,
           inApply' \in BOOLEAN, pc' = "idle",
           files' \in Disks, Recordable(files', manifest'), manifest'.wm <= lastTid,
           debris' \in Debris,
           debris' # "counted" =>
               /\ Chain(files', manifest'.segs, manifest'.genesis, manifest'.wm)
               /\ Exact(files', manifest'.segs, manifest'.nextSeg)
    PROVE  DeltaInv'
<1>1. /\ applied' = manifest'.wm /\ watermark' = manifest'.wm /\ genesis' = manifest'.genesis
      /\ segs' = manifest'.segs /\ nextSeg' = manifest'.nextSeg
      /\ buffer' = <<>> /\ pending' = 0
  BY DEF Load
<1>2. pc' \in Open_ /\ pc' # "manifest"
  BY DEF Open_
<1>3. lastTid \in Nat /\ lastTid <= MaxTid /\ MaxTid \in Nat
  BY Counters
<1>4. manifest' \in Manifests /\ manifest'.genesis <= manifest'.wm
  BY DEF Recordable
<1>5. /\ manifest'.wm \in Nat /\ manifest'.genesis \in Nat /\ manifest'.segs \in Seq(Segments)
      /\ manifest'.nextSeg \in 1..(MaxSegs + 1) /\ manifest'.nextSeg \in Nat
  BY <1>4, ManifestType
<1>6. Len(buffer') = 0
  BY <1>1
<1>7. TypeInv'
  <2>1. TypeOK'
    <3>1. {applied', watermark', genesis'} \subseteq 0..lastTid' /\ lastTid' \in 0..MaxTid
          /\ manifest'.wm \in 0..lastTid'
      BY <1>1, <1>3, <1>4, <1>5
    <3>2. buffer' \in Seq(1..MaxTid) /\ pending' \in 0..Len(buffer')
          /\ segs' \in Seq(Segments) /\ nextSeg' \in 1..(MaxSegs + 1)
      BY <1>1, <1>5, <1>6
    <3>3. \A n \in SegNos : files'[n] = NoFile \/ files'[n] \in Seq((1..MaxTid) \X {0, 1})
      <4>1. Files(files')
        BY DiskFiles
      <4> QED
        BY <4>1 DEF Files, Cell
    <3> QED
      BY <1>5, <3>1, <3>2, <3>3 DEF TypeOK
  <2>2. genesis' <= watermark' /\ watermark' <= applied'
    BY <1>1, <1>4, <1>5
  <2>3. pc' \notin {"append", "manifest", "joining"}
    OBVIOUS
  <2> QED
    BY <1>2, <1>4, <2>1, <2>2, <2>3 DEF TypeInv
<1>8. BufferInv'
  <2>1. applied' \in Nat
    BY <1>1, <1>5
  <2>2. applied' - Len(buffer') = applied'
    <3>1. \A x \in Nat : x - 0 = x
      OBVIOUS
    <3> QED
      BY <2>1, <1>6, <3>1, Zenon
  <2>3. After(applied', applied') = <<>>
    BY <2>1, AfterNothing
  <2>4. buffer' = After(applied' - Len(buffer'), applied')
    BY <1>1, <2>2, <2>3
  <2>5. genesis' <= applied' - Len(buffer') /\ pending' = Len(buffer')
    BY <1>1, <1>4, <1>6, <2>2
  <2> QED
    BY <2>4, <2>5 DEF BufferInv
<1>9. ShapeInv'
  <2>1. Shaped(files', manifest'.segs, manifest'.nextSeg)
        /\ \A i \in 1..Len(manifest'.segs) : manifest'.genesis < manifest'.segs[i].last
                                             /\ manifest'.segs[i].last <= manifest'.wm
    BY DEF Recordable
  <2>2. Continues(manifest'.segs, manifest'.segs)
    BY <1>5, ContinuesSelf
  <2>3. manifest'.nextSeg <= nextSeg'
    BY <1>1, <1>5
  <2> QED
    BY <1>1, <2>1, <2>2, <2>3 DEF ShapeInv
<1>10. HonestInv'
  <2>1. watermark' = applied' - Len(buffer') /\ watermark' = manifest'.wm
        /\ Len(buffer') < FlushEvery
    BY <1>1, <1>5, <1>6, DeltaLogConstants
  <2>2. debris' # "counted" => Chain(files', manifest'.segs, manifest'.genesis, manifest'.wm)
    OBVIOUS
  <2>3. debris' = "none" => /\ Chain(files', segs', genesis', watermark')
                            /\ Exact(files', segs', nextSeg')
    BY <1>1
  <2> QED
    BY <1>2, <2>1, <2>2, <2>3 DEF HonestInv
<1> QED
  BY <1>7, <1>8, <1>9, <1>10 DEF DeltaInv

LEMMA OpenStep == ASSUME DeltaInv, Open PROVE DeltaInv'
<1>1. TypeInv /\ ShapeInv /\ HonestInv
  BY DEF DeltaInv
<1>2. /\ pc = "closed" /\ Load(manifest) /\ files' = Reconciled(files, manifest.segs)
      /\ debris' = IF debris = "counted" THEN "counted" ELSE "none"
      /\ pc' = "idle" /\ manifest' = manifest
      /\ lastTid' = lastTid /\ attached' = attached /\ inApply' = inApply
  BY DEF Open, storeVars
<1>3. attached = FALSE /\ inApply \in BOOLEAN
  <2>1. ~attached /\ attached \in BOOLEAN /\ inApply \in BOOLEAN
    BY <1>1, <1>2 DEF TypeInv, TypeOK, Open_
  <2> QED
    BY <2>1
<1>4. /\ manifest.wm \in 0..lastTid /\ lastTid \in Nat /\ debris \in Debris
      /\ files \in Disks /\ manifest \in Manifests
  BY <1>1, Counters DEF TypeInv, TypeOK
<1>5. manifest.segs \in Seq(Segments) /\ manifest.nextSeg \in Nat
  BY <1>4, ManifestType
<1>6. Shaped(files, manifest.segs, manifest.nextSeg)
  BY <1>1 DEF ShapeInv
<1>7. files' \in Disks
  BY <1>2, <1>4, <1>5, <1>6, ReconciledDisk
<1>8. Keeps(files, files', manifest.segs)
  BY <1>2, <1>4, <1>5, <1>6, ReconciledKeeps
<1>9. Shaped(files', manifest.segs, manifest.nextSeg)
  BY <1>6, <1>8, KeepsShaped
<1>10. Exact(files', manifest.segs, manifest.nextSeg)
  BY <1>2, <1>4, <1>5, <1>6, ReconciledExact
<1>11. Recordable(files', manifest')
  <2>1. Recordable(files, manifest)
    BY <1>1, ManifestRecordable
  <2> QED
    BY <2>1, <1>2, <1>9 DEF Recordable
<1>12. debris' \in Debris /\ (debris' # "counted" => debris # "counted")
  BY <1>2 DEF Debris
<1>13. debris # "counted" => Chain(files', manifest.segs, manifest.genesis, manifest.wm)
  <2>1. debris # "counted" => Chain(files, manifest.segs, manifest.genesis, manifest.wm)
    BY <1>1 DEF HonestInv
  <2> QED
    BY <2>1, <1>8, KeepsChain
<1>14. Load(manifest')
  BY <1>2
<1>15. /\ manifest'.wm <= lastTid /\ attached' = FALSE /\ inApply' \in BOOLEAN
  BY <1>2, <1>3, <1>4
<1>16. debris' # "counted" =>
          /\ Chain(files', manifest'.segs, manifest'.genesis, manifest'.wm)
          /\ Exact(files', manifest'.segs, manifest'.nextSeg)
  BY <1>2, <1>10, <1>12, <1>13
<1> QED
  BY <1>1, <1>2, <1>7, <1>11, <1>12, <1>14, <1>15, <1>16, LoadStep

LEMMA JoinStep == ASSUME DeltaInv, Join PROVE DeltaInv'
<1>1. TypeInv /\ BufferInv
  BY DEF DeltaInv
<1>2. /\ pc = "joining" /\ genesis' = lastTid /\ watermark' = lastTid /\ applied' = lastTid
      /\ manifest' = [wm |-> lastTid, genesis |-> lastTid, segs |-> segs, nextSeg |-> nextSeg]
      /\ pc' = "idle" /\ lastTid' = lastTid /\ attached' = attached /\ inApply' = inApply
      /\ buffer' = buffer /\ pending' = pending /\ segs' = segs /\ nextSeg' = nextSeg
      /\ files' = files /\ debris' = debris
  BY DEF Join, storeVars
<1>3. attached = FALSE /\ inApply \in BOOLEAN
  <2>1. ~attached /\ attached \in BOOLEAN /\ inApply \in BOOLEAN
    BY <1>1, <1>2 DEF TypeInv, TypeOK, Open_
  <2> QED
    BY <2>1
<1>4. files = NoFiles /\ InMemory = FreshManifest /\ buffer = <<>>
  BY <1>1, <1>2 DEF TypeInv, Open_
<1>5. segs = <<>> /\ nextSeg = 1
  BY <1>1, <1>4, InMemoryType, FreshType
<1>6. pending = 0
  <2>1. pending = Len(buffer)
    BY <1>1 DEF BufferInv
  <2> QED
    BY <2>1, <1>4
<1>7. lastTid \in 0..MaxTid /\ lastTid \in Nat /\ debris \in Debris
  BY <1>1, Counters DEF TypeInv, TypeOK
<1>8. /\ manifest' \in Manifests
      /\ manifest'.wm = lastTid /\ manifest'.genesis = lastTid
      /\ manifest'.segs = <<>> /\ manifest'.nextSeg = 1
  <2>1. <<>> \in Seq(Segments) /\ 1 \in 1..(MaxSegs + 1)
    BY DeltaLogConstants
  <2> QED
    BY <2>1, <1>2, <1>5, <1>7 DEF Manifests
<1>9. Load(manifest')
  BY <1>2, <1>4, <1>5, <1>6, <1>8 DEF Load
<1>10. files' \in Disks
  BY <1>2, <1>4, NoFilesType
<1>11. Recordable(files', manifest')
  <2>1. Shaped(files', <<>>, 1)
    BY NoSegments
  <2>2. Len(<<>>) = 0
    OBVIOUS
  <2> QED
    BY <2>1, <2>2, <1>7, <1>8 DEF Recordable
<1>12. Chain(files', manifest'.segs, manifest'.genesis, manifest'.wm)
  BY <1>8, NoSegments
<1>13. Exact(files', manifest'.segs, manifest'.nextSeg)
  <2>1. \A n \in SegNos : files'[n] = NoFile
    BY <1>2, <1>4 DEF NoFiles
  <2>2. Len(<<>>) = 0
    OBVIOUS
  <2> QED
    BY <2>1, <2>2, <1>8 DEF Exact
<1>14. manifest'.wm <= lastTid /\ attached' = FALSE /\ inApply' \in BOOLEAN
       /\ debris' \in Debris
  BY <1>2, <1>3, <1>7, <1>8
<1> QED
  BY <1>1, <1>2, <1>9, <1>10, <1>11, <1>12, <1>13, <1>14, LoadStep

-----------------------------------------------------------------------------
(* The two halves of a flush. *)

(* The manifest is replaced, or the attempt raises. *)
Replaced ==
    /\ manifest' = InMemory
    /\ buffer' = <<>>
    /\ pending' = 0
    /\ debris' = debris

Raised ==
    /\ manifest' \in {manifest, InMemory}
    /\ buffer' = buffer
    /\ pending' = pending
    /\ debris' \in {"doubled", "counted"}
    /\ debris' # "counted" => debris # "counted"

LEMMA ManifestStep ==
    ASSUME DeltaInv, pc = "manifest", pc' = "idle", Replaced \/ Raised,
           UNCHANGED <<lastTid, applied, watermark, genesis, segs, nextSeg, files>>,
           attached' \in BOOLEAN, attached' => attached, inApply' \in BOOLEAN
    PROVE  DeltaInv'
<1>1. TypeInv /\ BufferInv /\ ShapeInv /\ HonestInv
  BY DEF DeltaInv
<1>2. /\ lastTid' = lastTid /\ applied' = applied /\ watermark' = watermark
      /\ genesis' = genesis /\ segs' = segs /\ nextSeg' = nextSeg /\ files' = files
  OBVIOUS
<1>3. /\ lastTid \in Nat /\ applied \in Nat /\ watermark \in Nat /\ genesis \in Nat
      /\ genesis <= watermark /\ watermark <= applied /\ applied <= lastTid
      /\ lastTid <= MaxTid /\ MaxTid \in Nat
      /\ segs \in Seq(Segments) /\ nextSeg \in 1..(MaxSegs + 1) /\ nextSeg \in Nat
  BY <1>1, Counters
<1>4. pc \in Open_ /\ pc' \in Open_ /\ pc' # "manifest"
  BY DEF Open_
<1>5. watermark = applied /\ debris \notin {"torn", "doubled"} /\ debris \in Debris
  BY <1>1 DEF TypeInv, TypeOK
<1>6. /\ InMemory \in Manifests
      /\ InMemory.wm = watermark /\ InMemory.genesis = genesis
      /\ InMemory.segs = segs /\ InMemory.nextSeg = nextSeg
  BY <1>1, InMemoryType
<1>7. Recordable(files, InMemory)
  <2>1. Shaped(files, segs, nextSeg)
    BY <1>1 DEF ShapeInv
  <2>2. \A i \in 1..Len(segs) : genesis < segs[i].last /\ segs[i].last <= watermark
    BY <1>1 DEF ShapeInv
  <2> QED
    BY <1>3, <1>6, <2>1, <2>2 DEF Recordable
<1>8. Recordable(files, manifest) /\ manifest \in Manifests
  BY <1>1, ManifestRecordable DEF TypeInv
<1>9. manifest' = manifest \/ manifest' = InMemory
  BY DEF Replaced, Raised
<1>10. manifest' \in Manifests /\ Recordable(files, manifest')
  BY <1>6, <1>7, <1>8, <1>9, Zenon
<1>11. manifest'.wm \in 0..lastTid /\ manifest'.segs \in Seq(Segments)
       /\ manifest'.genesis <= manifest'.wm
  <2>1. manifest.wm \in 0..lastTid /\ watermark \in 0..lastTid
    BY <1>1, <1>3 DEF TypeInv, TypeOK
  <2>2. manifest'.wm \in 0..lastTid
    BY <2>1, <1>6, <1>9
  <2> QED
    BY <2>2, <1>10, ManifestType DEF Recordable
<1>12. buffer' \in Seq(1..MaxTid) /\ pending' \in 0..Len(buffer') /\ pending' = Len(buffer')
  <2>1. buffer \in Seq(1..MaxTid) /\ pending = Len(buffer)
    BY <1>1 DEF TypeInv, TypeOK, BufferInv
  <2>2. CASE Replaced
    <3>1. Len(<<>>) = 0
      OBVIOUS
    <3> QED
      BY <2>2, <3>1 DEF Replaced
  <2>3. CASE Raised
    BY <2>1, <2>3 DEF Raised
  <2> QED
    BY <2>2, <2>3
<1>13. debris' \in Debris
  BY <1>5 DEF Replaced, Raised, Debris
<1>14. TypeInv'
  <2>1. TypeOK'
    <3>1. {applied', watermark', genesis'} \subseteq 0..lastTid' /\ lastTid' \in 0..MaxTid
      BY <1>2, <1>3
    <3>2. \A n \in SegNos : files'[n] = NoFile \/ files'[n] \in Seq((1..MaxTid) \X {0, 1})
      BY <1>1, <1>2 DEF TypeInv, TypeOK
    <3>3. manifest'.wm \in 0..lastTid' /\ manifest'.segs \in Seq(Segments)
      BY <1>2, <1>11
    <3>4. segs' \in Seq(Segments) /\ nextSeg' \in 1..(MaxSegs + 1)
      BY <1>2, <1>3
    <3> QED
      BY <1>12, <1>13, <3>1, <3>2, <3>3, <3>4 DEF TypeOK
  <2>2. files' \in Disks
    BY <1>1, <1>2 DEF TypeInv
  <2>3. attached' => applied' = lastTid'
    BY <1>1, <1>2 DEF TypeInv
  <2>4. genesis' <= watermark' /\ watermark' <= applied'
    BY <1>2, <1>3
  <2>5. pc' \notin {"append", "manifest", "joining"}
    OBVIOUS
  <2> QED
    BY <1>4, <1>10, <1>11, <2>1, <2>2, <2>3, <2>4, <2>5 DEF TypeInv
<1>15. BufferInv'
  <2>1. CASE Raised
    BY <1>1, <1>2, <2>1 DEF BufferInv, Raised
  <2>2. CASE Replaced
    <3>1. buffer' = <<>> /\ Len(buffer') = 0
      BY <2>2 DEF Replaced
    <3>2. \A x \in Nat : x - 0 = x
      OBVIOUS
    <3>3. applied' - Len(buffer') = applied'
      BY <1>2, <1>3, <3>1, <3>2, Zenon
    <3>4. After(applied', applied') = <<>>
      BY <1>2, <1>3, AfterNothing
    <3>5. genesis' <= applied'
      BY <1>2, <1>3
    <3> QED
      BY <1>12, <3>1, <3>3, <3>4, <3>5 DEF BufferInv
  <2> QED
    BY <2>1, <2>2
<1>16. ShapeInv'
  <2>1. Shaped(files', manifest'.segs, manifest'.nextSeg)
        /\ \A i \in 1..Len(manifest'.segs) : manifest'.genesis < manifest'.segs[i].last
                                             /\ manifest'.segs[i].last <= manifest'.wm
    BY <1>2, <1>10 DEF Recordable
  <2>2. Shaped(files', segs', nextSeg')
    BY <1>1, <1>2 DEF ShapeInv
  <2>3. \A i \in 1..Len(segs') : segs'[i].last <= watermark' /\ genesis' < segs'[i].last
    BY <1>1, <1>2 DEF ShapeInv
  <2>4. genesis' = manifest'.genesis /\ manifest'.nextSeg <= nextSeg'
        /\ Continues(segs', manifest'.segs)
    <3>1. CASE manifest' = manifest
      BY <1>1, <1>2, <1>4, <3>1 DEF ShapeInv
    <3>2. CASE manifest' = InMemory
      <4>1. Continues(segs, segs)
        BY <1>3, ContinuesSelf
      <4> QED
        BY <1>2, <1>3, <1>6, <3>2, <4>1
    <3> QED
      BY <1>9, <3>1, <3>2
  <2> QED
    BY <2>1, <2>2, <2>3, <2>4 DEF ShapeInv
<1>17. HonestInv'
  <2>1. debris' # "counted" => debris = "none"
    BY <1>5 DEF Replaced, Raised, Debris
  <2>2. debris = "none" => /\ Chain(files, manifest.segs, manifest.genesis, manifest.wm)
                           /\ Chain(files, segs, genesis, watermark)
                           /\ Exact(files, segs, nextSeg)
    BY <1>1, <1>4 DEF HonestInv
  <2>3. debris' # "counted" => Chain(files', manifest'.segs, manifest'.genesis, manifest'.wm)
    BY <1>2, <1>6, <1>9, <2>1, <2>2
  <2>4. ASSUME debris' = "none"
        PROVE  /\ Chain(files', segs', genesis', watermark') /\ Exact(files', segs', nextSeg')
               /\ watermark' = applied' - Len(buffer') /\ watermark' = manifest'.wm
               /\ Len(buffer') < FlushEvery
    <3>1. Replaced /\ Len(<<>>) = 0
      BY <2>4 DEF Raised
    <3>2. Len(buffer') = 0 /\ manifest' = InMemory
      BY <3>1 DEF Replaced
    <3>3. \A x \in Nat : x - 0 = x
      OBVIOUS
    <3>4. applied' - Len(buffer') = applied'
      BY <1>2, <1>3, <3>2, <3>3, Zenon
    <3>5. Len(buffer') < FlushEvery
      BY <3>2, DeltaLogConstants
    <3> QED
      BY <1>2, <1>5, <1>6, <2>1, <2>2, <2>4, <3>2, <3>4, <3>5
  <2> QED
    BY <1>4, <2>3, <2>4 DEF HonestInv
<1> QED
  BY <1>14, <1>15, <1>16, <1>17 DEF DeltaInv

LEMMA FlushManifestStep ==
    ASSUME DeltaInv, FlushManifest \/ FlushManifestFails
    PROVE  DeltaInv'
<1>1. attached \in BOOLEAN /\ inApply \in BOOLEAN /\ debris \in Debris
  BY DEF DeltaInv, TypeInv, TypeOK
<1>2. CASE FlushManifest
  <2>1. /\ pc = "manifest" /\ pc' = "idle" /\ Replaced
        /\ UNCHANGED <<lastTid, applied, watermark, genesis, segs, nextSeg, files>>
        /\ attached' = attached /\ inApply' = FALSE
    BY <1>2 DEF FlushManifest, Replaced, storeVars
  <2>2. attached' \in BOOLEAN /\ (attached' => attached) /\ inApply' \in BOOLEAN
    BY <1>1, <2>1
  <2> QED
    BY <2>1, <2>2, ManifestStep
<1>3. CASE FlushManifestFails
  <2>1. /\ pc = "manifest" /\ pc' = "idle" /\ manifest' \in {manifest, InMemory}
        /\ UNCHANGED <<lastTid, memVars, files>>
        /\ attached' = (attached /\ ~inApply) /\ inApply' = FALSE
        /\ debris' = IF debris = "none" THEN "doubled" ELSE debris
        /\ debris \notin {"torn", "doubled"}
    BY <1>3 DEF FlushManifestFails, Raises, DeltaInv, TypeInv
  <2>2. Raised /\ UNCHANGED <<lastTid, applied, watermark, genesis, segs, nextSeg, files>>
    BY <1>1, <2>1 DEF Raised, memVars, Debris
  <2>3. attached' \in BOOLEAN /\ (attached' => attached) /\ inApply' \in BOOLEAN
    <3>1. (attached /\ ~inApply) \in BOOLEAN
      OBVIOUS
    <3> QED
      BY <2>1, <3>1
  <2> QED
    BY <2>1, <2>2, <2>3, ManifestStep
<1> QED
  BY <1>2, <1>3

LEMMA ContinuesLonger ==
    ASSUME NEW sg \in Seq(Segments), NEW tg \in Seq(Segments), NEW old \in Seq(Segments),
           Continues(sg, old), Len(sg) <= Len(tg), \A i \in 1..Len(sg) : tg[i] = sg[i]
    PROVE  Continues(tg, old)
<1>1. Len(old) \in Nat /\ Len(sg) \in Nat /\ Len(tg) \in Nat
  OBVIOUS
<1>2. Len(old) <= Len(sg) /\ Len(old) <= Len(tg)
  BY <1>1 DEF Continues
<1>3. \A i \in 1..Len(old) : tg[i] = sg[i]
  BY <1>1, <1>2
<1> QED
  BY <1>2, <1>3 DEF Continues

LEMMA ContinuesGrown ==
    ASSUME NEW sg \in Seq(Segments), NEW tg \in Seq(Segments), NEW old \in Seq(Segments),
           Continues(sg, old), Len(sg) > 0, Len(tg) = Len(sg),
           \A i \in 1..(Len(sg) - 1) : tg[i] = sg[i],
           tg[Len(sg)].no = sg[Len(sg)].no,
           sg[Len(sg)].nbytes <= tg[Len(sg)].nbytes, sg[Len(sg)].last <= tg[Len(sg)].last
    PROVE  Continues(tg, old)
<1>1. Len(old) \in Nat /\ Len(sg) \in Nat
  OBVIOUS
<1>2. Len(old) <= Len(sg) /\ Len(old) <= Len(tg)
  BY DEF Continues
<1>3. ASSUME NEW i \in 1..Len(old)
      PROVE  IF i < Len(old) THEN tg[i] = old[i]
             ELSE tg[i].no = old[i].no /\ old[i].nbytes <= tg[i].nbytes /\ old[i].last <= tg[i].last
  <2>1. IF i < Len(old) THEN sg[i] = old[i]
        ELSE sg[i].no = old[i].no /\ old[i].nbytes <= sg[i].nbytes /\ old[i].last <= sg[i].last
    BY DEF Continues
  <2>2. CASE i < Len(sg)
    <3>1. tg[i] = sg[i]
      BY <1>1, <2>2
    <3> QED
      BY <2>1, <3>1
  <2>3. CASE ~(i < Len(sg))
    <3>1. i = Len(sg) /\ ~(i < Len(old)) /\ i \in 1..Len(sg) /\ i \in 1..Len(tg)
      BY <1>1, <1>2, <2>3
    <3>2. /\ old[i].nbytes \in Nat /\ old[i].last \in Nat /\ sg[i].nbytes \in Nat
          /\ sg[i].last \in Nat /\ tg[i].nbytes \in Nat /\ tg[i].last \in Nat
      BY <3>1, SegmentType
    <3>3. /\ tg[i].no = old[i].no /\ old[i].nbytes <= sg[i].nbytes /\ old[i].last <= sg[i].last
          /\ sg[i].nbytes <= tg[i].nbytes /\ sg[i].last <= tg[i].last
      BY <2>1, <3>1
    <3>4. old[i].nbytes <= tg[i].nbytes /\ old[i].last <= tg[i].last
      BY <3>2, <3>3, SMTT(30)
    <3> QED
      BY <3>1, <3>3, <3>4
  <2> QED
    BY <2>2, <2>3
<1> QED
  BY <1>2, <1>3 DEF Continues

(* The current segment takes a batch: the cells of the file are all counted   *)
(* before, and after.                                                        *)
LEMMA SegmentGrows ==
    ASSUME NEW fs \in Disks, NEW gs \in Disks, NEW b \in Seq(1..MaxTid),
           NEW seg \in Segments, NEW f \in Nat, NEW w \in Nat, NEW a \in Nat,
           f <= w, w < a, b = After(w, a), Len(b) = a - w,
           Content(gs, seg.no) = Content(fs, seg.no) \o Cells(b),
           Len(Content(fs, seg.no)) = 2 * (w - f),
           Frames(Content(fs, seg.no)) = After(f, w),
           seg.first = f + 1, seg.last = a, seg.nbytes = 2 * (a - f)
    PROVE  Holds(gs, seg) /\ Len(Content(gs, seg.no)) = seg.nbytes
<1>1. seg.no \in SegNos
  BY DEF Segments
<1>2. PICK c : c = Content(fs, seg.no)
  OBVIOUS
<1>3. c \in Seq(Cell)
  BY <1>1, <1>2, DiskFiles, ContentType
<1>4. PICK k \in Nat : k = w - f
  BY w - f \in Nat
<1>5. Len(c) = 2 * k /\ Frames(c) = After(f, w)
  BY <1>2, <1>4
<1>6. Frames(c \o Cells(b)) = Frames(c) \o b
  BY <1>3, <1>5, FramesAppend
<1>7. Frames(c) \o b = After(f, a)
  <2>1. w <= a
    OBVIOUS
  <2>2. After(f, w) \o After(w, a) = After(f, a)
    BY <2>1, AfterAfter
  <2> QED
    BY <1>5, <2>2
<1>8. Cells(b) \in Seq(Cell) /\ Len(Cells(b)) = 2 * Len(b)
  BY CellsType
<1>9. c \o Cells(b) \in Seq(Cell) /\ Len(c \o Cells(b)) = 2 * (a - f)
  <2>1. c \o Cells(b) \in Seq(Cell) /\ Len(c \o Cells(b)) = Len(c) + Len(Cells(b))
    BY <1>3, <1>8, ConcatType
  <2> QED
    BY <2>1, <1>4, <1>5, <1>8
<1>10. PICK d : d = c \o Cells(b)
  OBVIOUS
<1>11. d \in Seq(Cell) /\ Len(d) = seg.nbytes /\ Content(gs, seg.no) = d
  BY <1>2, <1>9, <1>10
<1>12. SubSeq(d, 1, seg.nbytes) = d
  BY <1>11
<1>13. Committed(gs, seg) = d
  BY <1>11, <1>12 DEF Committed
<1>14. Frames(Committed(gs, seg)) = After(seg.first - 1, seg.last)
  <2>1. seg.first - 1 = f
    OBVIOUS
  <2> QED
    BY <2>1, <1>6, <1>7, <1>10, <1>13
<1>15. seg.first <= seg.last /\ seg.nbytes = 2 * (seg.last - seg.first + 1)
  OBVIOUS
<1> QED
  BY <1>11, <1>14, <1>15 DEF Holds

LEMMA ChainGrows ==
    ASSUME NEW fs, NEW gs, NEW en \in Seq(Segments), NEW tg \in Seq(Segments),
           NEW g \in Nat, NEW a,
           Len(en) > 0, Len(tg) = Len(en), \A i \in 1..(Len(en) - 1) : tg[i] = en[i],
           \A i \in 1..(Len(en) - 1) :
               /\ Holds(fs, en[i]) /\ Committed(gs, en[i]) = Committed(fs, en[i])
               /\ en[i].first = EndOf(en, g, i - 1) + 1,
           Holds(gs, tg[Len(en)]), tg[Len(en)].first = EndOf(en, g, Len(en) - 1) + 1,
           tg[Len(en)].last = a
    PROVE  Chain(gs, tg, g, a)
<1>1. Len(en) \in Nat /\ Len(tg) \in Nat
  OBVIOUS
<1>2. ASSUME NEW i \in 1..Len(tg)
      PROVE  Holds(gs, tg[i]) /\ tg[i].first = (IF i = 1 THEN g ELSE tg[i - 1].last) + 1
  <2>1. EndOf(en, g, i - 1) = IF i = 1 THEN g ELSE tg[i - 1].last
    <3>1. CASE i = 1
      BY <3>1 DEF EndOf
    <3>2. CASE i # 1
      <4>1. i - 1 \in 1..(Len(en) - 1) /\ i - 1 # 0
        BY <1>1, <3>2
      <4> QED
        BY <3>2, <4>1 DEF EndOf
    <3> QED
      BY <3>1, <3>2
  <2>2. CASE i < Len(en)
    <3>1. i \in 1..(Len(en) - 1)
      BY <1>1, <2>2
    <3>2. Holds(fs, en[i]) /\ Committed(gs, en[i]) = Committed(fs, en[i]) /\ tg[i] = en[i]
          /\ en[i].first = EndOf(en, g, i - 1) + 1
      BY <3>1
    <3>3. Holds(gs, tg[i])
      BY <3>2 DEF Holds
    <3> QED
      BY <2>1, <3>2, <3>3
  <2>3. CASE ~(i < Len(en))
    <3>1. i = Len(en)
      BY <1>1, <2>3
    <3> QED
      BY <2>1, <3>1
  <2> QED
    BY <2>2, <2>3
<1>3. a = IF tg = <<>> THEN g ELSE tg[Len(tg)].last
  OBVIOUS
<1> QED
  BY <1>2, <1>3 DEF Chain

-----------------------------------------------------------------------------
(* The segment a batch goes to. *)

Fresh(no) == [no |-> no, first |-> 0, last |-> 0, nbytes |-> 0]
NextNo == IF Rolls THEN nextSeg + 1 ELSE nextSeg

LEMMA RollsEnsured ==
    ASSUME TypeInv, ShapeInv, WithinBounds, Rolls
    PROVE  /\ Ensured = Append(segs, Fresh(nextSeg))
           /\ Fresh(nextSeg) \in Segments /\ nextSeg \in SegNos
           /\ NextNo = nextSeg + 1
           /\ \A i \in 1..Len(segs) : genesis < segs[i].last
<1>1. segs \in Seq(Segments) /\ nextSeg \in 1..(MaxSegs + 1)
  BY Counters
<1>2. nextSeg \in SegNos
  BY <1>1, DeltaLogConstants DEF WithinBounds, SegNos
<1>3. Fresh(nextSeg) \in Segments
  BY <1>2, DeltaLogConstants DEF Fresh, Segments
<1>4. Ensured = Append(segs, Fresh(nextSeg))
  BY DEF Ensured, Fresh
<1>5. ASSUME NEW i \in 1..Len(segs) PROVE genesis < segs[i].last
  <2>1. genesis < segs[i].last \/ (i = Len(segs) /\ segs[i].nbytes = 0)
    BY DEF ShapeInv
  <2>2. i = Len(segs) => segs[i].nbytes >= MaxSegmentCells
    <3>1. segs # <<>>
      OBVIOUS
    <3> QED
      BY <3>1 DEF Rolls
  <2> QED
    BY <2>1, <2>2, DeltaLogConstants
<1> QED
  BY <1>2, <1>3, <1>4, <1>5 DEF NextNo

LEMMA EnsuredShape ==
    ASSUME TypeInv, ShapeInv, WithinBounds
    PROVE  /\ Ensured \in Seq(Segments) /\ Len(Ensured) \in Nat /\ Len(Ensured) > 0
           /\ Len(segs) <= Len(Ensured)
           /\ \A i \in 1..Len(segs) : Ensured[i] = segs[i]
           /\ \A i \in 1..(Len(Ensured) - 1) : i \in 1..Len(segs) /\ genesis < Ensured[i].last
           /\ Shaped(files, Ensured, NextNo)
           /\ NextNo \in 1..(MaxSegs + 1) /\ nextSeg <= NextNo
           /\ \A i \in 1..Len(Ensured) :
                 /\ Ensured[i].last <= watermark
                 /\ \/ genesis < Ensured[i].last
                    \/ i = Len(Ensured) /\ Ensured[i].nbytes = 0
<1>1. segs \in Seq(Segments) /\ nextSeg \in 1..(MaxSegs + 1) /\ nextSeg \in Nat /\ watermark \in Nat
      /\ Len(segs) \in Nat
  BY Counters
<1>2. /\ Shaped(files, segs, nextSeg)
      /\ \A i \in 1..Len(segs) :
            /\ segs[i].last <= watermark
            /\ \/ genesis < segs[i].last
               \/ i = Len(segs) /\ segs[i].nbytes = 0
  BY DEF ShapeInv
<1>3. CASE Rolls
  <2>1. /\ Ensured = Append(segs, Fresh(nextSeg))
        /\ Fresh(nextSeg) \in Segments /\ nextSeg \in SegNos /\ NextNo = nextSeg + 1
        /\ \A i \in 1..Len(segs) : genesis < segs[i].last
    BY <1>3, RollsEnsured
  <2>2. Ensured \in Seq(Segments) /\ Len(Ensured) = Len(segs) + 1
        /\ (\A i \in 1..Len(segs) : Ensured[i] = segs[i])
        /\ Ensured[Len(segs) + 1] = Fresh(nextSeg)
    BY <1>1, <2>1
  <2>3. Fresh(nextSeg).no = nextSeg /\ Fresh(nextSeg).last = 0 /\ Fresh(nextSeg).nbytes = 0
    BY DEF Fresh
  <2>4. NextNo \in 1..(MaxSegs + 1) /\ nextSeg <= NextNo
    BY <1>1, <2>1, DeltaLogConstants DEF SegNos
  <2>5. \A i \in 1..Len(Ensured) : i \in 1..Len(segs) \/ i = Len(segs) + 1
    BY <1>1, <2>2
  <2>6. ASSUME NEW i \in 1..Len(Ensured)
        PROVE  /\ Ensured[i].no < NextNo
               /\ Ensured[i].nbytes % 2 = 0
               /\ Ensured[i].nbytes <= Len(Content(files, Ensured[i].no))
    <3>1. CASE i \in 1..Len(segs)
      <4>1. Ensured[i] = segs[i] /\ segs[i].no \in SegNos
        BY <2>2, <3>1, <1>1, SegmentType
      <4>2. /\ segs[i].no < nextSeg
            /\ segs[i].nbytes % 2 = 0 /\ segs[i].nbytes <= Len(Content(files, segs[i].no))
        BY <1>2, <3>1 DEF Shaped
      <4>3. segs[i].no < NextNo
        BY <1>1, <2>1, <4>1, <4>2 DEF SegNos
      <4> QED
        BY <4>1, <4>2, <4>3
    <3>2. CASE i = Len(segs) + 1
      <4>1. Ensured[i] = Fresh(nextSeg)
        BY <2>2, <3>2
      <4>2. Content(files, nextSeg) \in Seq(Cell)
        BY <2>1, Counters, DiskFiles, ContentType
      <4>3. 0 <= Len(Content(files, nextSeg)) /\ nextSeg < nextSeg + 1 /\ 0 % 2 = 0
        BY <1>1, <4>2
      <4> QED
        BY <2>1, <2>3, <4>1, <4>3
    <3> QED
      BY <2>5, <3>1, <3>2
  <2>7. ASSUME NEW i \in 1..Len(Ensured), NEW j \in 1..Len(Ensured),
               Ensured[i].no = Ensured[j].no
        PROVE  i = j
    <3>1. \A k \in 1..Len(segs) : Ensured[k].no # nextSeg
      <4>1. ASSUME NEW k \in 1..Len(segs) PROVE segs[k].no # nextSeg
        <5>1. segs[k].no < nextSeg /\ segs[k].no \in SegNos
          BY <1>1, <1>2, SegmentType DEF Shaped
        <5> QED
          BY <1>1, <5>1 DEF SegNos
      <4> QED
        BY <4>1, <2>2
    <3>2. Ensured[Len(segs) + 1].no = nextSeg
      BY <2>2, <2>3
    <3>3. CASE i \in 1..Len(segs) /\ j \in 1..Len(segs)
      <4>1. segs[i].no = segs[j].no
        BY <2>2, <2>7, <3>3
      <4> QED
        BY <1>2, <3>3, <4>1 DEF Shaped
    <3>4. CASE ~(i \in 1..Len(segs) /\ j \in 1..Len(segs))
      BY <2>5, <2>7, <3>1, <3>2, <3>4
    <3> QED
      BY <3>3, <3>4
  <2>8. Shaped(files, Ensured, NextNo)
    BY <2>6, <2>7 DEF Shaped
  <2>9. ASSUME NEW i \in 1..Len(Ensured)
        PROVE  /\ Ensured[i].last <= watermark
               /\ \/ genesis < Ensured[i].last
                  \/ i = Len(Ensured) /\ Ensured[i].nbytes = 0
    <3>1. CASE i \in 1..Len(segs)
      BY <1>2, <2>1, <2>2, <3>1
    <3>2. CASE i = Len(segs) + 1
      BY <1>1, <2>2, <2>3, <3>2
    <3> QED
      BY <2>5, <3>1, <3>2
  <2>10. Len(Ensured) \in Nat /\ Len(Ensured) > 0 /\ Len(segs) <= Len(Ensured)
    BY <1>1, <2>2
  <2>11. \A i \in 1..(Len(Ensured) - 1) : i \in 1..Len(segs) /\ genesis < Ensured[i].last
    BY <1>1, <2>1, <2>2
  <2> QED
    BY <2>2, <2>4, <2>8, <2>9, <2>10, <2>11
<1>4. CASE ~Rolls
  <2>1. Ensured = segs /\ NextNo = nextSeg /\ segs # <<>>
    BY <1>4 DEF Ensured, NextNo, Rolls
  <2>2. Len(segs) > 0
    BY <1>1, <2>1
  <2>3. \A i \in 1..(Len(segs) - 1) : i \in 1..Len(segs) /\ genesis < segs[i].last
    BY <1>1, <1>2
  <2>4. nextSeg <= nextSeg /\ Len(segs) <= Len(segs)
    BY <1>1
  <2> QED
    BY <1>1, <1>2, <2>1, <2>2, <2>3, <2>4
<1> QED
  BY <1>3, <1>4

LEMMA GrownFields ==
    ASSUME TypeInv, BufferInv, buffer # <<>>, NEW seg \in Segments
    PROVE  /\ Grown(seg) \in Segments
           /\ Grown(seg).no = seg.no
           /\ Grown(seg).first = IF seg.first = 0 THEN Head(buffer) ELSE seg.first
           /\ Grown(seg).last = applied
           /\ Grown(seg).nbytes = seg.nbytes + 2 * Len(buffer)
<1>1. /\ seg.no \in SegNos /\ seg.first \in 0..MaxTid /\ seg.last \in 0..MaxTid
      /\ seg.nbytes \in Nat
      /\ seg = [no |-> seg.no, first |-> seg.first, last |-> seg.last, nbytes |-> seg.nbytes]
  BY DEF Segments
<1>2. Head(buffer) \in 0..MaxTid /\ Last(buffer) = applied /\ applied \in 0..MaxTid
  BY BufferEnds, Counters
<1>3. PICK h \in 0..MaxTid : h = IF seg.first = 0 THEN Head(buffer) ELSE seg.first
  BY <1>1, <1>2
<1>4. PICK l \in Nat : l = seg.nbytes + 2 * Len(buffer)
  BY <1>1, Counters, SMTT(30)
<1>5. Grown(seg) = [seg EXCEPT !.first = h, !.last = applied, !.nbytes = l]
  BY <1>2, <1>3, <1>4, Zenon DEF Grown
<1>6. Grown(seg) = [no |-> seg.no, first |-> h, last |-> applied, nbytes |-> l]
  BY <1>1, <1>5
<1> QED
  BY <1>1, <1>2, <1>3, <1>4, <1>6 DEF Segments

(* Files that grew keep the manifest's record. *)
LEMMA RecordGrows ==
    ASSUME TypeInv, ShapeInv, HonestInv, files' \in Disks, Grows(files, files')
    PROVE  /\ Recordable(files', manifest)
           /\ debris # "counted" => Chain(files', manifest.segs, manifest.genesis, manifest.wm)
<1>1. manifest \in Manifests /\ files \in Disks
  BY DEF TypeInv
<1>2. manifest.segs \in Seq(Segments)
  BY <1>1, ManifestType
<1>3. Shaped(files, manifest.segs, manifest.nextSeg) /\ Recordable(files, manifest)
  BY ManifestRecordable DEF ShapeInv
<1>4. PICK gs \in Disks : gs = files'
  OBVIOUS
<1>5. Keeps(files, gs, manifest.segs)
  BY <1>1, <1>2, <1>3, <1>4, GrowsKeeps
<1>6. Shaped(gs, manifest.segs, manifest.nextSeg)
  BY <1>3, <1>5, KeepsShaped
<1>7. debris # "counted" => Chain(gs, manifest.segs, manifest.genesis, manifest.wm)
  <2>1. debris # "counted" => Chain(files, manifest.segs, manifest.genesis, manifest.wm)
    BY DEF HonestInv
  <2> QED
    BY <2>1, <1>5, KeepsChain
<1> QED
  BY <1>3, <1>4, <1>6, <1>7 DEF Recordable

(* What both outcomes of the append have in common. *)
LEMMA AppendStep ==
    ASSUME DeltaInv, pc = "append",
           UNCHANGED <<lastTid, applied, genesis, buffer, pending, manifest>>,
           files' \in Disks, Grows(files, files'),
           segs' \in Seq(Segments), nextSeg' = NextNo, NextNo \in 1..(MaxSegs + 1),
           nextSeg <= NextNo,
           watermark' \in {watermark, applied},
           Shaped(files', segs', NextNo), Continues(segs', manifest.segs),
           \A i \in 1..Len(segs') :
              /\ segs'[i].last <= watermark'
              /\ \/ genesis < segs'[i].last
                 \/ i = Len(segs') /\ segs'[i].nbytes = 0 /\ pc' # "manifest",
           attached' \in BOOLEAN, attached' => attached, inApply' \in BOOLEAN,
           debris' \in Debris, debris' # "counted" => debris # "counted",
           \/ pc' = "idle" /\ debris' # "none"
           \/ /\ pc' = "manifest" /\ debris' \notin {"torn", "doubled"} /\ watermark' = applied
              /\ debris' = "none" => /\ Chain(files', segs', genesis, applied)
                                     /\ Exact(files', segs', NextNo)
    PROVE  DeltaInv'
<1>1. TypeInv /\ BufferInv /\ ShapeInv /\ HonestInv
  BY DEF DeltaInv
<1>2. /\ lastTid' = lastTid /\ applied' = applied /\ genesis' = genesis
      /\ buffer' = buffer /\ pending' = pending /\ manifest' = manifest
  OBVIOUS
<1>3. /\ lastTid \in Nat /\ applied \in Nat /\ watermark \in Nat /\ genesis \in Nat
      /\ genesis <= watermark /\ watermark <= applied /\ applied <= lastTid
      /\ lastTid <= MaxTid /\ MaxTid \in Nat /\ nextSeg \in Nat
  BY <1>1, Counters
<1>4. pc \in Open_ /\ pc' \in Open_ /\ pc' # "joining"
  BY DEF Open_
<1>5. watermark' \in Nat /\ genesis' <= watermark' /\ watermark' <= applied'
  BY <1>2, <1>3
<1>6. TypeInv'
  <2>1. TypeOK'
    <3>1. {applied', watermark', genesis'} \subseteq 0..lastTid' /\ lastTid' \in 0..MaxTid
      BY <1>2, <1>3, <1>5
    <3>2. \A n \in SegNos : files'[n] = NoFile \/ files'[n] \in Seq((1..MaxTid) \X {0, 1})
      <4>1. Files(files')
        BY DiskFiles
      <4> QED
        BY <4>1 DEF Files, Cell
    <3>3. manifest'.wm \in 0..lastTid' /\ manifest'.segs \in Seq(Segments)
          /\ buffer' \in Seq(1..MaxTid) /\ pending' \in 0..Len(buffer')
      BY <1>1, <1>2 DEF TypeInv, TypeOK
    <3>4. nextSeg' \in 1..(MaxSegs + 1) /\ pc' \in {"closed", "idle", "append", "manifest", "joining"}
      OBVIOUS
    <3> QED
      BY <3>1, <3>2, <3>3, <3>4 DEF TypeOK
  <2>2. manifest' \in Manifests /\ manifest'.genesis <= manifest'.wm /\ buffer' # <<>>
    BY <1>1, <1>2 DEF TypeInv
  <2>3. attached' => applied' = lastTid'
    BY <1>1, <1>2 DEF TypeInv
  <2>4. pc' = "manifest" => watermark' = applied' /\ debris' \notin {"torn", "doubled"}
    BY <1>2
  <2> QED
    BY <1>4, <1>5, <2>1, <2>2, <2>3, <2>4 DEF TypeInv
<1>7. BufferInv'
  BY <1>1, <1>2 DEF BufferInv
<1>8. Recordable(files', manifest)
      /\ (debris # "counted" => Chain(files', manifest.segs, manifest.genesis, manifest.wm))
  BY <1>1, RecordGrows
<1>9. ShapeInv'
  <2>1. Shaped(files', manifest'.segs, manifest'.nextSeg)
        /\ \A i \in 1..Len(manifest'.segs) : manifest'.genesis < manifest'.segs[i].last
                                             /\ manifest'.segs[i].last <= manifest'.wm
    BY <1>2, <1>8 DEF Recordable
  <2>2. genesis = manifest.genesis /\ manifest.nextSeg <= nextSeg
    BY <1>1, <1>4 DEF ShapeInv
  <2>3. manifest.nextSeg \in Nat
    BY <1>1, ManifestType DEF TypeInv
  <2>4. genesis' = manifest'.genesis /\ manifest'.nextSeg <= nextSeg'
        /\ Continues(segs', manifest'.segs)
    BY <1>2, <1>3, <2>2, <2>3
  <2>5. Shaped(files', segs', nextSeg')
    OBVIOUS
  <2> QED
    BY <1>2, <2>1, <2>4, <2>5 DEF ShapeInv
<1>10. HonestInv'
  <2>1. debris' # "counted" => Chain(files', manifest'.segs, manifest'.genesis, manifest'.wm)
    BY <1>2, <1>8
  <2>2. ASSUME debris' = "none"
        PROVE  /\ Chain(files', segs', genesis', watermark') /\ Exact(files', segs', nextSeg')
               /\ pc' = "manifest"
    BY <1>2, <2>2
  <2> QED
    BY <2>1, <2>2 DEF HonestInv
<1> QED
  BY <1>6, <1>7, <1>9, <1>10 DEF DeltaInv

(* Whatever becomes of an append, each file begins with what it was. *)
LEMMA AppendFiles ==
    ASSUME DeltaInv, FlushAppend \/ FlushAppendFails
    PROVE  files' \in Disks /\ Grows(files, files')
<1>1. TypeInv /\ ShapeInv /\ WithinBounds
  BY DEF DeltaInv, FlushAppend, FlushAppendFails
<1>2. Ensured \in Seq(Segments) /\ Len(Ensured) \in Nat /\ Len(Ensured) > 0
  BY <1>1, EnsuredShape
<1>3. PICK no \in SegNos : no = Ensured[Len(Ensured)].no
  BY <1>2, SegmentType
<1>4. Cells(buffer) \in Seq(Cell) /\ Len(Cells(buffer)) = 2 * Len(buffer)
      /\ Len(buffer) \in Nat /\ files \in Disks
  BY <1>1, Counters, CellsType
<1>5. ASSUME NEW k \in 0..(2 * Len(buffer)) PROVE SubSeq(Cells(buffer), 1, k) \in Seq(Cell)
  BY <1>4
<1>6. \E c \in Seq(Cell) : files' = [files EXCEPT ![no] = Content(files, no) \o c]
  <2>1. CASE FlushAppend
    <3>1. files' = [files EXCEPT ![no] = Content(files, no) \o Cells(buffer)]
      BY <1>3, <2>1, Zenon DEF FlushAppend
    <3> QED
      BY <1>4, <3>1
  <2>2. CASE FlushAppendFails
    <3>1. PICK k \in 0..(2 * Len(buffer)) :
              files' = [files EXCEPT ![no] = Content(files, no) \o SubSeq(Cells(buffer), 1, k)]
      BY <1>3, <2>2, Zenon DEF FlushAppendFails
    <3> QED
      BY <1>5, <3>1
  <2> QED
    BY <2>1, <2>2
<1>7. PICK c \in Seq(Cell) : files' = [files EXCEPT ![no] = Content(files, no) \o c]
  BY <1>6
<1> QED
  BY <1>4, <1>7, AppendGrows

LEMMA FlushAppendFailsStep == ASSUME DeltaInv, FlushAppendFails PROVE DeltaInv'
<1>1. TypeInv /\ BufferInv /\ ShapeInv
  BY DEF DeltaInv
<1>2. /\ pc = "append" /\ WithinBounds /\ segs' = Ensured /\ nextSeg' = NextNo
      /\ UNCHANGED <<lastTid, applied, watermark, genesis, buffer, pending, manifest>>
      /\ debris' = IF debris = "none" THEN "torn" ELSE debris
      /\ pc' = "idle" /\ inApply' = FALSE /\ attached' = (attached /\ ~inApply)
  BY DEF FlushAppendFails, EnsureSegment, NextNo, Raises
<1>4. /\ Ensured \in Seq(Segments) /\ Len(Ensured) \in Nat /\ Len(Ensured) > 0
      /\ Len(segs) <= Len(Ensured) /\ \A i \in 1..Len(segs) : Ensured[i] = segs[i]
  BY <1>1, <1>2, EnsuredShape
<1>5. Shaped(files, Ensured, NextNo) /\ NextNo \in 1..(MaxSegs + 1) /\ nextSeg <= NextNo
  BY <1>1, <1>2, EnsuredShape
<1>6. \A i \in 1..Len(Ensured) :
         /\ Ensured[i].last <= watermark
         /\ \/ genesis < Ensured[i].last
            \/ i = Len(Ensured) /\ Ensured[i].nbytes = 0
  BY <1>1, <1>2, EnsuredShape
<1>7. files' \in Disks /\ Grows(files, files')
  BY AppendFiles
<1>8. Shaped(files', Ensured, NextNo)
  <2>1. PICK gs \in Disks : gs = files'
    BY <1>7
  <2>2. files \in Disks
    BY <1>1 DEF TypeInv
  <2>3. Keeps(files, gs, Ensured)
    BY <1>4, <1>5, <1>7, <2>1, <2>2, GrowsKeeps
  <2> QED
    BY <1>5, <2>1, <2>3, KeepsShaped
<1>9. Continues(Ensured, manifest.segs)
  <2>1. Continues(segs, manifest.segs)
    BY <1>1, <1>2 DEF ShapeInv, Open_
  <2>2. segs \in Seq(Segments) /\ manifest.segs \in Seq(Segments)
    BY <1>1, Counters, ManifestType DEF TypeInv
  <2> QED
    BY <1>4, <2>1, <2>2, ContinuesLonger
<1>10. debris \in Debris /\ attached \in BOOLEAN /\ inApply \in BOOLEAN
  BY <1>1 DEF TypeInv, TypeOK
<1>11. /\ debris' \in Debris /\ debris' # "none"
       /\ (debris' # "counted" => debris # "counted")
  BY <1>2, <1>10 DEF Debris
<1>12. attached' \in BOOLEAN /\ (attached' => attached) /\ inApply' \in BOOLEAN
  <2>1. (attached /\ ~inApply) \in BOOLEAN
    OBVIOUS
  <2> QED
    BY <1>2, <2>1
<1>13. \A i \in 1..Len(segs') :
          /\ segs'[i].last <= watermark'
          /\ \/ genesis < segs'[i].last
             \/ i = Len(segs') /\ segs'[i].nbytes = 0 /\ pc' # "manifest"
  BY <1>2, <1>6
<1>14. /\ segs' \in Seq(Segments) /\ watermark' \in {watermark, applied}
       /\ Shaped(files', segs', NextNo) /\ Continues(segs', manifest.segs)
  BY <1>2, <1>4, <1>8, <1>9
<1> QED
  BY <1>2, <1>5, <1>7, <1>11, <1>12, <1>13, <1>14, AppendStep

LEMMA GrownShaped ==
    ASSUME NEW gs, NEW next, NEW en \in Seq(Segments), NEW tg \in Seq(Segments),
           Shaped(gs, en, next), Len(en) > 0, Len(tg) = Len(en),
           \A i \in 1..(Len(en) - 1) : tg[i] = en[i],
           tg[Len(en)].no = en[Len(en)].no, tg[Len(en)].nbytes % 2 = 0,
           tg[Len(en)].nbytes <= Len(Content(gs, tg[Len(en)].no))
    PROVE  Shaped(gs, tg, next)
<1>1. Len(en) \in Nat
  OBVIOUS
<1>2. \A i \in 1..Len(tg) : i \in 1..(Len(en) - 1) \/ i = Len(en)
  BY <1>1
<1>3. \A i \in 1..Len(tg) : tg[i].no = en[i].no
  BY <1>2
<1>4. ASSUME NEW i \in 1..Len(tg)
      PROVE  /\ tg[i].no < next /\ tg[i].nbytes % 2 = 0
             /\ tg[i].nbytes <= Len(Content(gs, tg[i].no))
  <2>1. en[i].no < next /\ en[i].nbytes % 2 = 0 /\ en[i].nbytes <= Len(Content(gs, en[i].no))
    BY DEF Shaped
  <2>2. CASE i \in 1..(Len(en) - 1)
    <3>1. tg[i] = en[i]
      BY <2>2
    <3> QED
      BY <2>1, <3>1
  <2>3. CASE i = Len(en)
    BY <2>1, <2>3
  <2> QED
    BY <1>2, <2>2, <2>3
<1>5. \A i \in 1..Len(tg), j \in 1..Len(tg) : tg[i].no = tg[j].no => i = j
  <2>1. \A i \in 1..Len(en), j \in 1..Len(en) : en[i].no = en[j].no => i = j
    BY DEF Shaped
  <2> QED
    BY <2>1, <1>3
<1> QED
  BY <1>4, <1>5 DEF Shaped

LEMMA EndOfSame ==
    ASSUME NEW sg, NEW tg, NEW g, NEW m \in Nat, m # 0 => sg[m] = tg[m]
    PROVE  EndOf(sg, g, m) = EndOf(tg, g, m)
BY DEF EndOf

(* With no debris about, the current segment ends with what is recorded. *)
EdgeIs(en, f) ==
    /\ f = EndOf(en, genesis, Len(en) - 1)
    /\ f \in Nat /\ f <= watermark
    /\ en[Len(en)].nbytes = 2 * (watermark - f)
    /\ Len(Content(files, en[Len(en)].no)) = 2 * (watermark - f)
    /\ Frames(Content(files, en[Len(en)].no)) = After(f, watermark)
    /\ (IF en[Len(en)].first = 0 THEN Head(buffer) ELSE en[Len(en)].first) = f + 1

Before(en) ==
    \A i \in 1..(Len(en) - 1) :
        /\ Holds(files, en[i])
        /\ en[i].first = EndOf(en, genesis, i - 1) + 1
        /\ Len(Content(files, en[i].no)) = en[i].nbytes

LEMMA EdgeChain ==
    ASSUME TypeInv, BufferInv, ShapeInv, WithinBounds, buffer # <<>>,
           Chain(files, segs, genesis, watermark), Exact(files, segs, nextSeg),
           watermark = applied - Len(buffer)
    PROVE  Before(Ensured) /\ \E f \in Nat : EdgeIs(Ensured, f)
<1>1. /\ genesis \in Nat /\ watermark \in Nat /\ applied \in Nat /\ segs \in Seq(Segments)
      /\ Len(segs) \in Nat /\ files \in Disks
  BY Counters
<1>2. watermark = EndOf(segs, genesis, Len(segs))
  BY <1>1, ChainEnd
<1>3. \A i \in 1..Len(segs) : Holds(files, segs[i])
      /\ Len(Content(files, segs[i].no)) = segs[i].nbytes
  BY DEF Chain, Exact
<1>4. \A i \in 1..Len(segs) : segs[i].first = EndOf(segs, genesis, i - 1) + 1
  BY <1>1, ChainStep
<1>5. CASE Rolls
  <2>1. Ensured = Append(segs, Fresh(nextSeg)) /\ nextSeg \in SegNos
    BY <1>5, RollsEnsured
  <2>2. PICK en : en = Append(segs, Fresh(nextSeg))
    OBVIOUS
  <2>3. Len(en) = Len(segs) + 1 /\ en[Len(segs) + 1] = Fresh(nextSeg)
        /\ Len(en) - 1 = Len(segs)
        /\ \A i \in 1..Len(segs) : en[i] = segs[i]
    <3>1. Fresh(nextSeg) \in Segments
      BY <1>5, RollsEnsured
    <3> QED
      BY <1>1, <2>2, <3>1
  <2>4. \A m \in 0..Len(segs) : EndOf(en, genesis, m) = EndOf(segs, genesis, m)
    BY <1>1, <2>3, EndOfSame
  <2>5. Before(en)
    <3>1. ASSUME NEW i \in 1..(Len(en) - 1)
          PROVE  /\ Holds(files, en[i])
                 /\ en[i].first = EndOf(en, genesis, i - 1) + 1
                 /\ Len(Content(files, en[i].no)) = en[i].nbytes
      <4>1. i \in 1..Len(segs) /\ i - 1 \in 0..Len(segs) /\ en[i] = segs[i]
        BY <1>1, <2>3
      <4>2. EndOf(en, genesis, i - 1) = EndOf(segs, genesis, i - 1)
        BY <2>4, <4>1
      <4> QED
        BY <1>3, <1>4, <4>1, <4>2
    <3> QED
      BY <3>1 DEF Before
  <2>6. EdgeIs(en, watermark)
    <3>1. watermark = EndOf(en, genesis, Len(en) - 1)
      BY <1>1, <1>2, <2>3, <2>4
    <3>2. Fresh(nextSeg).nbytes = 0 /\ Fresh(nextSeg).first = 0 /\ Fresh(nextSeg).no = nextSeg
      BY DEF Fresh
    <3>3. Content(files, nextSeg) = <<>>
      <4>1. files[nextSeg] = NoFile
        BY <2>1, Counters DEF Exact
      <4> QED
        BY <4>1 DEF Content
    <3>4. Frames(<<>>) = <<>>
      <4>1. <<>> \in Seq(Cell) /\ Len(<<>>) = 0
        OBVIOUS
      <4>2. Frames(<<>>) \in Seq(Tid) /\ Len(Frames(<<>>)) = Len(<<>>) \div 2
        BY <4>1, FramesType
      <4>3. Len(Frames(<<>>)) = 0
        BY <4>1, <4>2
      <4> QED
        BY <4>2, <4>3
    <3>5. After(watermark, watermark) = <<>>
      BY <1>1, AfterNothing
    <3>6. Head(buffer) = watermark + 1
      BY BufferEnds
    <3>7. 2 * (watermark - watermark) = 0 /\ Len(<<>>) = 0 /\ watermark <= watermark
      BY <1>1
    <3>8. en[Len(en)] = Fresh(nextSeg)
      BY <2>3
    <3> QED
      BY <1>1, <3>1, <3>2, <3>3, <3>4, <3>5, <3>6, <3>7, <3>8 DEF EdgeIs
  <2> QED
    BY <1>1, <2>1, <2>2, <2>5, <2>6
<1>6. CASE ~Rolls
  <2>1. Ensured = segs /\ segs # <<>>
    BY <1>6 DEF Ensured, Rolls
  <2>2. PICK n \in 1..Len(segs) : n = Len(segs)
    BY <1>1, <2>1
  <2>3. PICK f : f = EndOf(segs, genesis, n - 1)
    OBVIOUS
  <2>4. f \in Nat /\ segs[n].first = f + 1 /\ f < segs[n].last /\ segs[n].last \in Nat
    BY <1>1, <2>3, ChainStep
  <2>5. segs[n].nbytes = 2 * (segs[n].last - f)
        /\ Frames(Committed(files, segs[n])) = After(f, segs[n].last)
    BY <1>1, <2>3, ChainStep
  <2>6. segs[n].last = watermark
    BY <1>2, <2>2 DEF EndOf
  <2>7. Committed(files, segs[n]) = Content(files, segs[n].no)
    <3>1. PICK c : c = Content(files, segs[n].no)
      OBVIOUS
    <3>2. c \in Seq(Cell) /\ Len(c) = segs[n].nbytes
      BY <1>1, <1>3, <3>1, SegmentType, DiskFiles, ContentType
    <3>3. SubSeq(c, 1, segs[n].nbytes) = c
      BY <3>2
    <3> QED
      BY <3>1, <3>3 DEF Committed
  <2>8. Before(segs)
    <3>1. ASSUME NEW i \in 1..(Len(segs) - 1) PROVE i \in 1..Len(segs)
      BY <1>1
    <3> QED
      BY <1>3, <1>4, <3>1 DEF Before
  <2>9. EdgeIs(segs, f)
    <3>1. segs[n].first # 0 /\ f <= watermark
      BY <1>1, <2>4, <2>6
    <3>2. Len(Content(files, segs[n].no)) = segs[n].nbytes
      BY <1>3
    <3> QED
      BY <2>2, <2>3, <2>4, <2>5, <2>6, <2>7, <3>1, <3>2 DEF EdgeIs
  <2> QED
    BY <2>1, <2>4, <2>8, <2>9
<1> QED
  BY <1>5, <1>6

LEMMA FlushAppendStep == ASSUME DeltaInv, FlushAppend PROVE DeltaInv'
<1>1. TypeInv /\ BufferInv /\ ShapeInv /\ HonestInv
  BY DEF DeltaInv
<1>2. /\ pc = "append" /\ WithinBounds /\ nextSeg' = NextNo /\ watermark' = applied
      /\ UNCHANGED <<lastTid, applied, genesis, buffer, pending, manifest>>
      /\ debris' = IF debris = "none" THEN "none" ELSE "counted"
      /\ pc' = "manifest" /\ inApply' = inApply /\ attached' = attached
  BY DEF FlushAppend, EnsureSegment, NextNo, storeVars
<1>3. buffer # <<>>
  BY <1>1, <1>2 DEF TypeInv
<1>4. /\ applied \in Nat /\ watermark \in Nat /\ genesis \in Nat /\ watermark <= applied
      /\ buffer \in Seq(1..MaxTid) /\ Len(buffer) \in Nat /\ files \in Disks
      /\ segs \in Seq(Segments) /\ nextSeg \in Nat
  BY <1>1, Counters
<1>5. Len(buffer) > 0 /\ genesis < applied
  BY <1>1, <1>3, BufferEnds
<1>6. PICK en \in Seq(Segments) : en = Ensured
  BY <1>1, <1>2, EnsuredShape
<1>7. /\ Len(en) \in Nat /\ Len(en) > 0
      /\ Len(segs) <= Len(en) /\ \A i \in 1..Len(segs) : en[i] = segs[i]
  BY <1>1, <1>2, <1>6, EnsuredShape
<1>8. Shaped(files, en, NextNo) /\ NextNo \in 1..(MaxSegs + 1) /\ nextSeg <= NextNo
  BY <1>1, <1>2, <1>6, EnsuredShape
<1>9. \A i \in 1..Len(en) : en[i].last <= watermark
  BY <1>1, <1>2, <1>6, EnsuredShape
<1>10. \A i \in 1..(Len(en) - 1) : genesis < en[i].last
  BY <1>1, <1>2, <1>6, EnsuredShape
<1>11. PICK n \in 1..Len(en) : n = Len(en)
  BY <1>7
<1>12. PICK no \in SegNos : no = en[n].no
  BY SegmentType
<1>13. PICK grown : grown = Grown(en[n])
  OBVIOUS
<1>14. /\ grown \in Segments /\ grown.no = no /\ grown.last = applied
       /\ grown.nbytes = en[n].nbytes + 2 * Len(buffer)
       /\ grown.first = IF en[n].first = 0 THEN Head(buffer) ELSE en[n].first
  BY <1>1, <1>3, <1>12, <1>13, ElementType, GrownFields
<1>15. files' = [files EXCEPT ![no] = Content(files, no) \o Cells(buffer)]
       /\ segs' = [en EXCEPT ![n] = grown]
  BY <1>6, <1>11, <1>12, <1>13, Zenon DEF FlushAppend
<1>16. PICK gs : gs = files'
  OBVIOUS
<1>17. Cells(buffer) \in Seq(Cell) /\ Len(Cells(buffer)) = 2 * Len(buffer)
  BY <1>4, CellsType
<1>18. /\ gs \in Disks /\ Grows(files, gs) /\ Content(gs, no) = Content(files, no) \o Cells(buffer)
       /\ \A m \in SegNos : m # no => gs[m] = files[m]
  <2>1. gs = [files EXCEPT ![no] = Content(files, no) \o Cells(buffer)]
    BY <1>15, <1>16
  <2>2. gs \in Disks /\ Grows(files, gs)
    BY <1>4, <1>17, <2>1, AppendGrows
  <2>3. Content(gs, no) = Content(files, no) \o Cells(buffer)
    BY <1>4, <1>17, <2>1, AppendGrows
  <2>4. ASSUME NEW m \in SegNos, m # no PROVE gs[m] = files[m]
    BY <1>4, <2>1, <2>4 DEF Disks
  <2> QED
    BY <2>2, <2>3, <2>4
<1>19. PICK tg : tg = segs'
  OBVIOUS
<1>20. /\ tg \in Seq(Segments) /\ Len(tg) = Len(en) /\ tg[Len(en)] = grown
       /\ \A i \in 1..(Len(en) - 1) : tg[i] = en[i]
  BY <1>11, <1>14, <1>15, <1>19
<1>21. en[n].nbytes \in Nat /\ en[n].last \in Nat /\ en[n] \in Segments
  BY SegmentType
<1>22. Content(files, no) \in Seq(Cell)
  BY <1>4, DiskFiles, ContentType
<1>23. Len(Content(gs, no)) = Len(Content(files, no)) + 2 * Len(buffer)
  <2>1. Len(Content(files, no) \o Cells(buffer)) = Len(Content(files, no)) + Len(Cells(buffer))
    BY <1>17, <1>22, ConcatType
  <2> QED
    BY <2>1, <1>17, <1>18
<1>24. Keeps(files, gs, en)
  BY <1>4, <1>8, <1>18, GrowsKeeps
<1>25. Shaped(gs, tg, NextNo)
  <2>1. Shaped(gs, en, NextNo)
    BY <1>8, <1>24, KeepsShaped
  <2>2. en[n].nbytes % 2 = 0 /\ en[n].nbytes <= Len(Content(files, no))
    BY <1>8, <1>12 DEF Shaped
  <2>3. (en[n].nbytes + 2 * Len(buffer)) % 2 = 0
    BY <1>4, <1>21, <2>2
  <2>4. en[n].nbytes + 2 * Len(buffer) <= Len(Content(gs, no))
    BY <1>4, <1>21, <1>22, <1>23, <2>2
  <2>5. tg[Len(en)].no = en[Len(en)].no /\ tg[Len(en)].nbytes % 2 = 0
        /\ tg[Len(en)].nbytes <= Len(Content(gs, tg[Len(en)].no))
    BY <1>11, <1>12, <1>14, <1>20, <2>3, <2>4
  <2> QED
    BY <1>7, <1>20, <2>1, <2>5, GrownShaped
<1>26. Continues(tg, manifest.segs)
  <2>1. manifest.segs \in Seq(Segments)
    BY <1>1, ManifestType DEF TypeInv
  <2>2. Continues(segs, manifest.segs)
    BY <1>1, <1>2 DEF ShapeInv, Open_
  <2>3. Continues(en, manifest.segs)
    BY <1>4, <1>7, <2>1, <2>2, ContinuesLonger
  <2>4. en[n].last <= applied
    BY <1>4, <1>9, <1>21
  <2>5. /\ tg[Len(en)].no = en[Len(en)].no /\ en[Len(en)].nbytes <= tg[Len(en)].nbytes
        /\ en[Len(en)].last <= tg[Len(en)].last
    BY <1>4, <1>11, <1>12, <1>14, <1>20, <1>21, <2>4
  <2> QED
    BY <1>7, <1>20, <2>1, <2>3, <2>5, ContinuesGrown
<1>27. ASSUME NEW i \in 1..Len(tg) PROVE tg[i].last <= applied /\ genesis < tg[i].last
  <2>1. CASE i = Len(en)
    BY <1>4, <1>5, <1>14, <1>20, <2>1
  <2>2. CASE i # Len(en)
    <3>1. i \in 1..(Len(en) - 1) /\ i \in 1..Len(en)
      BY <1>7, <1>20, <2>2
    <3>2. tg[i] = en[i] /\ en[i].last \in Nat
      BY <1>20, <3>1, SegmentType
    <3> QED
      BY <1>4, <1>9, <1>10, <3>1, <3>2
  <2> QED
    BY <2>1, <2>2
<1>28. debris \in Debris /\ attached \in BOOLEAN /\ inApply \in BOOLEAN
  BY <1>1 DEF TypeInv, TypeOK
<1>29. debris' \in Debris /\ debris' \notin {"torn", "doubled"}
       /\ (debris' # "counted" => debris # "counted") /\ (debris' = "none" => debris = "none")
  BY <1>2, <1>28 DEF Debris
<1>30. ASSUME debris' = "none"
       PROVE  Chain(gs, tg, genesis, applied) /\ Exact(gs, tg, NextNo)
  <2>1. /\ Chain(files, segs, genesis, watermark) /\ Exact(files, segs, nextSeg)
        /\ watermark = applied - Len(buffer)
    BY <1>1, <1>2, <1>29, <1>30 DEF HonestInv, Open_
  <2>2. Before(en) /\ \E f \in Nat : EdgeIs(en, f)
    BY <1>1, <1>2, <1>3, <1>6, <2>1, EdgeChain
  <2>3. PICK f \in Nat : EdgeIs(en, f)
    BY <2>2
  <2>4. /\ f = EndOf(en, genesis, Len(en) - 1)
        /\ f <= watermark /\ en[n].nbytes = 2 * (watermark - f)
        /\ Len(Content(files, no)) = 2 * (watermark - f)
        /\ Frames(Content(files, no)) = After(f, watermark)
        /\ grown.first = f + 1
    BY <1>11, <1>12, <1>14, <2>3 DEF EdgeIs
  <2>5. buffer = After(watermark, applied) /\ watermark < applied
        /\ Len(buffer) = applied - watermark
    BY <1>1, <1>4, <1>5, <2>1 DEF BufferInv
  <2>6. grown.nbytes = 2 * (applied - f)
    <3>1. grown.nbytes = 2 * (watermark - f) + 2 * (applied - watermark)
      BY <1>14, <2>4, <2>5
    <3>2. \A x \in Nat, y \in Nat, z \in Nat : 2 * (y - x) + 2 * (z - y) = 2 * (z - x)
      OBVIOUS
    <3> QED
      BY <1>4, <3>1, <3>2
  <2>7. Holds(gs, grown) /\ Len(Content(gs, grown.no)) = grown.nbytes
    <3>1. /\ Content(gs, grown.no) = Content(files, grown.no) \o Cells(buffer)
          /\ Len(Content(files, grown.no)) = 2 * (watermark - f)
          /\ Frames(Content(files, grown.no)) = After(f, watermark)
      BY <1>14, <1>18, <2>4
    <3>2. grown.first = f + 1 /\ grown.last = applied /\ grown \in Segments
      BY <1>14, <2>4
    <3>3. f <= watermark /\ gs \in Disks /\ files \in Disks
      BY <1>4, <1>18, <2>4
    <3>4. PICK b \in Seq(1..MaxTid) : b = buffer
      BY <1>4
    <3>5. PICK w \in Nat : w = watermark
      BY <1>4
    <3>6. PICK a \in Nat : a = applied
      BY <1>4
    <3>7. b = After(w, a) /\ w < a /\ Len(b) = a - w /\ f <= w
      BY <2>5, <3>3, <3>4, <3>5, <3>6
    <3>8. /\ Content(gs, grown.no) = Content(files, grown.no) \o Cells(b)
          /\ Len(Content(files, grown.no)) = 2 * (w - f)
          /\ Frames(Content(files, grown.no)) = After(f, w)
      BY <3>1, <3>4, <3>5
    <3>9. grown.first = f + 1 /\ grown.last = a /\ grown.nbytes = 2 * (a - f)
      BY <2>6, <3>2, <3>6
    <3> QED
      BY <3>2, <3>3, <3>7, <3>8, <3>9, SegmentGrows, ZenonT(60)
  <2>8. ASSUME NEW i \in 1..(Len(en) - 1)
        PROVE  /\ Holds(files, en[i]) /\ Committed(gs, en[i]) = Committed(files, en[i])
               /\ en[i].first = EndOf(en, genesis, i - 1) + 1
               /\ Len(Content(files, en[i].no)) = en[i].nbytes
    <3>1. i \in 1..Len(en)
      BY <1>7
    <3> QED
      BY <1>24, <2>2, <3>1 DEF Before, Keeps
  <2>9. Chain(gs, tg, genesis, applied)
    <3>1. Holds(gs, tg[Len(en)]) /\ tg[Len(en)].first = EndOf(en, genesis, Len(en) - 1) + 1
          /\ tg[Len(en)].last = applied
      BY <1>14, <1>20, <2>4, <2>7
    <3> QED
      BY <1>4, <1>7, <1>20, <2>8, <3>1, ChainGrows
  <2>10. ASSUME NEW i \in 1..Len(tg) PROVE Len(Content(gs, tg[i].no)) = tg[i].nbytes
    <3>1. CASE i = Len(en)
      BY <1>20, <2>7, <3>1
    <3>2. CASE i # Len(en)
      <4>1. i \in 1..(Len(en) - 1) /\ i \in 1..Len(en)
        BY <1>7, <1>20, <3>2
      <4>2. tg[i] = en[i] /\ en[i].no \in SegNos
        BY <1>20, <4>1, SegmentType
      <4>3. en[i].no # no
        BY <1>8, <1>11, <1>12, <3>2, <4>1 DEF Shaped
      <4>4. Content(gs, en[i].no) = Content(files, en[i].no)
        BY <1>18, <4>2, <4>3 DEF Content
      <4> QED
        BY <2>8, <4>1, <4>2, <4>4
    <3> QED
      BY <3>1, <3>2
  <2>11. ASSUME NEW m \in SegNos, NextNo <= m PROVE gs[m] = NoFile
    <3>1. no < NextNo
      BY <1>8, <1>12 DEF Shaped
    <3>2. m # no /\ nextSeg <= m
      BY <1>4, <1>8, <2>11, <3>1 DEF SegNos
    <3>3. files[m] = NoFile
      BY <2>1, <3>2 DEF Exact
    <3> QED
      BY <1>18, <3>2, <3>3
  <2> QED
    BY <2>9, <2>10, <2>11 DEF Exact
<1>31. attached' \in BOOLEAN /\ (attached' => attached) /\ inApply' \in BOOLEAN
  BY <1>2, <1>28
<1>32. /\ segs' \in Seq(Segments) /\ files' \in Disks /\ Grows(files, files')
       /\ Shaped(files', segs', NextNo) /\ Continues(segs', manifest.segs)
       /\ watermark' \in {watermark, applied}
  BY <1>2, <1>16, <1>18, <1>19, <1>20, <1>25, <1>26
<1>33. \A i \in 1..Len(segs') :
          /\ segs'[i].last <= watermark'
          /\ \/ genesis < segs'[i].last
             \/ i = Len(segs') /\ segs'[i].nbytes = 0 /\ pc' # "manifest"
  BY <1>2, <1>19, <1>27
<1>34. debris' = "none" => Chain(files', segs', genesis, applied) /\ Exact(files', segs', NextNo)
  BY <1>16, <1>19, <1>30
<1> QED
  BY <1>2, <1>8, <1>29, <1>31, <1>32, <1>33, <1>34, AppendStep

-----------------------------------------------------------------------------
(* What a replay reads, as a set. *)

LEMMA ToSetConcat ==
    ASSUME NEW S, NEW s \in Seq(S), NEW u \in Seq(S)
    PROVE  ToSet(s \o u) = ToSet(s) \cup ToSet(u)
<1>1. Len(s) \in Nat /\ Len(u) \in Nat
  OBVIOUS
<1>2. s \o u \in Seq(S) /\ Len(s \o u) = Len(s) + Len(u)
  BY ConcatType
<1>3. ASSUME NEW i \in 1..Len(s) PROVE i \in 1..Len(s \o u) /\ (s \o u)[i] = s[i]
  BY <1>1, <1>2, ConcatFirst
<1>4. ASSUME NEW j \in 1..Len(u)
      PROVE  Len(s) + j \in 1..Len(s \o u) /\ (s \o u)[Len(s) + j] = u[j]
  <2>1. Len(s) + j \in 1..(Len(s) + Len(u)) /\ Len(s) + j > Len(s)
    BY <1>1
  <2>2. (s \o u)[Len(s) + j] = u[(Len(s) + j) - Len(s)]
    BY <2>1, ConcatSecond
  <2>3. (Len(s) + j) - Len(s) = j
    BY <1>1
  <2> QED
    BY <1>2, <2>1, <2>2, <2>3
<1>5. ASSUME NEW i \in 1..Len(s \o u), ~(i \in 1..Len(s))
      PROVE  \E j \in 1..Len(u) : (s \o u)[i] = u[j]
  <2>1. i \in 1..(Len(s) + Len(u)) /\ i > Len(s)
    BY <1>1, <1>2, <1>5
  <2>2. (s \o u)[i] = u[i - Len(s)] /\ i - Len(s) \in 1..Len(u)
    BY <2>1, ConcatSecond
  <2> QED
    BY <2>2
<1>6. /\ DOMAIN s = 1..Len(s) /\ DOMAIN u = 1..Len(u)
      /\ DOMAIN (s \o u) = 1..Len(s \o u)
  BY <1>2
<1>7. ASSUME NEW x \in ToSet(s \o u) PROVE x \in ToSet(s) \cup ToSet(u)
  <2>1. PICK i \in 1..Len(s \o u) : x = (s \o u)[i]
    BY <1>6, <1>7 DEF ToSet
  <2> QED
    BY <1>3, <1>5, <1>6, <2>1 DEF ToSet
<1>8. ASSUME NEW x \in ToSet(s) PROVE x \in ToSet(s \o u)
  <2>1. PICK i \in 1..Len(s) : x = s[i]
    BY <1>6, <1>8 DEF ToSet
  <2> QED
    BY <1>3, <1>6, <2>1 DEF ToSet
<1>9. ASSUME NEW x \in ToSet(u) PROVE x \in ToSet(s \o u)
  <2>1. PICK j \in 1..Len(u) : x = u[j]
    BY <1>6, <1>9 DEF ToSet
  <2> QED
    BY <1>4, <1>6, <2>1 DEF ToSet
<1> QED
  BY <1>7, <1>8, <1>9

LEMMA ToSetAfter ==
    ASSUME NEW a \in Nat, NEW b \in Nat, a <= b
    PROVE  ToSet(After(a, b)) = (a + 1)..b
<1>1. PICK s : s = After(a, b)
  OBVIOUS
<1>2. s \in Seq(Nat) /\ Len(s) = b - a /\ \A i \in 1..(b - a) : s[i] = a + i
  BY <1>1, AfterIsRun DEF IsRun
<1>3. DOMAIN s = 1..(b - a)
  BY <1>2
<1>4. ASSUME NEW x \in (a + 1)..b PROVE x - a \in 1..(b - a) /\ s[x - a] = x
  BY <1>2
<1>5. ASSUME NEW i \in 1..(b - a) PROVE s[i] \in (a + 1)..b
  BY <1>2
<1> QED
  BY <1>1, <1>3, <1>4, <1>5 DEF ToSet

(* A replay drops the deltas up to its cursor, and no other: as a set, of     *)
(* whatever is read.                                                         *)
LEMMA LaterSet ==
    ASSUME NEW s \in Seq(Nat), NEW t \in Nat
    PROVE  ToSet(Later(s, t)) = {x \in ToSet(s) : x > t \/ x = Corrupt}
<1>1. Len(s) \in Nat /\ DOMAIN s = 1..Len(s)
  OBVIOUS
<1>2. PICK f : Joins(f, LaterPieces(s, t), Len(s)) /\ Later(s, t) = f[Len(s)]
  BY <1>1, LaterJoins
<1>3. f[0] = <<>> /\ \A m \in 1..Len(s) : f[m] = f[m - 1] \o LaterPieces(s, t)[m]
  BY <1>1, <1>2, JoinStages
<1> DEFINE Kept(x) == x > t \/ x = Corrupt
<1>4. \A m \in 1..Len(s) : LaterPieces(s, t)[m] = IF Kept(s[m]) THEN <<s[m]>> ELSE <<>>
  BY DEF LaterPieces
<1> HIDE DEF Kept
<1>5. \A m \in 1..Len(s) : LaterPieces(s, t)[m] \in Seq(Nat)
  <2>1. ASSUME NEW m \in 1..Len(s) PROVE LaterPieces(s, t)[m] \in Seq(Nat)
    <3>1. s[m] \in Nat
      BY ElementType
    <3>2. <<s[m]>> \in Seq(Nat) /\ <<>> \in Seq(Nat)
      BY <3>1
    <3> QED
      BY <1>4, <3>2
  <2> QED
    BY <2>1
<1>6. \A m \in 0..Len(s) : f[m] \in Seq(Nat)
  BY <1>1, <1>2, <1>5, JoinType
<1> DEFINE Read(m) == {s[i] : i \in {j \in 1..m : Kept(s[j])}}
           T == {m \in 0..Len(s) : ToSet(f[m]) = Read(m)}
<1>7. ToSet(<<>>) = {} /\ \A x : ToSet(<<x>>) = {x}
  BY DEF ToSet
<1>8. 0 \in T
  <2>1. Read(0) = {}
    OBVIOUS
  <2> QED
    BY <1>1, <1>3, <1>7, <2>1
<1>9. ASSUME NEW m \in 1..Len(s), m - 1 \in T PROVE m \in T
  <2>1. m - 1 \in 0..Len(s) /\ m \in 0..Len(s) /\ ToSet(f[m - 1]) = Read(m - 1)
    BY <1>9
  <2>2. ToSet(f[m]) = ToSet(f[m - 1]) \cup ToSet(LaterPieces(s, t)[m])
    <3>1. f[m - 1] \in Seq(Nat) /\ LaterPieces(s, t)[m] \in Seq(Nat)
      BY <1>5, <1>6, <2>1
    <3>2. ToSet(f[m - 1] \o LaterPieces(s, t)[m])
              = ToSet(f[m - 1]) \cup ToSet(LaterPieces(s, t)[m])
      BY <3>1, ToSetConcat
    <3> QED
      BY <1>3, <3>2
  <2>3. ToSet(LaterPieces(s, t)[m]) = IF Kept(s[m]) THEN {s[m]} ELSE {}
    BY <1>4, <1>7
  <2>4. Read(m) = Read(m - 1) \cup (IF Kept(s[m]) THEN {s[m]} ELSE {})
    <3>1. \A j : j \in 1..m <=> j \in 1..(m - 1) \/ j = m
      OBVIOUS
    <3> QED
      BY <3>1
  <2> QED
    BY <2>1, <2>2, <2>3, <2>4
<1> HIDE DEF T
<1>10. \A m \in 0..Len(s) : m \in T
  BY <1>1, <1>8, <1>9, Climb
<1>11. ToSet(f[Len(s)]) = Read(Len(s))
  BY <1>1, <1>10 DEF T
<1>12. Read(Len(s)) = {x \in ToSet(s) : Kept(x)}
  BY <1>1 DEF ToSet
<1> QED
  BY <1>2, <1>11, <1>12 DEF Kept

-----------------------------------------------------------------------------
(* The log after a failed flush. *)

(* The segments follow one another up to w, but for an empty one that a      *)
(* failed append has added.                                                  *)
Covered(fs, ss, g, w) ==
    \E sg \in Seq(Segments) :
        /\ ss = sg \/ \E n \in SegNos : ss = Append(sg, Fresh(n))
        /\ Chain(fs, sg, g, w)

LEMMA FreshAppended ==
    ASSUME NEW sg \in Seq(Segments), NEW n \in SegNos, NEW ss, ss = Append(sg, Fresh(n))
    PROVE  /\ ss \in Seq(Segments) /\ Len(ss) = Len(sg) + 1
           /\ \A i \in 1..Len(sg) : i \in 1..Len(ss) /\ ss[i] = sg[i]
           /\ ss[Len(ss)].last = 0 /\ Len(ss) \in 1..Len(ss)
<1>1. Fresh(n) \in Segments /\ Fresh(n).last = 0
  BY DeltaLogConstants DEF Fresh, Segments
<1>2. PICK e \in Segments : e = Fresh(n)
  BY <1>1
<1>3. ss = Append(sg, e) /\ e.last = 0
  BY <1>1, <1>2
<1> QED
  BY <1>3

LEMMA FramedFresh ==
    ASSUME NEW fs, NEW sg \in Seq(Segments), NEW n \in SegNos, NEW t \in Nat,
           NEW ss, ss = Append(sg, Fresh(n)), Framed(fs, sg, t) \in Seq(Nat)
    PROVE  Framed(fs, ss, t) = Framed(fs, sg, t)
<1>1. /\ ss \in Seq(Segments) /\ Len(ss) = Len(sg) + 1
      /\ \A i \in 1..Len(sg) : i \in 1..Len(ss) /\ ss[i] = sg[i]
      /\ ss[Len(ss)].last = 0 /\ Len(ss) \in 1..Len(ss)
  BY FreshAppended
<1>2. Len(sg) \in Nat /\ Len(ss) \in Nat /\ Len(ss) - 1 = Len(sg)
  BY <1>1
<1>3. PICK f : Joins(f, SegPieces(fs, sg, t), Len(sg)) /\ Framed(fs, sg, t) = f[Len(sg)]
  BY <1>2, FramedJoins
<1>4. f[0] = <<>> /\ \A m \in 1..Len(sg) : f[m] = f[m - 1] \o SegPieces(fs, sg, t)[m]
  BY <1>2, <1>3, JoinStages
<1>5. PICK h : Joins(h, SegPieces(fs, ss, t), Len(ss)) /\ Framed(fs, ss, t) = h[Len(ss)]
  BY <1>2, FramedJoins
<1>6. h[0] = <<>> /\ \A m \in 1..Len(ss) : h[m] = h[m - 1] \o SegPieces(fs, ss, t)[m]
  BY <1>2, <1>5, JoinStages
<1>7. \A m \in 1..Len(sg) : SegPieces(fs, ss, t)[m] = SegPieces(fs, sg, t)[m]
  BY <1>1 DEF SegPieces
<1>8. SegPieces(fs, ss, t)[Len(ss)] = <<>>
  BY <1>1 DEF SegPieces
<1> DEFINE T == {m \in 0..Len(sg) : h[m] = f[m]}
<1>9. 0 \in T
  BY <1>2, <1>4, <1>6
<1>10. ASSUME NEW m \in 1..Len(sg), m - 1 \in T PROVE m \in T
  <2>1. h[m - 1] = f[m - 1] /\ m \in 0..Len(sg) /\ m \in 1..Len(ss)
    BY <1>1, <1>10
  <2> QED
    BY <1>4, <1>6, <1>7, <2>1
<1> HIDE DEF T
<1>11. \A m \in 0..Len(sg) : m \in T
  BY <1>2, <1>9, <1>10, Climb
<1>12. h[Len(sg)] = f[Len(sg)]
  BY <1>2, <1>11 DEF T
<1>13. h[Len(ss)] = f[Len(sg)] \o <<>>
  <2>1. h[Len(ss)] = h[Len(ss) - 1] \o SegPieces(fs, ss, t)[Len(ss)]
    BY <1>1, <1>6
  <2> QED
    BY <1>2, <1>8, <1>12, <2>1
<1>14. f[Len(sg)] \o <<>> = f[Len(sg)]
  BY <1>3
<1> QED
  BY <1>3, <1>5, <1>13, <1>14

LEMMA CoveredFramed ==
    ASSUME NEW fs, NEW ss, NEW g \in Nat, NEW w, Covered(fs, ss, g, w),
           NEW t \in Nat, g <= t
    PROVE  w \in Nat /\ FromCursor(Framed(fs, ss, t), w, t)
<1>1. PICK sg \in Seq(Segments) :
          /\ ss = sg \/ \E n \in SegNos : ss = Append(sg, Fresh(n))
          /\ Chain(fs, sg, g, w)
  BY DEF Covered
<1>2. w \in Nat /\ FromCursor(Framed(fs, sg, t), w, t)
  BY <1>1, ChainEnd, ChainFramed
<1>3. Framed(fs, sg, t) \in Seq(Nat)
  <2>1. CASE w <= t
    BY <1>2, <2>1 DEF FromCursor
  <2>2. CASE ~(w <= t)
    <3>1. PICK e \in Nat : e <= t /\ Framed(fs, sg, t) = After(e, w)
      BY <1>2, <2>2 DEF FromCursor
    <3>2. e <= w
      BY <1>2, <2>2, <3>1
    <3> QED
      BY <1>2, <3>1, <3>2, AfterIsRun DEF IsRun
  <2> QED
    BY <2>1, <2>2
<1>4. Framed(fs, ss, t) = Framed(fs, sg, t)
  BY <1>1, <1>3, FramedFresh
<1> QED
  BY <1>2, <1>4

(* A replay yields every later delta when the buffer begins no later than    *)
(* where the segments end.                                                   *)
LEMMA CoveredReplay ==
    ASSUME NEW fs, NEW ss, NEW g \in Nat, NEW w, Covered(fs, ss, g, w),
           NEW t \in Nat, g <= t, NEW a \in Nat, w <= a, t <= a, NEW b \in Nat, b <= w
    PROVE  ToSet(Replay(fs, ss, After(b, a), t)) = (t + 1)..a
<1>1. w \in Nat /\ FromCursor(Framed(fs, ss, t), w, t)
  BY CoveredFramed
<1>2. b <= a
  BY <1>1
<1>3. After(b, a) \in Seq(Nat) /\ ToSet(After(b, a)) = (b + 1)..a
  BY <1>2, AfterIsRun, ToSetAfter DEF IsRun
<1>4. CASE w <= t
  <2>1. Framed(fs, ss, t) \o After(b, a) = After(b, a)
    BY <1>1, <1>3, <1>4 DEF FromCursor
  <2>2. Later(After(b, a), t) = After(t, a)
    <3>1. b <= t
      BY <1>1, <1>4
    <3> QED
      BY <3>1, LaterAfter
  <2> QED
    BY <2>1, <2>2, ToSetAfter DEF Replay
<1>5. CASE ~(w <= t)
  <2>1. PICK e \in Nat : e <= t /\ Framed(fs, ss, t) = After(e, w)
    BY <1>1, <1>5 DEF FromCursor
  <2>2. e <= w
    BY <1>1, <1>5, <2>1
  <2>3. After(e, w) \in Seq(Nat) /\ ToSet(After(e, w)) = (e + 1)..w
    BY <1>1, <2>2, AfterIsRun, ToSetAfter DEF IsRun
  <2>4. PICK r \in Seq(Nat) : r = After(e, w) /\ ToSet(r) = (e + 1)..w
    BY <2>3
  <2>5. PICK u \in Seq(Nat) : u = After(b, a) /\ ToSet(u) = (b + 1)..a
    BY <1>3
  <2>6. PICK s \in Seq(Nat) : s = r \o u
    BY ConcatType
  <2>7. ToSet(s) = ((e + 1)..w) \cup ((b + 1)..a)
    <3>1. ToSet(r \o u) = ToSet(r) \cup ToSet(u)
      BY ToSetConcat
    <3> QED
      BY <2>4, <2>5, <2>6, <3>1, Zenon
  <2>8. ToSet(Later(s, t)) = {x \in ToSet(s) : x > t \/ x = Corrupt}
    BY LaterSet
  <2>9. {x \in ((e + 1)..w) \cup ((b + 1)..a) : x > t \/ x = Corrupt} = (t + 1)..a
    BY <1>1, <1>5, <2>1 DEF Corrupt
  <2> QED
    BY <2>1, <2>4, <2>5, <2>6, <2>7, <2>8, <2>9 DEF Replay
<1> QED
  BY <1>4, <1>5

(* ... and in order when it begins there. *)
LEMMA CoveredExactly ==
    ASSUME NEW fs, NEW ss, NEW g \in Nat, NEW w, Covered(fs, ss, g, w),
           NEW t \in Nat, g <= t, NEW a \in Nat, w <= a, t <= a
    PROVE  Replay(fs, ss, After(w, a), t) = After(t, a)
<1>1. w \in Nat /\ FromCursor(Framed(fs, ss, t), w, t)
  BY CoveredFramed
<1>2. CASE w <= t
  <2>1. After(w, a) \in Seq(Nat)
    BY <1>1, AfterIsRun DEF IsRun
  <2>2. Framed(fs, ss, t) \o After(w, a) = After(w, a)
    BY <1>1, <1>2, <2>1 DEF FromCursor
  <2>3. Later(After(w, a), t) = After(t, a)
    BY <1>1, <1>2, LaterAfter
  <2> QED
    BY <2>2, <2>3 DEF Replay
<1>3. CASE ~(w <= t)
  <2>1. PICK e \in Nat : e <= t /\ Framed(fs, ss, t) = After(e, w)
    BY <1>1, <1>3 DEF FromCursor
  <2>2. e <= w
    BY <1>1, <1>3, <2>1
  <2>3. After(e, w) \o After(w, a) = After(e, a)
    BY <1>1, <2>2, AfterAfter
  <2>4. Later(After(e, a), t) = After(t, a)
    BY <2>1, LaterAfter
  <2> QED
    BY <2>1, <2>3, <2>4 DEF Replay
<1> QED
  BY <1>2, <1>3

-----------------------------------------------------------------------------
(* The theorems. *)

LEMMA InitDelta == Init => DeltaInv
<1> SUFFICES ASSUME Init PROVE DeltaInv
  OBVIOUS
<1>1. /\ lastTid = 0 /\ attached = FALSE /\ pc = "closed" /\ inApply = FALSE
      /\ applied = 0 /\ watermark = 0 /\ genesis = 0 /\ buffer = <<>> /\ pending = 0
      /\ segs = <<>> /\ nextSeg = 1 /\ files = NoFiles /\ manifest = FreshManifest
      /\ debris = "none" /\ debris \in Debris
  BY DEF Init, Debris
<1>2. Len(<<>>) = 0 /\ After(0, 0) = <<>>
  BY AfterNothing
<1>3. files \in Disks /\ manifest \in Manifests /\ Recordable(files, manifest)
  BY <1>1, NoFilesType, FreshType, FreshRecordable
<1>4. /\ manifest.wm = 0 /\ manifest.genesis = 0 /\ manifest.segs = <<>> /\ manifest.nextSeg = 1
  BY <1>1, FreshType
<1>5. pc \notin Open_
  BY <1>1 DEF Open_
<1>6. TypeInv
  <2>1. TypeOK
    <3>1. <<>> \in Seq(Segments) /\ <<>> \in Seq(1..MaxTid) /\ 0 \in 0..0 /\ 0 \in 0..MaxTid
          /\ 1 \in 1..(MaxSegs + 1)
      BY DeltaLogConstants
    <3>2. \A n \in SegNos : files[n] = NoFile
      BY <1>1 DEF NoFiles
    <3> QED
      BY <1>1, <1>2, <1>4, <3>1, <3>2 DEF TypeOK
  <2>2. InMemory = FreshManifest
    BY <1>1 DEF InMemory, FreshManifest
  <2> QED
    BY <1>1, <1>3, <1>4, <2>1, <2>2 DEF TypeInv
<1>7. BufferInv
  <2>1. applied = 0
    BY <1>1
  <2>2. Len(buffer) = 0
    BY <1>1
  <2>3. applied - Len(buffer) = 0
    BY <2>1, <2>2
  <2> QED
    BY <1>1, <1>2, <2>3 DEF BufferInv
<1>8. ShapeInv
  <2>1. Shaped(files, segs, nextSeg)
    BY <1>1, NoSegments
  <2> QED
    BY <1>1, <1>2, <1>3, <1>5, <2>1 DEF ShapeInv, Recordable
<1>9. HonestInv
  <2>1. Chain(files, manifest.segs, manifest.genesis, manifest.wm)
    BY <1>4, NoSegments
  <2> QED
    BY <1>5, <2>1 DEF HonestInv
<1> QED
  BY <1>6, <1>7, <1>8, <1>9 DEF DeltaInv

LEMMA NextDelta == DeltaInv /\ [Next]_vars => DeltaInv'
<1> SUFFICES ASSUME DeltaInv, [Next]_vars PROVE DeltaInv'
  OBVIOUS
<1>1. CASE \E t \in 1..MaxTid : Feed(t)
  BY <1>1, FeedStep
<1>2. CASE Commit
  BY <1>2, CommitStep
<1>3. CASE Flush \/ Attach \/ Detach
  BY <1>3, QuietSteps
<1>4. CASE FlushAppend
  BY <1>4, FlushAppendStep
<1>5. CASE FlushAppendFails
  BY <1>5, FlushAppendFailsStep
<1>6. CASE FlushManifest \/ FlushManifestFails
  BY <1>6, FlushManifestStep
<1>7. CASE Open
  BY <1>7, OpenStep
<1>8. CASE Bootstrap
  BY <1>8, BootstrapStep
<1>9. CASE Join
  BY <1>9, JoinStep
<1>10. CASE Crash
  BY <1>10, CrashStep
<1>11. CASE UNCHANGED vars
  BY <1>11, Stutter
<1> QED
  BY <1>1, <1>2, <1>3, <1>4, <1>5, <1>6, <1>7, <1>8, <1>9, <1>10, <1>11 DEF Next, FlushStep

LEMMA AlwaysDelta == Spec => []DeltaInv
BY InitDelta, NextDelta, PTL DEF Spec

(* What is not buffered is behind the manifest's watermark, in any state. *)
LossInv == applied - Len(buffer) <= manifest.wm

(* After a failed flush the segments reach at least to where the buffer      *)
(* begins, and exactly there if it was the append that failed.               *)
FailedInv ==
    /\ pc = "joining" => debris = "none"
    /\ pc \in Open_ /\ debris \in {"torn", "doubled"} =>
          /\ Covered(files, segs, genesis, watermark)
          /\ applied - Len(buffer) <= watermark
          /\ debris = "torn" => watermark = applied - Len(buffer)

(* The steps that flush and load nothing. *)
Ordinary ==
    \/ Commit \/ Flush \/ Attach \/ Detach \/ UNCHANGED vars
    \/ \E t \in 1..MaxTid : Feed(t)

(* A delta that is delivered is buffered or changes nothing. *)
LEMMA ApplyDelivers ==
    ASSUME TypeInv, NEW tid \in Nat, Apply(tid), pc = "idle"
    PROVE  /\ UNCHANGED <<watermark, genesis, segs, nextSeg>>
           /\ pc' \in {"idle", "append"}
           /\ applied' - Len(buffer') = applied - Len(buffer)
<1>1. applied \in Nat /\ buffer \in Seq(1..MaxTid) /\ Len(buffer) \in Nat
  BY Counters
<1>2. CASE tid <= applied \/ tid # applied + 1
  BY <1>2 DEF Apply, memVars
<1>3. CASE ~(tid <= applied \/ tid # applied + 1)
  <2>1. /\ buffer' = Append(buffer, tid) /\ applied' = tid /\ tid = applied + 1
        /\ pc' = IF pending + 1 >= FlushEvery THEN "append" ELSE "idle"
        /\ UNCHANGED <<watermark, genesis, segs, nextSeg>>
    BY <1>3 DEF Apply
  <2>2. Len(buffer') = Len(buffer) + 1
    BY <1>1, <2>1
  <2>3. \A x \in Nat, y \in Nat : (x + 1) - (y + 1) = x - y
    OBVIOUS
  <2>4. applied' - Len(buffer') = (applied + 1) - (Len(buffer) + 1)
    BY <2>1, <2>2
  <2> QED
    BY <1>1, <2>1, <2>3, <2>4
<1> QED
  BY <1>2, <1>3

LEMMA OrdinaryStep ==
    ASSUME DeltaInv, Ordinary
    PROVE  /\ UNCHANGED <<files, manifest, debris, segs, genesis, watermark>>
           /\ applied' - Len(buffer') = applied - Len(buffer)
           /\ pc' \in Open_ => pc \in Open_
           /\ pc' = "joining" => pc = "joining"
<1>1. TypeInv
  BY DEF DeltaInv
<1>2. lastTid \in Nat
  BY <1>1, Counters
<1>3. CASE Commit /\ attached
  <2>1. pc = "idle"
    BY <1>1, <1>3 DEF Commit, TypeInv, Open_
  <2>2. lastTid' \in Nat /\ Apply(lastTid')
    BY <1>2, <1>3 DEF Commit
  <2>3. PICK tid \in Nat : tid = lastTid'
    BY <2>2
  <2>4. Apply(tid)
    BY <2>2, <2>3, Zenon
  <2>5. UNCHANGED diskVars
    BY <1>3 DEF Commit
  <2> QED
    BY <1>1, <2>1, <2>4, <2>5, ApplyDelivers DEF diskVars, Open_
<1>4. CASE Commit /\ ~attached
  BY <1>4 DEF Commit, memVars, diskVars
<1>5. CASE Flush \/ Attach \/ Detach
  BY <1>5 DEF Flush, Attach, Detach, storeVars, memVars, diskVars, Open_
<1>6. CASE UNCHANGED vars
  BY <1>6 DEF vars, storeVars, memVars, diskVars
<1>7. ASSUME NEW t \in 1..MaxTid, Feed(t)
      PROVE  /\ UNCHANGED <<files, manifest, debris, segs, genesis, watermark>>
             /\ applied' - Len(buffer') = applied - Len(buffer)
             /\ pc' \in Open_ => pc \in Open_
             /\ pc' = "joining" => pc = "joining"
  <2>1. pc = "idle" /\ Apply(t) /\ UNCHANGED diskVars /\ t \in Nat
    BY <1>7 DEF Feed
  <2> QED
    BY <1>1, <2>1, ApplyDelivers DEF diskVars, Open_
<1> QED
  BY <1>3, <1>4, <1>5, <1>6, <1>7 DEF Ordinary

LEMMA LossStep == DeltaInv /\ LossInv /\ [Next]_vars => LossInv'
<1> SUFFICES ASSUME DeltaInv, LossInv, [Next]_vars PROVE LossInv'
  OBVIOUS
<1>1. TypeInv
  BY DEF DeltaInv
<1>2. /\ applied \in Nat /\ Len(buffer) \in Nat /\ watermark \in Nat /\ lastTid \in Nat
      /\ manifest.wm \in Nat
  BY <1>1, Counters, ManifestType DEF TypeInv
<1>3. Len(<<>>) = 0
  OBVIOUS
<1>4. \A x \in Nat, y \in Nat : x - y <= x
  OBVIOUS
<1>5. CASE Ordinary
  BY <1>5, OrdinaryStep DEF LossInv
<1>6. CASE FlushAppend \/ FlushAppendFails
  BY <1>6 DEF FlushAppend, FlushAppendFails, LossInv
<1>7. CASE FlushManifest \/ FlushManifestFails
  <2>1. /\ watermark = applied /\ InMemory.wm = watermark
        /\ applied' = applied
        /\ manifest' = InMemory \/ (manifest' = manifest /\ buffer' = buffer)
        /\ buffer' = buffer \/ buffer' = <<>>
    <3>1. pc = "manifest"
      BY <1>7 DEF FlushManifest, FlushManifestFails
    <3>2. watermark = applied /\ InMemory.wm = watermark
      BY <1>1, <3>1, InMemoryType DEF TypeInv
    <3>3. CASE FlushManifest
      BY <3>2, <3>3 DEF FlushManifest
    <3>4. CASE FlushManifestFails
      <4>1. applied' = applied /\ buffer' = buffer /\ manifest' \in {manifest, InMemory}
        BY <3>4 DEF FlushManifestFails, memVars
      <4> QED
        BY <3>2, <4>1
    <3> QED
      BY <1>7, <3>3, <3>4
  <2>2. CASE manifest' = manifest /\ buffer' = buffer
    BY <2>1, <2>2 DEF LossInv
  <2>3. CASE manifest' = InMemory
    <3>1. manifest'.wm = applied /\ Len(buffer') \in Nat
      BY <1>2, <1>3, <2>1, <2>3
    <3> QED
      BY <1>2, <1>4, <2>1, <3>1 DEF LossInv
  <2> QED
    BY <2>1, <2>2, <2>3
<1>8. CASE Open
  <2>1. applied' = manifest'.wm /\ manifest'.wm \in Nat /\ buffer' = <<>>
    BY <1>2, <1>8 DEF Open, Load
  <2>2. Len(buffer') \in Nat
    BY <1>3, <2>1
  <2> QED
    BY <1>4, <2>1, <2>2 DEF LossInv
<1>9. CASE Bootstrap \/ Crash
  <2>1. applied' = 0 /\ buffer' = <<>> /\ manifest'.wm \in Nat
    BY <1>2, <1>9, FreshType DEF Bootstrap, Crash, Load, diskVars
  <2>2. Len(buffer') \in Nat
    BY <1>3, <2>1
  <2>3. applied' \in Nat /\ applied' <= manifest'.wm
    BY <2>1
  <2>4. applied' - Len(buffer') <= applied' /\ applied' - Len(buffer') \in Int
    BY <2>2, <2>3
  <2> QED
    BY <2>1, <2>3, <2>4 DEF LossInv
<1>10. CASE Join
  <2>1. applied' = lastTid /\ manifest'.wm = lastTid /\ buffer' = buffer
    BY <1>10 DEF Join
  <2> QED
    BY <1>2, <1>4, <2>1 DEF LossInv
<1> QED
  BY <1>5, <1>6, <1>7, <1>8, <1>9, <1>10 DEF Next, FlushStep, Ordinary

(* The segments before an appended one have the shape the whole has. *)
LEMMA CoveredGrows ==
    ASSUME NEW fs \in Disks, NEW gs \in Disks, Grows(fs, gs), NEW ss \in Seq(Segments),
           NEW next, Shaped(fs, ss, next), NEW g, NEW w, Covered(fs, ss, g, w)
    PROVE  Covered(gs, ss, g, w)
<1>1. PICK sg \in Seq(Segments) :
          /\ ss = sg \/ \E n \in SegNos : ss = Append(sg, Fresh(n))
          /\ Chain(fs, sg, g, w)
  BY DEF Covered
<1>2. Keeps(fs, gs, ss)
  BY GrowsKeeps
<1>3. \A i \in 1..Len(sg) : i \in 1..Len(ss) /\ ss[i] = sg[i]
  BY <1>1, FreshAppended
<1>4. Keeps(fs, gs, sg)
  BY <1>2, <1>3 DEF Keeps
<1>5. Chain(gs, sg, g, w)
  BY <1>1, <1>4, KeepsChain
<1> QED
  BY <1>1, <1>5 DEF Covered

LEMMA ChainCovered ==
    ASSUME NEW fs, NEW sg \in Seq(Segments), NEW g, NEW w, Chain(fs, sg, g, w)
    PROVE  Covered(fs, sg, g, w)
BY DEF Covered

(* A failed append adds at most an empty segment, and one at most. *)
LEMMA EnsuredCovered ==
    ASSUME TypeInv, ShapeInv, WithinBounds, NEW w, Covered(files, segs, genesis, w)
    PROVE  Covered(files, Ensured, genesis, w)
<1>1. CASE ~Rolls
  BY <1>1 DEF Ensured
<1>2. CASE Rolls
  <2>1. /\ Ensured = Append(segs, Fresh(nextSeg)) /\ nextSeg \in SegNos
        /\ \A i \in 1..Len(segs) : genesis < segs[i].last
    BY <1>2, RollsEnsured
  <2>2. PICK sg \in Seq(Segments) :
            /\ segs = sg \/ \E n \in SegNos : segs = Append(sg, Fresh(n))
            /\ Chain(files, sg, genesis, w)
    BY DEF Covered
  <2>3. segs = sg
    <3>1. ASSUME NEW n \in SegNos, segs = Append(sg, Fresh(n)) PROVE FALSE
      <4>1. Len(segs) \in 1..Len(segs) /\ segs[Len(segs)].last = 0
        BY <3>1, FreshAppended
      <4>2. genesis < 0 /\ genesis \in Nat
        BY <2>1, <4>1, Counters
      <4> QED
        BY <4>2
    <3> QED
      BY <2>2, <3>1
  <2> QED
    BY <2>1, <2>2, <2>3 DEF Covered
<1> QED
  BY <1>1, <1>2

LEMMA FailedStep == DeltaInv /\ FailedInv /\ [Next]_vars => FailedInv'
<1> SUFFICES ASSUME DeltaInv, FailedInv, [Next]_vars PROVE FailedInv'
  OBVIOUS
<1>1. TypeInv /\ ShapeInv /\ HonestInv /\ BufferInv
  BY DEF DeltaInv
<1>2. /\ applied \in Nat /\ Len(buffer) \in Nat /\ watermark \in Nat
      /\ segs \in Seq(Segments) /\ files \in Disks
  BY <1>1, Counters
<1>3. CASE Ordinary
  <2>1. /\ UNCHANGED <<files, manifest, debris, segs, genesis, watermark>>
        /\ applied' - Len(buffer') = applied - Len(buffer)
        /\ pc' \in Open_ => pc \in Open_
        /\ pc' = "joining" => pc = "joining"
    BY <1>3, OrdinaryStep
  <2> QED
    BY <2>1 DEF FailedInv
<1>4. CASE FlushAppend
  <2>1. pc' = "manifest" /\ debris' \notin {"torn", "doubled"}
    BY <1>4 DEF FlushAppend
  <2> QED
    BY <2>1 DEF FailedInv
<1>5. CASE FlushAppendFails
  <2>1. /\ pc = "append" /\ pc' = "idle" /\ WithinBounds /\ segs' = Ensured
        /\ UNCHANGED <<applied, watermark, genesis, buffer>>
        /\ debris' = IF debris = "none" THEN "torn" ELSE debris
    BY <1>5 DEF FlushAppendFails, Raises
  <2>2. ASSUME debris' \in {"torn", "doubled"}
        PROVE  /\ Covered(files', segs', genesis, watermark)
               /\ applied - Len(buffer) <= watermark
               /\ debris' = "torn" => watermark = applied - Len(buffer)
    <3>1. /\ Covered(files, segs, genesis, watermark)
          /\ applied - Len(buffer) <= watermark
          /\ debris' = "torn" => watermark = applied - Len(buffer)
      <4>1. CASE debris = "none"
        <5>1. Chain(files, segs, genesis, watermark) /\ watermark = applied - Len(buffer)
          BY <1>1, <2>1, <4>1 DEF HonestInv, Open_
        <5> QED
          BY <1>2, <5>1, ChainCovered
      <4>2. CASE debris # "none"
        BY <2>1, <2>2, <4>2 DEF FailedInv, Open_
      <4> QED
        BY <4>1, <4>2
    <3>2. Covered(files, Ensured, genesis, watermark)
      BY <1>1, <2>1, <3>1, EnsuredCovered
    <3>3. Ensured \in Seq(Segments) /\ Shaped(files, Ensured, NextNo)
      BY <1>1, <2>1, EnsuredShape
    <3>4. files' \in Disks /\ Grows(files, files')
      BY <1>5, AppendFiles
    <3>5. PICK gs \in Disks : gs = files'
      BY <3>4
    <3>6. Covered(gs, Ensured, genesis, watermark)
      BY <1>2, <3>2, <3>3, <3>4, <3>5, CoveredGrows
    <3> QED
      BY <2>1, <3>1, <3>5, <3>6
  <2> QED
    BY <2>1, <2>2 DEF FailedInv
<1>6. CASE FlushManifest \/ FlushManifestFails
  <2>1. /\ pc = "manifest" /\ pc' = "idle" /\ watermark = applied
        /\ debris \notin {"torn", "doubled"}
        /\ UNCHANGED <<applied, watermark, genesis, segs, files>>
    BY <1>1, <1>6 DEF FlushManifest, FlushManifestFails, Raises, memVars, TypeInv
  <2>2. ASSUME debris' \in {"torn", "doubled"}
        PROVE  /\ debris = "none" /\ debris' = "doubled" /\ buffer' = buffer
    BY <1>6, <2>1, <2>2 DEF FlushManifest, FlushManifestFails, Raises, memVars
  <2>3. ASSUME debris = "none" PROVE Covered(files, segs, genesis, watermark)
    <3>1. Chain(files, segs, genesis, watermark)
      BY <1>1, <2>1, <2>3 DEF HonestInv, Open_
    <3> QED
      BY <1>2, <3>1, ChainCovered
  <2>4. applied - Len(buffer) <= watermark
    BY <1>2, <2>1
  <2> QED
    BY <2>1, <2>2, <2>3, <2>4 DEF FailedInv
<1>7. CASE Open \/ Bootstrap \/ Crash
  BY <1>7 DEF Open, Bootstrap, Crash, FailedInv, Open_
<1>8. CASE Join
  BY <1>8 DEF Join, FailedInv
<1> QED
  BY <1>3, <1>4, <1>5, <1>6, <1>7, <1>8 DEF Next, FlushStep, Ordinary

LEMMA AlwaysFailed == Spec => [](DeltaInv /\ LossInv /\ FailedInv)
<1>1. Init => DeltaInv /\ LossInv /\ FailedInv
  <2> SUFFICES ASSUME Init PROVE DeltaInv /\ LossInv /\ FailedInv
    OBVIOUS
  <2>1. applied = 0 /\ Len(buffer) = 0 /\ manifest.wm = 0 /\ pc = "closed"
    BY FreshType DEF Init
  <2>2. applied - Len(buffer) = 0
    BY <2>1
  <2> QED
    BY <2>1, <2>2, InitDelta DEF LossInv, FailedInv, Open_
<1> QED
  BY <1>1, NextDelta, LossStep, FailedStep, PTL DEF Spec

(* Every variable of the log has its type, in every environment. *)
THEOREM DeltaTypes == Spec => []TypeOK
<1>1. DeltaInv => TypeOK
  BY DEF DeltaInv, TypeInv
<1> QED
  BY <1>1, AlwaysDelta, PTL

(* The durable watermark never lies: whatever is half done, the files the     *)
(* manifest names hold exactly the deltas from its genesis to its watermark,  *)
(* once each and in order, until a failed flush is retried in its session.    *)
THEOREM DeltaWatermarkHonest == Spec => []WatermarkHonest
<1>1. ASSUME DeltaInv, debris # "counted" PROVE DurableWatermark
  <2>1. TypeInv /\ HonestInv
    BY <1>1 DEF DeltaInv
  <2>2. Chain(files, manifest.segs, manifest.genesis, manifest.wm)
    BY <1>1, <2>1 DEF HonestInv
  <2>3. manifest \in Manifests /\ manifest.genesis <= manifest.wm
    BY <2>1 DEF TypeInv
  <2>4. /\ manifest.segs \in Seq(Segments) /\ manifest.genesis \in Nat /\ manifest.wm \in Nat
        /\ manifest.genesis <= manifest.genesis /\ manifest.wm <= manifest.wm
    BY <2>3, ManifestType
  <2>5. Replay(files, manifest.segs, After(manifest.wm, manifest.wm), manifest.genesis)
            = After(manifest.genesis, manifest.wm)
    BY <2>2, <2>3, <2>4, ChainReplay
  <2>6. After(manifest.wm, manifest.wm) = <<>>
    BY <2>4, AfterNothing
  <2> QED
    BY <2>5, <2>6 DEF DurableWatermark
<1>2. DeltaInv => WatermarkHonest
  BY <1>1 DEF WatermarkHonest
<1> QED
  BY <1>2, AlwaysDelta, PTL

(* A replay of an open log, from any cursor, yields every later delta it was  *)
(* given, flushed or not, and nothing else, until a failed flush is retried;  *)
(* once and in TID order as long as no manifest write has failed.             *)
THEOREM DeltaReplayComplete == Spec => []ReplayComplete
<1>1. ASSUME DeltaInv, FailedInv, pc = "idle", debris # "counted", NEW t \in genesis..applied
      PROVE  /\ ToSet(Replay(files, segs, buffer, t)) = (t + 1)..applied
             /\ debris # "doubled" => Replay(files, segs, buffer, t) = After(t, applied)
  <2>1. TypeInv /\ BufferInv /\ HonestInv
    BY <1>1 DEF DeltaInv
  <2>2. /\ genesis \in Nat /\ watermark \in Nat /\ applied \in Nat /\ watermark <= applied
        /\ segs \in Seq(Segments) /\ debris \in Debris
    BY <2>1, Counters DEF TypeInv, TypeOK
  <2>3. /\ Covered(files, segs, genesis, watermark)
        /\ applied - Len(buffer) <= watermark
        /\ debris # "doubled" => watermark = applied - Len(buffer)
    <3>1. CASE debris = "none"
      <4>1. Chain(files, segs, genesis, watermark) /\ watermark = applied - Len(buffer)
        BY <1>1, <2>1, <3>1 DEF HonestInv, Open_
      <4> QED
        BY <2>2, <4>1, ChainCovered
    <3>2. CASE debris # "none"
      BY <1>1, <2>2, <3>2 DEF FailedInv, Open_, Debris
    <3> QED
      BY <3>1, <3>2
  <2>4. PICK b \in Nat : b = applied - Len(buffer)
    BY <2>1, BufferRun
  <2>5. buffer = After(b, applied) /\ b <= watermark
    BY <2>1, <2>3, <2>4 DEF BufferInv
  <2>6. t \in Nat /\ genesis <= t /\ t <= applied
    BY <2>2
  <2>7. ToSet(Replay(files, segs, After(b, applied), t)) = (t + 1)..applied
    BY <2>2, <2>3, <2>5, <2>6, CoveredReplay
  <2>8. Replay(files, segs, After(watermark, applied), t) = After(t, applied)
    BY <2>2, <2>3, <2>6, CoveredExactly
  <2>9. debris # "doubled" => b = watermark
    BY <2>3, <2>4
  <2> QED
    BY <2>5, <2>7, <2>8, <2>9
<1>2. DeltaInv /\ FailedInv => ReplayComplete
  BY <1>1 DEF ReplayComplete
<1> QED
  BY <1>2, AlwaysFailed, PTL

(* An attached log has every commit: a delta it refused or failed to flush    *)
(* has detached it.                                                          *)
THEOREM DeltaAttachedIsCurrent == Spec => []AttachedIsCurrent
<1>1. DeltaInv => AttachedIsCurrent
  BY DEF DeltaInv, TypeInv, AttachedIsCurrent
<1> QED
  BY <1>1, AlwaysDelta, PTL

(* A crash of an open log costs no delta but what is buffered, also after a   *)
(* failed flush and its retries; until a flush fails it costs exactly that,   *)
(* and fewer than flush_every deltas.                                         *)
THEOREM DeltaLossBounded == Spec => []LossBounded
<1>1. ASSUME DeltaInv, LossInv, pc = "idle"
      PROVE  /\ applied - manifest.wm <= Len(buffer)
             /\ debris = "none" => /\ applied - manifest.wm = Len(buffer)
                                   /\ Len(buffer) < FlushEvery
  <2>1. TypeInv /\ HonestInv
    BY <1>1 DEF DeltaInv
  <2>2. applied \in Nat /\ Len(buffer) \in Nat /\ manifest.wm \in Nat
    BY <2>1, Counters, ManifestType DEF TypeInv
  <2>3. applied - manifest.wm <= Len(buffer)
    BY <1>1, <2>2 DEF LossInv
  <2>4. debris = "none" => applied - Len(buffer) = manifest.wm /\ Len(buffer) < FlushEvery
    BY <1>1, <2>1 DEF HonestInv, Open_
  <2>5. debris = "none" => applied - manifest.wm = Len(buffer)
    BY <2>2, <2>4
  <2> QED
    BY <2>3, <2>4, <2>5
<1>2. DeltaInv /\ LossInv => LossBounded
  BY <1>1 DEF LossBounded
<1> QED
  BY <1>2, AlwaysFailed, PTL

-----------------------------------------------------------------------------
(* A recorded delta stays readable. *)

LEMMA NothingRecorded ==
    ASSUME NEW fs, NEW g
    PROVE  Replay(fs, <<>>, <<>>, g) = <<>>
<1>1. Len(<<>>) = 0 /\ Len(<<>>) \in Nat
  OBVIOUS
<1>2. PICK f : Joins(f, SegPieces(fs, <<>>, g), Len(<<>>)) /\ Framed(fs, <<>>, g) = f[Len(<<>>)]
  BY <1>1, FramedJoins
<1>3. f[0] = <<>>
  BY <1>1, <1>2, JoinStages
<1>4. Framed(fs, <<>>, g) = <<>>
  BY <1>1, <1>2, <1>3
<1>5. PICK h : Joins(h, LaterPieces(<<>>, g), Len(<<>>)) /\ Later(<<>>, g) = h[Len(<<>>)]
  BY <1>1, LaterJoins
<1>6. h[0] = <<>>
  BY <1>1, <1>5, JoinStages
<1>7. Later(<<>>, g) = <<>>
  BY <1>1, <1>5, <1>6
<1>8. <<>> \o <<>> = <<>>
  OBVIOUS
<1> QED
  BY <1>4, <1>7, <1>8 DEF Replay

LEMMA ContinuesExtends ==
    ASSUME NEW fs \in Disks, NEW sg \in Seq(Segments), NEW old \in Seq(Segments),
           Within(fs, sg), Within(fs, old), Continues(sg, old)
    PROVE  Extends(fs, old, fs, sg)
<1>1. Len(old) <= Len(sg) /\ Len(old) \in Nat /\ Len(sg) \in Nat
  BY DEF Continues
<1>2. ASSUME NEW i \in 1..Len(old)
      PROVE  /\ old[i].last <= sg[i].last
             /\ Starts(Committed(fs, old[i]), Committed(fs, sg[i]))
             /\ i < Len(old) => Committed(fs, old[i]) = Committed(fs, sg[i])
  <2>1. i \in 1..Len(sg)
    BY <1>1
  <2>2. old[i] \in Segments /\ old[i].nbytes <= Len(Content(fs, old[i].no))
        /\ old[i].nbytes \in Nat /\ old[i].last \in Nat
    BY SegmentType DEF Within
  <2>3. sg[i] \in Segments /\ sg[i].nbytes <= Len(Content(fs, sg[i].no)) /\ sg[i].nbytes \in Nat
    BY <2>1, SegmentType DEF Within
  <2>4. IF i < Len(old) THEN sg[i] = old[i]
        ELSE sg[i].no = old[i].no /\ old[i].nbytes <= sg[i].nbytes /\ old[i].last <= sg[i].last
    BY DEF Continues
  <2>5. sg[i].no = old[i].no /\ old[i].nbytes <= sg[i].nbytes /\ old[i].last <= sg[i].last
    BY <2>2, <2>4
  <2>6. PICK c \in Seq(Cell) : c = Committed(fs, old[i])
    BY <2>2, DiskFiles, CommittedCells
  <2>7. PICK d \in Seq(Cell) : d = Committed(fs, sg[i])
    BY <2>3, DiskFiles, CommittedCells
  <2>8. Len(c) = old[i].nbytes /\ \A k \in 1..old[i].nbytes : c[k] = Content(fs, old[i].no)[k]
    BY <2>2, <2>6, DiskFiles, CommittedCells
  <2>9. Len(d) = sg[i].nbytes /\ \A k \in 1..sg[i].nbytes : d[k] = Content(fs, sg[i].no)[k]
    BY <2>3, <2>7, DiskFiles, CommittedCells
  <2>10. Starts(c, d)
    <3>1. ASSUME NEW k \in 1..Len(c) PROVE c[k] = d[k]
      <4>1. k \in 1..old[i].nbytes /\ k \in 1..sg[i].nbytes
        BY <2>2, <2>3, <2>5, <2>8
      <4> QED
        BY <2>5, <2>8, <2>9, <4>1
    <3>2. Len(c) <= Len(d)
      BY <2>5, <2>8, <2>9
    <3> QED
      BY <3>1, <3>2 DEF Starts
  <2> QED
    BY <2>4, <2>5, <2>6, <2>7, <2>10
<1> QED
  BY <1>1, <1>2 DEF Extends

LEMMA ShapedWithin ==
    ASSUME NEW fs, NEW sg, NEW next, Shaped(fs, sg, next)
    PROVE  Within(fs, sg)
BY DEF Shaped, Within

LEMMA ManifestFacts ==
    ASSUME DeltaInv
    PROVE  /\ files \in Disks /\ manifest.segs \in Seq(Segments) /\ manifest.genesis \in Nat
           /\ Shaped(files, manifest.segs, manifest.nextSeg)
           /\ Within(files, manifest.segs)
           /\ \A i \in 1..Len(manifest.segs) : manifest.genesis < manifest.segs[i].last
<1>1. TypeInv /\ ShapeInv
  BY DEF DeltaInv
<1>2. files \in Disks /\ manifest \in Manifests
  BY <1>1 DEF TypeInv
<1>3. Shaped(files, manifest.segs, manifest.nextSeg)
      /\ \A i \in 1..Len(manifest.segs) : manifest.genesis < manifest.segs[i].last
  BY <1>1 DEF ShapeInv
<1> QED
  BY <1>2, <1>3, ManifestType, ShapedWithin

(* A step that keeps the genesis and extends the segments extends the record. *)
LEMMA RecordStep ==
    ASSUME DeltaInv, NEW fs \in Disks, NEW sg \in Seq(Segments), Within(fs, sg),
           Extends(files, manifest.segs, fs, sg)
    PROVE  IsPrefix(Recorded, Replay(fs, sg, <<>>, manifest.genesis))
<1>1. /\ files \in Disks /\ manifest.segs \in Seq(Segments) /\ manifest.genesis \in Nat
      /\ Within(files, manifest.segs)
      /\ \A i \in 1..Len(manifest.segs) : manifest.genesis < manifest.segs[i].last
  BY ManifestFacts
<1>2. Files(files) /\ Files(fs)
  BY <1>1, DiskFiles
<1>3. IsPrefix(Replay(files, manifest.segs, <<>>, manifest.genesis),
               Replay(fs, sg, <<>>, manifest.genesis))
  BY <1>1, <1>2, RecordStarts
<1> QED
  BY <1>3 DEF Recorded

(* Files that keep the cells the manifest counts keep the record. *)
LEMMA KeptRecord ==
    ASSUME DeltaInv, manifest' = manifest, NEW fs \in Disks, fs = files',
           Keeps(files, fs, manifest.segs)
    PROVE  IsPrefix(Recorded, Recorded')
<1>1. /\ files \in Disks /\ manifest.segs \in Seq(Segments)
      /\ Shaped(files, manifest.segs, manifest.nextSeg) /\ Within(files, manifest.segs)
  BY ManifestFacts
<1>2. Extends(files, manifest.segs, fs, manifest.segs)
  BY <1>1, KeepsExtends
<1>3. Within(fs, manifest.segs)
  BY DEF Keeps, Within
<1>4. IsPrefix(Recorded, Replay(fs, manifest.segs, <<>>, manifest.genesis))
  BY <1>1, <1>2, <1>3, RecordStep
<1>5. Recorded' = Replay(fs, manifest.segs, <<>>, manifest.genesis)
  BY Zenon DEF Recorded
<1> QED
  BY <1>4, <1>5

LEMMA KeptStep ==
    ASSUME DeltaInv, Next \/ UNCHANGED vars, pc' # "joining"
    PROVE  IsPrefix(Recorded, Recorded')
<1>1. TypeInv /\ ShapeInv
  BY DEF DeltaInv
<1>2. /\ files \in Disks /\ manifest.segs \in Seq(Segments) /\ manifest.genesis \in Nat
      /\ Shaped(files, manifest.segs, manifest.nextSeg) /\ Within(files, manifest.segs)
  BY ManifestFacts
<1>3. CASE files' = files /\ manifest' = manifest
  <2>1. Keeps(files, files, manifest.segs)
    BY <1>2 DEF Keeps, Within
  <2> QED
    BY <1>2, <1>3, <2>1, KeptRecord
<1>4. CASE FlushAppend \/ FlushAppendFails
  <2>1. manifest' = manifest
    BY <1>4 DEF FlushAppend, FlushAppendFails
  <2>2. files' \in Disks /\ Grows(files, files')
    BY <1>4, AppendFiles
  <2>3. PICK fs \in Disks : fs = files'
    BY <2>2
  <2>4. Keeps(files, fs, manifest.segs)
    BY <1>2, <2>2, <2>3, GrowsKeeps
  <2> QED
    BY <2>1, <2>3, <2>4, KeptRecord
<1>5. CASE Open
  <2>1. files' = Reconciled(files, manifest.segs) /\ manifest' = manifest
    BY <1>5 DEF Open
  <2>2. PICK fs : fs = Reconciled(files, manifest.segs)
    OBVIOUS
  <2>3. fs \in Disks
    BY <1>2, <2>2, ReconciledDisk
  <2>4. Keeps(files, fs, manifest.segs)
    BY <1>2, <2>2, ReconciledKeeps
  <2> QED
    BY <2>1, <2>2, <2>3, <2>4, KeptRecord
<1>6. CASE FlushManifest \/ FlushManifestFails
  <2>1. pc = "manifest" /\ files' = files /\ manifest' \in {manifest, InMemory}
    BY <1>6 DEF FlushManifest, FlushManifestFails
  <2>2. CASE manifest' = InMemory
    <3>1. InMemory.genesis = genesis /\ InMemory.segs = segs /\ segs \in Seq(Segments)
      BY <1>1, InMemoryType, Counters
    <3>2. /\ genesis = manifest.genesis /\ Continues(segs, manifest.segs)
          /\ Shaped(files, segs, nextSeg)
      BY <1>1, <2>1 DEF ShapeInv, Open_
    <3>3. Within(files, segs)
      BY <3>2, ShapedWithin
    <3>4. Extends(files, manifest.segs, files, segs)
      BY <1>2, <3>1, <3>2, <3>3, ContinuesExtends
    <3>5. IsPrefix(Recorded, Replay(files, segs, <<>>, manifest.genesis))
      BY <1>2, <3>1, <3>3, <3>4, RecordStep
    <3>6. PICK m : m = InMemory
      OBVIOUS
    <3>7. manifest' = m /\ m.segs = segs /\ m.genesis = manifest.genesis
      BY <2>2, <3>1, <3>2, <3>6
    <3>8. Recorded' = Replay(files, m.segs, <<>>, m.genesis)
      BY <2>1, <3>7, Zenon DEF Recorded
    <3> QED
      BY <3>5, <3>7, <3>8
  <2> QED
    BY <1>3, <2>1, <2>2
<1>7. CASE Join
  <2>1. pc = "joining" /\ manifest'.segs = segs
    BY <1>7 DEF Join
  <2>2. manifest = FreshManifest /\ InMemory = FreshManifest
    BY <1>1, <2>1 DEF TypeInv, Open_
  <2>3. manifest.segs = <<>> /\ manifest'.segs = <<>>
    BY <1>1, <2>1, <2>2, InMemoryType, FreshType
  <2>4. Recorded = <<>>
    BY <2>3, NothingRecorded DEF Recorded
  <2>5. PICK fs : fs = files'
    OBVIOUS
  <2>6. PICK g : g = manifest'.genesis
    OBVIOUS
  <2>7. Recorded' = Replay(fs, <<>>, <<>>, g)
    BY <2>3, <2>5, <2>6, Zenon DEF Recorded
  <2>8. Recorded' = <<>>
    BY <2>7, NothingRecorded
  <2>9. IsPrefix(<<>>, <<>>)
    <3>1. <<>> \in Seq(Tid)
      OBVIOUS
    <3>2. Starts(<<>>, <<>>)
      BY <3>1, StartsSelf
    <3> QED
      BY <3>1, <3>2, StartsIsPrefix
  <2> QED
    BY <2>4, <2>8, <2>9
<1>8. CASE Bootstrap
  BY <1>8 DEF Bootstrap
<1>9. CASE (\E t \in 1..MaxTid : Feed(t)) \/ Commit \/ Flush \/ Attach \/ Detach \/ Crash
  <2>1. files' = files /\ manifest' = manifest
    BY <1>9 DEF Feed, Commit, Flush, Attach, Detach, Crash, diskVars
  <2> QED
    BY <1>3, <2>1
<1>10. CASE UNCHANGED vars
  <2>1. files' = files /\ manifest' = manifest
    BY <1>10 DEF vars, diskVars
  <2> QED
    BY <1>3, <2>1
<1> QED
  BY <1>4, <1>5, <1>6, <1>7, <1>8, <1>9, <1>10 DEF Next, FlushStep

(* Until bootstrap() replaces the log, no flush, failure, crash or reopening  *)
(* takes a recorded delta away, even after a failed flush was retried.        *)
THEOREM DeltaRecordKept == Spec => RecordKept
<1>1. DeltaInv /\ [Next]_vars => [pc' # "joining" => IsPrefix(Recorded, Recorded')]_vars
  BY KeptStep DEF vars
<1> QED
  BY <1>1, AlwaysDelta, PTL DEF Spec, RecordKept

===============================================================================
