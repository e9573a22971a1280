----------------------------- MODULE PoolProofs -----------------------------
(***************************************************************************)
(* Machine-checked proofs about the pool of snapshots: a request reads a      *)
(* watermark at or past the acknowledged one, a snapshot is open exactly      *)
(* while it is needed, and what the surfaces of a shared snapshot answer is   *)
(* what a scan of the pinned records fenced for the caller gives.             *)
(***************************************************************************)
EXTENDS SnapshotPool, FiniteSetTheorems, FunctionTheorems, SequenceTheorems,
        WellFoundedInduction, TLAPS

(* The fields the pool works with; what surfaces fill in is not constrained.  *)
Phases == {"idle", "start", "create", "acquire", "pin", "reading"}

ReqOK(q, npools) ==
    /\ DOMAIN q = DOMAIN Idle
    /\ q.phase \in Phases
    /\ q.pool \in 0..npools
    /\ q.since \in Nat
    /\ q.phase \in {"acquire", "pin", "reading"} => q.pool # 0

SnapOK(s) ==
    /\ DOMAIN s = {"core", "base", "refs", "retired"}
    /\ DOMAIN s.core = {"tid", "recs", "types", "closed", "cache", "indexes", "reverse"}
    /\ s.core.tid \in Nat
    /\ s.core.closed \in BOOLEAN
    /\ s.retired \in BOOLEAN
    /\ s.refs \in Int

TypeInv ==
    /\ wired \in BOOLEAN
    /\ durable \in Nat /\ last_tid \in Nat /\ last_tid <= durable
    /\ store \in {"open", "closing", "closed"}
    /\ snaps \in Seq(Range(snaps))
    /\ \A s \in Snaps : SnapOK(snaps[s])
    /\ current \in Seq(0..Len(snaps))
    /\ locked \in Seq(Requests \cup {NULL})
    /\ Len(locked) = Len(current)
    /\ pool \in 0..Len(current)
    /\ wired /\ store = "open" => pool = 1
    /\ DOMAIN req = Requests
    /\ \A r \in Requests : ReqOK(req[r], Len(current))
    /\ \A r \in Requests : req[r].phase = "reading" => req[r].at \in Snaps

(* A request came in at a watermark that has been reached. *)
ReadsInv ==
    /\ \A r \in Requests : req[r].since <= last_tid
    /\ ReadsAcknowledged

(* An open store has one pool, from its first request or from the lifespan.   *)
OnePool == pool = Len(current) /\ pool \in {0, 1}

(* The lock is held by the one request that is opening a view. *)
LockInv ==
    /\ \A r \in Requests : req[r].phase = "pin" => locked[req[r].pool] = r
    /\ \A k \in DOMAIN locked : locked[k] # NULL =>
          req[locked[k]].phase = "pin" /\ req[locked[k]].pool = k

RefsInv == \A s \in Snaps : snaps[s].refs = Cardinality(Reading(s))

(* A snapshot that is not retired is the current one; a retired one is closed *)
(* by its last reader, and is current exactly while its successor is opened.  *)
LifeInv ==
    /\ \A s \in Snaps : ~snaps[s].retired => pool # 0 /\ s = current[pool]
    /\ \A s \in Snaps : snaps[s].core.closed <=> snaps[s].retired /\ snaps[s].refs = 0
    /\ \A k \in DOMAIN current :
          current[k] # 0 => (snaps[current[k]].retired <=> locked[k] # NULL)

PoolInv == store = "open" => OnePool /\ LockInv /\ RefsInv /\ LifeInv

-----------------------------------------------------------------------------
(* The log of snapshots as a sequence. *)

LEMMA SeqIsFunction ==
    ASSUME NEW S, NEW f \in Seq(S)
    PROVE  f \in [1..Len(f) -> S]
  OBVIOUS

LEMMA SeqUpdated ==
    ASSUME NEW f, f \in Seq(Range(f)), NEW g, DOMAIN g = DOMAIN f,
           g = [i \in DOMAIN g |-> g[i]]
    PROVE  g \in Seq(Range(g)) /\ Len(g) = Len(f)
<1>1. Len(f) \in Nat /\ DOMAIN f = 1..Len(f)
  OBVIOUS
<1>2. g \in [1..Len(f) -> Range(g)]
  BY <1>1 DEF Range
<1> QED
  BY <1>1, <1>2

LEMMA SeqAppended ==
    ASSUME NEW f, f \in Seq(Range(f)), NEW x
    PROVE  LET g == Append(f, x) IN
           /\ g \in Seq(Range(g))
           /\ Len(f) \in Nat /\ Len(g) = Len(f) + 1
           /\ DOMAIN f = 1..Len(f)
           /\ DOMAIN g = DOMAIN f \cup {Len(f) + 1}
           /\ \A i \in DOMAIN f : g[i] = f[i]
           /\ g[Len(f) + 1] = x
<1> DEFINE S == Range(f) \cup {x}
           g == Append(f, x)
<1>1. f \in Seq(S) /\ x \in S /\ Len(f) \in Nat /\ DOMAIN f = 1..Len(f)
  BY DEF Range
<1>2. g \in Seq(S) /\ Len(g) = Len(f) + 1
  BY <1>1
<1>3. /\ DOMAIN g = 1..(Len(f) + 1)
      /\ \A i \in 1..Len(f) : g[i] = f[i]
      /\ g[Len(f) + 1] = x
  BY <1>1, <1>2
<1>4. g \in [1..Len(g) -> Range(g)]
  <2>1. g \in [1..Len(g) -> S]
    BY <1>2, SeqIsFunction
  <2>2. \A i \in 1..Len(g) : g[i] \in Range(g)
    BY <2>1 DEF Range
  <2> QED
    BY <2>1, <2>2
<1> HIDE DEF S, g
<1>5. g \in Seq(Range(g))
  BY <1>1, <1>2, <1>4
<1> QED
  BY <1>1, <1>2, <1>3, <1>5 DEF g

-----------------------------------------------------------------------------
(* What the surfaces fill into a core leaves its watermark and its life alone. *)

SameCore(d, c) == DOMAIN d = DOMAIN c /\ d.tid = c.tid /\ d.closed = c.closed

CoreFields == {"tid", "recs", "types", "closed", "cache", "indexes", "reverse"}

LEMMA SurfacesKeepCore ==
    ASSUME NEW c, DOMAIN c = CoreFields
    PROVE  /\ \A S : SameCore(load_missing(c, S), c)
           /\ \A t : SameCore(class_indexes(c, t), c)
           /\ SameCore(ensure_reverse(c), c)
<1>1. \A S : SameCore(load_missing(c, S), c)
  BY DEF SameCore, load_missing, CoreFields
<1>2. \A t : SameCore(class_indexes(c, t), c)
  BY DEF SameCore, class_indexes, CoreFields
<1>3. SameCore(ensure_reverse(c), c)
  BY DEF SameCore, ensure_reverse, CoreFields
<1> QED
  BY <1>1, <1>2, <1>3

(* A call on a surface: the core of the snapshot it reads and the readable      *)
(* sets of its request.                                                      *)
SurfaceStep(r) ==
    \/ \E o \in Oids : Deref(r, {o})
    \/ Query(r)
    \/ Incoming(r)

SnapsTouched ==
    /\ DOMAIN snaps' = DOMAIN snaps
    /\ snaps' = [i \in DOMAIN snaps' |-> snaps'[i]]
    /\ \A s \in Snaps :
          /\ DOMAIN snaps'[s] = DOMAIN snaps[s]
          /\ SameCore(snaps'[s].core, snaps[s].core)
          /\ snaps'[s].refs = snaps[s].refs
          /\ snaps'[s].retired = snaps[s].retired

ReqsTouched ==
    /\ DOMAIN req' = Requests
    /\ \A r \in Requests :
          /\ DOMAIN req'[r] = DOMAIN req[r]
          /\ \A f \in {"phase", "p", "pool", "at", "since"} : req'[r][f] = req[r][f]

LEMMA SnapsTouchedBy ==
    ASSUME NEW s \in Snaps, snaps = [i \in DOMAIN snaps |-> snaps[i]],
           DOMAIN snaps[s] = {"core", "base", "refs", "retired"},
           NEW c, SameCore(c, snaps[s].core),
           \/ snaps' = [snaps EXCEPT ![s].core = c]
           \/ \E b : snaps' = [snaps EXCEPT ![s].core = c, ![s].base = b]
    PROVE  SnapsTouched
<1>1. DOMAIN snaps' = DOMAIN snaps /\ snaps' = [i \in DOMAIN snaps' |-> snaps'[i]]
  OBVIOUS
<1>2. \A t \in Snaps : t # s => snaps'[t] = snaps[t]
  BY DEF Snaps
<1>3. \/ snaps'[s] = [snaps[s] EXCEPT !.core = c]
      \/ \E b : snaps'[s] = [[snaps[s] EXCEPT !.core = c] EXCEPT !.base = b]
  BY DEF Snaps
<1>4. /\ DOMAIN snaps'[s] = DOMAIN snaps[s]
      /\ snaps'[s].core = c
      /\ snaps'[s].refs = snaps[s].refs
      /\ snaps'[s].retired = snaps[s].retired
  BY <1>3
<1> QED
  BY <1>1, <1>2, <1>4 DEF SnapsTouched, SameCore

LEMMA SurfaceEffects ==
    ASSUME TypeInv, NEW r \in Requests, SurfaceStep(r)
    PROVE  /\ UNCHANGED <<storeVars, pool, current, locked, arrived>>
           /\ SnapsTouched
           /\ ReqsTouched
<1> DEFINE s == req[r].at
           core == snaps[s].core
<1>1. /\ req[r].phase = "reading"
      /\ s \in Snaps
      /\ DOMAIN core = CoreFields
      /\ DOMAIN snaps[s] = {"core", "base", "refs", "retired"}
      /\ DOMAIN req = Requests /\ DOMAIN req[r] = DOMAIN Idle
  BY DEF SurfaceStep, Deref, Query, Incoming, Serving, TypeInv, SnapOK, ReqOK, CoreFields
<1>2. DOMAIN Idle = {"phase", "p", "pool", "at", "since", "readable"}
  BY DEF Idle
<1>3. snaps = [i \in DOMAIN snaps |-> snaps[i]]
  BY DEF TypeInv
<1>4. CASE \E o \in Oids : Deref(r, {o})
  <2>1. PICK o \in Oids : Deref(r, {o})
    BY <1>4
  <2>2. snaps' = [snaps EXCEPT ![s].core = load_missing(core, {o})]
    BY <2>1 DEF Deref
  <2>3. SameCore(load_missing(core, {o}), core)
    BY <1>1, SurfacesKeepCore
  <2>4. SnapsTouched
    BY <1>1, <1>3, <2>2, <2>3, SnapsTouchedBy DEF SameCore
  <2> QED
    BY <1>1, <2>1, <2>4 DEF Deref, ReqsTouched
<1>5. CASE Query(r)
  <2>1. PICK q \in Asked :
           LET h == Compiled(r, q.type)
               c == Queried(r, q)
           IN  /\ snaps' = [snaps EXCEPT ![s].core = c,
                                         ![s].base = IF req[r].p = NULL THEN h ELSE @]
               /\ req' = [req EXCEPT ![r].readable = IF req[r].p = NULL THEN @ ELSE h]
    BY <1>5 DEF Query
  <2>2. SameCore(Indexed(r, q.type), core)
    BY <1>1, SurfacesKeepCore DEF Indexed
  <2>3. SameCore(Queried(r, q), Indexed(r, q.type))
    BY <1>1, <2>2, SurfacesKeepCore DEF Queried, SameCore
  <2>4. SameCore(Queried(r, q), core)
    BY <2>2, <2>3 DEF SameCore
  <2>5. SnapsTouched
    BY <1>1, <1>3, <2>1, <2>4, SnapsTouchedBy
  <2>6. ReqsTouched
    BY <1>1, <1>2, <2>1 DEF ReqsTouched
  <2> QED
    BY <1>5, <2>5, <2>6 DEF Query
<1>6. CASE Incoming(r)
  <2>1. SameCore(ensure_reverse(core), core)
    BY <1>1, SurfacesKeepCore
  <2>2. SameCore(Reversed(r), ensure_reverse(core))
    BY <1>1, <2>1, SurfacesKeepCore DEF Reversed, SameCore
  <2>3. snaps' = [snaps EXCEPT ![s].core = Reversed(r)]
    BY <1>6 DEF Incoming
  <2>4. SameCore(Reversed(r), core)
    BY <2>1, <2>2 DEF SameCore
  <2>5. SnapsTouched
    BY <1>1, <1>3, <2>3, <2>4, SnapsTouchedBy
  <2> QED
    BY <1>1, <1>6, <2>5 DEF Incoming, ReqsTouched
<1> QED
  BY <1>4, <1>5, <1>6 DEF SurfaceStep

-----------------------------------------------------------------------------
(* Types. *)

LEMMA SnapsUpdated ==
    ASSUME TypeInv, DOMAIN snaps' = DOMAIN snaps,
           snaps' = [i \in DOMAIN snaps' |-> snaps'[i]]
    PROVE  snaps' \in Seq(Range(snaps')) /\ Len(snaps') = Len(snaps)
BY SeqUpdated DEF TypeInv

(* A step of the pool gives one snapshot other counters or another life. *)
LEMMA OneSnapUpdated ==
    ASSUME TypeInv, NEW s \in Snaps, NEW x, SnapOK(x), snaps' = [snaps EXCEPT ![s] = x]
    PROVE  /\ snaps' \in Seq(Range(snaps')) /\ Len(snaps') = Len(snaps)
           /\ DOMAIN snaps' = DOMAIN snaps
           /\ \A t \in DOMAIN snaps : SnapOK(snaps'[t])
<1>1. DOMAIN snaps' = DOMAIN snaps /\ snaps' = [i \in DOMAIN snaps' |-> snaps'[i]]
  OBVIOUS
<1>2. \A t \in DOMAIN snaps : SnapOK(snaps'[t])
  BY DEF TypeInv, Snaps
<1> QED
  BY <1>1, <1>2, SnapsUpdated

(* What the counters and the flags of a snapshot become. *)
Counted(s, n) == [snaps[s] EXCEPT !.refs = n]
Retired(s) == [snaps[s] EXCEPT !.retired = TRUE]
Closed(x) == [x EXCEPT !.core.closed = TRUE]

LEMMA SnapChanges ==
    ASSUME TypeInv, NEW s \in Snaps
    PROVE  /\ \A n \in Int : SnapOK(Counted(s, n)) /\ SnapOK(Closed(Counted(s, n)))
           /\ SnapOK(Retired(s)) /\ SnapOK(Closed(Retired(s)))
           /\ SnapOK(Closed(snaps[s]))
           /\ [snaps EXCEPT ![s].core.closed = TRUE] = [snaps EXCEPT ![s] = Closed(snaps[s])]
           /\ _maybe_close([snaps EXCEPT ![s].retired = TRUE], s) =
                [snaps EXCEPT ![s] = IF snaps[s].refs <= 0 THEN Closed(Retired(s)) ELSE Retired(s)]
           /\ _maybe_close([snaps EXCEPT ![s].refs = @ - 1], s) =
                [snaps EXCEPT ![s] = IF snaps[s].retired /\ snaps[s].refs - 1 <= 0
                                     THEN Closed(Counted(s, snaps[s].refs - 1))
                                     ELSE Counted(s, snaps[s].refs - 1)]
<1>1. SnapOK(snaps[s]) /\ s \in DOMAIN snaps
  BY DEF TypeInv, Snaps
<1>2. \A n \in Int : SnapOK(Counted(s, n))
  BY <1>1 DEF SnapOK, Counted
<1>3. SnapOK(Retired(s))
  BY <1>1 DEF SnapOK, Retired
<1>4. \A x : SnapOK(x) => SnapOK(Closed(x))
  BY DEF SnapOK, Closed
<1>5. [snaps EXCEPT ![s].core.closed = TRUE] = [snaps EXCEPT ![s] = Closed(snaps[s])]
  BY <1>1 DEF Closed
<1>6. \A f, g, x, y : f = [g EXCEPT ![s] = x] => [f EXCEPT ![s] = y] = [g EXCEPT ![s] = y]
  OBVIOUS
<1>7. _maybe_close([snaps EXCEPT ![s].retired = TRUE], s) =
                [snaps EXCEPT ![s] = IF snaps[s].refs <= 0 THEN Closed(Retired(s)) ELSE Retired(s)]
  <2> DEFINE f == [snaps EXCEPT ![s].retired = TRUE]
  <2>1. f = [snaps EXCEPT ![s] = Retired(s)] /\ f[s] = Retired(s)
    BY <1>1 DEF Retired
  <2>2. f[s].retired /\ f[s].refs = snaps[s].refs
    BY <2>1, <1>1 DEF Retired, SnapOK
  <2>3. [f EXCEPT ![s].core.closed = TRUE] = [f EXCEPT ![s] = Closed(Retired(s))]
    BY <2>1 DEF Closed
  <2> HIDE DEF f
  <2>4. _maybe_close(f, s) = IF snaps[s].refs <= 0 THEN [f EXCEPT ![s] = Closed(Retired(s))] ELSE f
    BY <2>2, <2>3 DEF _maybe_close
  <2> QED
    BY <2>1, <2>4, <1>6 DEF f
<1>8. _maybe_close([snaps EXCEPT ![s].refs = @ - 1], s) =
                [snaps EXCEPT ![s] = IF snaps[s].retired /\ snaps[s].refs - 1 <= 0
                                     THEN Closed(Counted(s, snaps[s].refs - 1))
                                     ELSE Counted(s, snaps[s].refs - 1)]
  <2> DEFINE n == snaps[s].refs - 1
             f == [snaps EXCEPT ![s].refs = @ - 1]
  <2>1. f = [snaps EXCEPT ![s] = Counted(s, n)] /\ f[s] = Counted(s, n)
    BY <1>1 DEF Counted
  <2>2. f[s].retired = snaps[s].retired /\ f[s].refs = n
    BY <2>1, <1>1 DEF Counted, SnapOK
  <2>3. [f EXCEPT ![s].core.closed = TRUE] = [f EXCEPT ![s] = Closed(Counted(s, n))]
    BY <2>1 DEF Closed
  <2> HIDE DEF f
  <2>4. _maybe_close(f, s) = IF snaps[s].retired /\ n <= 0
                             THEN [f EXCEPT ![s] = Closed(Counted(s, n))] ELSE f
    BY <2>2, <2>3 DEF _maybe_close
  <2> QED
    BY <2>1, <2>4, <1>6 DEF f
<1> QED
  BY <1>2, <1>3, <1>4, <1>1, <1>5, <1>7, <1>8

LEMMA NewSnap ==
    ASSUME durable \in Nat
    PROVE  LET new == [_PooledSnapshot EXCEPT !.refs = 1] IN
           /\ SnapOK(new)
           /\ new.core.tid = durable /\ new.core.closed = FALSE
           /\ new.refs = 1 /\ new.retired = FALSE
<1> DEFINE core == _SnapshotCore(durable, disk, types)
           new == [_PooledSnapshot EXCEPT !.refs = 1]
<1>1. /\ DOMAIN core = {"tid", "recs", "types", "closed", "cache", "indexes", "reverse"}
      /\ core.tid = durable /\ core.closed = FALSE /\ core.closed \in BOOLEAN
  BY DEF _SnapshotCore
<1> HIDE DEF core
<1>2. _PooledSnapshot = [core |-> core, base |-> <<>>, refs |-> 0, retired |-> FALSE]
  BY DEF _PooledSnapshot, core
<1>3. /\ DOMAIN new = {"core", "base", "refs", "retired"}
      /\ new.core = core /\ new.refs = 1
      /\ new.retired = FALSE /\ new.retired \in BOOLEAN
  BY <1>2
<1> HIDE DEF new
<1>4. SnapOK(new)
  <2>1. DOMAIN new.core = {"tid", "recs", "types", "closed", "cache", "indexes", "reverse"}
    BY <1>1, <1>3
  <2>2. new.core.tid \in Nat /\ new.refs \in Int
    BY <1>1, <1>3
  <2>3. new.core.closed \in BOOLEAN /\ new.retired \in BOOLEAN
    BY <1>1, <1>3
  <2> QED
    BY <1>3, <2>1, <2>2, <2>3 DEF SnapOK
<1>5. new.core.tid = durable /\ new.core.closed = FALSE
  BY <1>1, <1>3
<1> QED
  BY <1>3, <1>4, <1>5 DEF new

LEMMA SeqReplaced ==
    ASSUME NEW S, NEW f \in Seq(S), NEW k, NEW x \in S
    PROVE  /\ [f EXCEPT ![k] = x] \in Seq(S)
           /\ Len([f EXCEPT ![k] = x]) = Len(f)
           /\ DOMAIN [f EXCEPT ![k] = x] = DOMAIN f
<1>1. f \in [1..Len(f) -> S] /\ Len(f) \in Nat
  BY SeqIsFunction
<1>2. [f EXCEPT ![k] = x] \in [1..Len(f) -> S]
  BY <1>1
<1> QED
  BY <1>1, <1>2

LEMMA LockedReplaced ==
    ASSUME TypeInv, NEW k, NEW x \in Requests \cup {NULL}
    PROVE  LET l == [locked EXCEPT ![k] = x] IN
           l \in Seq(Requests \cup {NULL}) /\ Len(l) = Len(locked)
<1>1. locked \in Seq(Requests \cup {NULL})
  BY DEF TypeInv
<1> QED
  BY <1>1, SeqReplaced

LEMMA CurrentReplaced ==
    ASSUME TypeInv, NEW k, NEW n \in Nat, Len(snaps) <= n, NEW x \in 0..n
    PROVE  LET c == [current EXCEPT ![k] = x] IN
           c \in Seq(0..n) /\ Len(c) = Len(current)
<1>1. current \in Seq(0..n)
  BY DEF TypeInv
<1> QED
  BY <1>1, SeqReplaced

LEMMA PoolAppended ==
    ASSUME TypeInv
    PROVE  LET c == Append(current, 0)
               l == Append(locked, NULL)
           IN  /\ c \in Seq(0..Len(snaps)) /\ l \in Seq(Requests \cup {NULL})
               /\ Len(l) = Len(c) /\ Len(c) = Len(current) + 1 /\ Len(current) \in Nat
<1>1. /\ current \in Seq(0..Len(snaps)) /\ 0 \in 0..Len(snaps)
      /\ locked \in Seq(Requests \cup {NULL}) /\ NULL \in Requests \cup {NULL}
      /\ Len(locked) = Len(current)
  BY DEF TypeInv
<1> QED
  BY <1>1

(* The current snapshot of the pool of a request. *)
LEMMA CurrentSnap ==
    ASSUME TypeInv, NEW k \in 1..Len(current)
    PROVE  current[k] \in 0..Len(snaps) /\ (current[k] # 0 => current[k] \in Snaps)
BY DEF TypeInv, Snaps

LEMMA RequestUpdated ==
    ASSUME TypeInv, NEW r \in Requests, NEW q, req' = [req EXCEPT ![r] = q],
           NEW n \in Nat, Len(current) <= n, ReqOK(q, n)
    PROVE  DOMAIN req' = Requests /\ \A x \in Requests : ReqOK(req'[x], n)
<1>1. req' = [req EXCEPT ![r] = q] /\ DOMAIN req = Requests /\ Len(current) \in Nat
  BY DEF TypeInv
<1>2. \A x \in Requests : ReqOK(req[x], n)
  BY <1>1 DEF TypeInv, ReqOK
<1> QED
  BY <1>1, <1>2

LEMMA IdleOK ==
    ASSUME NEW n \in Nat
    PROVE  ReqOK(Idle, n)
BY DEF ReqOK, Idle, Phases

LEMMA IdleFields == Idle.phase = "idle" /\ Idle.since = 0
BY DEF Idle

LEMMA TypeInit ==
    ASSUME Init
    PROVE  TypeInv
<1>1. Snaps = {} /\ snaps \in Seq(Range(snaps)) /\ Len(snaps) = 0
  BY DEF Init, Snaps, Range
<1>2. /\ current \in Seq({0}) /\ locked \in Seq({NULL}) /\ Len(locked) = Len(current)
      /\ pool = Len(current)
  <2>1. CASE wired
    <3>1. pool = 1 /\ current = <<0>> /\ locked = <<NULL>>
      BY <2>1 DEF Init
    <3> QED
      BY <3>1
  <2>2. CASE ~wired
    <3>1. pool = 0 /\ current = <<>> /\ locked = <<>>
      BY <2>2 DEF Init
    <3> QED
      BY <3>1
  <2> QED
    BY <2>1, <2>2
<1>3. \A r \in Requests : ReqOK(req[r], Len(current)) /\ req[r].phase # "reading"
  BY <1>2, IdleOK DEF Init, Idle
<1>4. current \in Seq(0..Len(snaps)) /\ locked \in Seq(Requests \cup {NULL})
  BY <1>1, <1>2
<1> QED
  BY <1>1, <1>2, <1>3, <1>4 DEF Init, TypeInv

LEMMA TypeStep ==
    ASSUME TypeInv, [Next]_vars
    PROVE  TypeInv'
<1> USE DEF TypeInv, Snaps
<1>1. ASSUME NEW r \in Requests, SurfaceStep(r)
      PROVE  TypeInv'
  <2>1. /\ UNCHANGED <<storeVars, pool, current, locked>>
        /\ SnapsTouched /\ ReqsTouched
    BY <1>1, SurfaceEffects
  <2>2. snaps' \in Seq(Range(snaps')) /\ Len(snaps') = Len(snaps)
    BY <2>1, SnapsUpdated DEF SnapsTouched
  <2>3. \A s \in DOMAIN snaps' : SnapOK(snaps'[s])
    BY <2>1 DEF SnapsTouched, SameCore, SnapOK
  <2>4. \A x \in Requests : ReqOK(req'[x], Len(current))
    BY <2>1 DEF ReqsTouched, ReqOK
  <2>5. \A x \in Requests : req'[x].phase = "reading" => req'[x].at \in DOMAIN snaps'
    BY <2>1 DEF ReqsTouched, SnapsTouched
  <2> QED
    BY <2>1, <2>2, <2>3, <2>4, <2>5 DEF storeVars, ReqsTouched
<1>2. CASE Land \/ Finalize \/ StoreClose
  BY <1>2 DEF Land, Finalize, StoreClose, storeVars, poolVars
<1>3. CASE PoolClose
  <2>1. /\ UNCHANGED <<wired, disk, types, durable, last_tid, locked, req>>
        /\ store' = "closing"
    BY <1>3 DEF PoolClose
  <2>2. /\ current' \in Seq(0..Len(snaps)) /\ Len(current') = Len(current)
        /\ pool' \in 0..Len(current)
    <3> DEFINE c == [current EXCEPT ![pool] = 0]
    <3> HIDE DEF TypeInv
    <3>1. Len(snaps) \in Nat /\ pool \in 0..Len(current)
      BY DEF TypeInv
    <3>2. c \in Seq(0..Len(snaps)) /\ Len(c) = Len(current)
      <4>1. Len(snaps) <= Len(snaps) /\ 0 \in 0..Len(snaps)
        BY <3>1
      <4> QED
        BY <3>1, <4>1, CurrentReplaced
    <3>3. current \in Seq(0..Len(snaps)) /\ Len(current) \in Nat
      BY DEF TypeInv
    <3> HIDE DEF c
    <3>4. \/ current' = c /\ pool' = 0
          \/ current' = current /\ pool' = pool
      BY <1>3 DEF PoolClose, c
    <3> QED
      BY <3>1, <3>2, <3>3, <3>4
  <2>3. CASE wired /\ current[pool] # 0
    <3>1. current[pool] \in Snaps
      <4>1. pool \in 1..Len(current)
        BY <1>3, <2>3 DEF PoolClose
      <4> QED
        BY <2>3, <4>1, CurrentSnap
    <3>2. snaps' = [snaps EXCEPT ![current[pool]] = Closed(snaps[current[pool]])]
      BY <1>3, <2>3, <3>1, SnapChanges DEF PoolClose
    <3>3. /\ snaps' \in Seq(Range(snaps')) /\ Len(snaps') = Len(snaps)
          /\ DOMAIN snaps' = DOMAIN snaps
          /\ \A t \in DOMAIN snaps : SnapOK(snaps'[t])
      BY <3>1, <3>2, SnapChanges, OneSnapUpdated
    <3> QED
      BY <2>1, <2>2, <3>3
  <2>4. CASE ~(wired /\ current[pool] # 0)
    BY <2>1, <2>2, <2>4, <1>3 DEF PoolClose
  <2> QED
    BY <2>3, <2>4
<1>4. ASSUME NEW r \in Requests, Arrive(r) \/ _get_pool(r)
      PROVE  TypeInv'
  <2>1. UNCHANGED <<storeVars, poolVars>>
    BY <1>4 DEF Arrive, _get_pool
  <2>2. PICK q : /\ req' = [req EXCEPT ![r] = q]
                 /\ ReqOK(q, Len(current)) /\ (q.phase = "reading" => q = req[r])
    <3>1. CASE Arrive(r)
      <4>1. PICK p \in Principals :
               req' = [req EXCEPT ![r] = [Idle EXCEPT !.phase = "start", !.p = p,
                                                     !.since = last_tid]]
        BY <3>1 DEF Arrive
      <4>2. LET q == [Idle EXCEPT !.phase = "start", !.p = p, !.since = last_tid] IN
            ReqOK(q, Len(current)) /\ q.phase # "reading"
        BY DEF ReqOK, Idle, Phases
      <4> QED
        BY <4>1, <4>2
    <3>2. CASE _get_pool(r)
      <4>1. LET q == [req[r] EXCEPT !.phase = IF pool = 0 THEN "create" ELSE "acquire",
                                    !.pool = pool] IN
            ReqOK(q, Len(current)) /\ q.phase # "reading"
        BY DEF ReqOK, Idle, Phases
      <4> QED
        BY <3>2, <4>1 DEF _get_pool
    <3> QED
      BY <1>4, <3>1, <3>2
  <2> QED
    BY <2>1, <2>2, RequestUpdated DEF storeVars, poolVars
<1>5. ASSUME NEW r \in Requests, CreatePool(r)
      PROVE  TypeInv'
  <2>1. UNCHANGED <<storeVars, snaps>>
    BY <1>5 DEF CreatePool
  <2>2. /\ current' \in Seq(0..Len(snaps)) /\ locked' \in Seq(Requests \cup {NULL})
        /\ Len(locked') = Len(current') /\ Len(current') \in Nat
        /\ Len(current) <= Len(current')
        /\ pool' \in 1..Len(current') /\ (pool # 0 => pool' = pool)
    <3>1. CASE pool = 0
      <4>1. /\ current' = Append(current, 0) /\ locked' = Append(locked, NULL)
            /\ pool' = Len(current) + 1
        BY <1>5, <3>1 DEF CreatePool
      <4> HIDE DEF TypeInv
      <4>2. /\ current' \in Seq(0..Len(snaps)) /\ locked' \in Seq(Requests \cup {NULL})
            /\ Len(locked') = Len(current') /\ Len(current') = Len(current) + 1
            /\ Len(current) \in Nat
        BY <4>1, PoolAppended
      <4> QED
        BY <3>1, <4>1, <4>2
    <3>2. CASE pool # 0
      BY <1>5, <3>2 DEF CreatePool
    <3> QED
      BY <3>1, <3>2
  <2>3. ReqOK([req[r] EXCEPT !.phase = "acquire", !.pool = pool'], Len(current'))
    BY <2>2 DEF ReqOK, Idle, Phases
  <2>4. req' = [req EXCEPT ![r] = [req[r] EXCEPT !.phase = "acquire", !.pool = pool']]
    BY <1>5 DEF CreatePool
  <2>5. DOMAIN req' = Requests /\ \A x \in Requests : ReqOK(req'[x], Len(current'))
    BY <2>2, <2>3, <2>4, RequestUpdated
  <2>6. \A x \in Requests : req'[x].phase = "reading" => req[x].phase = "reading" /\ req'[x] = req[x]
    BY <2>4 DEF ReqOK, Idle
  <2> QED
    BY <2>1, <2>2, <2>5, <2>6 DEF storeVars
<1>6. ASSUME NEW r \in Requests, AcquireShared(r)
      PROVE  TypeInv'
  <2> DEFINE s == current[req[r].pool]
  <2>1. /\ UNCHANGED <<storeVars, pool, current, locked>>
        /\ s \in DOMAIN snaps
        /\ snaps' = [snaps EXCEPT ![s] = Counted(s, snaps[s].refs + 1)]
        /\ snaps[s].refs + 1 \in Int
        /\ req' = [req EXCEPT ![r] = [req[r] EXCEPT !.phase = "reading", !.at = s]]
        /\ req[r].phase = "acquire"
    <3>1. req[r].pool \in 1..Len(current)
      BY <1>6 DEF AcquireShared, ReqOK
    <3>2. s \in DOMAIN snaps
      BY <1>6, <3>1, CurrentSnap DEF AcquireShared
    <3>3. snaps[s].refs + 1 \in Int
      BY <3>2 DEF SnapOK
    <3> QED
      BY <1>6, <3>2, <3>3 DEF AcquireShared, Counted
  <2>2. /\ snaps' \in Seq(Range(snaps')) /\ Len(snaps') = Len(snaps)
        /\ DOMAIN snaps' = DOMAIN snaps
        /\ \A t \in DOMAIN snaps : SnapOK(snaps'[t])
    BY <2>1, SnapChanges, OneSnapUpdated
  <2>4. ReqOK([req[r] EXCEPT !.phase = "reading", !.at = s], Len(current))
    BY <2>1 DEF ReqOK, Idle, Phases
  <2>5. DOMAIN req' = Requests /\ \A x \in Requests : ReqOK(req'[x], Len(current))
    BY <2>1, <2>4, RequestUpdated
  <2>6. \A x \in Requests : req'[x].phase = "reading" => req'[x].at \in DOMAIN snaps
    BY <2>1 DEF ReqOK, Idle
  <2> QED
    BY <2>1, <2>2, <2>5, <2>6 DEF storeVars
<1>7. ASSUME NEW r \in Requests, AcquireStale(r)
      PROVE  TypeInv'
  <2> DEFINE s == current[req[r].pool]
  <2>1. /\ UNCHANGED <<storeVars, pool, current>>
        /\ s = 0 => snaps' = snaps
        /\ s # 0 => s \in DOMAIN snaps
                    /\ snaps' = _maybe_close([snaps EXCEPT ![s].retired = TRUE], s)
        /\ locked' = [locked EXCEPT ![req[r].pool] = r]
        /\ req' = [req EXCEPT ![r] = [req[r] EXCEPT !.phase = "pin"]]
        /\ req[r].phase = "acquire"
    BY <1>7 DEF AcquireStale, ReqOK
  <2>2. /\ snaps' \in Seq(Range(snaps')) /\ Len(snaps') = Len(snaps)
        /\ DOMAIN snaps' = DOMAIN snaps
        /\ \A t \in DOMAIN snaps : SnapOK(snaps'[t])
    <3>1. CASE s = 0
      BY <2>1, <3>1
    <3>2. CASE s # 0
      BY <2>1, <3>2, SnapChanges, OneSnapUpdated
    <3> QED
      BY <3>1, <3>2
  <2>4. ReqOK([req[r] EXCEPT !.phase = "pin"], Len(current))
    BY <2>1 DEF ReqOK, Idle, Phases
  <2>5. DOMAIN req' = Requests /\ \A x \in Requests : ReqOK(req'[x], Len(current))
    BY <2>1, <2>4, RequestUpdated
  <2>6. \A x \in Requests : req'[x].phase = "reading" => req'[x].at \in DOMAIN snaps
    BY <2>1 DEF ReqOK, Idle
  <2>7. locked' \in Seq(Requests \cup {NULL}) /\ Len(locked') = Len(locked)
    BY <2>1, LockedReplaced
  <2> QED
    BY <2>1, <2>2, <2>5, <2>6, <2>7 DEF storeVars
<1>8. ASSUME NEW r \in Requests, AcquirePinned(r)
      PROVE  TypeInv'
  <2> DEFINE n == Len(snaps) + 1
             new == [_PooledSnapshot EXCEPT !.refs = 1]
  <2>1. /\ UNCHANGED <<storeVars, pool>>
        /\ snaps' = Append(snaps, new)
        /\ current' = [current EXCEPT ![req[r].pool] = n]
        /\ locked' = [locked EXCEPT ![req[r].pool] = NULL]
        /\ req' = [req EXCEPT ![r] = [req[r] EXCEPT !.phase = "reading", !.at = n]]
        /\ req[r].phase = "pin"
    BY <1>8 DEF AcquirePinned
  <2>2. /\ snaps' \in Seq(Range(snaps')) /\ Len(snaps') = n /\ n \in Nat
        /\ DOMAIN snaps = 1..Len(snaps)
        /\ DOMAIN snaps' = DOMAIN snaps \cup {n}
        /\ \A i \in DOMAIN snaps : snaps'[i] = snaps[i]
        /\ snaps'[n] = new
    <3> HIDE DEF new
    <3> QED
      BY <2>1, SeqAppended
  <2>3. SnapOK(new)
    BY NewSnap
  <2>4. current' \in Seq(0..n) /\ Len(current') = Len(current)
    <3>1. current \in Seq(0..n)
      BY <2>2
    <3> QED
      BY <2>1, <2>2, <3>1, SeqReplaced
  <2>5. ReqOK([req[r] EXCEPT !.phase = "reading", !.at = n], Len(current))
    BY <2>1 DEF ReqOK, Idle, Phases
  <2>6. DOMAIN req' = Requests /\ \A x \in Requests : ReqOK(req'[x], Len(current))
    BY <2>1, <2>5, RequestUpdated
  <2>7. \A x \in Requests : req'[x].phase = "reading" => req'[x].at \in DOMAIN snaps'
    BY <2>1, <2>2 DEF ReqOK, Idle
  <2>8. locked' \in Seq(Requests \cup {NULL}) /\ Len(locked') = Len(locked)
    BY <2>1, LockedReplaced
  <2> QED
    BY <2>1, <2>2, <2>3, <2>4, <2>6, <2>7, <2>8 DEF storeVars
<1>9. ASSUME NEW r \in Requests, AcquireFails(r)
      PROVE  TypeInv'
  <2>1. /\ UNCHANGED <<storeVars, snaps, pool, current>>
        /\ locked' = [locked EXCEPT ![req[r].pool] = NULL]
        /\ req' = [req EXCEPT ![r] = Idle]
    BY <1>9 DEF AcquireFails
  <2>2. DOMAIN req' = Requests /\ \A x \in Requests : ReqOK(req'[x], Len(current))
    BY <2>1, IdleOK, RequestUpdated
  <2>3. \A x \in Requests : req'[x].phase = "reading" => req'[x].at \in DOMAIN snaps
    BY <2>1 DEF Idle
  <2>4. locked' \in Seq(Requests \cup {NULL}) /\ Len(locked') = Len(locked)
    BY <2>1, LockedReplaced
  <2> QED
    BY <2>1, <2>2, <2>3, <2>4 DEF storeVars
<1>10. ASSUME NEW r \in Requests, release(r)
       PROVE  TypeInv'
  <2> DEFINE s == req[r].at
  <2>1. /\ UNCHANGED <<storeVars, pool, current, locked>>
        /\ s \in DOMAIN snaps
        /\ snaps' = _maybe_close([snaps EXCEPT ![s].refs = @ - 1], s)
        /\ snaps[s].refs - 1 \in Int
        /\ req' = [req EXCEPT ![r] = Idle]
    BY <1>10 DEF release, SnapOK
  <2>2. /\ snaps' \in Seq(Range(snaps')) /\ Len(snaps') = Len(snaps)
        /\ DOMAIN snaps' = DOMAIN snaps
        /\ \A t \in DOMAIN snaps : SnapOK(snaps'[t])
    BY <2>1, SnapChanges, OneSnapUpdated, ZenonT(60)
  <2>4. DOMAIN req' = Requests /\ \A x \in Requests : ReqOK(req'[x], Len(current))
    BY <2>1, IdleOK, RequestUpdated
  <2>5. \A x \in Requests : req'[x].phase = "reading" => req'[x].at \in DOMAIN snaps
    BY <2>1 DEF Idle
  <2> QED
    BY <2>1, <2>2, <2>4, <2>5 DEF storeVars
<1>11. CASE UNCHANGED vars
  BY <1>11 DEF vars, storeVars, poolVars
<1> QED
  BY <1>1, <1>2, <1>3, <1>4, <1>5, <1>6, <1>7, <1>8, <1>9, <1>10, <1>11
  DEF Next, Serve, SurfaceStep

(* Type correctness of the read path: no order of requests, commits and        *)
(* shutdown takes the pool's bookkeeping out of its type; a request that reads *)
(* reads a snapshot that exists, and the pool it waits for exists.            *)
THEOREM PoolTypes == Spec => []TypeInv
<1>1. Init => TypeInv
  BY TypeInit
<1>2. TypeInv /\ [Next]_vars => TypeInv'
  BY TypeStep
<1> QED
  BY <1>1, <1>2, PTL DEF Spec

-----------------------------------------------------------------------------
(* What each step does to the snapshot and the request it is about. *)

OnlySnap(s) ==
    /\ s \in Snaps /\ DOMAIN snaps' = DOMAIN snaps
    /\ \A t \in Snaps : t # s => snaps'[t] = snaps[t]
    /\ snaps'[s].core.tid = snaps[s].core.tid

OnlyReq(r) == DOMAIN req' = Requests /\ \A x \in Requests : x # r => req'[x] = req[x]

LEMMA SnapFields ==
    ASSUME NEW x, SnapOK(x)
    PROVE  /\ \A n : LET y == [x EXCEPT !.refs = n] IN
                     y.refs = n /\ y.retired = x.retired /\ y.core = x.core
           /\ LET y == [x EXCEPT !.retired = TRUE] IN
              y.refs = x.refs /\ y.retired = TRUE /\ y.core = x.core
           /\ LET y == Closed(x) IN
              /\ y.refs = x.refs /\ y.retired = x.retired
              /\ y.core.tid = x.core.tid /\ y.core.closed = TRUE
BY DEF SnapOK, Closed

LEMMA SharedEffects ==
    ASSUME TypeInv, NEW r \in Requests, AcquireShared(r)
    PROVE  LET s == current[req[r].pool] IN
           /\ UNCHANGED <<storeVars, pool, current, locked>>
           /\ req[r].phase = "acquire" /\ locked[req[r].pool] = NULL
           /\ OnlySnap(s) /\ snaps[s].core.tid = last_tid
           /\ snaps'[s].refs = snaps[s].refs + 1
           /\ snaps'[s].retired = snaps[s].retired
           /\ snaps'[s].core.closed = snaps[s].core.closed
           /\ OnlyReq(r)
           /\ req'[r].phase = "reading" /\ req'[r].at = s
           /\ req'[r].since = req[r].since /\ req'[r].pool = req[r].pool
<1> DEFINE s == current[req[r].pool]
<1>1. req[r].pool \in 1..Len(current) /\ s # 0
  BY DEF AcquireShared, TypeInv, ReqOK
<1>2. s \in Snaps /\ SnapOK(snaps[s])
  BY <1>1, CurrentSnap DEF TypeInv
<1>3. snaps' = [snaps EXCEPT ![s] = [snaps[s] EXCEPT !.refs = snaps[s].refs + 1]]
  BY DEF AcquireShared
<1>4. /\ OnlySnap(s)
      /\ snaps'[s].refs = snaps[s].refs + 1
      /\ snaps'[s].retired = snaps[s].retired
      /\ snaps'[s].core = snaps[s].core
  BY <1>2, <1>3, SnapFields DEF OnlySnap, Snaps
<1>5. /\ DOMAIN req = Requests /\ DOMAIN req[r] = DOMAIN Idle
      /\ req' = [req EXCEPT ![r] = [req[r] EXCEPT !.phase = "reading", !.at = s]]
  BY DEF AcquireShared, TypeInv, ReqOK
<1>6. /\ OnlyReq(r)
      /\ req'[r].phase = "reading" /\ req'[r].at = s
      /\ req'[r].since = req[r].since /\ req'[r].pool = req[r].pool
  BY <1>5 DEF OnlyReq, Idle
<1> QED
  BY <1>4, <1>6 DEF AcquireShared

LEMMA StaleEffects ==
    ASSUME TypeInv, NEW r \in Requests, AcquireStale(r)
    PROVE  LET s == current[req[r].pool] IN
           /\ UNCHANGED <<storeVars, pool, current>>
           /\ req[r].phase = "acquire" /\ locked[req[r].pool] = NULL
           /\ s = 0 => snaps' = snaps
           /\ s # 0 =>
                 /\ OnlySnap(s)
                 /\ snaps'[s].refs = snaps[s].refs
                 /\ snaps'[s].retired = TRUE
                 /\ snaps[s].refs <= 0 => snaps'[s].core.closed = TRUE
                 /\ snaps[s].refs > 0 => snaps'[s].core.closed = snaps[s].core.closed
           /\ locked' = [locked EXCEPT ![req[r].pool] = r]
           /\ OnlyReq(r)
           /\ req'[r].phase = "pin"
           /\ req'[r].since = req[r].since /\ req'[r].pool = req[r].pool
<1> DEFINE s == current[req[r].pool]
<1>1. req[r].pool \in 1..Len(current)
  BY DEF AcquireStale, TypeInv, ReqOK
<1>2. ASSUME s # 0
      PROVE  /\ OnlySnap(s)
             /\ snaps'[s].refs = snaps[s].refs
             /\ snaps'[s].retired = TRUE
             /\ snaps[s].refs <= 0 => snaps'[s].core.closed = TRUE
             /\ snaps[s].refs > 0 => snaps'[s].core.closed = snaps[s].core.closed
  <2>1. s \in Snaps /\ SnapOK(snaps[s])
    BY <1>1, <1>2, CurrentSnap DEF TypeInv
  <2>2. snaps' = [snaps EXCEPT ![s] = IF snaps[s].refs <= 0 THEN Closed(Retired(s))
                                      ELSE Retired(s)]
    BY <1>2, <2>1, SnapChanges DEF AcquireStale
  <2>3. SnapOK(Retired(s))
    BY <2>1, SnapChanges
  <2>4. /\ Retired(s).refs = snaps[s].refs /\ Retired(s).retired = TRUE
        /\ Retired(s).core = snaps[s].core
    BY <2>1, SnapFields DEF Retired
  <2>5. LET y == Closed(Retired(s)) IN
        /\ y.refs = snaps[s].refs /\ y.retired = TRUE
        /\ y.core.tid = snaps[s].core.tid /\ y.core.closed = TRUE
    BY <2>3, <2>4, SnapFields
  <2>6. /\ DOMAIN snaps' = DOMAIN snaps /\ \A t \in Snaps : t # s => snaps'[t] = snaps[t]
        /\ snaps'[s] = IF snaps[s].refs <= 0 THEN Closed(Retired(s)) ELSE Retired(s)
    BY <2>1, <2>2 DEF Snaps
  <2>7. CASE snaps[s].refs <= 0
    <3>1. snaps'[s] = Closed(Retired(s)) /\ ~(snaps[s].refs > 0)
      BY <2>1, <2>6, <2>7 DEF SnapOK
    <3>2. /\ snaps'[s].refs = snaps[s].refs /\ snaps'[s].retired = TRUE
          /\ snaps'[s].core.tid = snaps[s].core.tid /\ snaps'[s].core.closed = TRUE
      BY <2>5, <3>1
    <3>3. OnlySnap(s)
      BY <2>1, <2>6, <3>2 DEF OnlySnap
    <3> HIDE DEF s
    <3> QED
      BY <2>7, <3>1, <3>2, <3>3
  <2>8. CASE ~(snaps[s].refs <= 0)
    BY <2>1, <2>4, <2>6, <2>8 DEF OnlySnap, SnapOK
  <2> QED
    BY <2>7, <2>8
<1>3. /\ DOMAIN req = Requests /\ DOMAIN req[r] = DOMAIN Idle
      /\ req' = [req EXCEPT ![r] = [req[r] EXCEPT !.phase = "pin"]]
  BY DEF AcquireStale, TypeInv, ReqOK
<1>4. /\ OnlyReq(r)
      /\ req'[r].phase = "pin"
      /\ req'[r].since = req[r].since /\ req'[r].pool = req[r].pool
  BY <1>3 DEF OnlyReq, Idle
<1> QED
  BY <1>2, <1>4 DEF AcquireStale

LEMMA PinnedEffects ==
    ASSUME TypeInv, NEW r \in Requests, AcquirePinned(r)
    PROVE  LET n == Len(snaps) + 1 IN
           /\ UNCHANGED <<storeVars, pool>>
           /\ req[r].phase = "pin"
           /\ n \notin Snaps /\ n \in Nat /\ n # 0
           /\ DOMAIN snaps' = Snaps \cup {n}
           /\ \A s \in Snaps : snaps'[s] = snaps[s]
           /\ snaps'[n].core.tid = durable /\ snaps'[n].core.closed = FALSE
           /\ snaps'[n].refs = 1 /\ snaps'[n].retired = FALSE
           /\ current' = [current EXCEPT ![req[r].pool] = n]
           /\ locked' = [locked EXCEPT ![req[r].pool] = NULL]
           /\ OnlyReq(r)
           /\ req'[r].phase = "reading" /\ req'[r].at = n
           /\ req'[r].since = req[r].since /\ req'[r].pool = req[r].pool
<1> DEFINE n == Len(snaps) + 1
           new == [_PooledSnapshot EXCEPT !.refs = 1]
<1>1. /\ SnapOK(new)
      /\ new.core.tid = durable /\ new.core.closed = FALSE
      /\ new.refs = 1 /\ new.retired = FALSE
  BY NewSnap DEF TypeInv
<1>2. snaps' = Append(snaps, new) /\ snaps \in Seq(Range(snaps))
  BY DEF AcquirePinned, TypeInv
<1> HIDE DEF new
<1>3. /\ DOMAIN snaps = 1..Len(snaps) /\ Len(snaps) \in Nat
      /\ DOMAIN snaps' = DOMAIN snaps \cup {n}
      /\ \A i \in DOMAIN snaps : snaps'[i] = snaps[i]
      /\ snaps'[n] = new
  BY <1>2, SeqAppended
<1>4. /\ DOMAIN req = Requests /\ DOMAIN req[r] = DOMAIN Idle
      /\ req' = [req EXCEPT ![r] = [req[r] EXCEPT !.phase = "reading", !.at = n]]
  BY DEF AcquirePinned, TypeInv, ReqOK
<1>5. /\ OnlyReq(r)
      /\ req'[r].phase = "reading" /\ req'[r].at = n
      /\ req'[r].since = req[r].since /\ req'[r].pool = req[r].pool
  BY <1>4 DEF OnlyReq, Idle
<1>6. /\ UNCHANGED <<storeVars, pool>>
      /\ req[r].phase = "pin"
      /\ current' = [current EXCEPT ![req[r].pool] = n]
      /\ locked' = [locked EXCEPT ![req[r].pool] = NULL]
  BY DEF AcquirePinned
<1>7. n \notin Snaps /\ n \in Nat /\ n # 0 /\ DOMAIN snaps' = Snaps \cup {n}
  BY <1>3 DEF Snaps
<1>8. \A s \in Snaps : snaps'[s] = snaps[s]
  BY <1>3 DEF Snaps
<1> QED
  BY <1>1, <1>3, <1>5, <1>6, <1>7, <1>8

LEMMA ReleaseEffects ==
    ASSUME TypeInv, NEW r \in Requests, release(r)
    PROVE  LET s == req[r].at
               n == snaps[s].refs - 1
           IN  /\ UNCHANGED <<storeVars, pool, current, locked>>
               /\ req[r].phase = "reading"
               /\ OnlySnap(s)
               /\ snaps'[s].refs = n
               /\ snaps'[s].retired = snaps[s].retired
               /\ snaps[s].retired /\ n <= 0 => snaps'[s].core.closed = TRUE
               /\ ~(snaps[s].retired /\ n <= 0) => snaps'[s].core.closed = snaps[s].core.closed
               /\ OnlyReq(r) /\ req'[r] = Idle
<1> DEFINE s == req[r].at
           n == snaps[s].refs - 1
<1>1. s \in Snaps /\ SnapOK(snaps[s]) /\ n \in Int
  BY SMTT(30) DEF release, TypeInv, SnapOK
<1>2. snaps' = [snaps EXCEPT ![s] = IF snaps[s].retired /\ n <= 0 THEN Closed(Counted(s, n))
                                    ELSE Counted(s, n)]
  BY <1>1, SnapChanges DEF release
<1>3. SnapOK(Counted(s, n))
  BY <1>1, SnapChanges
<1> HIDE DEF n
<1>4. /\ Counted(s, n).refs = n /\ Counted(s, n).retired = snaps[s].retired
      /\ Counted(s, n).core = snaps[s].core
  BY <1>1, SnapFields DEF Counted
<1>5. LET y == Closed(Counted(s, n)) IN
      /\ y.refs = n /\ y.retired = snaps[s].retired
      /\ y.core.tid = snaps[s].core.tid /\ y.core.closed = TRUE
  <2> DEFINE c == Counted(s, n)
  <2> HIDE DEF c
  <2>1. SnapOK(c) /\ c.refs = n /\ c.retired = snaps[s].retired /\ c.core = snaps[s].core
    BY <1>3, <1>4 DEF c
  <2>2. LET y == Closed(c) IN
        y.refs = c.refs /\ y.retired = c.retired /\ y.core.tid = c.core.tid /\ y.core.closed = TRUE
    BY <2>1, SnapFields
  <2> QED
    BY <2>1, <2>2 DEF c
<1>6. OnlyReq(r) /\ req'[r] = Idle
  BY DEF release, TypeInv, OnlyReq
<1>7. /\ OnlySnap(s)
      /\ snaps'[s].refs = n
      /\ snaps'[s].retired = snaps[s].retired
      /\ snaps[s].retired /\ n <= 0 => snaps'[s].core.closed = TRUE
      /\ ~(snaps[s].retired /\ n <= 0) => snaps'[s].core.closed = snaps[s].core.closed
  BY <1>1, <1>2, <1>4, <1>5 DEF OnlySnap, Snaps
<1> QED
  BY <1>6, <1>7 DEF release, n

LEMMA FailsEffects ==
    ASSUME TypeInv, NEW r \in Requests, AcquireFails(r)
    PROVE  /\ UNCHANGED <<storeVars, snaps, pool, current>>
           /\ req[r].phase = "pin"
           /\ {"nofile", store} \cap (Env \cup {"closed"}) # {}
           /\ locked' = [locked EXCEPT ![req[r].pool] = NULL]
           /\ OnlyReq(r) /\ req'[r] = Idle
BY DEF AcquireFails, TypeInv, OnlyReq

(* A request before it reads: it comes in, finds a pool, or creates one. *)
LEMMA WaitingEffects ==
    ASSUME TypeInv, NEW r \in Requests, Arrive(r) \/ _get_pool(r) \/ CreatePool(r)
    PROVE  /\ UNCHANGED <<storeVars, snaps>>
           /\ \/ Arrive(r) \/ _get_pool(r)
              \/ /\ CreatePool(r) /\ req[r].phase = "create"
                 /\ req'[r].phase = "acquire" /\ req'[r].pool = pool'
           /\ CreatePool(r) \/ UNCHANGED <<pool, current, locked>>
           /\ OnlyReq(r)
           /\ req[r].phase \in {"idle", "start", "create"}
           /\ req'[r].phase \in {"start", "create", "acquire"}
           /\ req'[r].phase = "acquire" => req'[r].pool = pool'
           /\ req'[r].since \in {last_tid, req[r].since}
<1>1. DOMAIN req = Requests /\ DOMAIN req[r] = DOMAIN Idle
  BY DEF TypeInv, ReqOK
<1>2. CASE Arrive(r)
  <2>1. PICK p \in Principals :
           req' = [req EXCEPT ![r] = [Idle EXCEPT !.phase = "start", !.p = p,
                                                 !.since = last_tid]]
    BY <1>2 DEF Arrive
  <2>2. OnlyReq(r) /\ req'[r].phase = "start" /\ req'[r].since = last_tid
    BY <1>1, <2>1 DEF OnlyReq, Idle
  <2> QED
    BY <1>2, <2>2 DEF Arrive, poolVars
<1>3. CASE _get_pool(r)
  <2>1. req' = [req EXCEPT ![r] = [req[r] EXCEPT !.phase = IF pool = 0 THEN "create"
                                                          ELSE "acquire",
                                                 !.pool = pool]]
    BY <1>3 DEF _get_pool
  <2>2. /\ OnlyReq(r) /\ req'[r].phase \in {"create", "acquire"}
        /\ req'[r].pool = pool /\ req'[r].since = req[r].since
    BY <1>1, <2>1 DEF OnlyReq, Idle
  <2> QED
    BY <1>3, <2>2 DEF _get_pool, poolVars
<1>4. CASE CreatePool(r)
  <2>1. req' = [req EXCEPT ![r] = [req[r] EXCEPT !.phase = "acquire", !.pool = pool']]
    BY <1>4 DEF CreatePool
  <2>2. /\ OnlyReq(r) /\ req'[r].phase = "acquire"
        /\ req'[r].pool = pool' /\ req'[r].since = req[r].since
    BY <1>1, <2>1 DEF OnlyReq, Idle
  <2> QED
    BY <1>4, <2>2 DEF CreatePool
<1> QED
  BY <1>2, <1>3, <1>4

LEMMA CloseEffects ==
    ASSUME TypeInv, PoolClose
    PROVE  /\ store' = "closing" /\ UNCHANGED <<last_tid, durable, req>>
           /\ DOMAIN snaps' = DOMAIN snaps
           /\ \A s \in Snaps : snaps'[s].core.tid = snaps[s].core.tid
<1>1. CASE wired /\ current[pool] # 0
  <2> DEFINE s == current[pool]
  <2>1. pool \in 1..Len(current)
    BY <1>1 DEF PoolClose, TypeInv
  <2>2. s \in Snaps /\ SnapOK(snaps[s])
    BY <1>1, <2>1, CurrentSnap DEF TypeInv
  <2>3. snaps' = [snaps EXCEPT ![s] = Closed(snaps[s])]
    BY <1>1, <2>2, SnapChanges DEF PoolClose
  <2>4. Closed(snaps[s]).core.tid = snaps[s].core.tid
    BY <2>2, SnapFields
  <2> QED
    BY <2>2, <2>3, <2>4 DEF PoolClose, Snaps
<1>2. CASE ~(wired /\ current[pool] # 0)
  BY <1>2 DEF PoolClose
<1> QED
  BY <1>1, <1>2

-----------------------------------------------------------------------------
(* Read your writes. *)

LEMMA ReadsStep ==
    ASSUME TypeInv, TypeInv', ReadsInv, [Next]_vars
    PROVE  ReadsInv'
<1> USE DEF ReadsInv, ReadsAcknowledged
<1>0. /\ last_tid \in Nat /\ durable \in Nat /\ last_tid <= durable
      /\ \A r \in Requests : req[r].phase = "reading" => req[r].at \in Snaps
      /\ \A r \in Requests : req[r].since \in Nat
      /\ \A s \in Snaps : snaps[s].core.tid \in Nat
  BY DEF TypeInv, ReqOK, SnapOK
<1>1. ASSUME NEW r \in Requests, SurfaceStep(r)
      PROVE  ReadsInv'
  <2>1. UNCHANGED storeVars /\ SnapsTouched /\ ReqsTouched
    BY <1>1, SurfaceEffects
  <2>2. /\ last_tid' = last_tid
        /\ \A s \in Snaps : snaps'[s].core.tid = snaps[s].core.tid
        /\ \A x \in Requests : /\ req'[x].phase = req[x].phase
                               /\ req'[x].at = req[x].at /\ req'[x].since = req[x].since
    BY <2>1 DEF SnapsTouched, ReqsTouched, SameCore, storeVars
  <2> QED
    BY <1>0, <2>2
<1>2. CASE Land \/ Finalize \/ StoreClose
  <2>1. UNCHANGED <<snaps, req>> /\ last_tid' \in {last_tid, durable}
    BY <1>2 DEF Land, Finalize, StoreClose, poolVars
  <2> QED
    BY <1>0, <2>1
<1>3. CASE PoolClose
  BY <1>0, <1>3, CloseEffects
<1>4. ASSUME NEW r \in Requests, Arrive(r) \/ _get_pool(r) \/ CreatePool(r)
      PROVE  ReadsInv'
  BY <1>0, <1>4, WaitingEffects DEF OnlyReq, storeVars
<1>5. ASSUME NEW r \in Requests, AcquireShared(r)
      PROVE  ReadsInv'
  BY <1>0, <1>5, SharedEffects DEF OnlyReq, OnlySnap, storeVars
<1>6. ASSUME NEW r \in Requests, AcquireStale(r)
      PROVE  ReadsInv'
  <2>1. /\ last_tid' = last_tid
        /\ \A x \in Requests : x # r => req'[x] = req[x]
        /\ req'[r].phase = "pin" /\ req'[r].since = req[r].since
    BY <1>6, StaleEffects DEF OnlyReq, Idle, storeVars
  <2>2. \A s \in Snaps : snaps'[s].core.tid = snaps[s].core.tid
    BY <1>6, StaleEffects DEF OnlySnap
  <2> QED
    BY <1>0, <2>1, <2>2
<1>7. ASSUME NEW r \in Requests, AcquirePinned(r)
      PROVE  ReadsInv'
  <2>1. /\ last_tid' = last_tid
        /\ \A x \in Requests : x # r => req'[x] = req[x]
        /\ req'[r].since = req[r].since /\ snaps'[req'[r].at].core.tid = durable
    BY <1>7, PinnedEffects DEF OnlyReq, Idle, storeVars
  <2>2. \A s \in Snaps : snaps'[s].core.tid = snaps[s].core.tid
    BY <1>7, PinnedEffects DEF OnlySnap
  <2> QED
    BY <1>0, <2>1, <2>2
<1>8. ASSUME NEW r \in Requests, AcquireFails(r)
      PROVE  ReadsInv'
  BY <1>0, <1>8, FailsEffects DEF OnlyReq, Idle, storeVars
<1>9. ASSUME NEW r \in Requests, release(r)
      PROVE  ReadsInv'
  <2>1. /\ last_tid' = last_tid
        /\ \A x \in Requests : x # r => req'[x] = req[x]
        /\ req'[r].phase = "idle" /\ req'[r].since = 0
    BY <1>9, ReleaseEffects, IdleFields DEF OnlyReq, storeVars
  <2>2. \A s \in Snaps : snaps'[s].core.tid = snaps[s].core.tid
    BY <1>9, ReleaseEffects DEF OnlySnap
  <2> QED
    BY <1>0, <2>1, <2>2
<1>10. CASE UNCHANGED vars
  BY <1>10 DEF vars, storeVars, poolVars
<1> QED
  BY <1>1, <1>2, <1>3, <1>4, <1>5, <1>6, <1>7, <1>8, <1>9, <1>10
  DEF Next, Serve, SurfaceStep

(* A request reads a watermark at or past the one that was acknowledged when    *)
(* it came in, for any number of requests, whatever lands between the           *)
(* comparison in acquire() and the pin, and also while the application stops.  *)
THEOREM PoolReadsAcknowledged == Spec => []ReadsAcknowledged
<1>1. Init => TypeInv /\ ReadsInv
  BY TypeInit DEF Init, Idle, ReadsInv, ReadsAcknowledged
<1>2. (TypeInv /\ ReadsInv) /\ [Next]_vars => (TypeInv /\ ReadsInv)'
  BY TypeStep, ReadsStep
<1>3. ReadsInv => ReadsAcknowledged
  BY DEF ReadsInv
<1> QED
  BY <1>1, <1>2, <1>3, PTL DEF Spec

-----------------------------------------------------------------------------
(* The life of a snapshot. *)

(* Opening a view does not fail: the process has file descriptors left. *)
ViewsOpen == "nofile" \notin Env

LEMMA Joins ==
    ASSUME NEW r \in Requests, NEW s, OnlyReq(r),
           req[r].phase # "reading", req'[r].phase = "reading", req'[r].at = s
    PROVE  /\ Cardinality(Reading(s))' = Cardinality(Reading(s)) + 1
           /\ Cardinality(Reading(s)) \in Nat
           /\ \A t : t # s => Reading(t)' = Reading(t)
<1>1. IsFiniteSet(Reading(s))
  BY RequestSlots, FS_Subset DEF Reading
<1>2. Reading(s)' = Reading(s) \cup {r} /\ r \notin Reading(s)
  BY DEF Reading, OnlyReq
<1>3. \A t : t # s => Reading(t)' = Reading(t)
  BY DEF Reading, OnlyReq
<1> QED
  BY <1>1, <1>2, <1>3, FS_AddElement, FS_CardinalityType

LEMMA Leaves ==
    ASSUME NEW r \in Requests, NEW s, OnlyReq(r),
           req[r].phase = "reading", req[r].at = s, req'[r].phase # "reading"
    PROVE  /\ Cardinality(Reading(s))' = Cardinality(Reading(s)) - 1
           /\ Cardinality(Reading(s))' \in Nat /\ Cardinality(Reading(s)) \in Nat
           /\ \A t : t # s => Reading(t)' = Reading(t)
<1>1. IsFiniteSet(Reading(s))
  BY RequestSlots, FS_Subset DEF Reading
<1>2. Reading(s)' = Reading(s) \ {r} /\ r \in Reading(s)
  BY DEF Reading, OnlyReq
<1>3. \A t : t # s => Reading(t)' = Reading(t)
  BY DEF Reading, OnlyReq
<1>4. Cardinality(Reading(s)) \in Nat /\ Cardinality(Reading(s) \ {r}) = Cardinality(Reading(s)) - 1
  BY <1>1, <1>2, FS_RemoveElement, FS_CardinalityType
<1>5. Cardinality(Reading(s) \ {r}) \in Nat
  BY <1>1, FS_RemoveElement, FS_CardinalityType
<1> QED
  BY <1>2, <1>3, <1>4, <1>5

LEMMA Stays ==
    ASSUME NEW r \in Requests, OnlyReq(r),
           req[r].phase # "reading", req'[r].phase # "reading"
    PROVE  \A t : Reading(t)' = Reading(t)
BY DEF Reading, OnlyReq

LEMMA CountsNatural ==
    ASSUME NEW s
    PROVE  /\ IsFiniteSet(Reading(s)) /\ Cardinality(Reading(s)) \in Nat
           /\ Cardinality(Reading(s)) = 0 <=> Reading(s) = {}
<1>1. IsFiniteSet(Reading(s))
  BY RequestSlots, FS_Subset DEF Reading
<1> QED
  BY <1>1, FS_CardinalityType, FS_EmptySet

(* Where a request of an open store is served. *)
LEMMA ServedByPool ==
    ASSUME TypeInv, OnePool, NEW r \in Requests,
           req[r].phase \in {"acquire", "pin", "reading"}
    PROVE  /\ pool = 1 /\ req[r].pool = 1
           /\ DOMAIN current = {1} /\ DOMAIN locked = {1}
<1>1. req[r].pool \in 1..Len(current) /\ Len(current) \in {0, 1}
  BY DEF TypeInv, ReqOK, OnePool
<1>2. /\ DOMAIN current = 1..Len(current) /\ DOMAIN locked = 1..Len(locked)
      /\ Len(locked) = Len(current) /\ pool = Len(current)
  BY DEF TypeInv, OnePool
<1> QED
  BY <1>1, <1>2

LifeParts == OnePool /\ LockInv /\ RefsInv /\ LifeInv

LEMMA LifeInit ==
    ASSUME Init
    PROVE  LifeParts
<1>1. OnePool /\ \A k \in DOMAIN locked : locked[k] = NULL
  <2>1. CASE wired
    <3>1. pool = 1 /\ current = <<0>> /\ locked = <<NULL>>
      BY <2>1 DEF Init
    <3> QED
      BY <3>1 DEF OnePool
  <2>2. CASE ~wired
    <3>1. pool = 0 /\ current = <<>> /\ locked = <<>>
      BY <2>2 DEF Init
    <3> QED
      BY <3>1 DEF OnePool
  <2> QED
    BY <2>1, <2>2
<1>2. \A k \in DOMAIN current : current[k] = 0
  <2>1. current = <<0>> \/ current = <<>>
    BY DEF Init
  <2> QED
    BY <2>1
<1>3. Snaps = {} /\ \A r \in Requests : req[r].phase = "idle"
  BY DEF Init, Snaps, Idle
<1> QED
  BY <1>1, <1>2, <1>3 DEF LifeParts, LockInv, RefsInv, LifeInv

LEMMA LifeSurface ==
    ASSUME TypeInv, LifeParts, NEW r \in Requests, SurfaceStep(r)
    PROVE  LifeParts'
<1>1. UNCHANGED <<pool, current, locked>> /\ SnapsTouched /\ ReqsTouched
  BY SurfaceEffects
<1>2. Snaps' = Snaps /\ \A s \in Snaps :
         /\ snaps'[s].refs = snaps[s].refs /\ snaps'[s].retired = snaps[s].retired
         /\ snaps'[s].core.closed = snaps[s].core.closed
  BY <1>1 DEF SnapsTouched, SameCore, Snaps
<1>3. \A x \in Requests : /\ req'[x].phase = req[x].phase /\ req'[x].at = req[x].at
                          /\ req'[x].pool = req[x].pool
  BY <1>1 DEF ReqsTouched
<1>4. \A s : Reading(s)' = Reading(s)
  BY <1>3 DEF Reading
<1>5. \A k \in DOMAIN current : current[k] # 0 => current[k] \in Snaps
  BY CurrentSnap DEF TypeInv
<1>6. \A k \in DOMAIN locked : locked[k] # NULL => locked[k] \in Requests
  BY DEF TypeInv
<1>7. OnePool'
  BY <1>1 DEF LifeParts, OnePool
<1>8. LockInv'
  BY <1>1, <1>3, <1>6 DEF LifeParts, LockInv
<1>9. RefsInv'
  BY <1>2, <1>4 DEF LifeParts, RefsInv
<1>10. LifeInv'
  BY <1>1, <1>2, <1>5 DEF LifeParts, LifeInv
<1> QED
  BY <1>7, <1>8, <1>9, <1>10 DEF LifeParts

LEMMA LifeWaiting ==
    ASSUME TypeInv, LifeParts, NEW r \in Requests, Arrive(r) \/ _get_pool(r) \/ CreatePool(r)
    PROVE  LifeParts'
<1>1. /\ UNCHANGED snaps /\ OnlyReq(r)
      /\ req[r].phase \notin {"pin", "reading"} /\ req'[r].phase \notin {"pin", "reading"}
      /\ CreatePool(r) \/ UNCHANGED <<pool, current, locked>>
  BY WaitingEffects
<1>2. \A s : Reading(s)' = Reading(s)
  BY <1>1, Stays
<1>3. RefsInv'
  BY <1>1, <1>2 DEF LifeParts, RefsInv, Snaps
<1>4. CASE UNCHANGED <<pool, current, locked>>
  <2>1. OnePool' /\ LifeInv'
    BY <1>1, <1>4 DEF LifeParts, OnePool, LifeInv, Snaps
  <2>2. \A k \in DOMAIN locked : locked[k] # NULL => locked[k] \in Requests
    BY DEF TypeInv
  <2>3. LockInv'
    BY <1>1, <1>4, <2>2 DEF LifeParts, LockInv, OnlyReq
  <2> QED
    BY <1>3, <2>1, <2>3 DEF LifeParts
<1>5. CASE CreatePool(r) /\ pool = 0
  <2>1. /\ current' = Append(current, 0) /\ locked' = Append(locked, NULL)
        /\ pool' = Len(current) + 1 /\ Len(current) = 0 /\ Len(locked) = 0
    BY <1>5 DEF CreatePool, LifeParts, OnePool, TypeInv
  <2>2. current = <<>> /\ locked = <<>>
    BY <2>1 DEF TypeInv
  <2>3. current' = <<0>> /\ locked' = <<NULL>> /\ pool' = 1
    BY <2>1, <2>2
  <2>4. /\ DOMAIN current' = {1} /\ DOMAIN locked' = {1} /\ Len(current') = 1
        /\ current'[1] = 0 /\ locked'[1] = NULL
    BY <2>3
  <2>5. \A x \in Requests : req[x].phase # "pin"
    BY <2>1 DEF TypeInv, ReqOK
  <2>6. OnePool'
    BY <2>3, <2>4 DEF OnePool
  <2>7. LockInv'
    BY <1>1, <2>4, <2>5 DEF LockInv, OnlyReq
  <2>8. LifeInv'
    BY <1>1, <1>5, <2>4 DEF LifeParts, LifeInv, Snaps
  <2> QED
    BY <1>3, <2>6, <2>7, <2>8 DEF LifeParts
<1>6. CASE CreatePool(r) /\ pool # 0
  <2>1. UNCHANGED <<pool, current, locked>>
    BY <1>6 DEF CreatePool
  <2> QED
    BY <1>4, <2>1
<1> QED
  BY <1>1, <1>4, <1>5, <1>6

LEMMA LifeShared ==
    ASSUME TypeInv, LifeParts, NEW r \in Requests, AcquireShared(r)
    PROVE  LifeParts'
<1> DEFINE s == current[1]
<1>1. pool = 1 /\ req[r].pool = 1 /\ DOMAIN current = {1} /\ DOMAIN locked = {1}
  BY ServedByPool DEF AcquireShared, LifeParts
<1>2. /\ UNCHANGED <<pool, current, locked>>
      /\ req[r].phase = "acquire" /\ locked[1] = NULL
      /\ OnlySnap(s)
      /\ snaps'[s].refs = snaps[s].refs + 1
      /\ snaps'[s].retired = snaps[s].retired
      /\ snaps'[s].core.closed = snaps[s].core.closed
      /\ OnlyReq(r) /\ req'[r].phase = "reading" /\ req'[r].at = s
  BY <1>1, SharedEffects
<1>3. s \in Snaps /\ s # 0 /\ ~snaps[s].retired
  <2>1. s \in Snaps /\ s # 0
    BY <1>1, <1>2 DEF OnlySnap, AcquireShared
  <2> QED
    BY <1>1, <1>2, <2>1 DEF LifeParts, LifeInv
<1>4. snaps[s].core.closed = FALSE /\ snaps[s].retired = FALSE
  BY <1>3 DEF LifeParts, LifeInv, TypeInv, SnapOK
<1>5. OnePool'
  BY <1>2 DEF LifeParts, OnePool
<1>6. LockInv'
  BY <1>1, <1>2 DEF LifeParts, LockInv, OnlyReq
<1>7. RefsInv'
  <2>1. /\ Cardinality(Reading(s))' = Cardinality(Reading(s)) + 1
        /\ \A t : t # s => Reading(t)' = Reading(t)
    BY <1>2, Joins
  <2> QED
    BY <1>2, <2>1 DEF LifeParts, RefsInv, OnlySnap, Snaps
<1>8. LifeInv'
  BY <1>1, <1>2, <1>3, <1>4 DEF LifeParts, LifeInv, OnlySnap, Snaps
<1> QED
  BY <1>5, <1>6, <1>7, <1>8 DEF LifeParts

LEMMA LifeStale ==
    ASSUME TypeInv, LifeParts, NEW r \in Requests, AcquireStale(r)
    PROVE  LifeParts'
<1> DEFINE s == current[1]
<1>1. pool = 1 /\ req[r].pool = 1 /\ DOMAIN current = {1} /\ DOMAIN locked = {1}
  BY ServedByPool DEF AcquireStale, LifeParts
<1>2. /\ UNCHANGED <<pool, current>>
      /\ req[r].phase = "acquire" /\ locked[1] = NULL
      /\ s = 0 => snaps' = snaps
      /\ s # 0 =>
            /\ OnlySnap(s)
            /\ snaps'[s].refs = snaps[s].refs
            /\ snaps'[s].retired = TRUE
            /\ snaps[s].refs <= 0 => snaps'[s].core.closed = TRUE
            /\ snaps[s].refs > 0 => snaps'[s].core.closed = snaps[s].core.closed
      /\ locked' = [locked EXCEPT ![1] = r]
      /\ OnlyReq(r) /\ req'[r].phase = "pin" /\ req'[r].pool = 1
  BY <1>1, StaleEffects, ZenonT(60)
<1>3. DOMAIN locked' = {1} /\ locked'[1] = r
  BY <1>1, <1>2
<1>4. \A t : Reading(t)' = Reading(t)
  BY <1>2, Stays
<1>5. OnePool'
  BY <1>2 DEF LifeParts, OnePool
<1>6. LockInv'
  <2>1. \A x \in Requests : x # r => req[x].phase # "pin"
    <3> SUFFICES ASSUME NEW x \in Requests, x # r, req[x].phase = "pin" PROVE FALSE
      OBVIOUS
    <3>1. req[x].pool = 1 /\ locked[1] = x
      BY ServedByPool DEF LifeParts, LockInv
    <3> QED
      BY <1>2, <3>1, RequestSlots
  <2> QED
    BY <1>2, <1>3, <2>1 DEF LockInv, OnlyReq
<1>7. RefsInv'
  BY <1>2, <1>4 DEF LifeParts, RefsInv, OnlySnap, Snaps
<1>8. LifeInv'
  <2>1. CASE s = 0
    <3>1. \A t \in Snaps : t # 0
      BY DEF Snaps, TypeInv
    <3> QED
      BY <1>1, <1>2, <1>3, <2>1, <3>1 DEF LifeParts, LifeInv, Snaps
  <2>2. CASE s # 0
    <3>1. s \in Snaps /\ ~snaps[s].retired
      BY <1>1, <1>2, <2>2 DEF LifeParts, LifeInv, OnlySnap
    <3>2. snaps[s].refs \in Nat
      BY <3>1, CountsNatural DEF LifeParts, RefsInv
    <3>3. snaps'[s].retired = TRUE /\ (snaps'[s].core.closed <=> snaps'[s].refs = 0)
      <4>1. snaps[s].core.closed = FALSE
        BY <3>1 DEF LifeParts, LifeInv, TypeInv, SnapOK
      <4>2. CASE snaps[s].refs = 0
        BY <1>2, <2>2, <4>2
      <4>3. CASE snaps[s].refs # 0
        BY <1>2, <2>2, <3>2, <4>1, <4>3
      <4> QED
        BY <4>2, <4>3
    <3>4. \A t \in Snaps : t # s => snaps'[t] = snaps[t] /\ snaps[t].retired
      BY <1>1, <1>2, <2>2 DEF OnlySnap, LifeParts, LifeInv, TypeInv, SnapOK
    <3>5. DOMAIN snaps' = DOMAIN snaps
      BY <1>2, <2>2 DEF OnlySnap
    <3>6. r # NULL
      BY RequestSlots
    <3>7. \A t \in Snaps : snaps'[t].retired
      BY <3>3, <3>4
    <3>8. \A t \in Snaps : snaps'[t].core.closed <=> snaps'[t].retired /\ snaps'[t].refs = 0
      BY <3>3, <3>4 DEF LifeParts, LifeInv
    <3> QED
      BY <1>1, <1>2, <1>3, <3>1, <3>5, <3>6, <3>7, <3>8 DEF LifeInv, Snaps
  <2> QED
    BY <2>1, <2>2
<1> QED
  BY <1>5, <1>6, <1>7, <1>8 DEF LifeParts

LEMMA LifePinned ==
    ASSUME TypeInv, LifeParts, NEW r \in Requests, AcquirePinned(r)
    PROVE  LifeParts'
<1> SUFFICES ASSUME NEW n, n = Len(snaps) + 1 PROVE LifeParts'
  OBVIOUS
<1>1. pool = 1 /\ req[r].pool = 1 /\ DOMAIN current = {1} /\ DOMAIN locked = {1}
  BY ServedByPool DEF AcquirePinned, LifeParts
<1>2. /\ UNCHANGED pool
      /\ req[r].phase = "pin"
      /\ n \notin Snaps /\ n # 0
      /\ DOMAIN snaps' = Snaps \cup {n}
      /\ \A s \in Snaps : snaps'[s] = snaps[s]
      /\ snaps'[n].core.closed = FALSE
      /\ snaps'[n].refs = 1 /\ snaps'[n].retired = FALSE
      /\ current' = [current EXCEPT ![1] = n]
      /\ locked' = [locked EXCEPT ![1] = NULL]
      /\ OnlyReq(r) /\ req'[r].phase = "reading" /\ req'[r].at = n
  BY <1>1, PinnedEffects
<1>3. /\ DOMAIN locked' = {1} /\ locked'[1] = NULL
      /\ DOMAIN current' = {1} /\ current'[1] = n
  BY <1>1, <1>2
<1>4. locked[1] = r
  BY <1>1, <1>2 DEF LifeParts, LockInv
<1>5. \A s \in Snaps : snaps[s].retired
  <2> SUFFICES ASSUME NEW s \in Snaps, ~snaps[s].retired PROVE FALSE
    BY DEF TypeInv, SnapOK
  <2>1. s = current[1] /\ s # 0
    BY <1>1 DEF LifeParts, LifeInv, Snaps, TypeInv
  <2> QED
    BY <1>1, <1>4, <2>1, RequestSlots DEF LifeParts, LifeInv
<1>6. OnePool'
  <2>1. Len(current') = Len(current)
    BY <1>2 DEF TypeInv
  <2> QED
    BY <1>2, <2>1 DEF LifeParts, OnePool
<1>7. LockInv'
  <2>1. \A x \in Requests : x # r => req[x].phase # "pin"
    <3> SUFFICES ASSUME NEW x \in Requests, x # r, req[x].phase = "pin" PROVE FALSE
      OBVIOUS
    <3>1. req[x].pool = 1 /\ locked[1] = x
      BY ServedByPool DEF LifeParts, LockInv
    <3> QED
      BY <1>4, <3>1
  <2> QED
    BY <1>2, <1>3, <2>1 DEF LockInv, OnlyReq
<1>8. RefsInv'
  <2>1. /\ Cardinality(Reading(n))' = Cardinality(Reading(n)) + 1
        /\ \A t : t # n => Reading(t)' = Reading(t)
    BY <1>2, Joins
  <2>2. Reading(n) = {}
    BY <1>2 DEF Reading, TypeInv
  <2>3. Cardinality(Reading(n))' = 1
    BY <2>1, <2>2, FS_EmptySet
  <2> QED
    BY <1>2, <2>1, <2>3 DEF LifeParts, RefsInv, Snaps
<1>9. LifeInv'
  <2>1. \A s \in DOMAIN snaps' : ~snaps'[s].retired => s = n
    BY <1>2, <1>5
  <2>2. \A s \in DOMAIN snaps' : snaps'[s].core.closed <=> snaps'[s].retired /\ snaps'[s].refs = 0
    BY <1>2 DEF LifeParts, LifeInv
  <2> QED
    BY <1>1, <1>2, <1>3, <2>1, <2>2 DEF LifeInv, Snaps
<1> QED
  BY <1>6, <1>7, <1>8, <1>9 DEF LifeParts

LEMMA LifeRelease ==
    ASSUME TypeInv, LifeParts, NEW r \in Requests, release(r)
    PROVE  LifeParts'
<1> SUFFICES ASSUME NEW s, s = req[r].at, NEW n, n = snaps[s].refs - 1 PROVE LifeParts'
  OBVIOUS
<1>1. /\ UNCHANGED <<pool, current, locked>>
      /\ req[r].phase = "reading"
      /\ OnlySnap(s)
      /\ snaps'[s].refs = n
      /\ snaps'[s].retired = snaps[s].retired
      /\ snaps[s].retired /\ n <= 0 => snaps'[s].core.closed = TRUE
      /\ ~(snaps[s].retired /\ n <= 0) => snaps'[s].core.closed = snaps[s].core.closed
      /\ OnlyReq(r) /\ req'[r].phase = "idle"
  BY ReleaseEffects, IdleFields
<1>2. s \in Snaps /\ snaps[s].refs = Cardinality(Reading(s))
  BY <1>1 DEF OnlySnap, LifeParts, RefsInv
<1>3. /\ Cardinality(Reading(s))' = Cardinality(Reading(s)) - 1
      /\ Cardinality(Reading(s))' \in Nat /\ Cardinality(Reading(s)) \in Nat
      /\ \A t : t # s => Reading(t)' = Reading(t)
  BY <1>1, Leaves
<1>4. n = Cardinality(Reading(s))' /\ n \in Nat /\ snaps[s].refs # 0
  BY <1>2, <1>3
<1>5. snaps[s].core.closed = FALSE /\ snaps[s].retired \in BOOLEAN
  BY <1>2, <1>4 DEF LifeParts, LifeInv, TypeInv, SnapOK
<1>6. snaps'[s].core.closed <=> snaps'[s].retired /\ snaps'[s].refs = 0
  <2>1. snaps[s].retired /\ n <= 0 <=> snaps'[s].retired /\ snaps'[s].refs = 0
    <3>1. n <= 0 <=> n = 0
      <4>1. n \in Nat
        BY <1>4
      <4>2. \A m \in Nat : m <= 0 <=> m = 0
        OBVIOUS
      <4> QED
        BY <4>1, <4>2
    <3>2. snaps'[s].refs = n /\ snaps'[s].retired = snaps[s].retired
      BY <1>1
    <3> QED
      BY <3>1, <3>2
  <2>2. snaps[s].retired /\ n <= 0 => snaps'[s].core.closed
    BY <1>1
  <2>3. ~(snaps[s].retired /\ n <= 0) => ~snaps'[s].core.closed
    BY <1>1, <1>5
  <2> QED
    BY <2>1, <2>2, <2>3
<1>7. OnePool'
  BY <1>1 DEF LifeParts, OnePool
<1>8. LockInv'
  <2>1. \A k \in DOMAIN locked : locked[k] # NULL => locked[k] \in Requests /\ locked[k] # r
    BY <1>1 DEF LifeParts, LockInv, TypeInv
  <2> QED
    BY <1>1, <2>1 DEF LifeParts, LockInv, OnlyReq
<1>9. RefsInv'
  BY <1>1, <1>3, <1>4 DEF LifeParts, RefsInv, OnlySnap, Snaps
<1>10. LifeInv'
  <2>1. \A k \in DOMAIN current : current[k] # 0 => current[k] \in Snaps
    BY CurrentSnap DEF TypeInv
  <2>2. \A t \in Snaps : snaps'[t].retired = snaps[t].retired
    BY <1>1 DEF OnlySnap
  <2>3. \A t \in Snaps : snaps'[t].core.closed <=> snaps'[t].retired /\ snaps'[t].refs = 0
    BY <1>1, <1>6 DEF LifeParts, LifeInv, OnlySnap
  <2>4. DOMAIN snaps' = DOMAIN snaps
    BY <1>1 DEF OnlySnap
  <2> QED
    BY <1>1, <2>1, <2>2, <2>3, <2>4 DEF LifeParts, LifeInv, Snaps
<1> QED
  BY <1>7, <1>8, <1>9, <1>10 DEF LifeParts

LEMMA LifeStep ==
    ASSUME ViewsOpen, TypeInv, PoolInv, [Next]_vars
    PROVE  PoolInv'
<1> SUFFICES ASSUME store' = "open" PROVE LifeParts'
  BY DEF PoolInv, LifeParts
<1>1. store = "open" \/ PoolClose \/ StoreClose
  BY DEF Next, Serve, SurfaceStep, Land, Finalize, Arrive, _get_pool, CreatePool,
         AcquireShared, AcquireStale, AcquirePinned, AcquireFails, release, Query, Incoming,
         Deref, vars, storeVars
<1>2. store = "open"
  BY <1>1 DEF PoolClose, StoreClose
<1>3. LifeParts
  BY <1>2 DEF PoolInv, LifeParts
<1>4. ASSUME NEW r \in Requests, AcquireFails(r)
      PROVE  FALSE
  BY <1>2, <1>4, PoolFeatures DEF AcquireFails, ViewsOpen, Features
<1>5. CASE Land \/ Finalize \/ UNCHANGED vars
  <2>1. UNCHANGED <<poolVars, req>>
    BY <1>5 DEF Land, Finalize, vars
  <2> QED
    BY <1>3, <2>1 DEF poolVars, LifeParts, OnePool, LockInv, RefsInv, LifeInv, Snaps, Reading
<1>6. CASE PoolClose \/ StoreClose
  BY <1>6 DEF PoolClose, StoreClose
<1> QED
  BY <1>3, <1>4, <1>5, <1>6, LifeSurface, LifeWaiting, LifeShared, LifeStale, LifePinned,
     LifeRelease
  DEF Next, Serve, SurfaceStep

(* The life of a shared snapshot, while the lifespan runs and views can be      *)
(* opened: no request ever reads a closed snapshot, and an open snapshot is     *)
(* current or read by somebody, for any number of requests and commits.  The    *)
(* counter of a snapshot is the number of its readers, the lock is held by the  *)
(* one request that opens a view, and the current snapshot is retired exactly   *)
(* while it is held.                                                         *)
THEOREM PoolOpenWhileUsed ==
    ASSUME ViewsOpen
    PROVE  Spec => []OpenWhileUsed
<1>1. Init => TypeInv /\ PoolInv
  BY TypeInit, LifeInit DEF PoolInv, LifeParts
<1>2. (TypeInv /\ PoolInv) /\ [Next]_vars => (TypeInv /\ PoolInv)'
  BY TypeStep, LifeStep
<1>3. TypeInv /\ PoolInv => OpenWhileUsed
  <2> SUFFICES ASSUME TypeInv, LifeParts, NEW s \in Snaps
               PROVE  /\ Reading(s) # {} => ~snaps[s].core.closed
                      /\ ~snaps[s].core.closed => s = current[pool] \/ Reading(s) # {}
    BY DEF OpenWhileUsed, PoolInv, LifeParts
  <2>1. snaps[s].refs = 0 <=> Reading(s) = {}
    BY CountsNatural DEF LifeParts, RefsInv
  <2> QED
    BY <2>1 DEF LifeParts, LifeInv
<1> QED
  BY <1>1, <1>2, <1>3, PTL DEF Spec

-----------------------------------------------------------------------------
(* Bitmaps in the order of their iteration.                                   *)

Less == {ss \in Nat \X Nat : ss[1] < ss[2]}

LEMMA LeastNumber ==
    ASSUME NEW T, T \subseteq Nat, T # {}
    PROVE  \E x \in T : \A y \in T : x <= y
<1>1. IsWellFoundedOn(Less, Nat)
  BY NatLessThanWellFounded DEF OpToRel, Less
<1>2. PICK x \in T : \A y \in T : ~(<<y, x>> \in Less)
  BY <1>1, WFMin
<1>3. ASSUME NEW y \in T, y < x
      PROVE  FALSE
  <2>1. <<y, x>> \in Nat \X Nat /\ <<y, x>>[1] = y /\ <<y, x>>[2] = x
    OBVIOUS
  <2>2. <<y, x>> \in Less
    BY <2>1, <1>3 DEF Less
  <2> QED
    BY <2>2, <1>2
<1> QED
  BY <1>3

(* s lists numbers in ascending order; s lists those of S.                    *)
Ascends(s, n) == \A i, j \in 1..n : i < j => s[i] < s[j]
Lists(s, n, S) ==
    /\ n \in Nat /\ s \in [1..n -> S]
    /\ Ascends(s, n)
    /\ \A x \in S : \E i \in 1..n : s[i] = x

LEMMA AscendsInjective ==
    ASSUME NEW n \in Nat, NEW S, S \subseteq Nat, NEW s \in [1..n -> S], Ascends(s, n)
    PROVE  s \in Injection(1..n, S)
<1>1. ASSUME NEW i \in 1..n, NEW j \in 1..n, i # j PROVE s[i] # s[j]
  <2>1. s[i] \in Nat /\ s[j] \in Nat
    OBVIOUS
  <2>2. i < j \/ j < i
    BY <1>1
  <2> QED
    BY <2>1, <2>2 DEF Ascends
<1> QED
  BY <1>1, Fun_IsInj

LEMMA ListsCardinality ==
    ASSUME NEW n, NEW S, S \subseteq Nat, NEW s, Lists(s, n, S)
    PROVE  IsFiniteSet(S) /\ Cardinality(S) = n
<1>1. n \in Nat /\ s \in Injection(1..n, S)
  BY AscendsInjective DEF Lists
<1>2. s \in Bijection(1..n, S)
  BY <1>1, Fun_IsBij DEF Lists
<1>3. IsFiniteSet(1..n) /\ Cardinality(1..n) = n
  BY <1>1, FS_Interval
<1>4. ExistsBijection(1..n, S)
  BY <1>2 DEF ExistsBijection
<1> QED
  BY <1>3, <1>4, FS_Bijection

(* There is one such list ... *)
LEMMA ListsUnique ==
    ASSUME NEW S, S \subseteq Nat, NEW m, NEW n, NEW s, NEW t, Lists(s, m, S), Lists(t, n, S)
    PROVE  m = n /\ s = t
<1>1. m = n /\ n \in Nat
  <2>1. Cardinality(S) = m /\ Cardinality(S) = n
    BY ListsCardinality
  <2> QED
    BY <2>1 DEF Lists
<1> DEFINE D == {i \in 1..n : s[i] # t[i]}
<1>2. SUFFICES ASSUME D # {} PROVE FALSE
  BY <1>1 DEF Lists
<1>3. PICK i \in D : \A j \in D : i <= j
  <2>1. D \subseteq Nat
    OBVIOUS
  <2> HIDE DEF D
  <2> QED
    BY <1>2, <2>1, LeastNumber
<1>4. i \in 1..n /\ s[i] # t[i] /\ s[i] \in S /\ t[i] \in S
  BY <1>1 DEF Lists
<1>5. \A j \in 1..n : j < i => s[j] = t[j]
  BY <1>3
<1>6. s[i] \in Nat /\ t[i] \in Nat
  BY <1>4
<1>7. ASSUME NEW u, NEW v, Lists(u, n, S), Lists(v, n, S), u[i] < v[i],
             \A j \in 1..n : j < i => u[j] = v[j],
             u[i] \in S, v[i] \in Nat, u[i] \in Nat
      PROVE  FALSE
  <2>1. PICK j \in 1..n : v[j] = u[i]
    BY <1>7 DEF Lists
  <2>2. CASE j < i
    <3>1. u[j] = u[i]
      BY <1>7, <2>1, <2>2
    <3>2. u[j] < u[i]
      BY <1>4, <1>7, <2>2 DEF Lists, Ascends
    <3> QED
      BY <1>7, <3>1, <3>2
  <2>3. CASE j = i
    BY <1>7, <2>1, <2>3
  <2>4. CASE i < j
    <3>1. v[i] < v[j]
      BY <1>4, <1>7, <2>4 DEF Lists, Ascends
    <3> QED
      BY <1>7, <2>1, <3>1
  <2> QED
    BY <1>4, <2>2, <2>3, <2>4
<1>8. s[i] < t[i] \/ t[i] < s[i]
  BY <1>4, <1>6
<1> QED
  BY <1>1, <1>4, <1>5, <1>6, <1>7, <1>8

(* ... and there is one for every set of numbers up to n.                     *)
LEMMA ListsExist ==
    ASSUME NEW n \in Nat
    PROVE  \A S \in SUBSET (1..n) : \E k, s : Lists(s, k, S)
<1> DEFINE P(m) == \A S \in SUBSET (1..m) : \E k, s : Lists(s, k, S)
           U == {m \in Nat : ~P(m)}
<1>1. SUFFICES ASSUME U # {} PROVE FALSE
  OBVIOUS
<1>2. PICK m \in U : \A x \in U : m <= x
  <2>1. U \subseteq Nat
    OBVIOUS
  <2> HIDE DEF U
  <2> QED
    BY <1>1, <2>1, LeastNumber
<1>3. m \in Nat
  OBVIOUS
<1>4. PICK S \in SUBSET (1..m) : \A k, s : ~Lists(s, k, S)
  OBVIOUS
<1>5. CASE m = 0
  <2>1. S = {}
    BY <1>5
  <2>2. Lists(<<>>, 0, {})
    BY DEF Lists, Ascends
  <2> QED
    BY <1>4, <2>1, <2>2
<1>6. CASE m # 0
  <2>1. m - 1 \in Nat /\ m - 1 \notin U
    BY <1>2, <1>3, <1>6
  <2>2. P(m - 1)
    BY <2>1
  <2>3. S \ {m} \in SUBSET (1..(m - 1))
    BY <1>3, <1>6
  <2>4. PICK k, s : Lists(s, k, S \ {m})
    BY <2>2, <2>3
  <2>5. m \in S
    <3>1. S \ {m} # S
      BY <1>4, <2>4
    <3> QED
      BY <3>1
  <2> DEFINE t == [i \in 1..(k + 1) |-> IF i = k + 1 THEN m ELSE s[i]]
  <2>6. k \in Nat /\ s \in [1..k -> S \ {m}] /\ Ascends(s, k)
        /\ \A x \in S \ {m} : \E i \in 1..k : s[i] = x
    BY <2>4 DEF Lists
  <2>7. \A i \in 1..k : t[i] = s[i] /\ s[i] \in S /\ s[i] \in Nat /\ s[i] < m
    <3>1. SUFFICES ASSUME NEW i \in 1..k
                   PROVE  t[i] = s[i] /\ s[i] \in S /\ s[i] \in Nat /\ s[i] < m
      OBVIOUS
    <3>2. i \in 1..(k + 1) /\ i # k + 1
      BY <2>6
    <3>3. t[i] = s[i]
      BY <3>2
    <3>4. s[i] \in S \ {m}
      BY <2>6
    <3>5. s[i] \in 1..(m - 1)
      BY <2>3, <3>4
    <3> QED
      BY <1>3, <3>3, <3>4, <3>5
  <2>8. t[k + 1] = m /\ k + 1 \in Nat
    BY <2>6
  <2>9. t \in [1..(k + 1) -> S]
    BY <2>5, <2>6
  <2> HIDE DEF t
  <2>10. Ascends(t, k + 1)
    <3>1. SUFFICES ASSUME NEW i \in 1..(k + 1), NEW j \in 1..(k + 1), i < j
                   PROVE  t[i] < t[j]
      BY DEF Ascends
    <3>2. i \in 1..k /\ (j = k + 1 \/ j \in 1..k)
      BY <2>6, <3>1
    <3>3. CASE j = k + 1
      BY <2>7, <2>8, <3>2, <3>3
    <3>4. CASE j \in 1..k
      BY <2>6, <2>7, <3>1, <3>2, <3>4 DEF Ascends
    <3> QED
      BY <3>2, <3>3, <3>4
  <2>11. \A x \in S : \E i \in 1..(k + 1) : t[i] = x
    <3>1. SUFFICES ASSUME NEW x \in S PROVE \E i \in 1..(k + 1) : t[i] = x
      OBVIOUS
    <3>2. CASE x = m
      <4>1. k + 1 \in 1..(k + 1)
        BY <2>6
      <4> QED
        BY <2>8, <3>2, <4>1
    <3>3. CASE x # m
      <4>1. PICK i \in 1..k : s[i] = x
        BY <2>6, <3>3
      <4>2. i \in 1..(k + 1)
        BY <2>6
      <4> QED
        BY <2>7, <4>1, <4>2
    <3> QED
      BY <3>2, <3>3
  <2>12. Lists(t, k + 1, S)
    BY <2>8, <2>9, <2>10, <2>11 DEF Lists
  <2> QED
    BY <1>4, <2>12
<1> QED
  BY <1>5, <1>6

LEMMA AscendingLists ==
    ASSUME NEW n \in Nat, NEW S \in SUBSET (1..n)
    PROVE  /\ Lists(ascending(S), Cardinality(S), S)
           /\ IsFiniteSet(S)
<1>1. PICK k, s : Lists(s, k, S)
  BY ListsExist
<1>2. S \subseteq Nat
  OBVIOUS
<1>3. k = Cardinality(S) /\ IsFiniteSet(S)
  BY <1>1, <1>2, ListsCardinality
<1>4. \E t \in [1..Cardinality(S) -> S] :
         \A i, j \in 1..Cardinality(S) : i < j => t[i] < t[j]
  BY <1>1, <1>3 DEF Lists, Ascends
<1> DEFINE a == ascending(S)
<1>5. /\ a \in [1..Cardinality(S) -> S]
      /\ \A i, j \in 1..Cardinality(S) : i < j => a[i] < a[j]
  BY <1>4 DEF ascending
<1>6. Cardinality(S) \in Nat
  BY <1>1, <1>3 DEF Lists
<1> HIDE DEF a
<1>7. Ascends(a, Cardinality(S))
  BY <1>5 DEF Ascends
<1>8. a \in Injection(1..Cardinality(S), S)
  BY <1>2, <1>5, <1>6, <1>7, AscendsInjective
<1>9. a \in Surjection(1..Cardinality(S), S)
  <2>1. Cardinality(1..Cardinality(S)) = Cardinality(S)
    BY <1>6, FS_Interval
  <2> QED
    BY <1>3, <1>8, <2>1, FS_Injection
<1>10. \A x \in S : \E i \in 1..Cardinality(S) : a[i] = x
  BY <1>9 DEF Surjection
<1>11. Lists(a, Cardinality(S), S)
  BY <1>5, <1>6, <1>7, <1>10 DEF Lists
<1> QED
  BY <1>3, <1>11 DEF a

(* To filter the list is to list the members that pass.                       *)
LEMMA FilterLists ==
    ASSUME NEW n \in Nat, NEW S \in SUBSET (1..n), NEW T \in SUBSET S,
           NEW s, s = ascending(S),
           NEW I, \A i : i \in I <=> i \in DOMAIN s /\ s[i] \in T,
           NEW picked, picked = ascending(I)
    PROVE  [k \in DOMAIN picked |-> s[picked[k]]] = ascending(T)
<1> DEFINE c == Cardinality(S)
           d == Cardinality(I)
           t == [k \in DOMAIN picked |-> s[picked[k]]]
<1>1. Lists(s, c, S)
  BY AscendingLists
<1>2. c \in Nat /\ I \in SUBSET (1..c) /\ DOMAIN s = 1..c
  BY <1>1 DEF Lists
<1>3. Lists(picked, d, I)
  <2> HIDE DEF c
  <2>2. Lists(ascending(I), Cardinality(I), I)
    BY <1>2, AscendingLists
  <2> QED
    BY <2>2
<1> HIDE DEF d, c
<1>4. d \in Nat /\ picked \in [1..d -> I] /\ DOMAIN picked = 1..d
  BY <1>3 DEF Lists
<1>5. t \in [1..d -> T]
  BY <1>4
<1>6. Ascends(t, d)
  <2>1. SUFFICES ASSUME NEW i \in 1..d, NEW j \in 1..d, i < j PROVE t[i] < t[j]
    BY DEF Ascends
  <2>2. picked[i] < picked[j]
    BY <1>3, <2>1 DEF Lists, Ascends
  <2>3. picked[i] \in 1..c /\ picked[j] \in 1..c
    BY <1>2, <1>4
  <2>4. s[picked[i]] < s[picked[j]]
    BY <1>1, <2>2, <2>3 DEF Lists, Ascends
  <2> QED
    BY <1>4, <2>4
<1>7. \A x \in T : \E k \in 1..d : t[k] = x
  <2>1. SUFFICES ASSUME NEW x \in T PROVE \E k \in 1..d : t[k] = x
    OBVIOUS
  <2>2. PICK i \in 1..c : s[i] = x
    BY <1>1 DEF Lists
  <2>3. i \in I
    BY <1>2, <2>2
  <2>4. PICK k \in 1..d : picked[k] = i
    BY <1>3, <2>3 DEF Lists
  <2> QED
    BY <1>4, <2>2, <2>4
<1>8. Lists(t, d, T)
  <2> HIDE DEF t
  <2> QED
    BY <1>4, <1>5, <1>6, <1>7 DEF Lists
<1>9. Lists(ascending(T), Cardinality(T), T) /\ T \subseteq Nat
  <2>1. T \in SUBSET (1..n) /\ T \subseteq Nat
    OBVIOUS
  <2>2. Lists(ascending(T), Cardinality(T), T)
    BY <2>1, AscendingLists
  <2> QED
    BY <2>1, <2>2
<1> HIDE DEF t
<1>10. t = ascending(T)
  BY <1>8, <1>9, ListsUnique
<1> QED
  BY <1>10 DEF t

-----------------------------------------------------------------------------
(* Windows. *)

Window(limit, offset) == offset \in Nat /\ (limit = NULL \/ limit \in Nat)

LEMMA WindowOf ==
    ASSUME NEW S, NEW s \in Seq(S), NEW limit, NEW offset, Window(limit, offset)
    PROVE  LET w == apply_window(s, limit, offset)
               stop == IF limit = NULL \/ offset + limit > Len(s) THEN Len(s) ELSE offset + limit
           IN  /\ w \in Seq(S)
               /\ Len(w) = IF offset + 1 <= stop THEN stop - offset ELSE 0
               /\ Len(w) <= Len(s)
               /\ \A i \in 1..Len(w) : offset + i \in 1..Len(s) /\ w[i] = s[offset + i]
               /\ limit = NULL /\ offset = 0 => w = s
<1> DEFINE stop == IF limit = NULL \/ offset + limit > Len(s) THEN Len(s) ELSE offset + limit
           w == apply_window(s, limit, offset)
<1>1. offset \in Nat /\ Len(s) \in Nat /\ (limit # NULL => limit \in Nat)
  BY DEF Window
<1>2. stop \in Nat /\ stop <= Len(s)
  BY <1>1
<1>3. w = SubSeq(s, offset + 1, stop)
  BY DEF apply_window
<1> HIDE DEF stop
<1>4. \A i \in (offset + 1)..stop : s[i] \in S
  BY <1>1, <1>2
<1>5. /\ SubSeq(s, offset + 1, stop) \in Seq(S)
      /\ Len(SubSeq(s, offset + 1, stop)) =
            IF offset + 1 <= stop THEN stop - (offset + 1) + 1 ELSE 0
      /\ \A i \in 1..(stop - (offset + 1) + 1) :
            SubSeq(s, offset + 1, stop)[i] = s[(offset + 1) + i - 1]
  <2>1. offset + 1 \in Int /\ stop \in Int
    BY <1>1, <1>2
  <2> QED
    BY <1>4, <2>1, SubSeqProperties
<1>6. Len(w) = IF offset + 1 <= stop THEN stop - offset ELSE 0
  BY <1>1, <1>2, <1>3, <1>5
<1>7. \A i \in 1..Len(w) : offset + i \in 1..Len(s) /\ w[i] = s[offset + i]
  <2>1. SUFFICES ASSUME NEW i \in 1..Len(w)
                 PROVE  offset + i \in 1..Len(s) /\ w[i] = s[offset + i]
    OBVIOUS
  <2> HIDE DEF w
  <2>2. offset + 1 <= stop /\ i \in 1..(stop - offset)
    BY <1>1, <1>2, <1>6, <2>1
  <2>3. i \in 1..(stop - (offset + 1) + 1) /\ (offset + 1) + i - 1 = offset + i
    BY <1>1, <1>2, <2>2
  <2>4. w[i] = s[offset + i]
    BY <1>3, <1>5, <2>3
  <2>5. offset + i \in 1..Len(s)
    BY <1>1, <1>2, <2>2
  <2> QED
    BY <2>4, <2>5
<1>8. Len(w) <= Len(s)
  <2> HIDE DEF w
  <2> QED
    BY <1>1, <1>2, <1>6
<1>9. ASSUME limit = NULL, offset = 0 PROVE w = s
  <2>1. w = SubSeq(s, 1, Len(s))
    BY <1>1, <1>3, <1>9 DEF stop
  <2> QED
    BY <2>1, SubSeqFull
<1> QED
  BY <1>3, <1>5, <1>6, <1>7, <1>8, <1>9 DEF stop

-----------------------------------------------------------------------------
(* The fence on a record: how its view is classified, what a bitmap has of it. *)

Row(rec) == rec.labelled \in BOOLEAN /\ Columns(rec) # NULL

LEMMA Decoded ==
    ASSUME NEW o, NEW rec
    PROVE  LET v == decode_values(o, rec) IN
           /\ v.oid = o /\ v.type = rec.type /\ v.key = rec.key /\ v.size = rec.size
           /\ v.labels = decode_labels(rec)
BY DEF decode_values

LEMMA ClassifyExact ==
    ASSUME NEW p, NEW o, NEW rec, Row(rec)
    PROVE  /\ _classify(p, decode_values(o, rec)) = "ok" <=> MayRead(p, rec)
           /\ _classify(p, decode_values(o, rec)) \in {"ok", "twin", "deny"}
<1> DEFINE v == decode_values(o, rec)
<1>1. v.type = rec.type /\ v.labels = decode_labels(rec)
  BY Decoded
<1>2. rec.labelled \in BOOLEAN /\ Columns(rec) # NULL
  BY DEF Row
<1> HIDE DEF v
<1>3. CASE rec.type \notin Live
  <2>1. rec.type \notin Protected
    BY <1>3, SnapshotTypes
  <2>2. decode_labels(rec) = IF rec.labelled THEN Columns(rec) ELSE NULL
    BY <1>2, <1>3, <2>1 DEF decode_labels
  <2>3. _classify(p, v) = IF v.labels = NULL \/ is_root(p) THEN "ok" ELSE "deny"
    BY <1>1, <1>3 DEF _classify
  <2>4. v.labels = NULL <=> ~rec.labelled
    BY <1>1, <1>2, <2>2
  <2>5. MayRead(p, rec) <=> ~rec.labelled \/ is_root(p)
    BY <1>3, <2>1 DEF MayRead
  <2> QED
    BY <2>3, <2>4, <2>5 DEF v
<1>4. CASE rec.type \in Live /\ rec.type \notin Protected
  <2>1. _classify(p, v) = "ok"
    BY <1>1, <1>4 DEF _classify
  <2>2. MayRead(p, rec)
    BY <1>4 DEF MayRead
  <2> QED
    BY <2>1, <2>2 DEF v
<1>5. CASE rec.type \in Live /\ rec.type \in Protected
  <2>1. CASE is_root(p)
    <3>1. _classify(p, v) = "ok"
      BY <1>1, <1>5, <2>1 DEF _classify
    <3>2. MayRead(p, rec)
      BY <2>1 DEF MayRead
    <3> QED
      BY <3>1, <3>2 DEF v
  <2>2. CASE ~is_root(p)
    <3>1. _classify(p, v) = IF can_read_row(p, v.labels.owner, v.labels.groups, v.labels.floor)
                            THEN "ok" ELSE "twin"
      BY <1>1, <1>5, <2>2 DEF _classify
    <3>2. CASE rec.labelled
      <4>1. v.labels = Columns(rec)
        BY <1>1, <1>5, <3>2 DEF decode_labels
      <4>2. v.labels.owner = rec.owner /\ v.labels.groups = rec.groups /\ v.labels.floor = rec.floor
        BY <4>1 DEF Columns
      <4>3. MayRead(p, rec) <=> can_read_row(p, rec.owner, rec.groups, rec.floor)
        BY <1>5, <2>2, <3>2 DEF MayRead
      <4> QED
        BY <3>1, <4>2, <4>3 DEF v
    <3>3. CASE ~rec.labelled
      <4>1. v.labels = LegacyLabels
        BY <1>1, <1>5, <3>3 DEF decode_labels
      <4>2. v.labels.owner = 0 /\ v.labels.groups = {WORLD} /\ v.labels.floor = VIEWER
        BY <4>1 DEF LegacyLabels
      <4>3. MayRead(p, rec) <=> can_read_row(p, 0, {WORLD}, VIEWER)
        BY <1>5, <2>2, <3>3 DEF MayRead
      <4> QED
        BY <3>1, <4>2, <4>3 DEF v
    <3> QED
      BY <1>2, <3>2, <3>3
  <2> QED
    BY <2>1, <2>2
<1> QED
  BY <1>3, <1>4, <1>5

(* The records a snapshot pins, with the shapes they were written in. *)
Pinned(recs, ts) ==
    \A o \in Present(recs) : Row(recs[o]) /\ <<recs[o].type, recs[o].labelled>> \in ts

Granted(recs, p) == {o \in Present(recs) : MayRead(p, recs[o])}

LEMMA BitmapExact ==
    ASSUME NEW c, NEW type \in Protected, NEW p, Pinned(c.recs, c.types)
    PROVE  readable_bitmap(p, build_class_indexes(c, type)) =
              IF is_root(p) THEN NULL ELSE Extent(c.recs, type) \cap Granted(c.recs, p)
<1> DEFINE ci == build_class_indexes(c, type)
           fill(o) == IF c.recs[o].labelled THEN Columns(c.recs[o]) ELSE LegacyLabels
<1>1. ci.extent = Extent(c.recs, type) /\ ci.labels = [o \in Extent(c.recs, type) |-> fill(o)]
  BY DEF build_class_indexes
<1> HIDE DEF ci
<1>2. ASSUME NEW o \in Extent(c.recs, type), ~is_root(p)
      PROVE  can_read_row(p, ci.labels[o].owner, ci.labels[o].groups, ci.labels[o].floor)
                <=> MayRead(p, c.recs[o])
  <2>1. ci.labels[o] = fill(o)
    BY <1>1
  <2>2. o \in Present(c.recs) /\ c.recs[o].type = type /\ type \in Live
    BY SnapshotTypes DEF Extent
  <2>3. c.recs[o].labelled \in BOOLEAN
    BY <2>2 DEF Pinned, Row
  <2>4. CASE c.recs[o].labelled
    <3>1. ci.labels[o].owner = c.recs[o].owner /\ ci.labels[o].groups = c.recs[o].groups
          /\ ci.labels[o].floor = c.recs[o].floor
      BY <2>1, <2>4 DEF Columns
    <3> QED
      BY <1>2, <2>2, <2>4, <3>1 DEF MayRead
  <2>5. CASE ~c.recs[o].labelled
    <3>1. ci.labels[o].owner = 0 /\ ci.labels[o].groups = {WORLD} /\ ci.labels[o].floor = VIEWER
      BY <2>1, <2>5 DEF LegacyLabels
    <3> QED
      BY <1>2, <2>2, <2>5, <3>1 DEF MayRead
  <2> QED
    BY <2>3, <2>4, <2>5
<1>3. CASE is_root(p)
  BY <1>3 DEF readable_bitmap
<1>4. CASE ~is_root(p)
  <2>1. readable_bitmap(p, ci) =
           {o \in Extent(c.recs, type) :
               can_read_row(p, ci.labels[o].owner, ci.labels[o].groups, ci.labels[o].floor)}
    BY <1>1, <1>4 DEF readable_bitmap
  <2>2. \A o \in Extent(c.recs, type) : o \in Granted(c.recs, p) <=> MayRead(p, c.recs[o])
    BY DEF Granted, Extent
  <2> QED
    BY <1>2, <1>4, <2>1, <2>2 DEF ci
<1> QED
  BY <1>3, <1>4

-----------------------------------------------------------------------------
(* What the surfaces fill in is what the pinned records give.                 *)

Referrers(recs) == [t \in Oids |-> {o \in Present(recs) : t \in recs[o].refs}]

Faithful(c) ==
    /\ DOMAIN c = CoreFields
    /\ Pinned(c.recs, c.types)
    /\ DOMAIN c.cache \subseteq Present(c.recs)
    /\ \A o \in DOMAIN c.cache : c.cache[o] = decode_values(o, c.recs[o])
    /\ \A t \in DOMAIN c.indexes : c.indexes[t] = build_class_indexes(c, t)
    /\ c.reverse \in {NotBuilt, Referrers(c.recs)}

(* The readable sets of a handle are those of its principal. *)
CompiledFor(readable, p, c) ==
    /\ DOMAIN readable \subseteq Protected
    /\ \A t \in DOMAIN readable : readable[t] = readable_bitmap(p, build_class_indexes(c, t))

SamePins(d, c) == d.recs = c.recs /\ d.types = c.types

LEMMA SameBuild ==
    ASSUME NEW c, NEW d, d.recs = c.recs, NEW t
    PROVE  build_class_indexes(d, t) = build_class_indexes(c, t)
BY DEF build_class_indexes

LEMMA FilledIsFaithful ==
    ASSUME NEW c, NEW d, Faithful(c), DOMAIN d = CoreFields, SamePins(d, c),
           DOMAIN d.cache \subseteq Present(c.recs),
           \A o \in DOMAIN d.cache : d.cache[o] = decode_values(o, c.recs[o]),
           \A t \in DOMAIN d.indexes : d.indexes[t] = build_class_indexes(c, t),
           d.reverse \in {NotBuilt, Referrers(c.recs)}
    PROVE  Faithful(d)
<1>1. d.recs = c.recs /\ d.types = c.types
  BY DEF SamePins
<1>2. \A t : build_class_indexes(d, t) = build_class_indexes(c, t)
  BY <1>1, SameBuild
<1> QED
  BY <1>1, <1>2 DEF Faithful

LEMMA LoadFaithful ==
    ASSUME NEW c, Faithful(c), NEW S
    PROVE  LET d == load_missing(c, S) IN
           /\ Faithful(d) /\ SamePins(d, c)
           /\ d.indexes = c.indexes /\ d.reverse = c.reverse
           /\ DOMAIN d.cache = DOMAIN c.cache \cup (S \cap Present(c.recs))
<1> DEFINE new == [o \in DOMAIN c.cache \cup (S \cap Present(c.recs)) |->
                     IF o \in DOMAIN c.cache THEN c.cache[o] ELSE decode_values(o, c.recs[o])]
           d == load_missing(c, S)
<1>1. d = [c EXCEPT !.cache = new]
  BY Zenon DEF load_missing
<1>2. DOMAIN c = CoreFields
  BY DEF Faithful
<1>3. /\ DOMAIN new = DOMAIN c.cache \cup (S \cap Present(c.recs))
      /\ \A o \in DOMAIN new : new[o] = decode_values(o, c.recs[o])
      /\ DOMAIN new \subseteq Present(c.recs)
  BY DEF Faithful
<1> HIDE DEF new, d
<1>4. /\ DOMAIN d = CoreFields /\ d.cache = new
      /\ d.recs = c.recs /\ d.types = c.types
      /\ d.indexes = c.indexes /\ d.reverse = c.reverse
  BY <1>1, <1>2 DEF CoreFields
<1>5. Faithful(d)
  BY <1>3, <1>4, FilledIsFaithful DEF SamePins, Faithful
<1> QED
  BY <1>3, <1>4, <1>5 DEF SamePins, d

LEMMA IndexFaithful ==
    ASSUME NEW c, Faithful(c), NEW t
    PROVE  LET d == class_indexes(c, t) IN
           /\ Faithful(d) /\ SamePins(d, c)
           /\ d.cache = c.cache /\ d.reverse = c.reverse
           /\ t \in DOMAIN d.indexes
           /\ d.indexes[t] = build_class_indexes(c, t)
<1> DEFINE new == [u \in DOMAIN c.indexes \cup {t} |->
                     IF u = t THEN build_class_indexes(c, t) ELSE c.indexes[u]]
           d == class_indexes(c, t)
<1>1. CASE t \in DOMAIN c.indexes
  <2>1. d = c
    BY <1>1 DEF class_indexes
  <2> QED
    BY <1>1, <2>1 DEF SamePins, Faithful
<1>2. CASE t \notin DOMAIN c.indexes
  <2>1. d = [c EXCEPT !.indexes = new]
    BY <1>2, Zenon DEF class_indexes
  <2>2. DOMAIN c = CoreFields
    BY DEF Faithful
  <2>3. /\ t \in DOMAIN new /\ new[t] = build_class_indexes(c, t)
        /\ \A u \in DOMAIN new : new[u] = build_class_indexes(c, u)
    BY DEF Faithful
  <2> HIDE DEF new, d
  <2>4. /\ DOMAIN d = CoreFields /\ d.indexes = new
        /\ d.recs = c.recs /\ d.types = c.types
        /\ d.cache = c.cache /\ d.reverse = c.reverse
    BY <2>1, <2>2 DEF CoreFields
  <2>5. Faithful(d)
    BY <2>3, <2>4, FilledIsFaithful DEF SamePins, Faithful
  <2> QED
    BY <2>3, <2>4, <2>5 DEF SamePins, d
<1> QED
  BY <1>1, <1>2

LEMMA ReverseFaithful ==
    ASSUME NEW c, Faithful(c)
    PROVE  LET d == ensure_reverse(c) IN
           /\ Faithful(d) /\ SamePins(d, c)
           /\ d.cache = c.cache /\ d.indexes = c.indexes
           /\ d.reverse = Referrers(c.recs)
<1> DEFINE d == ensure_reverse(c)
<1>1. CASE c.reverse # NotBuilt
  <2>1. d = c
    BY <1>1 DEF ensure_reverse
  <2> QED
    BY <1>1, <2>1 DEF SamePins, Faithful
<1>2. CASE c.reverse = NotBuilt
  <2>1. d = [c EXCEPT !.reverse = Referrers(c.recs)]
    BY <1>2, Zenon DEF ensure_reverse, Referrers
  <2>2. DOMAIN c = CoreFields
    BY DEF Faithful
  <2> HIDE DEF d
  <2>4. /\ DOMAIN d = CoreFields /\ d.reverse = Referrers(c.recs)
        /\ d.recs = c.recs /\ d.types = c.types
        /\ d.cache = c.cache /\ d.indexes = c.indexes
    BY <2>1, <2>2 DEF CoreFields
  <2>5. Faithful(d)
    BY <2>4, FilledIsFaithful DEF SamePins, Faithful
  <2> QED
    BY <2>4, <2>5 DEF SamePins, d
<1> QED
  BY <1>1, <1>2

(* Asking a handle for a class compiles the set of its principal. *)
LEMMA ReadableFor ==
    ASSUME NEW h, NEW p, NEW c, CompiledFor(h, p, c), NEW type \in Protected
    PROVE  LET g == _readable_for(h, p, build_class_indexes(c, type), type) IN
           CompiledFor(g, p, c) /\ type \in DOMAIN g
<1> DEFINE g == _readable_for(h, p, build_class_indexes(c, type), type)
           new == [t \in DOMAIN h \cup {type} |->
                     IF t = type THEN readable_bitmap(p, build_class_indexes(c, type)) ELSE h[t]]
<1>1. CASE type \in DOMAIN h
  BY <1>1 DEF _readable_for
<1>2. CASE type \notin DOMAIN h
  <2>1. g = new
    BY <1>2, Zenon DEF _readable_for
  <2>2. /\ DOMAIN new \subseteq Protected /\ type \in DOMAIN new
        /\ \A t \in DOMAIN new : new[t] = readable_bitmap(p, build_class_indexes(c, t))
    BY DEF CompiledFor
  <2> HIDE DEF new, g
  <2>3. CompiledFor(g, p, c) /\ type \in DOMAIN g
    BY <2>1, <2>2 DEF CompiledFor
  <2> QED
    BY <2>3 DEF g
<1> QED
  BY <1>1, <1>2

(* The candidates of a condition are what a scan for the principal finds.     *)
LEMMA CandidatesExact ==
    ASSUME NEW c, Faithful(c), NEW type, type \in DOMAIN c.indexes, type \in Live,
           NEW h, NEW p, CompiledFor(h, p, c), type \in Protected => type \in DOMAIN h,
           NEW key
    PROVE  Candidates(c, h, type, key) =
              {o \in Extent(c.recs, type) : (key = NULL \/ c.recs[o].key = key)
                                            /\ MayRead(p, c.recs[o])}
<1> DEFINE ci == c.indexes[type]
           E == Extent(c.recs, type)
           K == IF key = NULL THEN ci.extent ELSE IF key \in DOMAIN ci.eq THEN ci.eq[key] ELSE {}
<1>1. ci = build_class_indexes(c, type)
  BY DEF Faithful
<1>2. ci.extent = E
  BY <1>1 DEF build_class_indexes
<1>3. ci.eq = [k \in {c.recs[o].key : o \in E} |-> {o \in E : c.recs[o].key = k}]
  BY <1>1 DEF build_class_indexes
<1> HIDE DEF ci
<1>4. K = {o \in E : key = NULL \/ c.recs[o].key = key}
  <2>1. CASE key = NULL
    BY <1>2, <2>1
  <2>2. CASE key # NULL /\ key \in DOMAIN ci.eq
    BY <1>3, <2>2
  <2>3. CASE key # NULL /\ key \notin DOMAIN ci.eq
    BY <1>3, <2>3
  <2> QED
    BY <2>1, <2>2, <2>3
<1>5. Candidates(c, h, type, key) = Fenced(K, h, type)
  BY DEF Candidates, ci
<1> HIDE DEF K, E
<1>6. E \subseteq Present(c.recs) /\ E \subseteq Oids /\ \A o \in E : c.recs[o].type = type
  BY DEF E, Extent, Present
<1>7. CASE type \notin Protected
  <2>1. Fenced(K, h, type) = K
    BY <1>7 DEF Fenced
  <2>2. \A o \in E : MayRead(p, c.recs[o])
    BY <1>6, <1>7 DEF MayRead
  <2> QED
    BY <1>4, <1>5, <2>1, <2>2 DEF E
<1>8. CASE type \in Protected
  <2>1. h[type] = IF is_root(p) THEN NULL ELSE E \cap Granted(c.recs, p)
    <3>1. h[type] = readable_bitmap(p, build_class_indexes(c, type))
      BY <1>8 DEF CompiledFor
    <3>2. Pinned(c.recs, c.types)
      BY DEF Faithful
    <3> QED
      BY <1>8, <3>1, <3>2, BitmapExact DEF E
  <2>2. CASE is_root(p)
    <3>1. Fenced(K, h, type) = K
      BY <2>1, <2>2 DEF Fenced
    <3>2. \A o \in E : MayRead(p, c.recs[o])
      BY <2>2 DEF MayRead
    <3> QED
      BY <1>4, <1>5, <3>1, <3>2 DEF E
  <2>3. CASE ~is_root(p)
    <3>1. E \cap Granted(c.recs, p) # NULL
      BY <1>6, PoolRows
    <3>2. Fenced(K, h, type) = K \cap (E \cap Granted(c.recs, p))
      BY <1>8, <2>1, <2>3, <3>1 DEF Fenced
    <3>3. \A o \in E : o \in Granted(c.recs, p) <=> MayRead(p, c.recs[o])
      BY <1>6 DEF Granted
    <3> QED
      BY <1>4, <1>5, <3>2, <3>3 DEF E
  <2> QED
    BY <2>2, <2>3
<1> QED
  BY <1>7, <1>8

-----------------------------------------------------------------------------
(* The invariant behind Isolated: the cores are faithful to what they pin, and  *)
(* what a handle has compiled is its principal's.                             *)

ReaderInv(r) ==
    /\ req[r].phase = "reading" =>
          CompiledFor(req[r].readable, principal(r), snaps[req[r].at].core)
    /\ req[r].phase # "reading" => DOMAIN req[r].readable = {}

SnapInv(s) == Faithful(snaps[s].core) /\ CompiledFor(snaps[s].base, Anonymous, snaps[s].core)

DiskInv == DOMAIN disk = Oids /\ Pinned(disk, types)

ViewInv ==
    /\ DiskInv
    /\ \A s \in Snaps : SnapInv(s)
    /\ \A r \in Requests : ReaderInv(r)

LEMMA CompiledSame ==
    ASSUME NEW h, NEW p, NEW c, NEW d, CompiledFor(h, p, c), d.recs = c.recs
    PROVE  CompiledFor(h, p, d)
BY SameBuild DEF CompiledFor

LEMMA CompiledNone ==
    ASSUME NEW h, DOMAIN h = {}, NEW p, NEW c
    PROVE  CompiledFor(h, p, c)
BY DEF CompiledFor

(* What the pool does to a snapshot leaves its views alone. *)
SameView(x, y) ==
    /\ x.base = y.base
    /\ DOMAIN x.core = CoreFields
    /\ SamePins(x.core, y.core)
    /\ x.core.cache = y.core.cache /\ x.core.indexes = y.core.indexes
    /\ x.core.reverse = y.core.reverse

LEMMA SameViewKept ==
    ASSUME NEW x, NEW y, SameView(x, y),
           Faithful(y.core), CompiledFor(y.base, Anonymous, y.core)
    PROVE  Faithful(x.core) /\ CompiledFor(x.base, Anonymous, x.core)
<1>1. Faithful(x.core)
  <2>1. Faithful(y.core) /\ SamePins(x.core, y.core) /\ DOMAIN x.core = CoreFields
    BY DEF SameView
  <2>2. /\ DOMAIN x.core.cache \subseteq Present(y.core.recs)
        /\ \A o \in DOMAIN x.core.cache : x.core.cache[o] = decode_values(o, y.core.recs[o])
        /\ \A t \in DOMAIN x.core.indexes : x.core.indexes[t] = build_class_indexes(y.core, t)
        /\ x.core.reverse \in {NotBuilt, Referrers(y.core.recs)}
    BY DEF SameView, Faithful
  <2> QED
    BY <2>1, <2>2, FilledIsFaithful
<1>2. CompiledFor(x.base, Anonymous, x.core)
  BY CompiledSame DEF SameView, SamePins
<1> QED
  BY <1>1, <1>2

LEMMA LifeChanges ==
    ASSUME NEW x, SnapOK(x)
    PROVE  /\ SameView(x, x)
           /\ \A n : SameView([x EXCEPT !.refs = n], x)
           /\ SameView([x EXCEPT !.retired = TRUE], x)
           /\ \A y : SameView(y, x) /\ SnapOK(y) => SameView(Closed(y), x)
<1>1. DOMAIN x = {"core", "base", "refs", "retired"} /\ DOMAIN x.core = CoreFields
  BY DEF SnapOK, CoreFields
<1>2. SameView(x, x)
  BY <1>1 DEF SameView, SamePins
<1>3. \A n : SameView([x EXCEPT !.refs = n], x)
  BY <1>1 DEF SameView, SamePins
<1>4. SameView([x EXCEPT !.retired = TRUE], x)
  BY <1>1 DEF SameView, SamePins
<1>5. ASSUME NEW y, SameView(y, x), SnapOK(y)
      PROVE  SameView(Closed(y), x)
  <2>1. DOMAIN y = {"core", "base", "refs", "retired"} /\ DOMAIN y.core = CoreFields
    BY <1>5 DEF SnapOK, CoreFields
  <2> DEFINE z == Closed(y)
  <2>2. z = [y EXCEPT !.core = [y.core EXCEPT !.closed = TRUE]]
    BY <2>1 DEF Closed
  <2> DEFINE d == [y.core EXCEPT !.closed = TRUE]
  <2>3. /\ DOMAIN d = CoreFields /\ d.recs = y.core.recs /\ d.types = y.core.types
        /\ d.cache = y.core.cache /\ d.indexes = y.core.indexes /\ d.reverse = y.core.reverse
    BY <2>1 DEF CoreFields
  <2> HIDE DEF d
  <2>4. z.base = y.base /\ z.core = d
    BY <2>1, <2>2 DEF d
  <2> HIDE DEF z
  <2>5. SameView(z, x)
    BY <1>5, <2>3, <2>4 DEF SameView, SamePins
  <2> QED
    BY <2>5 DEF z
<1> QED
  BY <1>2, <1>3, <1>4, <1>5

(* A step of the pool or of the owner: the snapshots there are keep their        *)
(* views, those that are new have none yet, the requests keep their handles.    *)
ViewsKept ==
    /\ DOMAIN snaps \subseteq DOMAIN snaps'
    /\ \A s \in DOMAIN snaps : SameView(snaps'[s], snaps[s])
    /\ \A s \in DOMAIN snaps' \ DOMAIN snaps :
          /\ snaps'[s].core = _SnapshotCore(durable, disk, types)
          /\ snaps'[s].base = <<>>

HandleKept(r) ==
    /\ \/ /\ req'[r].phase = "reading" /\ req[r].phase = "reading"
          /\ req'[r].at = req[r].at
       \/ req[r].phase # "reading"
    /\ req'[r].p = req[r].p
    /\ req'[r].readable = req[r].readable

HandlesKept ==
    \A r \in Requests : HandleKept(r) \/ (req'[r].phase # "reading" /\ req'[r].readable = <<>>)

LEMMA NewCoreFaithful ==
    ASSUME Pinned(disk, types)
    PROVE  /\ Faithful(_SnapshotCore(durable, disk, types))
           /\ CompiledFor(<<>>, Anonymous, _SnapshotCore(durable, disk, types))
<1> DEFINE c == _SnapshotCore(durable, disk, types)
<1>1. /\ DOMAIN c = CoreFields /\ c.recs = disk /\ c.types = types
      /\ c.cache = <<>> /\ c.indexes = <<>> /\ c.reverse = NotBuilt
  BY DEF _SnapshotCore, CoreFields
<1>2. DOMAIN <<>> = {}
  OBVIOUS
<1> HIDE DEF c
<1>3. Faithful(c)
  BY <1>1, <1>2 DEF Faithful
<1>4. CompiledFor(<<>>, Anonymous, c)
  BY <1>2, CompiledNone
<1> QED
  BY <1>3, <1>4 DEF c

LEMMA ViewsKeptInv ==
    ASSUME TypeInv, ViewInv, ViewsKept, HandlesKept, DiskInv'
    PROVE  ViewInv'
<1>1. ASSUME NEW s \in Snaps'
      PROVE  SnapInv(s)'
  <2>1. CASE s \in DOMAIN snaps
    <3>1. SnapInv(s)
      BY <2>1 DEF ViewInv, Snaps
    <3>2. SameView(snaps'[s], snaps[s])
      BY <2>1 DEF ViewsKept
    <3> QED
      BY <3>1, <3>2, SameViewKept DEF SnapInv
  <2>2. CASE s \notin DOMAIN snaps
    <3>1. snaps'[s].core = _SnapshotCore(durable, disk, types) /\ snaps'[s].base = <<>>
      BY <1>1, <2>2 DEF ViewsKept, Snaps
    <3> QED
      BY <3>1, NewCoreFaithful DEF SnapInv, ViewInv, DiskInv
  <2> QED
    BY <2>1, <2>2
<1>2. ASSUME NEW r \in Requests
      PROVE  ReaderInv(r)'
  <2>1. CASE req'[r].phase # "reading" /\ req'[r].readable = <<>>
    BY <2>1 DEF ReaderInv
  <2>2. CASE HandleKept(r)
    <3>1. ReaderInv(r)
      BY DEF ViewInv
    <3>2. CASE req[r].phase = "reading"
      <4> DEFINE s == req[r].at
      <4>1. req'[r].phase = "reading" /\ req'[r].at = s /\ principal(r)' = principal(r)
            /\ req'[r].readable = req[r].readable
        BY <2>2, <3>2 DEF HandleKept, principal
      <4>2. s \in DOMAIN snaps
        BY <3>2 DEF TypeInv, Snaps
      <4>3. snaps'[s].core.recs = snaps[s].core.recs
        BY <4>2 DEF ViewsKept, SameView, SamePins
      <4>4. CompiledFor(req[r].readable, principal(r), snaps[s].core)
        BY <3>1, <3>2 DEF ReaderInv
      <4>5. CompiledFor(req[r].readable, principal(r), snaps'[s].core)
        BY <4>3, <4>4, CompiledSame
      <4> QED
        BY <4>1, <4>5 DEF ReaderInv
    <3>3. CASE req[r].phase # "reading"
      <4>1. DOMAIN req'[r].readable = {}
        BY <2>2, <3>1, <3>3 DEF ReaderInv, HandleKept
      <4> QED
        BY <4>1, CompiledNone DEF ReaderInv
    <3> QED
      BY <3>2, <3>3
  <2> QED
    BY <2>1, <2>2 DEF HandlesKept
<1> QED
  BY <1>1, <1>2 DEF ViewInv

-----------------------------------------------------------------------------

LEMMA ViewInit ==
    ASSUME Init
    PROVE  ViewInv
<1>1. DiskInv
  <2>1. disk \in Stores /\ types = {<<disk[o].type, disk[o].labelled>> : o \in Present(disk)}
    BY DEF Init
  <2>2. DOMAIN disk = Oids /\ \A o \in Present(disk) : Row(disk[o])
    BY <2>1, PoolRows DEF Row
  <2> QED
    BY <2>1, <2>2 DEF DiskInv, Pinned
<1>2. Snaps = {}
  BY DEF Init, Snaps
<1>3. \A r \in Requests : ReaderInv(r)
  <2>1. \A r \in Requests : req[r].phase = "idle" /\ req[r].readable = <<>>
    BY DEF Init, Idle
  <2>2. DOMAIN <<>> = {}
    OBVIOUS
  <2> QED
    BY <2>1, <2>2 DEF ReaderInv
<1> QED
  BY <1>1, <1>2, <1>3 DEF ViewInv

LEMMA LandPinned ==
    ASSUME DiskInv, Land
    PROVE  DiskInv'
<1>1. PICK o \in Oids, row \in Rows \cup {NoRec} :
         /\ disk' = [disk EXCEPT ![o] = row]
         /\ types' = IF row = NoRec THEN types ELSE types \cup {<<row.type, row.labelled>>}
  BY DEF Land
<1>2. DOMAIN disk = Oids /\ DOMAIN disk' = Oids
  BY <1>1 DEF DiskInv
<1>3. types \subseteq types'
  BY <1>1
<1>4. ASSUME NEW x \in Present(disk')
      PROVE  Row(disk'[x]) /\ <<disk'[x].type, disk'[x].labelled>> \in types'
  <2>1. x \in Oids /\ disk'[x] # NoRec
    BY <1>4 DEF Present
  <2>2. CASE x = o
    <3>1. disk'[x] = row
      BY <1>1, <1>2, <2>2
    <3>2. row \in Rows /\ types' = types \cup {<<row.type, row.labelled>>}
      BY <1>1, <2>1, <3>1
    <3> QED
      BY <3>1, <3>2, PoolRows DEF Row
  <2>3. CASE x # o
    <3>1. disk'[x] = disk[x]
      BY <1>1, <1>2, <2>1, <2>3
    <3>2. x \in Present(disk)
      BY <2>1, <3>1 DEF Present
    <3> QED
      BY <1>3, <3>1, <3>2 DEF DiskInv, Pinned
  <2> QED
    BY <2>2, <2>3
<1> QED
  BY <1>2, <1>4 DEF DiskInv, Pinned

LEMMA SnapViewsKept ==
    ASSUME TypeInv, NEW s \in Snaps, NEW x, SameView(x, snaps[s]), snaps' = [snaps EXCEPT ![s] = x]
    PROVE  ViewsKept
<1>1. DOMAIN snaps' = DOMAIN snaps /\ snaps'[s] = x
      /\ \A t \in DOMAIN snaps : t # s => snaps'[t] = snaps[t]
  BY DEF Snaps
<1>2. \A t \in DOMAIN snaps : SameView(snaps[t], snaps[t])
  BY LifeChanges DEF TypeInv, Snaps
<1> QED
  BY <1>1, <1>2 DEF ViewsKept

LEMMA SameViewsKept ==
    ASSUME TypeInv, snaps' = snaps
    PROVE  ViewsKept
<1>1. \A t \in DOMAIN snaps : SameView(snaps[t], snaps[t])
  BY LifeChanges DEF TypeInv, Snaps
<1> QED
  BY <1>1 DEF ViewsKept

LEMMA HandlesSame ==
    ASSUME req' = req
    PROVE  HandlesKept
BY DEF HandlesKept, HandleKept

LEMMA HandlesServed ==
    ASSUME TypeInv, ViewInv, NEW r \in Requests, Arrive(r) \/ Serve(r)
    PROVE  HandlesKept
<1>1. DOMAIN req = Requests /\ DOMAIN req[r] = DOMAIN Idle
      /\ DOMAIN Idle = {"phase", "p", "pool", "at", "since", "readable"}
      /\ Idle.phase = "idle" /\ Idle.readable = <<>>
  BY DEF TypeInv, ReqOK, Idle
<1>2. ASSUME NEW q, req' = [req EXCEPT ![r] = q],
             \/ q.phase # "reading" /\ q.readable = <<>>
             \/ req[r].phase # "reading" /\ q.p = req[r].p /\ q.readable = req[r].readable
      PROVE  HandlesKept
  <2>1. req'[r] = q /\ \A x \in Requests : x # r => req'[x] = req[x]
    BY <1>1, <1>2
  <2> QED
    BY <1>2, <2>1 DEF HandlesKept, HandleKept
<1>3. CASE Arrive(r)
  <2>1. PICK p : req' = [req EXCEPT ![r] = [Idle EXCEPT !.phase = "start", !.p = p,
                                                       !.since = last_tid]]
    BY <1>3 DEF Arrive
  <2> DEFINE q == [Idle EXCEPT !.phase = "start", !.p = p, !.since = last_tid]
  <2>2. q.phase = "start" /\ q.readable = <<>>
    BY <1>1
  <2> QED
    BY <1>2, <2>1, <2>2
<1>4. ASSUME NEW f, req[r].phase # "reading",
             \/ \E k : req' = [req EXCEPT ![r] = [req[r] EXCEPT !.phase = f, !.pool = k]]
             \/ \E k : req' = [req EXCEPT ![r] = [req[r] EXCEPT !.phase = f, !.at = k]]
             \/ req' = [req EXCEPT ![r] = [req[r] EXCEPT !.phase = f]]
      PROVE  HandlesKept
  <2>1. \A k : LET q == [req[r] EXCEPT !.phase = f, !.pool = k] IN
               q.p = req[r].p /\ q.readable = req[r].readable
    BY <1>1
  <2>2. \A k : LET q == [req[r] EXCEPT !.phase = f, !.at = k] IN
               q.p = req[r].p /\ q.readable = req[r].readable
    BY <1>1
  <2>3. LET q == [req[r] EXCEPT !.phase = f] IN
        q.p = req[r].p /\ q.readable = req[r].readable
    BY <1>1
  <2> QED
    BY <1>2, <1>4, <2>1, <2>2, <2>3
<1>5. CASE _get_pool(r)
  <2>1. req[r].phase # "reading"
        /\ req' = [req EXCEPT ![r] = [req[r] EXCEPT !.phase = IF pool = 0 THEN "create"
                                                              ELSE "acquire",
                                                    !.pool = pool]]
    BY <1>5 DEF _get_pool
  <2> QED
    BY <1>4, <2>1
<1>6. CASE CreatePool(r)
  <2>1. req[r].phase # "reading"
        /\ req' = [req EXCEPT ![r] = [req[r] EXCEPT !.phase = "acquire", !.pool = pool']]
    BY <1>6 DEF CreatePool
  <2> QED
    BY <1>4, <2>1
<1>7. CASE AcquireShared(r)
  <2>1. req[r].phase # "reading"
        /\ req' = [req EXCEPT ![r] = [req[r] EXCEPT !.phase = "reading",
                                                    !.at = current[req[r].pool]]]
    BY <1>7 DEF AcquireShared
  <2> QED
    BY <1>4, <2>1
<1>8. CASE AcquireStale(r)
  <2>1. req[r].phase # "reading"
        /\ req' = [req EXCEPT ![r] = [req[r] EXCEPT !.phase = "pin"]]
    BY <1>8 DEF AcquireStale
  <2> QED
    BY <1>4, <2>1
<1>9. CASE AcquirePinned(r)
  <2>1. req[r].phase # "reading"
        /\ req' = [req EXCEPT ![r] = [req[r] EXCEPT !.phase = "reading", !.at = Len(snaps) + 1]]
    BY <1>9 DEF AcquirePinned
  <2> QED
    BY <1>4, <2>1
<1>10. CASE AcquireFails(r) \/ release(r)
  <2>1. req' = [req EXCEPT ![r] = Idle]
    BY <1>10 DEF AcquireFails, release
  <2> QED
    BY <1>1, <1>2, <2>1
<1> QED
  BY <1>3, <1>5, <1>6, <1>7, <1>8, <1>9, <1>10 DEF Serve

LEMMA ViewsServed ==
    ASSUME TypeInv, NEW r \in Requests, Arrive(r) \/ Serve(r)
    PROVE  ViewsKept
<1>1. CASE Arrive(r) \/ _get_pool(r) \/ CreatePool(r)
  <2>1. snaps' = snaps
    BY <1>1 DEF Arrive, _get_pool, CreatePool, poolVars
  <2> QED
    BY <2>1, SameViewsKept
<1>2. CASE AcquireFails(r)
  BY <1>2, SameViewsKept DEF AcquireFails
<1>3. ASSUME NEW k \in 1..Len(current), current[k] # 0
      PROVE  current[k] \in Snaps /\ SnapOK(snaps[current[k]])
  BY <1>3, CurrentSnap DEF TypeInv
<1>4. CASE AcquireShared(r)
  <2> DEFINE s == current[req[r].pool]
  <2>1. s \in Snaps /\ SnapOK(snaps[s])
    BY <1>3, <1>4 DEF AcquireShared, TypeInv, ReqOK
  <2>2. snaps' = [snaps EXCEPT ![s] = [snaps[s] EXCEPT !.refs = snaps[s].refs + 1]]
    BY <1>4 DEF AcquireShared
  <2>3. SameView([snaps[s] EXCEPT !.refs = snaps[s].refs + 1], snaps[s])
    BY <2>1, LifeChanges
  <2> QED
    BY <2>1, <2>2, <2>3, SnapViewsKept
<1>5. CASE AcquireStale(r)
  <2> DEFINE s == current[req[r].pool]
  <2>1. CASE s = 0
    <3>1. snaps' = snaps
      BY <1>5, <2>1 DEF AcquireStale
    <3> QED
      BY <3>1, SameViewsKept
  <2>2. CASE s # 0
    <3>1. s \in Snaps /\ SnapOK(snaps[s])
      BY <1>3, <1>5, <2>2 DEF AcquireStale, TypeInv, ReqOK
    <3>2. snaps' = [snaps EXCEPT ![s] = IF snaps[s].refs <= 0 THEN Closed(Retired(s))
                                        ELSE Retired(s)]
      BY <1>5, <2>2, <3>1, SnapChanges DEF AcquireStale
    <3>3. SameView(Retired(s), snaps[s]) /\ SnapOK(Retired(s))
      BY <3>1, LifeChanges, SnapChanges DEF Retired
    <3>4. SameView(Closed(Retired(s)), snaps[s])
      BY <3>1, <3>3, LifeChanges
    <3> QED
      BY <3>1, <3>2, <3>3, <3>4, SnapViewsKept
  <2> QED
    BY <2>1, <2>2
<1>6. CASE AcquirePinned(r)
  <2> DEFINE new == [_PooledSnapshot EXCEPT !.refs = 1]
  <2>1. new.core = _SnapshotCore(durable, disk, types) /\ new.base = <<>>
    <3> DEFINE core == _SnapshotCore(durable, disk, types)
    <3> HIDE DEF core
    <3>1. _PooledSnapshot = [core |-> core, base |-> <<>>, refs |-> 0, retired |-> FALSE]
      BY DEF _PooledSnapshot, core
    <3>2. new.core = core /\ new.base = <<>>
      BY <3>1
    <3> QED
      BY <3>2 DEF core
  <2>2. snaps' = Append(snaps, new) /\ snaps \in Seq(Range(snaps))
    BY <1>6 DEF AcquirePinned, TypeInv
  <2> HIDE DEF new
  <2>3. /\ DOMAIN snaps' = DOMAIN snaps \cup {Len(snaps) + 1}
        /\ \A i \in DOMAIN snaps : snaps'[i] = snaps[i]
        /\ snaps'[Len(snaps) + 1] = new
    BY <2>2, SeqAppended
  <2>4. \A t \in DOMAIN snaps : SameView(snaps[t], snaps[t])
    BY LifeChanges DEF TypeInv, Snaps
  <2> QED
    BY <2>1, <2>3, <2>4 DEF ViewsKept
<1>7. CASE release(r)
  <2> DEFINE s == req[r].at
             n == snaps[s].refs - 1
  <2>1. s \in Snaps /\ SnapOK(snaps[s]) /\ n \in Int
    BY <1>7, SMTT(30) DEF release, TypeInv, SnapOK
  <2>2. snaps' = [snaps EXCEPT ![s] = IF snaps[s].retired /\ n <= 0 THEN Closed(Counted(s, n))
                                      ELSE Counted(s, n)]
    BY <1>7, <2>1, SnapChanges DEF release
  <2>3. SameView(Counted(s, n), snaps[s]) /\ SnapOK(Counted(s, n))
    <3> HIDE DEF n
    <3> QED
      BY <2>1, LifeChanges, SnapChanges DEF Counted
  <2> HIDE DEF n
  <2>4. SameView(Closed(Counted(s, n)), snaps[s])
    BY <2>1, <2>3, LifeChanges
  <2> QED
    BY <2>1, <2>2, <2>3, <2>4, SnapViewsKept
<1> QED
  BY <1>1, <1>2, <1>4, <1>5, <1>6, <1>7 DEF Serve

LEMMA ViewsClosed ==
    ASSUME TypeInv, PoolClose
    PROVE  ViewsKept
<1>1. CASE wired /\ current[pool] # 0
  <2> DEFINE s == current[pool]
  <2>1. pool \in 1..Len(current)
    BY <1>1 DEF PoolClose, TypeInv
  <2>2. s \in Snaps /\ SnapOK(snaps[s])
    BY <1>1, <2>1, CurrentSnap DEF TypeInv
  <2>3. snaps' = [snaps EXCEPT ![s] = Closed(snaps[s])]
    BY <1>1, <2>2, SnapChanges DEF PoolClose
  <2>4. SameView(Closed(snaps[s]), snaps[s])
    BY <2>2, LifeChanges
  <2> QED
    BY <2>2, <2>3, <2>4, SnapViewsKept
<1>2. CASE ~(wired /\ current[pool] # 0)
  BY <1>2, SameViewsKept DEF PoolClose
<1> QED
  BY <1>1, <1>2

-----------------------------------------------------------------------------
(* What a reader works with. *)

LEMMA ReaderFacts ==
    ASSUME TypeInv, ViewInv, NEW r \in Requests, req[r].phase = "reading"
    PROVE  LET core == snaps[req[r].at].core IN
           /\ req[r].at \in Snaps
           /\ Faithful(core)
           /\ CompiledFor(handle(r), principal(r), core)
<1> DEFINE s == req[r].at
<1>1. s \in Snaps
  BY DEF TypeInv
<1>2. SnapInv(s) /\ ReaderInv(r)
  BY <1>1 DEF ViewInv
<1> QED
  BY <1>1, <1>2 DEF SnapInv, ReaderInv, handle, principal

LEMMA AskedFacts ==
    ASSUME TypeInv, ViewInv, NEW r \in Requests, req[r].phase = "reading", NEW type
    PROVE  LET core == snaps[req[r].at].core
               c == Indexed(r, type)
               h == Compiled(r, type)
           IN  /\ Faithful(c) /\ SamePins(c, core)
               /\ type \in DOMAIN c.indexes
               /\ CompiledFor(h, principal(r), core) /\ CompiledFor(h, principal(r), c)
               /\ type \in Protected => type \in DOMAIN h
<1> DEFINE core == snaps[req[r].at].core
           c == Indexed(r, type)
           h == Compiled(r, type)
<1>1. Faithful(core) /\ CompiledFor(handle(r), principal(r), core)
  BY ReaderFacts
<1>2. /\ Faithful(c) /\ SamePins(c, core)
      /\ type \in DOMAIN c.indexes
      /\ c.indexes[type] = build_class_indexes(core, type)
  BY <1>1, IndexFaithful DEF Indexed
<1>3. CompiledFor(h, principal(r), core) /\ (type \in Protected => type \in DOMAIN h)
  <2>1. CASE type \notin Protected
    BY <1>1, <2>1 DEF Compiled
  <2>2. CASE type \in Protected
    <3>1. h = _readable_for(handle(r), principal(r), build_class_indexes(core, type), type)
      BY <1>2, <2>2 DEF Compiled
    <3> HIDE DEF h
    <3> QED
      BY <1>1, <2>2, <3>1, ReadableFor
  <2> QED
    BY <2>1, <2>2
<1>4. CompiledFor(h, principal(r), c)
  <2>1. c.recs = core.recs
    BY <1>2 DEF SamePins
  <2> HIDE DEF h, c, core
  <2> QED
    BY <1>3, <2>1, CompiledSame
<1> QED
  BY <1>2, <1>3, <1>4

LEMMA QueriedFacts ==
    ASSUME TypeInv, ViewInv, NEW r \in Requests, req[r].phase = "reading", NEW q
    PROVE  LET c == Indexed(r, q.type)
               w == Windowed(c, Compiled(r, q.type), q.type, q)
               d == Queried(r, q)
           IN  /\ Faithful(d) /\ SamePins(d, c) /\ SamePins(d, snaps[req[r].at].core)
               /\ d.indexes = c.indexes
               /\ {w[i] : i \in DOMAIN w} \cap Present(c.recs) \subseteq DOMAIN d.cache
<1> DEFINE c == Indexed(r, q.type)
           w == Windowed(c, Compiled(r, q.type), q.type, q)
           d == Queried(r, q)
           W == {w[i] : i \in DOMAIN w}
<1>1. Faithful(c) /\ SamePins(c, snaps[req[r].at].core)
  BY AskedFacts
<1>2. d = load_missing(c, W)
  BY DEF Queried
<1> HIDE DEF c, W
<1>3. /\ Faithful(d) /\ SamePins(d, c) /\ d.indexes = c.indexes
      /\ DOMAIN d.cache = DOMAIN c.cache \cup (W \cap Present(c.recs))
  BY <1>1, <1>2, LoadFaithful
<1> HIDE DEF d
<1>4. SamePins(d, snaps[req[r].at].core)
  BY <1>1, <1>3 DEF SamePins
<1> QED
  BY <1>3, <1>4 DEF c, d, W

LEMMA ReversedFacts ==
    ASSUME TypeInv, ViewInv, NEW r \in Requests, req[r].phase = "reading"
    PROVE  LET core == snaps[req[r].at].core
               c == Reversed(r)
           IN  /\ Faithful(c) /\ SamePins(c, core)
               /\ c.reverse = Referrers(core.recs)
               /\ \A t \in Oids : c.reverse[t] \subseteq DOMAIN c.cache
<1> DEFINE core == snaps[req[r].at].core
           c == Reversed(r)
           d == ensure_reverse(core)
           W == UNION {d.reverse[t] : t \in Oids}
<1>1. Faithful(core)
  BY ReaderFacts
<1>2. Faithful(d) /\ SamePins(d, core) /\ d.reverse = Referrers(core.recs)
  BY <1>1, ReverseFaithful
<1>3. c = load_missing(d, W)
  BY DEF Reversed
<1>4. \A t \in Oids : d.reverse[t] \subseteq W
  OBVIOUS
<1> HIDE DEF W, d
<1>5. /\ Faithful(c) /\ SamePins(c, d) /\ c.reverse = d.reverse
      /\ DOMAIN c.cache = DOMAIN d.cache \cup (W \cap Present(d.recs))
  BY <1>2, <1>3, LoadFaithful
<1> HIDE DEF c
<1>6. \A t \in Oids : c.reverse[t] \subseteq Present(d.recs)
  BY <1>2, <1>5 DEF Referrers, SamePins
<1>7. \A t \in Oids : c.reverse[t] \subseteq DOMAIN c.cache
  BY <1>4, <1>5, <1>6
<1>8. SamePins(c, core)
  BY <1>2, <1>5 DEF SamePins
<1> QED
  BY <1>2, <1>5, <1>7, <1>8 DEF c

(* A surface fills in the core it reads and compiles for its own principal.   *)
FillsIn(r, c, h) ==
    LET s == req[r].at IN
    /\ DOMAIN snaps' = DOMAIN snaps /\ snaps'[s].core = c
    /\ \A t \in Snaps : t # s => snaps'[t] = snaps[t]
    /\ \/ snaps'[s].base = snaps[s].base
       \/ req[r].p = NULL /\ snaps'[s].base = h
    /\ \A x \in Requests : /\ req'[x].p = req[x].p /\ req'[x].phase = req[x].phase
                           /\ req'[x].at = req[x].at
                           /\ x # r => req'[x].readable = req[x].readable
    /\ \/ req'[r].readable = req[r].readable
       \/ req[r].p # NULL /\ req'[r].readable = h
    /\ UNCHANGED <<disk, types>>

LEMMA SurfaceInv ==
    ASSUME TypeInv, ViewInv, NEW r \in Requests, req[r].phase = "reading",
           NEW c, Faithful(c), SamePins(c, snaps[req[r].at].core),
           NEW h, CompiledFor(h, principal(r), snaps[req[r].at].core),
           FillsIn(r, c, h)
    PROVE  ViewInv'
<1> SUFFICES ASSUME NEW s, s = req[r].at PROVE ViewInv'
  OBVIOUS
<1> USE DEF FillsIn
<1>1. s \in Snaps /\ CompiledFor(handle(r), principal(r), snaps[s].core)
  BY ReaderFacts
<1>2. \A t \in Snaps : snaps'[t].core.recs = snaps[t].core.recs
  BY <1>1 DEF SamePins
<1>3. \A x \in Requests : principal(x)' = principal(x)
  BY DEF principal
<1>4. ASSUME NEW t \in Snaps
      PROVE  SnapInv(t)'
  <2>1. CASE t # s
    BY <2>1 DEF ViewInv, SnapInv
  <2>2. CASE t = s
    <3>1. CompiledFor(snaps[s].base, Anonymous, snaps[s].core)
      BY <1>1 DEF ViewInv, SnapInv
    <3>2. CompiledFor(snaps'[s].base, Anonymous, snaps[s].core)
      BY <3>1 DEF principal
    <3>3. CompiledFor(snaps'[s].base, Anonymous, snaps'[s].core)
      BY <1>1, <1>2, <3>2, CompiledSame
    <3> QED
      BY <2>2, <3>3 DEF SnapInv
  <2> QED
    BY <2>1, <2>2
<1>5. ASSUME NEW x \in Requests
      PROVE  ReaderInv(x)'
  <2>1. ReaderInv(x)
    BY DEF ViewInv
  <2>2. CASE req[x].phase # "reading"
    <3>1. x # r
      BY <2>2
    <3> QED
      BY <2>1, <2>2, <3>1 DEF ReaderInv
  <2>3. CASE req[x].phase = "reading"
    <3> DEFINE t == req[x].at
    <3>1. t \in Snaps /\ CompiledFor(req[x].readable, principal(x), snaps[t].core)
      BY <2>1, <2>3 DEF ReaderInv, TypeInv
    <3>2. CompiledFor(req'[x].readable, principal(x), snaps[t].core)
      BY <3>1
    <3>3. CompiledFor(req'[x].readable, principal(x), snaps'[t].core)
      BY <1>2, <3>1, <3>2, CompiledSame
    <3> QED
      BY <1>3, <2>3, <3>3 DEF ReaderInv
  <2> QED
    BY <2>2, <2>3
<1>6. DiskInv'
  BY DEF ViewInv, DiskInv, Pinned, Present
<1>7. Snaps' = Snaps
  BY DEF Snaps
<1> QED
  BY <1>4, <1>5, <1>6, <1>7 DEF ViewInv

LEMMA ViewSurface ==
    ASSUME TypeInv, ViewInv, NEW r \in Requests, SurfaceStep(r)
    PROVE  ViewInv'
<1> DEFINE s == req[r].at
           core == snaps[s].core
           H == handle(r)
<1>1. /\ req[r].phase = "reading"
      /\ s \in Snaps /\ s \in DOMAIN snaps
      /\ DOMAIN snaps[s] = {"core", "base", "refs", "retired"}
      /\ DOMAIN req = Requests /\ DOMAIN req[r] = DOMAIN Idle
      /\ DOMAIN Idle = {"phase", "p", "pool", "at", "since", "readable"}
  BY DEF SurfaceStep, Deref, Query, Incoming, Serving, TypeInv, SnapOK, ReqOK, Idle, Snaps
<1>2. Faithful(core) /\ CompiledFor(H, principal(r), core)
  BY <1>1, ReaderFacts
<1> HIDE DEF H
<1>3. UNCHANGED <<disk, types>>
  BY SurfaceEffects DEF storeVars
<1>4. ASSUME NEW c, Faithful(c), SamePins(c, core), snaps' = [snaps EXCEPT ![s].core = c],
             req' = req
      PROVE  ViewInv'
  <2>1. /\ DOMAIN snaps' = DOMAIN snaps
        /\ snaps'[s].core = c /\ snaps'[s].base = snaps[s].base
        /\ \A t \in Snaps : t # s => snaps'[t] = snaps[t]
    BY <1>1, <1>4 DEF Snaps
  <2>2. FillsIn(r, c, H)
    BY <1>3, <1>4, <2>1 DEF FillsIn
  <2> QED
    BY <1>1, <1>2, <1>4, <2>2, SurfaceInv
<1>5. CASE \E o \in Oids : Deref(r, {o})
  <2>1. PICK o \in Oids : Deref(r, {o})
    BY <1>5
  <2>2. snaps' = [snaps EXCEPT ![s].core = load_missing(core, {o})] /\ req' = req
    BY <2>1 DEF Deref
  <2>3. PICK c : c = load_missing(core, {o})
    OBVIOUS
  <2>4. Faithful(c) /\ SamePins(c, core)
    BY <1>2, <2>3, LoadFaithful
  <2> QED
    BY <1>4, <2>2, <2>3, <2>4
<1>6. CASE Incoming(r)
  <2>1. snaps' = [snaps EXCEPT ![s].core = Reversed(r)] /\ req' = req
    BY <1>6 DEF Incoming
  <2>2. Faithful(Reversed(r)) /\ SamePins(Reversed(r), core)
    BY <1>1, ReversedFacts
  <2> QED
    BY <1>4, <2>1, <2>2
<1>7. CASE Query(r)
  <2>1. PICK q \in Asked :
           LET h == Compiled(r, q.type)
               c == Queried(r, q)
           IN  /\ snaps' = [snaps EXCEPT ![s].core = c,
                                         ![s].base = IF req[r].p = NULL THEN h ELSE @]
               /\ req' = [req EXCEPT ![r].readable = IF req[r].p = NULL THEN @ ELSE h]
    BY <1>7 DEF Query
  <2>2. PICK h, c : h = Compiled(r, q.type) /\ c = Queried(r, q)
    OBVIOUS
  <2>3. Faithful(c) /\ SamePins(c, core)
    BY <1>1, <2>2, QueriedFacts
  <2>4. CompiledFor(h, principal(r), core)
    BY <1>1, <2>2, AskedFacts
  <2>5. /\ snaps' = [snaps EXCEPT ![s].core = c,
                                  ![s].base = IF req[r].p = NULL THEN h ELSE @]
        /\ req' = [req EXCEPT ![r].readable = IF req[r].p = NULL THEN @ ELSE h]
    BY <2>1, <2>2
  <2>6. /\ DOMAIN snaps' = DOMAIN snaps
        /\ \A t \in Snaps : t # s => snaps'[t] = snaps[t]
        /\ snaps'[s].core = c
        /\ snaps'[s].base = IF req[r].p = NULL THEN h ELSE snaps[s].base
    BY <1>1, <2>5 DEF Snaps
  <2>7. /\ \A x \in Requests : /\ req'[x].p = req[x].p /\ req'[x].phase = req[x].phase
                               /\ req'[x].at = req[x].at
        /\ \A x \in Requests : x # r => req'[x].readable = req[x].readable
        /\ req'[r].readable = IF req[r].p = NULL THEN req[r].readable ELSE h
    BY <1>1, <2>5
  <2>8. FillsIn(r, c, h)
    BY <1>3, <2>6, <2>7 DEF FillsIn
  <2> QED
    BY <1>1, <2>3, <2>4, <2>8, SurfaceInv
<1> QED
  BY <1>5, <1>6, <1>7 DEF SurfaceStep

LEMMA ViewStep ==
    ASSUME TypeInv, ViewInv, [Next]_vars
    PROVE  ViewInv'
<1>1. CASE Land
  <2>1. snaps' = snaps /\ req' = req /\ DiskInv'
    BY <1>1, LandPinned DEF Land, poolVars, ViewInv
  <2> QED
    BY <2>1, SameViewsKept, HandlesSame, ViewsKeptInv
<1>2. CASE Finalize \/ StoreClose \/ UNCHANGED vars
  <2>1. snaps' = snaps /\ req' = req /\ UNCHANGED <<disk, types>>
    BY <1>2 DEF Finalize, StoreClose, vars, poolVars, storeVars
  <2>2. DiskInv'
    BY <2>1 DEF ViewInv, DiskInv, Pinned, Present
  <2> QED
    BY <2>1, <2>2, SameViewsKept, HandlesSame, ViewsKeptInv
<1>3. CASE PoolClose
  <2>1. req' = req /\ UNCHANGED <<disk, types>>
    BY <1>3 DEF PoolClose
  <2>2. DiskInv'
    BY <2>1 DEF ViewInv, DiskInv, Pinned, Present
  <2> QED
    BY <1>3, <2>1, <2>2, ViewsClosed, HandlesSame, ViewsKeptInv
<1>4. ASSUME NEW r \in Requests, Arrive(r) \/ Serve(r)
      PROVE  ViewInv'
  <2>1. UNCHANGED <<disk, types>>
    BY <1>4 DEF Serve, Arrive, _get_pool, CreatePool, AcquireShared, AcquireStale,
                AcquirePinned, AcquireFails, release, storeVars
  <2>2. DiskInv'
    BY <2>1 DEF ViewInv, DiskInv, Pinned, Present
  <2> QED
    BY <1>4, <2>2, ViewsServed, HandlesServed, ViewsKeptInv
<1> QED
  BY <1>1, <1>2, <1>3, <1>4, ViewSurface DEF Next, SurfaceStep

-----------------------------------------------------------------------------
(* What the surfaces answer from a faithful core. *)

LEMMA RefusedIs == \A x : Refused # [views |-> x] /\ Refused # [postings |-> x]
<1>1. ASSUME NEW x, Refused = [views |-> x] \/ Refused = [postings |-> x]
      PROVE  FALSE
  <2>1. DOMAIN Refused = {"answer"}
    BY DEF Refused
  <2>2. DOMAIN [views |-> x] = {"views"} /\ DOMAIN [postings |-> x] = {"postings"}
    OBVIOUS
  <2> QED
    BY <1>1, <2>1, <2>2
<1> QED
  BY <1>1

LEMMA GrantedOk ==
    ASSUME NEW c, Faithful(c), NEW p, NEW o \in DOMAIN c.cache
    PROVE  /\ o \in Present(c.recs)
           /\ _classify(p, c.cache[o]) = "ok" <=> o \in Granted(c.recs, p)
           /\ c.cache[o] = decode_values(o, c.recs[o])
<1>1. o \in Present(c.recs) /\ c.cache[o] = decode_values(o, c.recs[o]) /\ Row(c.recs[o])
  BY DEF Faithful, Pinned
<1>2. _classify(p, c.cache[o]) = "ok" <=> MayRead(p, c.recs[o])
  BY <1>1, ClassifyExact
<1> QED
  BY <1>1, <1>2 DEF Granted

LEMMA GetsExact ==
    ASSUME NEW c, Faithful(c), Present(c.recs) \subseteq DOMAIN c.cache, NEW p, NEW o \in Oids
    PROVE  /\ o \in Granted(c.recs, p) <=> open_blob(c, p, o)
           /\ o \in Granted(c.recs, p) => /\ get(c, p, o) = get_many(c, p, o)
                                          /\ get(c, p, o).key = c.recs[o].key
           /\ o \notin Granted(c.recs, p) => get(c, p, o) \in {Dangling, Refused}
<1>1. CASE o \notin DOMAIN c.cache
  <2>1. o \notin Granted(c.recs, p)
    BY <1>1 DEF Granted
  <2>2. get(c, p, o) = Dangling /\ ~open_blob(c, p, o)
    BY <1>1 DEF get, open_blob
  <2> QED
    BY <2>1, <2>2
<1>2. CASE o \in DOMAIN c.cache
  <2>1. /\ _classify(p, c.cache[o]) = "ok" <=> o \in Granted(c.recs, p)
        /\ c.cache[o] = decode_values(o, c.recs[o])
    BY <1>2, GrantedOk
  <2>2. open_blob(c, p, o) <=> _classify(p, c.cache[o]) = "ok"
    BY <1>2 DEF open_blob
  <2>3. get(c, p, o) = IF _classify(p, c.cache[o]) = "ok" THEN c.cache[o] ELSE Refused
    BY <1>2 DEF get
  <2>4. ASSUME _classify(p, c.cache[o]) = "ok"
        PROVE  get_many(c, p, o) = c.cache[o]
    BY <1>2, <2>4 DEF get_many
  <2>5. c.cache[o].key = c.recs[o].key
    BY <2>1, Decoded
  <2> QED
    BY <2>1, <2>2, <2>3, <2>4, <2>5
<1> QED
  BY <1>1, <1>2

LEMMA IncomingExact ==
    ASSUME NEW c, Faithful(c), c.reverse = Referrers(c.recs), NEW p, NEW t \in Oids,
           c.reverse[t] \subseteq DOMAIN c.cache
    PROVE  incoming(c, p, t) =
              {o \in Present(c.recs) : t \in c.recs[o].refs /\ o \in Granted(c.recs, p)}
<1>1. c.reverse[t] = {o \in Present(c.recs) : t \in c.recs[o].refs}
  BY DEF Referrers
<1>2. \A o \in c.reverse[t] : _classify(p, c.cache[o]) = "ok" <=> o \in Granted(c.recs, p)
  BY GrantedOk
<1> QED
  BY <1>1, <1>2 DEF incoming

(* A type whose rows carry no label columns is open to all without its class. *)
LEMMA OpenType ==
    ASSUME NEW c, Faithful(c), NEW p, NEW type, type \notin Protected,
           ~no_live_class_fenced(c, type) \/ is_root(p)
    PROVE  \A o \in Extent(c.recs, type) : MayRead(p, c.recs[o])
<1> SUFFICES ASSUME NEW o \in Extent(c.recs, type) PROVE MayRead(p, c.recs[o])
  OBVIOUS
<1>1. /\ c.recs[o].type = type /\ c.recs[o].labelled \in BOOLEAN
      /\ <<c.recs[o].type, c.recs[o].labelled>> \in c.types
  BY DEF Faithful, Pinned, Extent, Row
<1>2. CASE is_root(p) \/ type \in Live
  BY <1>1, <1>2 DEF MayRead
<1>3. CASE type \notin Live /\ <<type, TRUE>> \notin c.types
  <2>1. ~c.recs[o].labelled
    BY <1>1, <1>3
  <2> QED
    BY <1>1, <1>3, <2>1 DEF MayRead
<1> QED
  BY <1>2, <1>3 DEF no_live_class_fenced

LEMMA AllExact ==
    ASSUME NEW c, Faithful(c), NEW type, type \in DOMAIN c.indexes,
           NEW h, NEW p, CompiledFor(h, p, c), type \in Protected => type \in DOMAIN h
    PROVE  LET listed == all(c, p, h, type) IN
           /\ listed = Refused => no_live_class_fenced(c, type) /\ ~is_root(p)
           /\ listed # Refused =>
                 {v.oid : v \in listed.views} =
                    {o \in Extent(c.recs, type) : o \in Granted(c.recs, p)}
<1> DEFINE shown == IF type \in Protected THEN Candidates(c, h, type, NULL)
                    ELSE Extent(c.recs, type)
           views == {decode_values(o, c.recs[o]) : o \in shown}
           listed == all(c, p, h, type)
<1>1. CASE no_live_class_fenced(c, type) /\ ~is_root(p)
  BY <1>1 DEF all
<1>2. CASE ~(no_live_class_fenced(c, type) /\ ~is_root(p))
  <2>1. listed = [views |-> views]
    BY <1>2 DEF all
  <2>2. {v.oid : v \in views} = shown
    <3> HIDE DEF shown
    <3>1. \A o : decode_values(o, c.recs[o]).oid = o
      BY Decoded
    <3> QED
      BY <3>1
  <2>3. shown = {o \in Extent(c.recs, type) : o \in Granted(c.recs, p)}
    <3>0. \A o \in Extent(c.recs, type) : o \in Granted(c.recs, p) <=> MayRead(p, c.recs[o])
      BY DEF Granted, Extent
    <3>1. CASE type \in Protected
      <4>1. Candidates(c, h, type, NULL) =
              {o \in Extent(c.recs, type) : (NULL = NULL \/ c.recs[o].key = NULL)
                                            /\ MayRead(p, c.recs[o])}
        BY <3>1, SnapshotTypes, CandidatesExact
      <4> QED
        BY <3>0, <3>1, <4>1
    <3>2. CASE type \notin Protected
      <4>1. \A o \in Extent(c.recs, type) : MayRead(p, c.recs[o])
        BY <1>2, <3>2, OpenType
      <4> QED
        BY <3>0, <3>2, <4>1
    <3> QED
      BY <3>1, <3>2
  <2> HIDE DEF views, listed
  <2>4. listed # Refused /\ listed.views = views
    BY <2>1, RefusedIs
  <2> QED
    BY <2>2, <2>3, <2>4 DEF listed
<1> QED
  BY <1>1, <1>2

LEMMA StreamExact ==
    ASSUME NEW c, Faithful(c), NEW p, NEW type, _stream(c, p, type) # Refused
    PROVE  \A o \in Extent(c.recs, type) : MayRead(p, c.recs[o])
<1>1. ~((type \in Protected \/ no_live_class_fenced(c, type)) /\ ~is_root(p))
  BY DEF _stream
<1>2. CASE is_root(p)
  BY <1>2 DEF MayRead
<1>3. CASE type \notin Protected /\ ~no_live_class_fenced(c, type)
  BY <1>3, OpenType
<1> QED
  BY <1>1, <1>2, <1>3

-----------------------------------------------------------------------------
(* Queries. *)

(* A window over views shows the identities a window over the list has. *)
LEMMA WindowOids ==
    ASSUME NEW V, NEW g \in Seq(V), NEW S, NEW s \in Seq(S), Len(g) = Len(s),
           \A i \in 1..Len(s) : g[i].oid = s[i],
           NEW limit, NEW offset, Window(limit, offset)
    PROVE  LET found == apply_window(g, limit, offset)
               w == apply_window(s, limit, offset)
           IN  [i \in DOMAIN found |-> found[i].oid] = w /\ Len(found) = Len(w)
<1>1. PICK found, w : found = apply_window(g, limit, offset) /\ w = apply_window(s, limit, offset)
  OBVIOUS
<1>2. /\ found \in Seq(V)
      /\ Len(found) = IF offset + 1 <= (IF limit = NULL \/ offset + limit > Len(g) THEN Len(g)
                                        ELSE offset + limit)
                      THEN (IF limit = NULL \/ offset + limit > Len(g) THEN Len(g)
                            ELSE offset + limit) - offset
                      ELSE 0
      /\ \A i \in 1..Len(found) : offset + i \in 1..Len(g) /\ found[i] = g[offset + i]
  BY <1>1, WindowOf
<1>3. /\ w \in Seq(S)
      /\ Len(w) = IF offset + 1 <= (IF limit = NULL \/ offset + limit > Len(s) THEN Len(s)
                                    ELSE offset + limit)
                  THEN (IF limit = NULL \/ offset + limit > Len(s) THEN Len(s)
                        ELSE offset + limit) - offset
                  ELSE 0
      /\ \A i \in 1..Len(w) : offset + i \in 1..Len(s) /\ w[i] = s[offset + i]
  BY <1>1, WindowOf
<1>4. Len(found) = Len(w)
  BY <1>2, <1>3
<1>5. DOMAIN found = 1..Len(found) /\ w \in [1..Len(w) -> S]
  BY <1>2, <1>3
<1>6. \A i \in 1..Len(w) : found[i].oid = w[i]
  BY <1>2, <1>3, <1>4
<1>7. [i \in DOMAIN found |-> found[i].oid] = w
  BY <1>4, <1>5, <1>6
<1> QED
  BY <1>1, <1>4, <1>7

LEMMA ListSeq ==
    ASSUME NEW S \in SUBSET Oids
    PROVE  /\ Lists(ascending(S), Cardinality(S), S)
           /\ ascending(S) \in Seq(S) /\ Len(ascending(S)) = Cardinality(S)
           /\ IsFiniteSet(S) /\ Cardinality(S) \in Nat
<1>1. Lists(ascending(S), Cardinality(S), S) /\ IsFiniteSet(S)
  BY AscendingLists, PoolQueries DEF Oids
<1>2. Cardinality(S) \in Nat /\ ascending(S) \in [1..Cardinality(S) -> S]
  BY <1>1 DEF Lists
<1> QED
  BY <1>1, <1>2

LEMMA FoundExact ==
    ASSUME NEW d, Faithful(d), NEW h, NEW type, NEW q, Window(q.limit, q.offset),
           NEW C \in SUBSET Present(d.recs), Candidates(d, h, type, q.key) = C,
           LET w == Windowed(d, h, type, q) IN {w[i] : i \in DOMAIN w} \cap C \subseteq DOMAIN d.cache
    PROVE  LET found == query(d, h, type, q)
               T == {o \in C : q.size = NULL \/ d.recs[o].size = q.size}
               w == apply_window(ascending(T), q.limit, q.offset)
           IN  [i \in DOMAIN found |-> found[i].oid] = w /\ Len(found) = Len(w)
<1> DEFINE a == ascending(C)
           T == {o \in C : q.size = NULL \/ d.recs[o].size = q.size}
           w == Windowed(d, h, type, q)
           views == [i \in DOMAIN w |-> d.cache[w[i]]]
           found == query(d, h, type, q)
<1>1. C \in SUBSET Oids
  BY DEF Present
<1>2. Lists(a, Cardinality(C), C) /\ a \in Seq(C) /\ Len(a) = Cardinality(C)
  BY <1>1, ListSeq
<1>3. w = IF q.size = NULL THEN apply_window(a, q.limit, q.offset) ELSE a
  BY DEF Windowed
<1> HIDE DEF a, w
<1>4. w \in Seq(C)
  BY <1>2, <1>3, WindowOf
<1>5. \A i \in DOMAIN w : views[i] = decode_values(w[i], d.recs[w[i]])
  <2>1. \A i \in DOMAIN w : w[i] \in C
    BY <1>4
  <2>2. \A i \in DOMAIN w : w[i] \in DOMAIN d.cache
    BY <2>1 DEF w
  <2> QED
    BY <2>2 DEF Faithful
<1>6. \A i \in DOMAIN w : views[i].oid = w[i] /\ views[i].size = d.recs[w[i]].size
  <2>1. \A i \in DOMAIN w : LET v == decode_values(w[i], d.recs[w[i]]) IN
           v.oid = w[i] /\ v.size = d.recs[w[i]].size
    BY Decoded
  <2> QED
    BY <1>5, <2>1
<1>7. CASE q.size = NULL
  <2>1. found = views
    BY <1>7 DEF query, w
  <2>2. T = C
    BY <1>7
  <2>3. w = apply_window(ascending(T), q.limit, q.offset)
    BY <1>3, <1>7, <2>2 DEF a
  <2>4. DOMAIN found = 1..Len(w) /\ DOMAIN w = 1..Len(w) /\ Len(w) \in Nat
        /\ w \in [1..Len(w) -> C]
    BY <1>4, <2>1
  <2>5. Len(found) = Len(w)
    BY <2>1, <2>4
  <2>6. [i \in DOMAIN found |-> found[i].oid] = w
    <3> HIDE DEF views, found
    <3> QED
      BY <1>6, <2>1, <2>4
  <2> QED
    BY <2>3, <2>5, <2>6
<1>8. CASE q.size # NULL
  <2> DEFINE I == {i \in DOMAIN w : views[i].size = q.size}
             matched == ascending(I)
             g == [n \in DOMAIN matched |-> views[matched[n]]]
             t == [n \in DOMAIN matched |-> w[matched[n]]]
  <2>1. found = apply_window(g, q.limit, q.offset)
    BY <1>8 DEF query, w
  <2>2. w = ascending(C) /\ DOMAIN w = 1..Cardinality(C) /\ Cardinality(C) \in Nat
    BY <1>2, <1>3, <1>8 DEF a, Lists
  <2>3. T = {o \in C : d.recs[o].size = q.size}
    BY <1>8
  <2>4. I = {i \in DOMAIN w : w[i] \in T}
    <3>1. \A i \in DOMAIN w : w[i] \in C
      BY <1>4
    <3> HIDE DEF views
    <3> QED
      BY <1>6, <2>3, <3>1
  <2>5. t = ascending(T)
    <3>1. C \in SUBSET (1..MaxOid) /\ T \in SUBSET C /\ MaxOid \in Nat
      BY <1>1, PoolQueries DEF Oids
    <3>2. matched = ascending(I) /\ \A i : i \in I <=> i \in DOMAIN w /\ w[i] \in T
      BY <2>4
    <3> HIDE DEF matched, T, I
    <3>3. PICK n \in Nat : n = MaxOid
      BY <3>1
    <3>4. C \in SUBSET (1..n)
      BY <3>1, <3>3
    <3>5. [k \in DOMAIN matched |-> w[matched[k]]] = ascending(T)
      BY <2>2, <3>1, <3>2, <3>3, <3>4, FilterLists
    <3> QED
      BY <3>5
  <2>6. Lists(matched, Cardinality(I), I) /\ Cardinality(I) \in Nat
    <3>1. I \in SUBSET (1..Cardinality(C))
      BY <2>2
    <3> HIDE DEF I
    <3> QED
      BY <2>2, <3>1, AscendingLists DEF Lists
  <2> HIDE DEF views
  <2>7. DOMAIN matched = 1..Cardinality(I) /\ \A n \in DOMAIN matched : matched[n] \in I
    <3> HIDE DEF I, matched
    <3> QED
      BY <2>6 DEF Lists
  <2> DEFINE m == Cardinality(I)
             V == {views[i] : i \in DOMAIN w}
  <2>8. \A n \in 1..m : matched[n] \in DOMAIN w
    BY <2>7
  <2> HIDE DEF I, matched
  <2>9. g \in [1..m -> V] /\ t \in [1..m -> C] /\ m \in Nat
    BY <1>4, <2>6, <2>7, <2>8
  <2>10. \A n \in 1..m : g[n].oid = t[n]
    BY <1>6, <2>7, <2>8
  <2> HIDE DEF g, t, V, m
  <2>11. g \in Seq(V) /\ t \in Seq(C) /\ Len(g) = m /\ Len(t) = m
    BY <2>9
  <2>12. LET fg == apply_window(g, q.limit, q.offset)
             ft == apply_window(t, q.limit, q.offset)
         IN  [i \in DOMAIN fg |-> fg[i].oid] = ft /\ Len(fg) = Len(ft)
    BY <2>10, <2>11, WindowOids
  <2> HIDE DEF found, T
  <2> QED
    BY <2>1, <2>5, <2>12 DEF found, T
<1> QED
  BY <1>7, <1>8

-----------------------------------------------------------------------------
(* Every surface at once. *)

LEMMA IsolatedQuery ==
    ASSUME TypeInv, ViewInv, NEW r \in Requests, req[r].phase = "reading", NEW q \in Asked
    PROVE  LET core == snaps[req[r].at].core
               p == principal(r)
               h == Compiled(r, q.type)
               found == query(Queried(r, q), h, q.type, q)
           IN  /\ [i \in DOMAIN found |-> found[i].oid] = Expected(core, p, q)
               /\ q.limit = NULL /\ q.offset = 0 =>
                     count(Indexed(r, q.type), h, q.type, q) = Len(found)
               /\ explain(Indexed(r, q.type), h, q.type, q).candidates \in
                     Len(found) .. Cardinality({o \in Extent(core.recs, q.type) :
                                                   o \in Granted(core.recs, p)})
               /\ index_bitmaps(Indexed(r, q.type), q.type) # Refused <=> q.type \notin Protected
<1> DEFINE core == snaps[req[r].at].core
           p == principal(r)
           c == Indexed(r, q.type)
           d == Queried(r, q)
           h == Compiled(r, q.type)
           found == query(d, h, q.type, q)
           C == Candidates(c, h, q.type, q.key)
           T == {o \in C : q.size = NULL \/ core.recs[o].size = q.size}
           G == {o \in Extent(core.recs, q.type) : o \in Granted(core.recs, p)}
           W == apply_window(ascending(T), q.limit, q.offset)
<1>1. q.type \in Live /\ Window(q.limit, q.offset)
  BY PoolQueries DEF Window
<1>2. /\ Faithful(c) /\ SamePins(c, core) /\ q.type \in DOMAIN c.indexes
      /\ CompiledFor(h, p, c) /\ (q.type \in Protected => q.type \in DOMAIN h)
  BY AskedFacts
<1>3. /\ Faithful(d) /\ SamePins(d, core) /\ d.indexes = c.indexes
      /\ LET w == Windowed(c, h, q.type, q)
         IN  {w[i] : i \in DOMAIN w} \cap Present(c.recs) \subseteq DOMAIN d.cache
  BY QueriedFacts
<1>4. c.recs = core.recs /\ d.recs = core.recs
  BY <1>2, <1>3 DEF SamePins
<1> HIDE DEF core, p, c, d, h
<1>5. C = {o \in Extent(core.recs, q.type) :
              (q.key = NULL \/ core.recs[o].key = q.key) /\ MayRead(p, core.recs[o])}
  <2>1. Candidates(c, h, q.type, q.key) =
           {o \in Extent(c.recs, q.type) :
               (q.key = NULL \/ c.recs[o].key = q.key) /\ MayRead(p, c.recs[o])}
    BY <1>1, <1>2, CandidatesExact
  <2> QED
    BY <1>4, <2>1
<1>6. \A x : Candidates(d, h, q.type, x) = Candidates(c, h, q.type, x)
  BY <1>3 DEF Candidates
<1>7. Windowed(d, h, q.type, q) = Windowed(c, h, q.type, q)
  BY <1>6 DEF Windowed
<1>8. C \in SUBSET Present(core.recs) /\ C \subseteq G
  BY <1>5 DEF Extent, Granted
<1>9. [i \in DOMAIN found |-> found[i].oid] = W /\ Len(found) = Len(W)
  <2>1. LET w == Windowed(d, h, q.type, q)
        IN  {w[i] : i \in DOMAIN w} \cap C \subseteq DOMAIN d.cache
    BY <1>3, <1>4, <1>7, <1>8
  <2>2. Candidates(d, h, q.type, q.key) = C /\ C \in SUBSET Present(d.recs)
    BY <1>4, <1>6, <1>8
  <2> HIDE DEF C
  <2>3. LET T2 == {o \in C : q.size = NULL \/ d.recs[o].size = q.size}
            w == apply_window(ascending(T2), q.limit, q.offset)
        IN  [i \in DOMAIN found |-> found[i].oid] = w /\ Len(found) = Len(w)
    BY <1>1, <1>3, <2>1, <2>2, FoundExact
  <2> QED
    BY <1>4, <2>3
<1>10. W = Expected(core, p, q)
  <2>1. T = {o \in Present(core.recs) : Matches(core.recs[o], q) /\ MayRead(p, core.recs[o])}
    BY <1>5 DEF Matches, Extent
  <2> HIDE DEF T
  <2> QED
    BY <2>1 DEF Expected
<1>11. /\ Cardinality(T) \in Nat /\ Cardinality(C) \in Nat /\ Cardinality(G) \in Nat
       /\ Cardinality(T) <= Cardinality(C) /\ Cardinality(C) <= Cardinality(G)
       /\ ascending(T) \in Seq(T) /\ Len(ascending(T)) = Cardinality(T)
  <2>1. T \subseteq C /\ T \in SUBSET Oids /\ C \in SUBSET Oids /\ G \in SUBSET Oids
    BY <1>8 DEF Present, Extent
  <2> HIDE DEF T, C, G
  <2>2. IsFiniteSet(T) /\ IsFiniteSet(C) /\ IsFiniteSet(G)
        /\ ascending(T) \in Seq(T) /\ Len(ascending(T)) = Cardinality(T)
        /\ Cardinality(T) \in Nat /\ Cardinality(C) \in Nat /\ Cardinality(G) \in Nat
    BY <2>1, ListSeq
  <2> QED
    BY <1>8, <2>1, <2>2, FS_Subset
<1>12. Len(W) \in Nat /\ Len(W) <= Cardinality(T)
       /\ (q.limit = NULL /\ q.offset = 0 => Len(W) = Cardinality(T))
  <2> HIDE DEF T
  <2>1. W \in Seq(T) /\ Len(W) <= Len(ascending(T))
        /\ (q.limit = NULL /\ q.offset = 0 => W = ascending(T))
    BY <1>1, <1>11, WindowOf
  <2> HIDE DEF W
  <2> QED
    BY <1>11, <2>1
<1>13. count(c, h, q.type, q) = Cardinality(T)
  <2>1. \A o : decode_values(o, c.recs[o]).size = core.recs[o].size
    BY <1>4, Decoded
  <2>2. T = {o \in C : q.size = NULL \/ decode_values(o, c.recs[o]).size = q.size}
    BY <2>1
  <2> HIDE DEF T
  <2> QED
    BY <2>2 DEF count
<1>14. explain(c, h, q.type, q).candidates = Cardinality(C)
  BY DEF explain
<1>15. index_bitmaps(c, q.type) # Refused <=> q.type \notin Protected
  BY RefusedIs DEF index_bitmaps
<1> HIDE DEF found, T, C, G, W
<1>16. Cardinality(C) \in Len(found) .. Cardinality(G)
  BY <1>9, <1>11, <1>12
<1>17. q.limit = NULL /\ q.offset = 0 => count(c, h, q.type, q) = Len(found)
  BY <1>9, <1>12, <1>13
<1>18. [i \in DOMAIN found |-> found[i].oid] = Expected(core, p, q)
  BY <1>9, <1>10
<1>19. explain(c, h, q.type, q).candidates \in Len(found) .. Cardinality(G)
  BY <1>14, <1>16
<1> QED
  BY <1>15, <1>17, <1>18, <1>19 DEF core, p, c, d, h, found, G

LEMMA IsolatedListing ==
    ASSUME TypeInv, ViewInv, NEW r \in Requests, req[r].phase = "reading", NEW t
    PROVE  LET core == snaps[req[r].at].core
               p == principal(r)
               listed == all(Indexed(r, t), p, Compiled(r, t), t)
           IN  /\ IF listed = Refused
                  THEN t \notin Live /\ ~is_root(p) /\ <<t, TRUE>> \in core.types
                  ELSE {v.oid : v \in listed.views} =
                          {o \in Extent(core.recs, t) : o \in Granted(core.recs, p)}
               /\ _stream(core, p, t) # Refused =>
                     \A o \in Extent(core.recs, t) : MayRead(p, core.recs[o])
<1> DEFINE core == snaps[req[r].at].core
           p == principal(r)
           c == Indexed(r, t)
           h == Compiled(r, t)
           listed == all(c, p, h, t)
<1>1. /\ Faithful(c) /\ SamePins(c, core) /\ t \in DOMAIN c.indexes
      /\ CompiledFor(h, p, c) /\ (t \in Protected => t \in DOMAIN h)
  BY AskedFacts
<1>2. c.recs = core.recs /\ c.types = core.types
  BY <1>1 DEF SamePins
<1>3. Faithful(core)
  BY ReaderFacts
<1> HIDE DEF core, p, c, h
<1>4. /\ listed = Refused => no_live_class_fenced(c, t) /\ ~is_root(p)
      /\ listed # Refused =>
            {v.oid : v \in listed.views} = {o \in Extent(c.recs, t) : o \in Granted(c.recs, p)}
  BY <1>1, AllExact
<1>5. no_live_class_fenced(c, t) <=> t \notin Live /\ <<t, TRUE>> \in core.types
  BY <1>2 DEF no_live_class_fenced
<1>6. _stream(core, p, t) # Refused => \A o \in Extent(core.recs, t) : MayRead(p, core.recs[o])
  BY <1>3, StreamExact
<1> HIDE DEF listed
<1>7. IF listed = Refused
      THEN t \notin Live /\ ~is_root(p) /\ <<t, TRUE>> \in core.types
      ELSE {v.oid : v \in listed.views} =
              {o \in Extent(core.recs, t) : o \in Granted(core.recs, p)}
  BY <1>2, <1>4, <1>5
<1> QED
  BY <1>6, <1>7 DEF core, p, c, h, listed

LEMMA ViewsIsolated ==
    ASSUME TypeInv, ViewInv
    PROVE  Isolated
<1> SUFFICES ASSUME NEW r \in Requests, Serving(r)
             PROVE  LET core == snaps[req[r].at].core
                        p == principal(r)
                        c == load_missing(core, Oids)
                        granted(o) == o \in Present(c.recs) /\ MayRead(p, c.recs[o])
                    IN
                    /\ \A o \in Oids :
                          /\ granted(o) <=> open_blob(c, p, o)
                          /\ granted(o) => /\ get(c, p, o) = get_many(c, p, o)
                                           /\ get(c, p, o).key = c.recs[o].key
                          /\ ~granted(o) => get(c, p, o) \in {Dangling, Refused}
                    /\ \A q \in Asked :
                          LET h == Compiled(r, q.type)
                              found == query(Queried(r, q), h, q.type, q)
                          IN  /\ [i \in DOMAIN found |-> found[i].oid] = Expected(core, p, q)
                              /\ q.limit = NULL /\ q.offset = 0 =>
                                    count(Indexed(r, q.type), h, q.type, q) = Len(found)
                              /\ explain(Indexed(r, q.type), h, q.type, q).candidates \in
                                    Len(found) .. Cardinality({o \in Extent(core.recs, q.type) :
                                                                  granted(o)})
                              /\ index_bitmaps(Indexed(r, q.type), q.type) # Refused
                                    <=> q.type \notin Protected
                    /\ \A t \in Oids : incoming(Reversed(r), p, t) =
                          {o \in Present(core.recs) : t \in core.recs[o].refs /\ granted(o)}
                    /\ \A t \in {x[1] : x \in core.types} :
                          /\ LET listed == all(Indexed(r, t), p, Compiled(r, t), t) IN
                             IF listed = Refused
                             THEN t \notin Live /\ ~is_root(p) /\ <<t, TRUE>> \in core.types
                             ELSE {v.oid : v \in listed.views} =
                                     {o \in Extent(core.recs, t) : granted(o)}
                          /\ _stream(core, p, t) # Refused =>
                                \A o \in Extent(core.recs, t) : MayRead(p, core.recs[o])
  BY DEF Isolated
<1> DEFINE core == snaps[req[r].at].core
           p == principal(r)
           c == load_missing(core, Oids)
           granted(o) == o \in Present(c.recs) /\ MayRead(p, c.recs[o])
<1>1. req[r].phase = "reading"
  BY DEF Serving
<1>2. Faithful(core)
  BY <1>1, ReaderFacts
<1> HIDE DEF core
<1>3. Faithful(c) /\ SamePins(c, core) /\ Present(c.recs) \subseteq DOMAIN c.cache
  <2>1. Faithful(c) /\ SamePins(c, core)
        /\ DOMAIN c.cache = DOMAIN core.cache \cup (Oids \cap Present(core.recs))
    BY <1>2, LoadFaithful
  <2> QED
    BY <2>1 DEF SamePins, Present
<1>4. c.recs = core.recs
  BY <1>3 DEF SamePins
<1> HIDE DEF p, c
<1>5. \A o : granted(o) <=> o \in Granted(core.recs, p)
  BY <1>4 DEF Granted
<1>6. \A o \in Oids :
        /\ granted(o) <=> open_blob(c, p, o)
        /\ granted(o) => /\ get(c, p, o) = get_many(c, p, o)
                         /\ get(c, p, o).key = c.recs[o].key
        /\ ~granted(o) => get(c, p, o) \in {Dangling, Refused}
  <2> SUFFICES ASSUME NEW o \in Oids
               PROVE  /\ granted(o) <=> open_blob(c, p, o)
                      /\ granted(o) => /\ get(c, p, o) = get_many(c, p, o)
                                       /\ get(c, p, o).key = c.recs[o].key
                      /\ ~granted(o) => get(c, p, o) \in {Dangling, Refused}
    OBVIOUS
  <2>1. /\ o \in Granted(c.recs, p) <=> open_blob(c, p, o)
        /\ o \in Granted(c.recs, p) => /\ get(c, p, o) = get_many(c, p, o)
                                       /\ get(c, p, o).key = c.recs[o].key
        /\ o \notin Granted(c.recs, p) => get(c, p, o) \in {Dangling, Refused}
    BY <1>3, GetsExact
  <2>2. granted(o) <=> o \in Granted(c.recs, p)
    BY <1>4, <1>5
  <2> HIDE DEF granted
  <2> QED
    BY <2>1, <2>2
<1> HIDE DEF granted
<1>7. \A q \in Asked :
         LET h == Compiled(r, q.type)
             found == query(Queried(r, q), h, q.type, q)
         IN  /\ [i \in DOMAIN found |-> found[i].oid] = Expected(core, p, q)
             /\ q.limit = NULL /\ q.offset = 0 =>
                   count(Indexed(r, q.type), h, q.type, q) = Len(found)
             /\ explain(Indexed(r, q.type), h, q.type, q).candidates \in
                   Len(found) .. Cardinality({o \in Extent(core.recs, q.type) : granted(o)})
             /\ index_bitmaps(Indexed(r, q.type), q.type) # Refused <=> q.type \notin Protected
  <2>1. \A t : {o \in Extent(core.recs, t) : granted(o)} =
               {o \in Extent(core.recs, t) : o \in Granted(core.recs, p)}
    BY <1>5
  <2>2. ASSUME NEW q \in Asked
        PROVE  LET h == Compiled(r, q.type)
                   found == query(Queried(r, q), h, q.type, q)
               IN  /\ [i \in DOMAIN found |-> found[i].oid] = Expected(core, p, q)
                   /\ q.limit = NULL /\ q.offset = 0 =>
                         count(Indexed(r, q.type), h, q.type, q) = Len(found)
                   /\ explain(Indexed(r, q.type), h, q.type, q).candidates \in
                         Len(found) .. Cardinality({o \in Extent(core.recs, q.type) :
                                                       o \in Granted(core.recs, p)})
                   /\ index_bitmaps(Indexed(r, q.type), q.type) # Refused
                         <=> q.type \notin Protected
    BY <1>1, IsolatedQuery DEF core, p
  <2> QED
    BY <2>1, <2>2, Zenon
<1>8. \A t \in Oids : incoming(Reversed(r), p, t) =
         {o \in Present(core.recs) : t \in core.recs[o].refs /\ granted(o)}
  <2> SUFFICES ASSUME NEW t \in Oids
               PROVE  incoming(Reversed(r), p, t) =
                         {o \in Present(core.recs) : t \in core.recs[o].refs /\ granted(o)}
    OBVIOUS
  <2>1. PICK v : v = Reversed(r)
    OBVIOUS
  <2>2. /\ Faithful(v) /\ SamePins(v, core) /\ v.reverse = Referrers(core.recs)
        /\ v.reverse[t] \subseteq DOMAIN v.cache
    BY <1>1, <2>1, ReversedFacts DEF core
  <2>3. v.recs = core.recs
    BY <2>2 DEF SamePins
  <2>4. incoming(v, p, t) = {o \in Present(v.recs) : t \in v.recs[o].refs /\ o \in Granted(v.recs, p)}
    BY <2>2, <2>3, IncomingExact
  <2> QED
    BY <1>5, <2>1, <2>3, <2>4
<1>9. \A t : /\ LET listed == all(Indexed(r, t), p, Compiled(r, t), t) IN
                IF listed = Refused
                THEN t \notin Live /\ ~is_root(p) /\ <<t, TRUE>> \in core.types
                ELSE {v.oid : v \in listed.views} = {o \in Extent(core.recs, t) : granted(o)}
             /\ _stream(core, p, t) # Refused =>
                   \A o \in Extent(core.recs, t) : MayRead(p, core.recs[o])
  <2>1. \A t : {o \in Extent(core.recs, t) : granted(o)} =
               {o \in Extent(core.recs, t) : o \in Granted(core.recs, p)}
    BY <1>5
  <2>2. ASSUME NEW t
        PROVE  /\ LET listed == all(Indexed(r, t), p, Compiled(r, t), t) IN
                  IF listed = Refused
                  THEN t \notin Live /\ ~is_root(p) /\ <<t, TRUE>> \in core.types
                  ELSE {v.oid : v \in listed.views} =
                          {o \in Extent(core.recs, t) : o \in Granted(core.recs, p)}
               /\ _stream(core, p, t) # Refused =>
                     \A o \in Extent(core.recs, t) : MayRead(p, core.recs[o])
    BY <1>1, IsolatedListing DEF core, p
  <2> QED
    BY <2>1, <2>2, Zenon
<1> QED
  BY <1>6, <1>7, <1>8, <1>9, Zenon DEF core, p, c, granted

(* One snapshot, many principals, for any classes, records, queries and          *)
(* principals, any number of requests on any number of snapshots, and whatever  *)
(* the application's end does to them: what a surface answers is what a scan of  *)
(* the pinned records fenced for the caller gives.  Each core holds only what    *)
(* its pinned records decode to, whoever asked for it, and each handle only the   *)
(* bitmaps of its own principal; the lists of a query are the ascending ones.    *)
THEOREM PoolIsolated == Spec => []Isolated
<1>1. Init => TypeInv /\ ViewInv
  BY TypeInit, ViewInit
<1>2. (TypeInv /\ ViewInv) /\ [Next]_vars => (TypeInv /\ ViewInv)'
  BY TypeStep, ViewStep
<1>3. TypeInv /\ ViewInv => Isolated
  BY ViewsIsolated
<1> QED
  BY <1>1, <1>2, <1>3, PTL DEF Spec

=============================================================================
