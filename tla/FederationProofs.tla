--------------------------- MODULE FederationProofs ---------------------------
(***************************************************************************)
(* Machine-checked proofs about federation: no update is lost, no edit is    *)
(* applied twice, a replica is the coordinator's past.                       *)
(***************************************************************************)
EXTENDS Federation, WellFoundedInduction, TLAPS

TypeInv ==
    /\ TypeOK
    /\ sends \in [Followers -> 0..MaxSends]
    /\ \A f \in Followers : out[f] # Untouched => edit[f] # None

(* A write that is under way is the edit of what it says it is based on. *)
SerialInv ==
    /\ buffer = Untouched
    /\ accepted = [k \in Keys |-> accepted[k]]
    /\ fresh =>
          /\ Serial
          /\ \A f \in Followers, k \in Keys :
                out[f][k] # Same => out[f][k] = Extended(rep[f][k], edit[f])
          /\ \A r \in net, k \in Keys :
                r.ops[k] # Same => r.ops[k] = Extended(r.base[k], r.edit)

(* The stream is the coordinator's whole history. *)
StreamInv ==
    /\ db = CaughtUp(Nothing, deltas)
    /\ \A f \in Followers : rep[f] = CaughtUp(Nothing, SubSeq(deltas, 1, wm[f]))

(* The edits that no follower is still to have accepted. *)
Pending == {f \in Followers : edit[f] # None /\ reply[f] # "ok"}
Settled == begun \ {edit[f] : f \in Pending}

(* The payloads that went through each of the edits E at most once. *)
Once(E) == {p \in Payloads : IsInjective(p) /\ \A i \in DOMAIN p : p[i] \in E}
OnceRecords(E) == [Keys -> Once(E) \cup {None}]
OnceOperations(E) == [Keys -> Once(E) \cup {None, Same}]

OnceStores ==
    /\ db \in OnceRecords(Settled)
    /\ deltas \in Seq(OnceOperations(Settled))
    /\ rep \in [Followers -> OnceRecords(Settled)]
    /\ held \in [Followers -> OnceRecords(Settled)]

(* No two programs run one edit. *)
OnceEdits ==
    /\ \A f \in Followers : edit[f] # None => edit[f] \in begun
    /\ \A f, g \in Followers : edit[f] # None /\ edit[f] = edit[g] => f = g

OnceWrites ==
    \A f \in Followers, k \in Keys : reply[f] # "ok" /\ out[f][k] # Same =>
        \E p \in Once(Settled) \cup {None} : out[f][k] = Extended(p, edit[f])

(* What is under way is what its follower waits for. *)
OnceWire ==
    \A r \in net : /\ awaits[r.from] = r /\ reply[r.from] = None
                   /\ r.edit = edit[r.from] /\ r.ops = out[r.from]

OnceInv == certain => OnceStores /\ OnceEdits /\ OnceWrites /\ OnceWire

-----------------------------------------------------------------------------
(* Replaying deltas.  CaughtUp is a recursion over the stream; what is said of *)
(* it for every stream is proved by the least length at which it would fail.   *)

Less == {ss \in Nat \X Nat : ss[1] < ss[2]}

LEMMA LeastNumber ==
    ASSUME NEW T, T \subseteq Nat, T # {}
    PROVE  \E x \in T : \A y \in T : x <= y
<1>1. IsWellFoundedOn(Less, Nat)
  BY NatLessThanWellFounded DEF OpToRel, Less
<1>2. PICK x \in T : \A y \in T : ~(<<y, x>> \in Less)
  BY <1>1, WFMin
<1>3. ASSUME NEW y \in T, y < x
      PROVE  FALSE
  <2>1. <<y, x>> \in Nat \X Nat /\ <<y, x>>[1] = y /\ <<y, x>>[2] = x
    OBVIOUS
  <2>2. <<y, x>> \in Less
    BY <2>1, <1>3 DEF Less
  <2> QED
    BY <2>2, <1>2
<1> QED
  BY <1>3

(* The states of a replay of ds on records, up to the n-th delta. *)
Replays(f, records, ds, n) ==
    f = [m \in 0..n |-> IF m = 0 THEN records ELSE Applied(f[m - 1], ds[m])]

LEMMA ReplayExists ==
    ASSUME NEW records, NEW ds, NEW n \in Nat
    PROVE  \E f : Replays(f, records, ds, n)
<1> SUFFICES ASSUME ~ \E f : Replays(f, records, ds, n)
             PROVE  FALSE
  OBVIOUS
<1> DEFINE T == {m \in Nat : ~ \E f : Replays(f, records, ds, m)}
<1>1. PICK m \in T : \A y \in T : m <= y
  <2> HIDE DEF T
  <2>1. T \subseteq Nat /\ T # {}
    BY DEF T
  <2> QED
    BY <2>1, LeastNumber
<1>2. m # 0
  <2>1. Replays([x \in 0..0 |-> records], records, ds, 0)
    BY DEF Replays
  <2> QED
    BY <2>1
<1>3. m - 1 \in Nat /\ m - 1 \notin T
  BY <1>1, <1>2
<1>4. PICK f : Replays(f, records, ds, m - 1)
  BY <1>3
<1> DEFINE g == [x \in 0..m |-> IF x = m THEN Applied(f[m - 1], ds[m]) ELSE f[x]]
<1>5. \A x \in 0..(m - 1) : f[x] = IF x = 0 THEN records ELSE Applied(f[x - 1], ds[x])
  BY <1>4 DEF Replays
<1>6. \A x \in 0..m : g[x] = IF x = 0 THEN records ELSE Applied(g[x - 1], ds[x])
  BY <1>2, <1>3, <1>5
<1>7. Replays(g, records, ds, m)
  <2>1. g = [x \in 0..m |-> g[x]]
    OBVIOUS
  <2> HIDE DEF g
  <2> QED
    BY <1>6, <2>1 DEF Replays
<1> QED
  BY <1>7

LEMMA CaughtUpReplays ==
    ASSUME NEW records, NEW ds, Len(ds) \in Nat
    PROVE  \E f : Replays(f, records, ds, Len(ds)) /\ CaughtUp(records, ds) = f[Len(ds)]
<1> DEFINE g == CHOOSE f : f = [n \in 0..Len(ds) |->
                    IF n = 0 THEN records ELSE Applied(f[n - 1], ds[n])]
<1>1. CaughtUp(records, ds) = g[Len(ds)]
  BY Zenon DEF CaughtUp
<1>2. \E f : f = [n \in 0..Len(ds) |-> IF n = 0 THEN records ELSE Applied(f[n - 1], ds[n])]
  <2>1. \E f : Replays(f, records, ds, Len(ds))
    BY ReplayExists
  <2> QED
    BY <2>1 DEF Replays
<1>3. Replays(g, records, ds, Len(ds))
  BY <1>2 DEF Replays
<1> QED
  BY <1>1, <1>3

(* Two replays that have the same deltas go through the same states. *)
LEMMA ReplaysAgree ==
    ASSUME NEW records, NEW ds, NEW es, NEW n \in Nat, NEW m \in Nat, n <= m,
           \A i \in 1..n : ds[i] = es[i],
           NEW f, Replays(f, records, ds, n), NEW g, Replays(g, records, es, m)
    PROVE  \A i \in 0..n : f[i] = g[i]
<1> SUFFICES ASSUME NEW i \in 0..n, f[i] # g[i] PROVE FALSE
  OBVIOUS
<1> DEFINE T == {x \in 0..n : f[x] # g[x]}
<1>1. PICK x \in T : \A y \in T : x <= y
  <2> HIDE DEF T
  <2>1. T \subseteq Nat /\ T # {}
    BY DEF T
  <2> QED
    BY <2>1, LeastNumber
<1>2. x \in 0..n /\ x \in 0..m /\ f[x] # g[x]
  BY <1>1
<1>3. /\ f[x] = IF x = 0 THEN records ELSE Applied(f[x - 1], ds[x])
      /\ g[x] = IF x = 0 THEN records ELSE Applied(g[x - 1], es[x])
  BY <1>2 DEF Replays
<1>4. x # 0
  BY <1>2, <1>3
<1>5. x - 1 \in 0..n /\ x - 1 \notin T /\ ds[x] = es[x]
  BY <1>1, <1>2, <1>4
<1>6. f[x - 1] = g[x - 1]
  BY <1>5
<1> QED
  BY <1>2, <1>3, <1>4, <1>5, <1>6

LEMMA CaughtUpEmpty ==
    ASSUME NEW records, NEW ds, Len(ds) = 0
    PROVE  CaughtUp(records, ds) = records
<1>1. PICK f : Replays(f, records, ds, 0) /\ CaughtUp(records, ds) = f[0]
  BY CaughtUpReplays
<1> QED
  BY <1>1 DEF Replays

(* A longer stream is the shorter one and its last delta. *)
LEMMA CaughtUpLonger ==
    ASSUME NEW records, NEW ds, NEW es, Len(ds) \in Nat, Len(es) = Len(ds) + 1,
           \A i \in 1..Len(ds) : ds[i] = es[i]
    PROVE  CaughtUp(records, es) = Applied(CaughtUp(records, ds), es[Len(es)])
<1>1. PICK f : Replays(f, records, ds, Len(ds)) /\ CaughtUp(records, ds) = f[Len(ds)]
  BY CaughtUpReplays
<1>2. PICK g : Replays(g, records, es, Len(es)) /\ CaughtUp(records, es) = g[Len(es)]
  BY CaughtUpReplays
<1>3. f[Len(ds)] = g[Len(ds)]
  <2>1. Len(es) \in Nat /\ Len(ds) <= Len(es) /\ Len(ds) \in 0..Len(ds)
    OBVIOUS
  <2>2. Replays(f, records, ds, Len(ds)) /\ Replays(g, records, es, Len(es))
    BY <1>1, <1>2
  <2>3. \A i \in 0..Len(ds) : f[i] = g[i]
    <3> DEFINE n == Len(ds)
               m == Len(es)
    <3>1. /\ n \in Nat /\ m \in Nat /\ n <= m /\ \A i \in 1..n : ds[i] = es[i]
          /\ Replays(f, records, ds, n) /\ Replays(g, records, es, m)
      BY <2>1, <2>2
    <3> HIDE DEF n, m
    <3>2. \A i \in 0..n : f[i] = g[i]
      BY <3>1, ReplaysAgree
    <3> QED
      BY <3>2 DEF n
  <2> QED
    BY <2>1, <2>3
<1>4. g[Len(es)] = Applied(g[Len(es) - 1], es[Len(es)])
  BY <1>2 DEF Replays
<1>5. Len(es) - 1 = Len(ds)
  OBVIOUS
<1> QED
  BY <1>1, <1>2, <1>3, <1>4, <1>5

(* A set that each delta leads back into holds what the stream leads to. *)
LEMMA CaughtUpStays ==
    ASSUME NEW S, NEW D, \A x \in S, d \in D : Applied(x, d) \in S,
           NEW records \in S, NEW ds \in Seq(D)
    PROVE  CaughtUp(records, ds) \in S
<1>1. PICK f : Replays(f, records, ds, Len(ds)) /\ CaughtUp(records, ds) = f[Len(ds)]
  BY CaughtUpReplays
<1> SUFFICES ASSUME f[Len(ds)] \notin S PROVE FALSE
  BY <1>1
<1> DEFINE T == {x \in 0..Len(ds) : f[x] \notin S}
<1>2. PICK x \in T : \A y \in T : x <= y
  <2> HIDE DEF T
  <2>1. T \subseteq Nat /\ T # {}
    BY DEF T
  <2> QED
    BY <2>1, LeastNumber
<1>3. x \in 0..Len(ds) /\ f[x] \notin S
  BY <1>2
<1>4. f[x] = IF x = 0 THEN records ELSE Applied(f[x - 1], ds[x])
  BY <1>1, <1>3 DEF Replays
<1>5. x # 0
  BY <1>3, <1>4
<1>6. x - 1 \in 0..Len(ds) /\ x - 1 \notin T /\ ds[x] \in D
  BY <1>2, <1>3, <1>5
<1>7. f[x - 1] \in S
  BY <1>6
<1> QED
  BY <1>3, <1>4, <1>5, <1>6, <1>7

LEMMA SubSeqLonger ==
    ASSUME NEW D, NEW ds \in Seq(D), NEW i \in Nat \ {0}, NEW j \in Nat,
           i - 1 <= j, j < Len(ds)
    PROVE  LET a == SubSeq(ds, i, j)
               b == SubSeq(ds, i, j + 1)
           IN  /\ Len(a) = j - (i - 1) /\ Len(a) \in Nat /\ Len(b) = Len(a) + 1
               /\ \A x \in 1..Len(a) : a[x] = b[x]
               /\ b[Len(b)] = ds[j + 1]
<1> DEFINE a == SubSeq(ds, i, j)
           b == SubSeq(ds, i, j + 1)
<1>1. Len(a) = j - (i - 1) /\ Len(a) \in Nat
  OBVIOUS
<1>2. Len(b) = j + 1 - (i - 1) /\ Len(b) = Len(a) + 1
  BY <1>1
<1>3. ASSUME NEW x \in 1..Len(a)
      PROVE  a[x] = b[x]
  <2>1. x \in 1..(j - i + 1) /\ x \in 1..(j + 1 - i + 1)
    BY <1>1
  <2>2. a[x] = ds[i + x - 1]
    BY <2>1
  <2>3. b[x] = ds[i + x - 1]
    BY <2>1
  <2> QED
    BY <2>2, <2>3
<1>4. b[Len(b)] = ds[j + 1]
  <2>1. Len(b) = j + 1 - i + 1 /\ i + Len(b) - 1 = j + 1 /\ Len(b) \in 1..(j + 1 - i + 1)
    BY <1>2
  <2>2. b[j + 1 - i + 1] = ds[i + (j + 1 - i + 1) - 1]
    OBVIOUS
  <2> QED
    BY <2>1, <2>2
<1> QED
  BY <1>1, <1>2, <1>3, <1>4

(* To catch up to n and then to m is to catch up to m. *)
LEMMA CaughtUpOnward ==
    ASSUME NEW D, NEW records, NEW ds \in Seq(D), NEW n \in 0..Len(ds)
    PROVE  CaughtUp(CaughtUp(records, SubSeq(ds, 1, n)), SubSeq(ds, n + 1, Len(ds)))
              = CaughtUp(records, ds)
<1> DEFINE At(m) == CaughtUp(records, SubSeq(ds, 1, m))
           Then(m) == CaughtUp(At(n), SubSeq(ds, n + 1, m))
           T == {m \in n..Len(ds) : Then(m) # At(m)}
<1>1. SubSeq(ds, 1, Len(ds)) = ds
  OBVIOUS
<1> SUFFICES ASSUME Then(Len(ds)) # At(Len(ds)) PROVE FALSE
  BY <1>1
<1>2. PICK m \in T : \A y \in T : m <= y
  <2>1. T \subseteq Nat /\ Len(ds) \in T
    OBVIOUS
  <2> HIDE DEF T
  <2> QED
    BY <2>1, LeastNumber
<1>3. m \in n..Len(ds) /\ Then(m) # At(m)
  BY <1>2
<1>4. m # n
  <2>1. Len(SubSeq(ds, n + 1, n)) = 0
    OBVIOUS
  <2> HIDE DEF At
  <2>2. Then(n) = At(n)
    BY <2>1, CaughtUpEmpty
  <2> QED
    BY <1>3, <2>2
<1>5. m - 1 \in n..Len(ds) /\ Then(m - 1) = At(m - 1)
  <2>1. m - 1 \in n..Len(ds) /\ m - 1 \notin T
    BY <1>2, <1>3, <1>4
  <2> QED
    BY <2>1
<1>6. At(m) = Applied(At(m - 1), ds[m])
  <2> DEFINE a == SubSeq(ds, 1, m - 1)
             b == SubSeq(ds, 1, m)
  <2>1. /\ Len(a) = m - 1 /\ Len(a) \in Nat /\ Len(b) = Len(a) + 1
        /\ \A i \in 1..Len(a) : a[i] = b[i]
        /\ b[Len(b)] = ds[m]
    BY <1>3, <1>4
  <2> HIDE DEF a, b
  <2>2. CaughtUp(records, b) = Applied(CaughtUp(records, a), b[Len(b)])
    BY <2>1, CaughtUpLonger
  <2> QED
    BY <2>1, <2>2 DEF a, b
<1>7. Then(m) = Applied(Then(m - 1), ds[m])
  <2> DEFINE a == SubSeq(ds, n + 1, m - 1)
             b == SubSeq(ds, n + 1, m)
             z == At(n)
  <2>1. /\ Len(a) = m - 1 - n /\ Len(a) \in Nat /\ Len(b) = Len(a) + 1
        /\ \A i \in 1..Len(a) : a[i] = b[i]
        /\ b[Len(b)] = ds[m]
    <3>1. n + 1 \in Nat \ {0} /\ m - 1 \in Nat /\ n <= m - 1 /\ m - 1 < Len(ds)
      BY <1>3, <1>4
    <3>2. m = (m - 1) + 1 /\ n = (n + 1) - 1
      BY <1>3
    <3> HIDE DEF a, b
    <3> QED
      BY <3>1, <3>2, SubSeqLonger DEF a, b
  <2> HIDE DEF a, b, z
  <2>2. CaughtUp(z, b) = Applied(CaughtUp(z, a), b[Len(b)])
    BY <2>1, CaughtUpLonger
  <2> QED
    BY <2>1, <2>2 DEF a, b, z
<1> HIDE DEF At, Then
<1> QED
  BY <1>3, <1>5, <1>6, <1>7

-----------------------------------------------------------------------------
(* Types. *)

LEMMA PayloadSequences ==
    /\ \A p : p \in Payloads <=> p \in Seq(Edits) /\ Len(p) <= MaxEdits
    /\ None \notin Payloads /\ Same \notin Payloads /\ Same # None
    /\ None \notin Requests /\ None # "ok" /\ None # "conflict"
<1>1. ASSUME NEW p \in Payloads
      PROVE  p \in Seq(Edits) /\ Len(p) <= MaxEdits
  <2>1. PICK m \in 0..MaxEdits : p \in [1..m -> Edits]
    BY <1>1 DEF Payloads, SeqOf
  <2>2. m \in Nat /\ m <= MaxEdits
    BY <2>1, FederationConstants
  <2> QED
    BY <2>1, <2>2
<1>2. ASSUME NEW p \in Seq(Edits), Len(p) <= MaxEdits
      PROVE  p \in Payloads
  <2>1. p \in [1..Len(p) -> Edits] /\ Len(p) \in Nat
    OBVIOUS
  <2>2. Len(p) \in 0..MaxEdits
    BY <1>2, <2>1, FederationConstants
  <2> QED
    BY <2>1, <2>2 DEF Payloads, SeqOf
<1> QED
  BY <1>1, <1>2, FederationTokens

LEMMA ExtendedPayload ==
    ASSUME NEW p \in Payloads \cup {None}, Roomy(p), NEW e \in Edits
    PROVE  Extended(p, e) \in Payloads /\ Extended(p, e) # Same /\ Extended(p, e) # None
<1>1. Extended(p, e) \in Payloads
  <2>1. CASE p = None
    <3>1. <<e>> \in Seq(Edits) /\ Len(<<e>>) = 1
      OBVIOUS
    <3>2. Len(<<e>>) <= MaxEdits
      BY <3>1, FederationConstants
    <3>3. <<e>> \in Payloads
      BY <3>1, <3>2, PayloadSequences
    <3> QED
      BY <2>1, <3>3 DEF Extended
  <2>2. CASE p # None
    <3>1. p \in Seq(Edits) /\ Len(p) < MaxEdits
      BY <2>2, PayloadSequences DEF Roomy
    <3>2. Append(p, e) \in Seq(Edits) /\ Len(Append(p, e)) <= MaxEdits
      BY <3>1, FederationConstants
    <3> QED
      BY <2>2, <3>2, PayloadSequences DEF Extended
  <2> QED
    BY <2>1, <2>2
<1> QED
  BY <1>1, PayloadSequences

LEMMA AppliedRecords ==
    \A x \in Records, d \in Operations : Applied(x, d) \in Records
BY DEF Applied, Records, Operations

LEMMA SyncedReplica ==
    ASSUME TypeInv, NEW f \in Followers, Synced(f)
    PROVE  rep' \in [Followers -> Records] /\ wm' \in [Followers -> 0..Len(deltas)]
<1>1. After(wm[f]) \in Seq(Operations) /\ Len(deltas) \in Nat
  BY DEF TypeInv, TypeOK, After
<1>2. rep[f] \in Records
  BY DEF TypeInv, TypeOK
<1>3. CaughtUp(rep[f], After(wm[f])) \in Records
  BY <1>1, <1>2, AppliedRecords, CaughtUpStays
<1>4. Len(deltas) \in 0..Len(deltas)
  BY <1>1
<1> QED
  BY <1>3, <1>4 DEF Synced, TypeInv, TypeOK

LEMMA CommittedStore ==
    ASSUME TypeInv, NEW ops \in Operations, Commits(ops)
    PROVE  /\ db' \in Records /\ deltas' \in Seq(Operations) /\ buffer' \in Operations
           /\ Len(deltas') = Len(deltas) + 1 /\ Len(deltas) \in Nat
<1>1. db' \in Records
  BY AppliedRecords DEF Commits, TypeInv, TypeOK
<1>2. deltas' \in Seq(Operations) /\ Len(deltas') = Len(deltas) + 1 /\ Len(deltas) \in Nat
  BY DEF Commits, TypeInv, TypeOK
<1>3. buffer' \in Operations
  BY DEF Commits, Untouched, Operations
<1> QED
  BY <1>1, <1>2, <1>3

LEMMA TypeInit ==
    ASSUME Init
    PROVE  TypeInv
<1>1. Nothing \in Records /\ Untouched \in Operations
  BY DEF Nothing, Untouched, Records, Operations
<1>2. deltas \in Seq(Operations) /\ Len(deltas) = 0
  BY DEF Init
<1> QED
  BY <1>1, <1>2, FederationConstants DEF Init, TypeInv, TypeOK

(* What a follower sends is a request of its type. *)
LEMMA RequestTyped ==
    ASSUME TypeInv, NEW f \in Followers, out[f] # Untouched, sends[f] < MaxSends
    PROVE  Request(f) \in Requests
<1>1. out[f] \in Operations /\ rep[f] \in Records /\ edit[f] \in Edits
  BY DEF TypeInv, TypeOK
<1>2. [k \in Keys |-> IF out[f][k] = Same THEN None ELSE rep[f][k]] \in Records
  BY <1>1 DEF Records
<1>3. sends[f] \in 0..MaxSends
  BY DEF TypeInv
<1> QED
  BY <1>1, <1>2, <1>3 DEF Request, Requests

LEMMA TypeStep ==
    ASSUME TypeInv, [Next]_vars
    PROVE  TypeInv'
<1> USE DEF TypeInv, TypeOK
<1>0. Untouched \in Operations /\ Nothing \in Records
  BY DEF Untouched, Nothing, Operations, Records
<1>1. ASSUME NEW e \in Edits, NEW ks \in SUBSET Keys, CoordinatorEdit(e, ks)
      PROVE  TypeInv'
  <2> DEFINE ops == [k \in Keys |-> IF k \in ks THEN Extended(db[k], e) ELSE buffer[k]]
  <2>1. \A k \in ks : Extended(db[k], e) \in Payloads
    BY <1>1, ExtendedPayload DEF CoordinatorEdit, Records
  <2>2. ops \in Operations
    BY <2>1 DEF Operations
  <2>3. Commits(ops) /\ UNCHANGED <<repVars, progVars, netVars>> /\ begun' = begun \cup {e}
    BY <1>1 DEF CoordinatorEdit
  <2> HIDE DEF ops
  <2>4. /\ db' \in Records /\ deltas' \in Seq(Operations) /\ buffer' \in Operations
        /\ Len(deltas') = Len(deltas) + 1 /\ Len(deltas) \in Nat
    BY <2>2, <2>3, CommittedStore
  <2>5. wm \in [Followers -> 0..Len(deltas')]
    BY <2>4
  <2> QED
    BY <2>3, <2>4, <2>5 DEF repVars, progVars, netVars
<1>2. ASSUME NEW k \in Keys, CoordinatorDelete(k)
      PROVE  TypeInv'
  <2>1. [buffer EXCEPT ![k] = None] \in Operations
    BY DEF Operations
  <2>2. /\ Commits([buffer EXCEPT ![k] = None])
        /\ UNCHANGED <<repVars, progVars, netVars, begun>>
    BY <1>2 DEF CoordinatorDelete
  <2>3. /\ db' \in Records /\ deltas' \in Seq(Operations) /\ buffer' \in Operations
        /\ Len(deltas') = Len(deltas) + 1 /\ Len(deltas) \in Nat
    BY <2>1, <2>2, CommittedStore
  <2>4. wm \in [Followers -> 0..Len(deltas')]
    BY <2>3
  <2> QED
    BY <2>2, <2>3, <2>4 DEF repVars, progVars, netVars
<1>3. ASSUME NEW r \in net, FanInAccept(r)
      PROVE  TypeInv'
  <2>1. r \in Requests /\ r.ops \in Operations
    BY DEF Requests
  <2>2. Applied(buffer, r.ops) \in Operations
    BY <2>1 DEF Applied, Operations
  <2>3. /\ Commits(Applied(buffer, r.ops)) /\ net' = net \ {r}
        /\ UNCHANGED <<repVars, progVars, awaits, sends, begun>>
    BY <1>3 DEF FanInAccept
  <2>4. /\ db' \in Records /\ deltas' \in Seq(Operations) /\ buffer' \in Operations
        /\ Len(deltas') = Len(deltas) + 1 /\ Len(deltas) \in Nat
    BY <2>2, <2>3, CommittedStore
  <2>5. wm \in [Followers -> 0..Len(deltas')]
    BY <2>4
  <2>6. /\ reply' \in [Followers -> {None, "ok", "conflict"}]
        /\ \A f \in Followers : awaits[f] = None => reply'[f] = None
    BY <1>3, <2>1, PayloadSequences DEF FanInAccept, Replies
  <2> QED
    BY <2>3, <2>4, <2>5, <2>6 DEF repVars, progVars
<1>4. ASSUME NEW r \in net, FanInRefuse(r)
      PROVE  TypeInv'
  <2>1. r \in Requests
    OBVIOUS
  <2>2. /\ buffer' \in Operations /\ net' = net \ {r}
        /\ UNCHANGED <<db, deltas, repVars, progVars, awaits, sends, begun>>
    BY <1>0, <1>4 DEF FanInRefuse, Discarded, history
  <2>3. /\ reply' \in [Followers -> {None, "ok", "conflict"}]
        /\ \A f \in Followers : awaits[f] = None => reply'[f] = None
    BY <1>4, <2>1, PayloadSequences DEF FanInRefuse, Replies
  <2> QED
    BY <2>2, <2>3 DEF repVars, progVars
<1>5. ASSUME NEW r \in net, Lose(r)
      PROVE  TypeInv'
  BY <1>5 DEF Lose, coordVars, repVars, progVars, history
<1>6. ASSUME NEW f \in Followers, Sync(f)
      PROVE  TypeInv'
  BY <1>6, SyncedReplica DEF Sync, coordVars, progVars, netVars, history
<1>7. ASSUME NEW f \in Followers, ReadRecords(f)
      PROVE  TypeInv'
  BY <1>7 DEF ReadRecords, coordVars, repVars, netVars, history
<1>8. ASSUME NEW f \in Followers, Contribute(f)
      PROVE  TypeInv'
  <2>1. Request(f) \in Requests
    BY <1>8, RequestTyped DEF Contribute
  <2>2. sends' \in [Followers -> 0..MaxSends]
    BY <1>8, FederationConstants DEF Contribute
  <2> QED
    BY <1>8, <2>1, <2>2, PayloadSequences DEF Contribute, coordVars, repVars, progVars, history
<1>9. ASSUME NEW f \in Followers, Done(f) \/ Conflict(f)
      PROVE  TypeInv'
  <2>1. /\ Answered(f) /\ Synced(f) /\ Reread(f)
        /\ UNCHANGED <<coordVars, net, sends, begun>>
        /\ out' = [out EXCEPT ![f] = Untouched]
        /\ edit' = [edit EXCEPT ![f] = None] \/ edit' = edit
    BY <1>9 DEF Done, Conflict, history
  <2>2. rep' \in [Followers -> Records] /\ wm' \in [Followers -> 0..Len(deltas)]
    BY <2>1, SyncedReplica
  <2>3. held' \in [Followers -> Records]
    BY <2>1, <2>2, ZenonT(60) DEF Reread, Records
  <2>4. /\ awaits' \in [Followers -> Requests \cup {None}]
        /\ reply' \in [Followers -> {None, "ok", "conflict"}]
        /\ \A g \in Followers : awaits'[g] = None => reply'[g] = None
    BY <2>1 DEF Answered
  <2>5. /\ out' \in [Followers -> Operations]
        /\ edit' \in [Followers -> Edits \cup {None}]
        /\ \A g \in Followers : out'[g] # Untouched => edit'[g] # None
    BY <1>0, <2>1
  <2> QED
    BY <2>1, <2>2, <2>3, <2>4, <2>5 DEF coordVars
<1>10. ASSUME NEW f \in Followers, Timeout(f)
       PROVE  TypeInv'
  BY <1>10 DEF Timeout, Answered, coordVars, repVars, progVars
<1>11. ASSUME NEW f \in Followers, Discard(f)
       PROVE  TypeInv'
  <2>1. /\ Reread(f) /\ UNCHANGED <<coordVars, repVars, netVars, begun>>
        /\ out' = [out EXCEPT ![f] = Untouched] /\ edit' = [edit EXCEPT ![f] = None]
    BY <1>11 DEF Discard, history
  <2>2. held' \in [Followers -> Records]
    BY <2>1 DEF Reread, Records, repVars
  <2> QED
    BY <1>0, <2>1, <2>2 DEF coordVars, repVars, netVars
<1>12. ASSUME NEW f \in Followers, NEW e \in Edits, NEW ks \in SUBSET Keys, Edit(f, e, ks)
       PROVE  TypeInv'
  <2> DEFINE ops == [k \in Keys |-> IF k \in ks THEN Extended(held[f][k], e) ELSE Same]
  <2>1. \A k \in ks : Extended(held[f][k], e) \in Payloads
    BY <1>12, ExtendedPayload DEF Edit, Records
  <2>2. ops \in Operations
    BY <2>1 DEF Operations
  <2>3. /\ UNCHANGED <<coordVars, repVars, held, netVars>>
        /\ begun' = begun \cup {e} /\ edit' = [edit EXCEPT ![f] = e]
        /\ out' = [out EXCEPT ![f] = ops]
    BY <1>12 DEF Edit
  <2>4. e # None
    BY FederationConstants
  <2> HIDE DEF ops
  <2> QED
    BY <2>2, <2>3, <2>4 DEF coordVars, repVars, netVars
<1>13. CASE UNCHANGED vars
  BY <1>13 DEF vars, coordVars, repVars, progVars, netVars, history
<1> QED
  BY <1>1, <1>2, <1>3, <1>4, <1>5, <1>6, <1>7, <1>8, <1>9, <1>10, <1>11, <1>12, <1>13
  DEF Next, Coordinator, Follower

(* Type correctness of the stores, the programs and the wire, for any number   *)
(* of followers, records and edits; a request under way is well-formed, and a  *)
(* reply is only for a follower that waits.                                    *)
THEOREM FederationTypes == Spec => []TypeOK
<1>1. Init => TypeInv
  BY TypeInit
<1>2. TypeInv /\ [Next]_vars => TypeInv'
  BY TypeStep
<1>3. TypeInv => TypeOK
  BY DEF TypeInv
<1> QED
  BY <1>1, <1>2, <1>3, PTL DEF Spec

-----------------------------------------------------------------------------
(* No lost update. *)

LEMMA SerialStep ==
    ASSUME TypeInv, TypeInv', SerialInv, [Next]_vars
    PROVE  SerialInv'
<1>0. /\ buffer = Untouched /\ accepted = [k \in Keys |-> accepted[k]]
      /\ \A k \in Keys : Untouched[k] = Same
      /\ db \in Records /\ net \subseteq Requests
      /\ out \in [Followers -> Operations] /\ rep \in [Followers -> Records]
      /\ edit \in [Followers -> Edits \cup {None}] /\ held \in [Followers -> Records]
  BY DEF SerialInv, Untouched, TypeInv, TypeOK
<1> DEFINE OutBased == \A f \in Followers, k \in Keys :
                out[f][k] # Same => out[f][k] = Extended(rep[f][k], edit[f])
           NetBased == \A r \in net, k \in Keys :
                r.ops[k] # Same => r.ops[k] = Extended(r.base[k], r.edit)
<1>1. ASSUME NEW e \in Edits, NEW ks \in SUBSET Keys, CoordinatorEdit(e, ks)
      PROVE  SerialInv'
  <2>1. /\ buffer' = Untouched /\ UNCHANGED <<rep, edit, out, net, fresh>>
        /\ db' = Applied(db, [k \in Keys |-> IF k \in ks THEN Extended(db[k], e) ELSE buffer[k]])
        /\ accepted' = [k \in Keys |-> IF k \in ks THEN Extended(accepted[k], e) ELSE accepted[k]]
    BY <1>1 DEF CoordinatorEdit, Commits, repVars, progVars, netVars
  <2>2. \A k \in ks : Extended(db[k], e) # Same
    BY <1>0, <1>1, ExtendedPayload DEF CoordinatorEdit, Records
  <2>3. \A k \in Keys : db'[k] = IF k \in ks THEN Extended(db[k], e) ELSE db[k]
    BY <1>0, <2>1, <2>2 DEF Applied
  <2>4. Serial => Serial'
    BY <2>1, <2>3 DEF Serial
  <2> QED
    BY <2>1, <2>4 DEF SerialInv
<1>2. ASSUME NEW k \in Keys, CoordinatorDelete(k)
      PROVE  SerialInv'
  <2>1. /\ buffer' = Untouched /\ UNCHANGED <<rep, edit, out, net, fresh>>
        /\ db' = Applied(db, [buffer EXCEPT ![k] = None])
        /\ accepted' = [accepted EXCEPT ![k] = None]
    BY <1>2 DEF CoordinatorDelete, Commits, repVars, progVars, netVars
  <2>2. \A x \in Keys : db'[x] = IF x = k THEN None ELSE db[x]
    BY <1>0, <2>1, PayloadSequences DEF Applied, Untouched
  <2>3. Serial => Serial'
    <3> SUFFICES ASSUME Serial, NEW x \in Keys PROVE db'[x] = accepted'[x]
      BY DEF Serial
    <3>1. accepted'[x] = IF x = k THEN None ELSE accepted[x]
      BY <1>0, <2>1
    <3>2. db[x] = accepted[x]
      BY DEF Serial
    <3> QED
      BY <2>2, <3>1, <3>2
  <2>4. accepted' = [x \in Keys |-> accepted'[x]]
    BY <1>0, <2>1
  <2> QED
    BY <2>1, <2>3, <2>4 DEF SerialInv
<1>3. ASSUME NEW r \in net, FanInAccept(r)
      PROVE  SerialInv'
  <2>1. /\ buffer' = Untouched /\ UNCHANGED <<rep, edit, out, fresh>> /\ net' \subseteq net
        /\ db' = Applied(db, Applied(buffer, r.ops))
        /\ accepted' = [k \in Keys |-> IF r.ops[k] = Same THEN accepted[k]
                                       ELSE Extended(accepted[k], r.edit)]
        /\ \A k \in Keys : r.ops[k] # Same => r.base[k] = db[k]
    BY <1>3 DEF FanInAccept, Commits, Matches, Touched, repVars, progVars
  <2>2. \A k \in Keys : db'[k] = IF r.ops[k] = Same THEN db[k] ELSE r.ops[k]
    BY <1>0, <2>1 DEF Applied
  <2>3. Serial /\ NetBased => Serial'
    BY <2>1, <2>2 DEF Serial
  <2>4. NetBased => NetBased'
    BY <2>1
  <2> QED
    BY <2>1, <2>3, <2>4 DEF SerialInv
<1>4. ASSUME NEW r \in net, FanInRefuse(r) \/ Lose(r)
      PROVE  SerialInv'
  <2>1. buffer' = Untouched /\ UNCHANGED <<db, accepted, rep, edit, out, fresh>> /\ net' \subseteq net
    BY <1>0, <1>4 DEF FanInRefuse, Lose, Discarded, repVars, progVars, coordVars, history
  <2> QED
    BY <2>1 DEF SerialInv, Serial
<1>5. ASSUME NEW f \in Followers, Sync(f)
      PROVE  SerialInv'
  <2>1. /\ UNCHANGED <<buffer, db, accepted, edit, out, net, fresh>>
        /\ out[f] = Untouched
        /\ \A g \in Followers : g # f => rep'[g] = rep[g]
    BY <1>0, <1>5 DEF Sync, Synced, coordVars, progVars, netVars, history
  <2> QED
    BY <1>0, <2>1 DEF SerialInv, Serial
<1>6. ASSUME NEW f \in Followers, Contribute(f)
      PROVE  SerialInv'
  <2>1. /\ UNCHANGED <<buffer, db, accepted, rep, edit, out, fresh>>
        /\ net' = net \cup {Request(f)}
    BY <1>6 DEF Contribute, coordVars, repVars, progVars, history
  <2>2. \A k \in Keys : /\ Request(f).ops[k] = out[f][k] /\ Request(f).edit = edit[f]
                        /\ out[f][k] # Same => Request(f).base[k] = rep[f][k]
    BY DEF Request
  <2>3. OutBased /\ NetBased => NetBased'
    BY <2>1, <2>2
  <2> QED
    BY <2>1, <2>3 DEF SerialInv, Serial
<1>7. ASSUME NEW f \in Followers, Done(f) \/ Conflict(f) \/ Discard(f)
      PROVE  SerialInv'
  <2>1. /\ UNCHANGED <<buffer, db, accepted, net, fresh>>
        /\ out' = [out EXCEPT ![f] = Untouched]
        /\ \A g \in Followers : g # f => rep'[g] = rep[g] /\ edit'[g] = edit[g]
    BY <1>0, <1>7 DEF Done, Conflict, Discard, Synced, coordVars, repVars, netVars, history
  <2> QED
    BY <1>0, <2>1 DEF SerialInv, Serial
<1>8. ASSUME NEW f \in Followers, NEW e \in Edits, NEW ks \in SUBSET Keys, Edit(f, e, ks)
      PROVE  SerialInv'
  <2>1. /\ UNCHANGED <<buffer, db, accepted, rep, net>>
        /\ edit' = [edit EXCEPT ![f] = e]
        /\ out' = [out EXCEPT ![f] = [k \in Keys |->
                      IF k \in ks THEN Extended(held[f][k], e) ELSE Same]]
        /\ fresh' => fresh /\ \A k \in ks : held[f][k] = rep[f][k]
    BY <1>8 DEF Edit, coordVars, repVars, netVars
  <2>2. fresh' /\ OutBased => OutBased'
    <3> SUFFICES ASSUME fresh', OutBased, NEW g \in Followers, NEW k \in Keys, out'[g][k] # Same
                 PROVE  out'[g][k] = Extended(rep[g][k], edit'[g])
      BY <2>1
    <3>1. CASE g = f
      BY <1>0, <2>1, <3>1
    <3>2. CASE g # f
      BY <1>0, <2>1, <3>2
    <3> QED
      BY <3>1, <3>2
  <2> QED
    BY <2>1, <2>2 DEF SerialInv, Serial
<1>9. ASSUME NEW f \in Followers, ReadRecords(f) \/ Timeout(f)
      PROVE  SerialInv'
  BY <1>9 DEF ReadRecords, Timeout, SerialInv, Serial, coordVars, repVars, progVars, netVars,
              history
<1>10. CASE UNCHANGED vars
  BY <1>10 DEF vars, SerialInv, Serial, coordVars, repVars, progVars, netVars, history
<1> QED
  BY <1>1, <1>2, <1>3, <1>4, <1>5, <1>6, <1>7, <1>8, <1>9, <1>10
  DEF Next, Coordinator, Follower

(* No lost update, for any number of followers and keys: as long as programs   *)
(* edit what they read after their last sync, a record is what its accepted    *)
(* edits make of it one after the other.  The digest that a contribution       *)
(* carries as its base is that of the record the write was derived from,       *)
(* however late, often or in whatever order contributions arrive.              *)
THEOREM FederationSerializable == Spec => []Serializable
<1>1. Init => TypeInv /\ SerialInv
  <2>1. Init => SerialInv
    BY DEF Init, SerialInv, Serial, Untouched, Nothing
  <2> QED
    BY <2>1, TypeInit
<1>2. (TypeInv /\ SerialInv) /\ [Next]_vars => (TypeInv /\ SerialInv)'
  BY TypeStep, SerialStep
<1>3. SerialInv => Serializable
  BY DEF SerialInv, Serializable
<1> QED
  BY <1>1, <1>2, <1>3, PTL DEF Spec

-----------------------------------------------------------------------------
(* A replica is the coordinator's past. *)

LEMMA WholePrefix ==
    ASSUME TypeInv
    PROVE  SubSeq(deltas, 1, Len(deltas)) = deltas
<1>1. deltas \in Seq(Operations)
  BY DEF TypeInv, TypeOK
<1> HIDE DEF Operations
<1> QED
  BY <1>1

LEMMA EarlierPrefix ==
    ASSUME NEW D, NEW ds \in Seq(D), NEW x \in D, NEW n \in 0..Len(ds)
    PROVE  SubSeq(Append(ds, x), 1, n) = SubSeq(ds, 1, n)
OBVIOUS

LEMMA CommittedStream ==
    ASSUME TypeInv, StreamInv, NEW ops \in Operations, Commits(ops), UNCHANGED repVars
    PROVE  StreamInv'
<1>1. deltas \in Seq(Operations) /\ wm \in [Followers -> 0..Len(deltas)]
  BY DEF TypeInv, TypeOK
<1>2. /\ deltas' = Append(deltas, ops) /\ db' = Applied(db, ops)
      /\ rep' = rep /\ wm' = wm /\ Len(deltas) \in Nat
  BY <1>1 DEF Commits, repVars
<1>3. /\ Len(deltas') = Len(deltas) + 1 /\ deltas'[Len(deltas')] = ops
      /\ \A i \in 1..Len(deltas) : deltas[i] = deltas'[i]
  BY <1>1, <1>2
<1>4. CaughtUp(Nothing, deltas') = Applied(CaughtUp(Nothing, deltas), ops)
  <2> DEFINE longer == deltas'
  <2>1. /\ Len(longer) = Len(deltas) + 1 /\ longer[Len(longer)] = ops
        /\ \A i \in 1..Len(deltas) : deltas[i] = longer[i]
    BY <1>3
  <2> HIDE DEF longer
  <2>2. CaughtUp(Nothing, longer) = Applied(CaughtUp(Nothing, deltas), longer[Len(longer)])
    BY <1>2, <2>1, CaughtUpLonger
  <2> QED
    BY <2>1, <2>2 DEF longer
<1>5. ASSUME NEW f \in Followers
      PROVE  SubSeq(deltas', 1, wm[f]) = SubSeq(deltas, 1, wm[f])
  <2>1. wm[f] \in 0..Len(deltas)
    BY <1>1
  <2>2. SubSeq(Append(deltas, ops), 1, wm[f]) = SubSeq(deltas, 1, wm[f])
    BY <1>1, <2>1, EarlierPrefix
  <2> QED
    BY <1>2, <2>2
<1> QED
  BY <1>2, <1>4, <1>5 DEF StreamInv

LEMMA SyncedStream ==
    ASSUME TypeInv, StreamInv, NEW f \in Followers, Synced(f), UNCHANGED <<db, deltas>>
    PROVE  StreamInv'
<1>1. /\ deltas \in Seq(Operations) /\ wm[f] \in 0..Len(deltas) /\ Len(deltas) \in Nat
      /\ wm \in [Followers -> 0..Len(deltas)] /\ rep \in [Followers -> Records]
  BY DEF TypeInv, TypeOK
<1>2. rep[f] = CaughtUp(Nothing, SubSeq(deltas, 1, wm[f]))
  BY DEF StreamInv
<1>3. CaughtUp(rep[f], After(wm[f])) = CaughtUp(Nothing, deltas)
  <2> DEFINE n == wm[f]
  <2>1. n \in 0..Len(deltas)
    BY <1>1
  <2> HIDE DEF n
  <2>2. CaughtUp(CaughtUp(Nothing, SubSeq(deltas, 1, n)), SubSeq(deltas, n + 1, Len(deltas)))
            = CaughtUp(Nothing, deltas)
    BY <1>1, <2>1, CaughtUpOnward
  <2> QED
    BY <1>2, <2>2 DEF n, After
<1>4. rep'[f] = CaughtUp(Nothing, deltas) /\ wm'[f] = Len(deltas)
  BY <1>1, <1>3 DEF Synced
<1>5. \A g \in Followers : g # f => rep'[g] = rep[g] /\ wm'[g] = wm[g]
  BY <1>1 DEF Synced
<1>6. SubSeq(deltas, 1, Len(deltas)) = deltas
  BY WholePrefix
<1> QED
  BY <1>4, <1>5, <1>6 DEF StreamInv

LEMMA StreamStep ==
    ASSUME TypeInv, StreamInv, [Next]_vars
    PROVE  StreamInv'
<1>0. db \in Records /\ buffer \in Operations /\ net \subseteq Requests
  BY DEF TypeInv, TypeOK
<1>1. ASSUME NEW e \in Edits, NEW ks \in SUBSET Keys, CoordinatorEdit(e, ks)
      PROVE  StreamInv'
  <2> DEFINE ops == [k \in Keys |-> IF k \in ks THEN Extended(db[k], e) ELSE buffer[k]]
  <2>1. \A k \in ks : Extended(db[k], e) \in Payloads
    BY <1>0, <1>1, ExtendedPayload DEF CoordinatorEdit, Records
  <2>2. ops \in Operations
    BY <1>0, <2>1 DEF Operations
  <2>3. Commits(ops) /\ UNCHANGED repVars
    BY <1>1 DEF CoordinatorEdit
  <2> QED
    BY <2>2, <2>3, CommittedStream
<1>2. ASSUME NEW k \in Keys, CoordinatorDelete(k)
      PROVE  StreamInv'
  <2>1. [buffer EXCEPT ![k] = None] \in Operations
    BY <1>0 DEF Operations
  <2>2. Commits([buffer EXCEPT ![k] = None]) /\ UNCHANGED repVars
    BY <1>2 DEF CoordinatorDelete
  <2> QED
    BY <2>1, <2>2, CommittedStream
<1>3. ASSUME NEW r \in net, FanInAccept(r)
      PROVE  StreamInv'
  <2>1. Applied(buffer, r.ops) \in Operations
    BY <1>0 DEF Applied, Operations, Requests
  <2>2. Commits(Applied(buffer, r.ops)) /\ UNCHANGED repVars
    BY <1>3 DEF FanInAccept
  <2> QED
    BY <2>1, <2>2, CommittedStream
<1>4. ASSUME NEW f \in Followers, Sync(f) \/ Done(f) \/ Conflict(f)
      PROVE  StreamInv'
  BY <1>4, SyncedStream DEF Sync, Done, Conflict, coordVars
<1>5. ASSUME UNCHANGED <<db, deltas, rep, wm>>
      PROVE  StreamInv'
  BY <1>5 DEF StreamInv
<1>6. ASSUME NEW r \in net, FanInRefuse(r) \/ Lose(r)
      PROVE  StreamInv'
  BY <1>5, <1>6 DEF FanInRefuse, Lose, coordVars, repVars
<1>7. ASSUME NEW f \in Followers, ReadRecords(f) \/ Contribute(f) \/ Timeout(f) \/ Discard(f)
      PROVE  StreamInv'
  BY <1>5, <1>7 DEF ReadRecords, Contribute, Timeout, Discard, coordVars, repVars
<1>8. ASSUME NEW f \in Followers, NEW e \in Edits, NEW ks \in SUBSET Keys, Edit(f, e, ks)
      PROVE  StreamInv'
  BY <1>5, <1>8 DEF Edit, coordVars, repVars
<1>9. CASE UNCHANGED vars
  BY <1>5, <1>9 DEF vars, coordVars, repVars
<1> QED
  BY <1>1, <1>2, <1>3, <1>4, <1>6, <1>7, <1>8, <1>9 DEF Next, Coordinator, Follower

(* A follower that applies each delta behind its watermark once and in order   *)
(* holds the state the coordinator had at that watermark, and its present      *)
(* state when it has caught up: for every number of followers, and streams and *)
(* pages of any length.                                                        *)
THEOREM FederationReplicaExact == Spec => []ReplicaExact
<1>1. Init => TypeInv /\ StreamInv
  <2>1. ASSUME Init
        PROVE  StreamInv
    <3>1. /\ deltas = <<>> /\ Len(deltas) = 0 /\ db = Nothing
          /\ rep = [f \in Followers |-> Nothing] /\ wm = [f \in Followers |-> 0]
      BY <2>1 DEF Init
    <3>2. SubSeq(deltas, 1, 0) = <<>>
      BY <3>1
    <3>3. CaughtUp(Nothing, <<>>) = Nothing
      BY CaughtUpEmpty
    <3> QED
      BY <3>1, <3>2, <3>3 DEF StreamInv
  <2> QED
    BY <2>1, TypeInit
<1>2. (TypeInv /\ StreamInv) /\ [Next]_vars => (TypeInv /\ StreamInv)'
  BY TypeStep, StreamStep
<1>3. TypeInv /\ StreamInv => ReplicaExact
  BY WholePrefix DEF StreamInv, ReplicaExact
<1> QED
  BY <1>1, <1>2, <1>3, PTL DEF Spec

-----------------------------------------------------------------------------
(* An edit reaches a record once. *)

LEMMA OnceMore ==
    ASSUME NEW E, NEW G, E \subseteq G
    PROVE  /\ Once(E) \subseteq Once(G)
           /\ OnceRecords(E) \subseteq OnceRecords(G)
           /\ OnceOperations(E) \subseteq OnceOperations(G)
           /\ Seq(OnceOperations(E)) \subseteq Seq(OnceOperations(G))
<1>1. Once(E) \subseteq Once(G)
  BY DEF Once
<1>2. OnceRecords(E) \subseteq OnceRecords(G)
  BY <1>1 DEF OnceRecords
<1>3. OnceOperations(E) \subseteq OnceOperations(G)
  BY <1>1 DEF OnceOperations
<1>4. ASSUME NEW A, NEW B, A \subseteq B
      PROVE  Seq(A) \subseteq Seq(B)
  BY <1>4
<1> QED
  BY <1>1, <1>2, <1>3, <1>4

(* An edit that is new to a payload is in it once. *)
LEMMA OnceExtended ==
    ASSUME NEW E, NEW G, E \subseteq G, NEW p \in Once(E) \cup {None}, NEW e \in G, e \notin E,
           Extended(p, e) \in Payloads
    PROVE  Extended(p, e) \in Once(G)
<1>1. CASE p = None
  <2>1. Extended(p, e) = <<e>>
    BY <1>1 DEF Extended
  <2> QED
    BY <2>1 DEF Once, IsInjective
<1>2. CASE p # None
  <2>1. /\ Extended(p, e) = Append(p, e) /\ p \in Seq(Edits) /\ p \in Once(E)
        /\ Len(p) \in Nat
    BY <1>2, PayloadSequences DEF Extended, Once
  <2>2. /\ DOMAIN p = 1..Len(p)
        /\ \A i \in 1..Len(p) : p[i] \in E
        /\ \A i, j \in 1..Len(p) : p[i] = p[j] => i = j
    BY <2>1 DEF Once, IsInjective
  <2> DEFINE q == Append(p, e)
  <2>3. /\ DOMAIN q = 1..(Len(p) + 1) /\ q[Len(p) + 1] = e
        /\ \A i \in 1..Len(p) : q[i] = p[i]
    BY <2>1
  <2> HIDE DEF q
  <2>4. \A i \in 1..(Len(p) + 1) : i \in 1..Len(p) \/ i = Len(p) + 1
    BY <2>1
  <2>5. IsInjective(q) /\ \A i \in DOMAIN q : q[i] \in G
    BY <2>2, <2>3, <2>4 DEF IsInjective
  <2> QED
    BY <2>1, <2>5 DEF Once, q
<1> QED
  BY <1>1, <1>2

LEMMA OnceApplied ==
    ASSUME NEW E
    PROVE  \A x \in OnceRecords(E), d \in OnceOperations(E) : Applied(x, d) \in OnceRecords(E)
BY DEF Applied, OnceRecords, OnceOperations

LEMMA SettledGrows ==
    ASSUME begun \subseteq begun', \A g \in Pending' : edit'[g] \notin Settled
    PROVE  Settled \subseteq Settled'
BY DEF Settled

(* What the stores hold stays settled when more is. *)
LEMMA OnceKept ==
    ASSUME OnceStores, Settled \subseteq Settled'
    PROVE  /\ db \in OnceRecords(Settled')
           /\ deltas \in Seq(OnceOperations(Settled'))
           /\ rep \in [Followers -> OnceRecords(Settled')]
           /\ held \in [Followers -> OnceRecords(Settled')]
<1>1. /\ OnceRecords(Settled) \subseteq OnceRecords(Settled')
      /\ Seq(OnceOperations(Settled)) \subseteq Seq(OnceOperations(Settled'))
  BY OnceMore
<1> QED
  BY <1>1 DEF OnceStores

LEMMA OnceCommitted ==
    ASSUME OnceStores, Settled \subseteq Settled',
           NEW ops \in OnceOperations(Settled'), Commits(ops), UNCHANGED <<rep, held>>
    PROVE  OnceStores'
<1>1. /\ db \in OnceRecords(Settled') /\ deltas \in Seq(OnceOperations(Settled'))
      /\ rep' \in [Followers -> OnceRecords(Settled')]
      /\ held' \in [Followers -> OnceRecords(Settled')]
  BY OnceKept
<1>2. db' \in OnceRecords(Settled')
  BY <1>1, OnceApplied DEF Commits
<1>3. deltas' \in Seq(OnceOperations(Settled'))
  BY <1>1 DEF Commits
<1> QED
  BY <1>1, <1>2, <1>3 DEF OnceStores

LEMMA OnceSynced ==
    ASSUME TypeInv, OnceStores, NEW f \in Followers, Synced(f)
    PROVE  rep' \in [Followers -> OnceRecords(Settled)]
<1>1. /\ rep[f] \in OnceRecords(Settled) /\ rep \in [Followers -> OnceRecords(Settled)]
      /\ deltas \in Seq(OnceOperations(Settled))
  BY DEF OnceStores
<1>2. Len(deltas) \in Nat /\ wm[f] \in 0..Len(deltas)
  BY <1>1 DEF TypeInv, TypeOK
<1>3. After(wm[f]) \in Seq(OnceOperations(Settled))
  BY <1>1, <1>2 DEF After
<1>4. CaughtUp(rep[f], After(wm[f])) \in OnceRecords(Settled)
  BY <1>1, <1>3, OnceApplied, CaughtUpStays
<1> QED
  BY <1>1, <1>4 DEF Synced

LEMMA OnceTypes ==
    ASSUME TypeInv
    PROVE  /\ db \in Records /\ buffer \in Operations /\ net \subseteq Requests
           /\ rep \in [Followers -> Records] /\ held \in [Followers -> Records]
           /\ out \in [Followers -> Operations] /\ edit \in [Followers -> Edits \cup {None}]
           /\ awaits \in [Followers -> Requests \cup {None}]
           /\ reply \in [Followers -> {None, "ok", "conflict"}]
           /\ \A f \in Followers : awaits[f] = None => reply[f] = None
           /\ begun \subseteq Edits
           /\ \A r \in net : /\ r.from \in Followers /\ r # None
                             /\ r.edit \in Edits /\ r.ops \in Operations
           /\ \A k \in Keys : Untouched[k] = Same
BY PayloadSequences DEF TypeInv, TypeOK, Requests, Untouched

LEMMA OnceWritesKept ==
    ASSUME OnceWrites, Settled \subseteq Settled', NEW f \in Followers, NEW k \in Keys,
           reply[f] # "ok", out[f][k] # Same
    PROVE  \E p \in Once(Settled') \cup {None} : out[f][k] = Extended(p, edit[f])
<1>1. Once(Settled) \subseteq Once(Settled')
  BY OnceMore
<1> QED
  BY <1>1 DEF OnceWrites

LEMMA OnceEditing ==
    ASSUME TypeInv, buffer = Untouched, OnceInv, certain,
           NEW e \in Edits, NEW ks \in SUBSET Keys, CoordinatorEdit(e, ks)
    PROVE  OnceInv'
<1>0. OnceStores /\ OnceEdits /\ OnceWrites /\ OnceWire
  BY DEF OnceInv
<1> DEFINE ops == [k \in Keys |-> IF k \in ks THEN Extended(db[k], e) ELSE buffer[k]]
<1>1. /\ e \notin begun /\ begun' = begun \cup {e} /\ Commits(ops)
      /\ UNCHANGED <<rep, wm, held, edit, out, awaits, net, reply>>
  BY DEF CoordinatorEdit, repVars, progVars, netVars
<1>2. Pending' = Pending
  BY <1>1 DEF Pending
<1>3. \A f \in Pending : edit'[f] \in begun
  BY <1>0, <1>1 DEF OnceEdits, Pending
<1>4. Settled \subseteq Settled' /\ e \in Settled' /\ e \notin Settled
  BY <1>1, <1>2, <1>3 DEF Settled
<1>5. ops \in OnceOperations(Settled')
  <2>1. ASSUME NEW k \in ks
        PROVE  Extended(db[k], e) \in Once(Settled')
    <3>1. k \in Keys /\ db[k] \in Payloads \cup {None} /\ Roomy(db[k])
      BY OnceTypes DEF Records, CoordinatorEdit
    <3>2. Extended(db[k], e) \in Payloads
      BY <3>1, ExtendedPayload
    <3>3. db[k] \in Once(Settled) \cup {None}
      BY <1>0, <3>1 DEF OnceStores, OnceRecords
    <3> QED
      BY <1>4, <3>2, <3>3, OnceExtended
  <2>2. \A k \in Keys : buffer[k] = Same
    BY OnceTypes
  <2> QED
    BY <2>1, <2>2 DEF OnceOperations
<1> HIDE DEF ops
<1>6. OnceStores'
  BY <1>0, <1>1, <1>4, <1>5, OnceCommitted
<1>7. OnceEdits' /\ OnceWire'
  BY <1>0, <1>1 DEF OnceEdits, OnceWire
<1>8. OnceWrites'
  BY <1>0, <1>1, <1>4, OnceWritesKept DEF OnceWrites
<1> QED
  BY <1>6, <1>7, <1>8 DEF OnceInv

LEMMA OnceAccepting ==
    ASSUME TypeInv, buffer = Untouched, OnceInv, certain, NEW r \in net, FanInAccept(r)
    PROVE  OnceInv'
<1>0. OnceStores /\ OnceEdits /\ OnceWrites /\ OnceWire
  BY DEF OnceInv
<1> DEFINE f == r.from
           e == r.edit
           ops == Applied(buffer, r.ops)
<1>1. /\ f \in Followers /\ e \in Edits /\ e # None /\ r.ops \in Operations
      /\ awaits[f] = r /\ reply[f] = None /\ e = edit[f] /\ r.ops = out[f]
      /\ reply[f] # "ok"
  BY <1>0, OnceTypes, FederationConstants, PayloadSequences DEF OnceWire
<1>2. /\ Commits(ops) /\ net' = net \ {r}
      /\ UNCHANGED <<rep, wm, held, edit, out, awaits, begun>>
      /\ reply' = [reply EXCEPT ![f] = "ok"]
  BY <1>1 DEF FanInAccept, Replies, repVars, progVars
<1> HIDE DEF f, e
<1>3. /\ reply'[f] = "ok" /\ f \in Pending
      /\ \A g \in Followers : g # f => reply'[g] = reply[g]
  BY <1>1, <1>2, OnceTypes DEF Pending
<1>4. Pending' = Pending \ {f}
  BY <1>1, <1>2, <1>3 DEF Pending
<1>5. e \in begun /\ \A g \in Pending : g # f => edit[g] # e
  BY <1>0, <1>1 DEF OnceEdits, Pending
<1>6. Settled \subseteq Settled' /\ e \in Settled' /\ e \notin Settled
  BY <1>1, <1>2, <1>3, <1>4, <1>5 DEF Settled
<1>7. ops \in OnceOperations(Settled')
  <2>1. ASSUME NEW k \in Keys, r.ops[k] # Same
        PROVE  ops[k] \in Once(Settled') \cup {None}
    <3>1. PICK p \in Once(Settled) \cup {None} : out[f][k] = Extended(p, edit[f])
      BY <1>0, <1>1, <2>1 DEF OnceWrites
    <3>2. ops[k] = Extended(p, e)
      BY <1>1, <2>1, <3>1 DEF Applied
    <3>3. p \in Payloads \cup {None}
      BY <3>1 DEF Once
    <3>5. out[f][k] \in Payloads \cup {None, Same}
      BY <1>1, OnceTypes DEF Operations
    <3>6. Extended(p, e) \in Payloads \cup {None}
      BY <1>1, <2>1, <3>1, <3>5
    <3>7. CASE Extended(p, e) \in Payloads
      <4>1. Extended(p, e) \in Once(Settled')
        BY <1>6, <3>7, OnceExtended
      <4> QED
        BY <3>2, <4>1
    <3> QED
      BY <3>2, <3>6, <3>7
  <2>2. \A k \in Keys : r.ops[k] = Same => ops[k] = Same
    BY OnceTypes DEF Applied
  <2>3. ops = [k \in Keys |-> ops[k]]
    BY DEF Applied
  <2> QED
    BY <2>1, <2>2, <2>3 DEF OnceOperations
<1> HIDE DEF ops
<1>8. OnceStores'
  BY <1>0, <1>2, <1>6, <1>7, OnceCommitted
<1>9. OnceEdits'
  BY <1>0, <1>2 DEF OnceEdits
<1>10. OnceWire'
  <2> SUFFICES ASSUME NEW q \in net'
               PROVE  /\ awaits'[q.from] = q /\ reply'[q.from] = None
                      /\ q.edit = edit'[q.from] /\ q.ops = out'[q.from]
    BY DEF OnceWire
  <2>1. q \in net /\ q # r /\ q.from \in Followers
    BY <1>2, OnceTypes
  <2>2. q.from # f
    BY <1>0, <1>1, <2>1 DEF OnceWire
  <2> QED
    BY <1>0, <1>2, <1>3, <2>1, <2>2 DEF OnceWire
<1>11. OnceWrites'
  <2> SUFFICES ASSUME NEW g \in Followers, NEW k \in Keys, reply'[g] # "ok", out[g][k] # Same
               PROVE  \E p \in Once(Settled') \cup {None} : out[g][k] = Extended(p, edit[g])
    BY <1>2 DEF OnceWrites
  <2>1. reply[g] # "ok"
    BY <1>3
  <2> QED
    BY <1>0, <1>6, <2>1, OnceWritesKept
<1> QED
  BY <1>8, <1>9, <1>10, <1>11 DEF OnceInv

LEMMA OnceSyncing ==
    ASSUME TypeInv, OnceInv, certain, NEW f \in Followers, Sync(f) \/ ReadRecords(f) \/ Contribute(f)
    PROVE  OnceInv'
<1>0. OnceStores /\ OnceEdits /\ OnceWrites /\ OnceWire
  BY DEF OnceInv
<1>1. /\ UNCHANGED <<db, deltas, edit, out, reply, begun, certain>>
      /\ awaits[f] = None /\ reply[f] = None
  BY OnceTypes DEF Sync, ReadRecords, Contribute, Idle, coordVars, progVars, netVars, history
<1>2. Settled' = Settled
  BY <1>1 DEF Settled, Pending
<1>3. rep' \in [Followers -> OnceRecords(Settled)] /\ held' \in [Followers -> OnceRecords(Settled)]
  <2>1. CASE Sync(f)
    BY <1>0, <2>1, OnceSynced DEF Sync, OnceStores, progVars
  <2>2. CASE ReadRecords(f) \/ Contribute(f)
    BY <1>0, <2>2 DEF ReadRecords, Contribute, OnceStores, repVars, progVars
  <2> QED
    BY <2>1, <2>2
<1>4. OnceStores' /\ OnceWrites' /\ OnceEdits'
  BY <1>0, <1>1, <1>2, <1>3 DEF OnceStores, OnceWrites, OnceEdits
<1>5. OnceWire'
  <2>1. CASE Sync(f) \/ ReadRecords(f)
    BY <1>0, <1>1, <2>1 DEF Sync, ReadRecords, netVars, OnceWire
  <2>2. CASE Contribute(f)
    <3>1. awaits' = [awaits EXCEPT ![f] = Request(f)] /\ net' = net \cup {Request(f)}
      BY <2>2 DEF Contribute
    <3>2. Request(f).from = f /\ Request(f).edit = edit[f] /\ Request(f).ops = out[f]
      BY DEF Request
    <3>3. \A r \in net : r.from \in Followers /\ r.from # f
      BY <1>0, <1>1, OnceTypes DEF OnceWire
    <3> HIDE DEF Request
    <3>4. awaits'[f] = Request(f) /\ \A g \in Followers : g # f => awaits'[g] = awaits[g]
      BY <3>1, OnceTypes
    <3> QED
      BY <1>0, <1>1, <3>1, <3>2, <3>3, <3>4 DEF OnceWire
  <2> QED
    BY <2>1, <2>2
<1> QED
  BY <1>4, <1>5 DEF OnceInv

LEMMA OnceRefusing ==
    ASSUME TypeInv, OnceInv, certain, NEW r \in net, FanInRefuse(r)
    PROVE  OnceInv'
<1>0. OnceStores /\ OnceEdits /\ OnceWrites /\ OnceWire
  BY DEF OnceInv
<1> DEFINE f == r.from
<1>1. f \in Followers /\ awaits[f] = r /\ reply[f] = None /\ reply[f] # "ok"
  BY <1>0, OnceTypes, PayloadSequences DEF OnceWire
<1>2. /\ net' = net \ {r} /\ reply' = [reply EXCEPT ![f] = "conflict"]
      /\ UNCHANGED <<db, deltas, rep, held, edit, out, awaits, begun>>
  BY <1>1 DEF FanInRefuse, Replies, repVars, progVars, history
<1> HIDE DEF f
<1>3. /\ reply'[f] # "ok"
      /\ \A g \in Followers : g # f => reply'[g] = reply[g]
  BY <1>1, <1>2, OnceTypes
<1>4. Pending' = Pending
  BY <1>1, <1>2, <1>3 DEF Pending
<1>5. Settled' = Settled
  BY <1>2, <1>4 DEF Settled
<1>6. OnceStores' /\ OnceEdits'
  BY <1>0, <1>2, <1>5 DEF OnceStores, OnceEdits
<1>7. OnceWrites'
  BY <1>0, <1>1, <1>2, <1>3, <1>5 DEF OnceWrites
<1>8. \A q \in net' : q \in net /\ q.from \in Followers /\ q.from # f
  BY <1>0, <1>1, <1>2, OnceTypes DEF OnceWire, f
<1>9. OnceWire'
  BY <1>0, <1>2, <1>3, <1>8 DEF OnceWire
<1> QED
  BY <1>6, <1>7, <1>9 DEF OnceInv

(* A reply taken, or a block given up. *)
LEMMA OnceEnding ==
    ASSUME TypeInv, OnceInv, certain, NEW f \in Followers, Done(f) \/ Conflict(f) \/ Discard(f)
    PROVE  OnceInv'
<1>0. OnceStores /\ OnceEdits /\ OnceWrites /\ OnceWire
  BY DEF OnceInv
<1>1. /\ UNCHANGED <<db, deltas, net, begun>> /\ Reread(f)
      /\ out' = [out EXCEPT ![f] = Untouched]
      /\ \A g \in Followers : g # f => edit'[g] = edit[g] /\ reply'[g] = reply[g] /\ awaits'[g] = awaits[g]
      /\ reply'[f] = None
  BY OnceTypes, ZenonT(60) DEF Done, Conflict, Discard, Answered, Idle, coordVars, netVars, history
<1>2. /\ \A g \in Followers : edit'[g] = None \/ edit'[g] = edit[g]
      /\ Conflict(f) => edit' = edit /\ reply[f] # "ok"
      /\ Done(f) => reply[f] = "ok" /\ edit'[f] = None
      /\ Discard(f) => edit'[f] = None
  BY OnceTypes DEF Done, Conflict, Discard
<1>3. \A r \in net : r.from \in Followers /\ r.from # f
  BY <1>0, OnceTypes, PayloadSequences DEF OnceWire, Done, Conflict, Discard, Idle
<1>4. None # "ok"
  BY PayloadSequences
<1>5. \A g \in Pending' : g \in Pending /\ edit'[g] = edit[g]
  BY <1>1, <1>2 DEF Pending
<1>6. Settled \subseteq Settled'
  BY <1>1, <1>5 DEF Settled
<1>7. rep' \in [Followers -> OnceRecords(Settled')] /\ held \in [Followers -> OnceRecords(Settled')]
  <2>1. rep' \in [Followers -> OnceRecords(Settled)]
    <3>1. CASE Discard(f)
      BY <1>0, <3>1 DEF Discard, OnceStores, repVars
    <3>2. CASE Done(f) \/ Conflict(f)
      BY <1>0, <3>2, OnceSynced DEF Done, Conflict
    <3> QED
      BY <3>1, <3>2
  <2>2. OnceRecords(Settled) \subseteq OnceRecords(Settled')
    BY <1>6, OnceMore
  <2> QED
    BY <1>0, <1>6, <2>1, <2>2, OnceKept
<1>8. held' \in [Followers -> OnceRecords(Settled')]
  <2>1. rep'[f] \in OnceRecords(Settled') /\ held[f] \in OnceRecords(Settled')
    BY <1>7
  <2>2. [k \in Keys |-> IF out[f][k] = Same THEN held[f][k] ELSE rep'[f][k]] \in OnceRecords(Settled')
    BY <2>1 DEF OnceRecords
  <2> QED
    BY <1>1, <1>7, <2>2 DEF Reread
<1>9. OnceStores'
  BY <1>0, <1>1, <1>6, <1>7, <1>8, OnceKept DEF OnceStores
<1>10. OnceEdits'
  BY <1>0, <1>1, <1>2 DEF OnceEdits
<1>11. OnceWire'
  BY <1>0, <1>1, <1>3, OnceTypes DEF OnceWire
<1>12. OnceWrites'
  <2> SUFFICES ASSUME NEW g \in Followers, NEW k \in Keys, reply'[g] # "ok", out'[g][k] # Same
               PROVE  \E p \in Once(Settled') \cup {None} : out'[g][k] = Extended(p, edit'[g])
    BY DEF OnceWrites
  <2>1. g # f
    BY <1>1, OnceTypes
  <2>2. out'[g] = out[g] /\ edit'[g] = edit[g] /\ reply[g] # "ok"
    BY <1>1, <2>1, OnceTypes
  <2> QED
    BY <1>0, <1>6, <2>2, OnceWritesKept
<1> QED
  BY <1>9, <1>10, <1>11, <1>12 DEF OnceInv

LEMMA OnceWriting ==
    ASSUME TypeInv, OnceInv, certain, NEW f \in Followers, NEW e \in Edits,
           NEW ks \in SUBSET Keys, Edit(f, e, ks)
    PROVE  OnceInv'
<1>0. OnceStores /\ OnceEdits /\ OnceWrites /\ OnceWire
  BY DEF OnceInv
<1>1. /\ UNCHANGED <<db, deltas, rep, held, awaits, net, reply>>
      /\ begun' = begun \cup {e} /\ edit' = [edit EXCEPT ![f] = e]
      /\ out' = [out EXCEPT ![f] = [k \in Keys |->
                    IF k \in ks THEN Extended(held[f][k], e) ELSE Same]]
      /\ edit[f] = e \/ (edit[f] = None /\ e \notin begun)
      /\ awaits[f] = None /\ reply[f] = None /\ reply[f] # "ok" /\ e # None
  BY OnceTypes, PayloadSequences, FederationConstants DEF Edit, Idle, coordVars, repVars, netVars
<1>2. /\ edit'[f] = e
      /\ \A g \in Followers : g # f => edit'[g] = edit[g] /\ out'[g] = out[g]
      /\ out'[f] = [k \in Keys |-> IF k \in ks THEN Extended(held[f][k], e) ELSE Same]
  BY <1>1, OnceTypes
<1>3. Pending' = Pending \cup {f}
  BY <1>1, <1>2 DEF Pending
<1>4. edit[f] = e => f \in Pending
  BY <1>1 DEF Pending
<1>5. e \notin Settled
  BY <1>1, <1>4 DEF Settled
<1>6. \A g \in Pending' : edit'[g] \notin Settled
  BY <1>2, <1>3, <1>5 DEF Settled, Pending
<1>7. Settled \subseteq Settled'
  BY <1>1, <1>6, SettledGrows
<1>8. OnceStores'
  BY <1>0, <1>1, <1>7, OnceKept DEF OnceStores
<1>9. OnceEdits'
  BY <1>0, <1>1, <1>2 DEF OnceEdits
<1>10. \A r \in net : r.from \in Followers /\ r.from # f
  BY <1>0, <1>1, OnceTypes DEF OnceWire
<1>11. OnceWire'
  BY <1>0, <1>1, <1>2, <1>10 DEF OnceWire
<1>12. OnceWrites'
  <2> SUFFICES ASSUME NEW g \in Followers, NEW k \in Keys, reply[g] # "ok", out'[g][k] # Same
               PROVE  \E p \in Once(Settled') \cup {None} : out'[g][k] = Extended(p, edit'[g])
    BY <1>1 DEF OnceWrites
  <2>1. CASE g = f
    <3>1. out'[f][k] = Extended(held[f][k], e)
      BY <1>2, <2>1
    <3>2. held[f][k] \in Once(Settled') \cup {None}
      BY <1>0, <1>7, OnceKept DEF OnceRecords
    <3> QED
      BY <1>2, <2>1, <3>1, <3>2
  <2>2. CASE g # f
    BY <1>0, <1>2, <1>7, <2>2, OnceWritesKept
  <2> QED
    BY <2>1, <2>2
<1> QED
  BY <1>8, <1>9, <1>11, <1>12 DEF OnceInv

LEMMA OnceDeleting ==
    ASSUME TypeInv, buffer = Untouched, OnceInv, certain, NEW k \in Keys, CoordinatorDelete(k)
    PROVE  OnceInv'
<1>0. OnceStores /\ OnceEdits /\ OnceWrites /\ OnceWire
  BY DEF OnceInv
<1>1. /\ Commits([buffer EXCEPT ![k] = None])
      /\ UNCHANGED <<rep, held, edit, out, awaits, net, reply, begun>>
  BY DEF CoordinatorDelete, repVars, progVars, netVars
<1>2. Settled' = Settled
  BY <1>1 DEF Settled, Pending
<1>3. [buffer EXCEPT ![k] = None] \in OnceOperations(Settled')
  BY DEF Untouched, OnceOperations
<1>4. OnceStores'
  BY <1>0, <1>1, <1>2, <1>3, OnceCommitted
<1>5. OnceEdits' /\ OnceWire' /\ OnceWrites'
  BY <1>0, <1>1, <1>2 DEF OnceEdits, OnceWire, OnceWrites
<1> QED
  BY <1>4, <1>5 DEF OnceInv

LEMMA OnceStep ==
    ASSUME TypeInv, SerialInv, OnceInv, [Next]_vars
    PROVE  OnceInv'
<1>0. buffer = Untouched
  BY DEF SerialInv
<1> SUFFICES ASSUME certain'
             PROVE  OnceInv'
  BY DEF OnceInv
<1>1. ASSUME NEW e \in Edits, NEW ks \in SUBSET Keys, CoordinatorEdit(e, ks)
      PROVE  OnceInv'
  BY <1>0, <1>1, OnceEditing DEF CoordinatorEdit
<1>2. ASSUME NEW k \in Keys, CoordinatorDelete(k)
      PROVE  OnceInv'
  BY <1>0, <1>2, OnceDeleting DEF CoordinatorDelete
<1>3. ASSUME NEW r \in net, FanInAccept(r)
      PROVE  OnceInv'
  BY <1>0, <1>3, OnceAccepting DEF FanInAccept
<1>4. ASSUME NEW r \in net, FanInRefuse(r)
      PROVE  OnceInv'
  BY <1>4, OnceRefusing DEF FanInRefuse, history
<1>5. ASSUME NEW r \in net, Lose(r)
      PROVE  OnceInv'
  BY <1>5 DEF Lose, history, OnceInv, OnceWire
<1>6. ASSUME NEW f \in Followers, Sync(f) \/ ReadRecords(f) \/ Contribute(f)
      PROVE  OnceInv'
  BY <1>6, OnceSyncing DEF Sync, ReadRecords, Contribute, history
<1>7. ASSUME NEW f \in Followers, Done(f) \/ Conflict(f) \/ Discard(f)
      PROVE  OnceInv'
  BY <1>7, OnceEnding DEF Done, Conflict, Discard, history
<1>8. ASSUME NEW f \in Followers, Timeout(f)
      PROVE  OnceInv'
  BY <1>8 DEF Timeout
<1>9. ASSUME NEW f \in Followers, NEW e \in Edits, NEW ks \in SUBSET Keys, Edit(f, e, ks)
      PROVE  OnceInv'
  BY <1>9, OnceWriting DEF Edit
<1>10. CASE UNCHANGED vars
  <2>1. UNCHANGED <<db, deltas, rep, held, edit, out, awaits, net, reply, begun, certain>>
    BY <1>10 DEF vars, coordVars, repVars, progVars, netVars, history
  <2>2. Settled' = Settled
    BY <2>1 DEF Settled, Pending
  <2>3. /\ OnceStores => OnceStores'
        /\ OnceEdits => OnceEdits'
        /\ OnceWrites => OnceWrites'
        /\ OnceWire => OnceWire'
    BY <2>1, <2>2 DEF OnceStores, OnceEdits, OnceWrites, OnceWire
  <2> QED
    BY <2>1, <2>3 DEF OnceInv
<1> QED
  BY <1>1, <1>2, <1>3, <1>4, <1>5, <1>6, <1>7, <1>8, <1>9, <1>10
  DEF Next, Coordinator, Follower

(* An edit reaches a record once, also one that was refused and made again on  *)
(* fresh state, for any number of followers: as long as every request gets its *)
(* reply, what a follower still has under way is an edit that no record, delta *)
(* or replica holds yet.                                                       *)
THEOREM FederationAppliedOnce == Spec => []AppliedOnce
<1>1. Init => TypeInv /\ SerialInv /\ OnceInv
  <2>1. Init => SerialInv
    BY DEF Init, SerialInv, Serial, Untouched, Nothing
  <2>2. ASSUME Init
        PROVE  OnceInv
    <3>1. Nothing \in OnceRecords(Settled)
      BY DEF Nothing, OnceRecords
    <3>2. deltas \in Seq(OnceOperations(Settled))
      BY <2>2 DEF Init
    <3>3. \A f \in Followers, k \in Keys : out[f][k] = Same
      BY <2>2 DEF Init, Untouched
    <3> HIDE DEF Settled, OnceRecords, OnceOperations
    <3> QED
      BY <2>2, <3>1, <3>2, <3>3 DEF Init, OnceInv, OnceStores, OnceEdits, OnceWrites, OnceWire
  <2> QED
    BY <2>1, <2>2, TypeInit
<1>2. (TypeInv /\ SerialInv /\ OnceInv) /\ [Next]_vars => (TypeInv /\ SerialInv /\ OnceInv)'
  BY TypeStep, SerialStep, OnceStep
<1>3. OnceInv => AppliedOnce
  <2>1. ASSUME OnceStores, NEW k \in Keys, db[k] # None
        PROVE  db[k] \in Once(Settled)
    BY <2>1 DEF OnceStores, OnceRecords
  <2> QED
    BY <2>1 DEF OnceInv, AppliedOnce, Once
<1> QED
  BY <1>1, <1>2, <1>3, PTL DEF Spec

=============================================================================
