----------------------------- MODULE LeaseProofs -----------------------------
(***************************************************************************)
(* Proofs about the lease for any number of processes and commits: what     *)
(* holds until two openers overlap or the OS pauses a process, with         *)
(* processes that die at any step.                                          *)
(***************************************************************************)
EXTENDS LeaseLock, SequenceTheorems, TLAPS

(* The path names the live holder's fresh lock, from its payload to its     *)
(* removal; an opener unlinks only when nobody holds.                       *)
FileInv ==
    /\ \A p \in Procs : pc[p] \in Holding => file = Lock(p)
    /\ \A p \in Procs : pc[p] = "payload" => file = Empty(p)
    /\ \A p \in Procs : pc[p] = "unlink" => \A q \in Procs : pc[q] \notin Holding
    /\ \A p \in Procs : pc[p] = "closed" => file.by # p
    /\ \A p, q \in Procs : pc[p] \in Acquiring /\ pc[q] \in Acquiring => p = q

(* A refresher runs exactly while its process is open, or joins it, and     *)
(* replaces the file by its own fresh payload.                              *)
RefreshInv ==
    /\ paused = {}
    /\ \A p \in Procs : lost[p] = FALSE
    /\ \A p \in Procs : pc[p] \in {"boot", "open"} => rpc[p] # "off"
    /\ \A p \in Procs : rpc[p] # "off" => pc[p] \in {"boot", "open", "join"}
    /\ \A p \in Procs : rpc[p] = "replace" => tmp = Lock(p)

(* The open store knows every durable commit. *)
StoreInv ==
    /\ InOrder
    /\ \A p \in Procs : pc[p] = "open" => known[p] = Len(tids)
    /\ \A p \in Procs : commit[p] # "idle" => pc[p] = "open"

LeaseInv == TypeOK /\ FileInv /\ RefreshInv /\ StoreInv

-----------------------------------------------------------------------------
LEMMA LockDistinct ==
    ASSUME NEW p, NEW q
    PROVE  /\ Lock(p) = Lock(q) => p = q
           /\ Lock(p) # Empty(q)
           /\ Lock(p) # Absent
           /\ Empty(p) # Absent
           /\ Empty(p) = Empty(q) => p = q
           /\ Lock(p).by = p /\ Lock(p).kind = "lock" /\ Lock(p).old = FALSE
           /\ Empty(p).by = p /\ Empty(p).kind = "empty"
           /\ Absent.by = NoProc /\ Absent.kind = "absent"
  BY DEF Lock, Empty, Absent

(* Every step keeps the variables in their types. *)
LEMMA LeaseTypesStep == TypeOK /\ [Next]_vars => TypeOK'
<1> SUFFICES ASSUME TypeOK, [Next]_vars PROVE TypeOK'
  OBVIOUS
<1> USE LeaseConstants
<1>f. Absent \in Files /\ \A p \in Procs : Lock(p) \in Files /\ Empty(p) \in Files
  BY DEF Absent, Lock, Empty, Files
<1>1. CASE Tick
  BY <1>1 DEF Tick, TypeOK, lockVars, storeVars
<1>2. ASSUME NEW p \in Procs, Start(p) PROVE TypeOK'
  BY <1>2 DEF Start, TypeOK, lockVars, storeVars, Acquiring, Holding
<1>3. ASSUME NEW p \in Procs, AcquireStep(p) PROVE TypeOK'
  <2>1. CASE Create(p)
    BY <2>1, <1>f DEF Create, TypeOK, storeVars, Acquiring, Holding
  <2>2. CASE Read(p)
    BY <2>2 DEF Read, TypeOK, lockVars, storeVars, Acquiring, Holding
  <2>3. CASE Unlink(p)
    BY <2>3, <1>f DEF Unlink, TypeOK, storeVars, Acquiring, Holding
  <2>4. CASE WritePayload(p)
    BY <2>4, <1>f DEF WritePayload, TypeOK, storeVars, Acquiring, Holding
  <2>5. CASE Boot(p)
    <3>1. Len(tids) \in Nat
      BY LenProperties DEF TypeOK
    <3> QED BY <2>5, <3>1 DEF Boot, TypeOK, lockVars, Acquiring, Holding
  <2> QED BY <1>3, <2>1, <2>2, <2>3, <2>4, <2>5 DEF AcquireStep
<1>4. ASSUME NEW p \in Procs, RefreshStep(p) PROVE TypeOK'
  <2>1. CASE RefreshRead(p)
    BY <2>1 DEF RefreshRead, TypeOK, lockVars, storeVars
  <2>2. CASE RefreshTmp(p)
    BY <2>2, <1>f DEF RefreshTmp, TypeOK, storeVars
  <2>3. CASE RefreshReplace(p)
    BY <2>3, <1>f DEF RefreshReplace, TypeOK, storeVars
  <2>4. CASE RefreshStop(p)
    BY <2>4 DEF RefreshStop, TypeOK, lockVars, storeVars
  <2> QED BY <1>4, <2>1, <2>2, <2>3, <2>4 DEF RefreshStep
<1>5. ASSUME NEW p \in Procs, CommitStep(p) PROVE TypeOK'
  <2>1. CASE CommitP1(p)
    BY <2>1 DEF CommitP1, TypeOK, lockVars
  <2>2. CASE CommitP2(p)
    <3>1. known[p] + 1 \in Nat
      BY DEF TypeOK
    <3>2. tids' \in Seq(Nat)
      BY <2>2, <3>1, AppendProperties DEF CommitP2, TypeOK
    <3> QED BY <2>2, <3>1, <3>2 DEF CommitP2, TypeOK, lockVars
  <2> QED BY <1>5, <2>1, <2>2 DEF CommitStep
<1>6. ASSUME NEW p \in Procs, ReleaseStep(p) PROVE TypeOK'
  <2>1. CASE Close(p)
    BY <2>1 DEF Close, TypeOK, lockVars, storeVars, Acquiring, Holding
  <2>2. CASE Join(p)
    BY <2>2 DEF Join, TypeOK, lockVars, storeVars, Acquiring, Holding
  <2>3. CASE Check(p)
    BY <2>3 DEF Check, TypeOK, lockVars, storeVars, Acquiring, Holding
  <2>4. CASE Remove(p)
    BY <2>4, <1>f DEF Remove, TypeOK, storeVars, Acquiring, Holding
  <2> QED BY <1>6, <2>1, <2>2, <2>3, <2>4 DEF ReleaseStep
<1>7. ASSUME NEW p \in Procs, EnvStep(p) PROVE TypeOK'
  <2>1. CASE Pause(p)
    BY <2>1 DEF Pause, TypeOK, lockVars, storeVars
  <2>2. CASE Resume(p)
    BY <2>2 DEF Resume, TypeOK, lockVars, storeVars
  <2>3. CASE Expire(p)
    <3>1. \A f \in Files : Aged(f, p) \in Files
      BY DEF Aged, Files
    <3> QED BY <2>3, <3>1 DEF Expire, TypeOK, storeVars
  <2>4. CASE Crash(p)
    BY <2>4 DEF Crash, TypeOK, lockVars, Acquiring, Holding
  <2>5. CASE Respawn(p)
    BY <2>5 DEF Respawn, TypeOK, lockVars, Acquiring, Holding
  <2> QED BY <1>7, <2>1, <2>2, <2>3, <2>4, <2>5 DEF EnvStep
<1>8. CASE UNCHANGED vars
  BY <1>8 DEF vars, TypeOK, lockVars, storeVars
<1> QED BY <1>1, <1>2, <1>3, <1>4, <1>5, <1>6, <1>7, <1>8 DEF Next

LEMMA LeaseInit == Init => LeaseInv
<1> SUFFICES ASSUME Init PROVE LeaseInv
  OBVIOUS
<1> USE LeaseConstants DEF Init
<1>1. TypeOK
  BY DEF TypeOK, Files, Absent, Acquiring, Holding
<1>2. FileInv
  BY DEF FileInv, Acquiring, Holding
<1>3. RefreshInv
  BY DEF RefreshInv
<1>4. StoreInv
  BY DEF StoreInv, InOrder
<1> QED BY <1>1, <1>2, <1>3, <1>4 DEF LeaseInv

(* At most one process holds. *)
LEMMA HolderUnique ==
    ASSUME LeaseInv, NEW p \in Procs, NEW q \in Procs,
           pc[p] \in Holding, pc[q] \in Holding
    PROVE  p = q
<1>1. file.by = p /\ file.by = q
  BY DEF LeaseInv, FileInv, Lock
<1> QED BY <1>1

(* Type correctness of the lease: no order of openings, take-overs, pauses  *)
(* and crashes takes a variable out of its type.                            *)
THEOREM LeaseTypes == Spec => []TypeOK
<1>1. Init => TypeOK
  BY LeaseInit DEF LeaseInv
<1> QED BY <1>1, LeaseTypesStep, PTL DEF Spec

-----------------------------------------------------------------------------
(* An opener in create, read or unlink changes pc and, once, unlinks.       *)
LEMMA OpenerStep ==
    ASSUME calm', LeaseInv, NEW p \in Procs,
           Start(p) \/ Create(p) \/ Read(p) \/ Unlink(p)
    PROVE  FileInv' /\ RefreshInv' /\ StoreInv'
<1> USE DEF LeaseInv
<1>0. TypeOK
  OBVIOUS
<1>1. CASE Start(p)
  <2>1. FileInv'
    BY <1>0, <1>1 DEF Start, Alone, FileInv, TypeOK, lockVars, Acquiring, Holding
  <2>2. RefreshInv'
    BY <1>0, <1>1 DEF Start, RefreshInv, TypeOK, lockVars
  <2>3. StoreInv'
    BY <1>0, <1>1 DEF Start, StoreInv, InOrder, TypeOK, storeVars
  <2> QED BY <2>1, <2>2, <2>3
<1>2. CASE Create(p)
  <2>1. FileInv'
    <3>1. CASE file = Absent
      <4>1. \A q \in Procs : pc[q] \notin Holding /\ pc[q] # "payload"
        BY <3>1 DEF FileInv, Lock, Empty, Absent
      <4>2. file' = Empty(p) /\ pc' = [pc EXCEPT ![p] = "payload"]
        BY <1>2, <3>1 DEF Create
      <4>3. Empty(p).by = p
        BY DEF Empty
      <4> QED BY <1>0, <1>2, <4>1, <4>2, <4>3 DEF Create, FileInv, TypeOK, Acquiring, Holding
    <3>2. CASE file # Absent
      BY <1>0, <1>2, <3>2, ZenonT(60) DEF Create, FileInv, TypeOK, Acquiring, Holding
    <3> QED BY <3>1, <3>2
  <2>2. RefreshInv'
    BY <1>0, <1>2, ZenonT(60) DEF Create, RefreshInv, TypeOK
  <2>3. StoreInv'
    BY <1>0, <1>2 DEF Create, StoreInv, InOrder, TypeOK, storeVars
  <2> QED BY <2>1, <2>2, <2>3
<1>3. CASE Read(p)
  <2>1. ASSUME Stale(file), NEW q \in Procs PROVE pc[q] \notin Holding
    <3>1. SUFFICES ASSUME pc[q] \in Holding PROVE FALSE
      OBVIOUS
    <3>2. file.kind = "lock" /\ file.by = q /\ file.old = FALSE
      BY <3>1 DEF FileInv, Lock
    <3> QED BY <2>1, <3>1, <3>2 DEF Stale, Holding
  <2>2. FileInv'
    BY <1>0, <1>3, <2>1 DEF Read, FileInv, TypeOK, lockVars, Acquiring, Holding
  <2>3. RefreshInv'
    BY <1>0, <1>3 DEF Read, RefreshInv, TypeOK, lockVars
  <2>4. StoreInv'
    BY <1>0, <1>3 DEF Read, StoreInv, InOrder, TypeOK, storeVars
  <2> QED BY <2>2, <2>3, <2>4
<1>4. CASE Unlink(p)
  <2>1. FileInv'
    <3>1. \A q \in Procs : pc[q] \notin Holding /\ pc[q] # "payload"
      BY <1>4 DEF FileInv, Unlink, Acquiring
    <3>2. \A q \in Procs : file'.by # q
      BY <1>4, LeaseConstants DEF Unlink, Absent
    <3> QED BY <1>0, <1>4, <3>1, <3>2 DEF Unlink, FileInv, TypeOK, Acquiring, Holding
  <2>2. RefreshInv'
    BY <1>0, <1>4 DEF Unlink, RefreshInv, TypeOK
  <2>3. StoreInv'
    BY <1>0, <1>4 DEF Unlink, StoreInv, InOrder, TypeOK, storeVars
  <2> QED BY <2>1, <2>2, <2>3
<1> QED BY <1>1, <1>2, <1>3, <1>4

(* The payload makes the opener the holder of a file nobody else holds, and *)
(* it then learns every durable commit.                                     *)
LEMMA HoldStep ==
    ASSUME calm', LeaseInv, NEW p \in Procs, WritePayload(p) \/ Boot(p)
    PROVE  FileInv' /\ RefreshInv' /\ StoreInv'
<1> USE DEF LeaseInv
<1>0. TypeOK
  OBVIOUS
<1>1. CASE WritePayload(p)
  <2>1. file = Empty(p)
    BY <1>1 DEF WritePayload, FileInv
  <2>2. \A q \in Procs : pc[q] \notin Holding
    BY <2>1 DEF FileInv, Lock, Empty
  <2>3. file' = Lock(p) /\ Lock(p).by = p
    BY <1>1, <2>1 DEF WritePayload, Lock
  <2>4. pc' = [pc EXCEPT ![p] = "boot"] /\ pc[p] \in Acquiring
    BY <1>1 DEF WritePayload, Acquiring
  <2>5. FileInv'
    BY <1>0, <2>2, <2>3, <2>4 DEF FileInv, TypeOK, Acquiring, Holding
  <2>6. RefreshInv'
    BY <1>0, <1>1 DEF WritePayload, RefreshInv, TypeOK
  <2>7. StoreInv'
    BY <1>0, <1>1 DEF WritePayload, StoreInv, InOrder, TypeOK, storeVars
  <2> QED BY <2>5, <2>6, <2>7
<1>2. CASE Boot(p)
  <2>1. FileInv'
    BY <1>0, <1>2 DEF Boot, FileInv, TypeOK, lockVars, Acquiring, Holding
  <2>2. RefreshInv'
    BY <1>0, <1>2 DEF Boot, RefreshInv, TypeOK, lockVars
  <2>3. StoreInv'
    BY <1>0, <1>2 DEF Boot, StoreInv, InOrder, TypeOK
  <2> QED BY <2>1, <2>2, <2>3
<1> QED BY <1>1, <1>2

(* A refresher finds its own lock and replaces it by an equal one. *)
LEMMA RefreshKeeps ==
    ASSUME calm', LeaseInv, NEW p \in Procs, RefreshStep(p)
    PROVE  FileInv' /\ RefreshInv' /\ StoreInv'
<1> USE DEF LeaseInv
<1>0. TypeOK /\ rpc[p] # "off" /\ UNCHANGED <<pc, storeVars>>
  BY DEF RefreshStep, RefreshRead, RefreshTmp, RefreshReplace, RefreshStop
<1>1. pc[p] \in Holding /\ file = Lock(p)
  BY <1>0 DEF RefreshInv, FileInv, Holding
<1>2. \A q \in Procs : rpc[q] # "off" => q = p
  BY <1>1, HolderUnique DEF RefreshInv, Holding
<1>3. StoreInv'
  BY <1>0 DEF StoreInv, InOrder, storeVars
<1>4. CASE RefreshRead(p)
  <2>1. file.kind = "lock" /\ file.by = p
    BY <1>1 DEF Lock
  <2>2. rpc' = [rpc EXCEPT ![p] = "tmp"] /\ UNCHANGED <<lost, paused, file, tmp>>
    BY <1>4, <2>1 DEF RefreshRead, lockVars
  <2> QED BY <1>0, <1>3, <1>4, <2>2 DEF RefreshRead, Stopped, FileInv, RefreshInv, TypeOK
<1>5. CASE RefreshTmp(p)
  BY <1>0, <1>2, <1>3, <1>5 DEF RefreshTmp, FileInv, RefreshInv, TypeOK
<1>6. CASE RefreshReplace(p)
  <2>1. tmp = Lock(p)
    BY <1>6 DEF RefreshReplace, RefreshInv
  <2>2. Lock(p) # Absent
    BY DEF Lock, Absent
  <2>3. file' = file
    BY <1>1, <1>6, <2>1, <2>2 DEF RefreshReplace
  <2> QED BY <1>0, <1>2, <1>3, <1>6, <2>3 DEF RefreshReplace, FileInv, RefreshInv, TypeOK
<1>7. CASE RefreshStop(p)
  BY <1>0, <1>3, <1>7 DEF RefreshStop, Stopped, FileInv, RefreshInv, TypeOK, lockVars
<1> QED BY <1>4, <1>5, <1>6, <1>7 DEF RefreshStep

(* Only the one open store commits, and it knows all the commits so far.    *)
LEMMA CommitKeeps ==
    ASSUME calm', LeaseInv, NEW p \in Procs, CommitStep(p)
    PROVE  FileInv' /\ RefreshInv' /\ StoreInv'
<1> USE DEF LeaseInv
<1>0. TypeOK /\ UNCHANGED <<pc, rpc, lost, paused, lockVars>>
  BY DEF CommitStep, CommitP1, CommitP2
<1>1. FileInv' /\ RefreshInv'
  BY <1>0 DEF FileInv, RefreshInv, lockVars
<1>2. CASE CommitP1(p)
  BY <1>0, <1>1, <1>2 DEF CommitP1, StoreInv, InOrder, TypeOK
<1>3. CASE CommitP2(p)
  <2>1. pc[p] = "open" /\ known[p] = Len(tids)
    BY <1>3 DEF CommitP2, StoreInv
  <2>2. \A q \in Procs : pc[q] = "open" => q = p
    BY <2>1, HolderUnique DEF Holding
  <2>3. /\ tids' = Append(tids, Len(tids) + 1)
        /\ known' = [known EXCEPT ![p] = Len(tids) + 1]
    BY <1>0, <1>3, <2>1 DEF CommitP2, TypeOK
  <2>4. Len(tids) \in Nat /\ Len(tids') = Len(tids) + 1 /\ DOMAIN tids = 1..Len(tids)
    BY <1>0, <2>3, LenProperties, AppendProperties DEF TypeOK
  <2>5. DOMAIN tids' = 1..(Len(tids) + 1)
    BY <1>0, <2>3, <2>4, AppendProperties, LenProperties DEF TypeOK
  <2>6. InOrder'
    <3>1. SUFFICES ASSUME NEW n \in DOMAIN tids' PROVE tids'[n] = n
      BY DEF InOrder
    <3>2. CASE n = Len(tids) + 1
      BY <1>0, <2>3, <2>4, <3>2, AppendProperties DEF TypeOK
    <3>3. CASE n # Len(tids) + 1
      <4>1. n \in 1..Len(tids)
        BY <2>4, <2>5, <3>1, <3>3
      <4>2. tids'[n] = tids[n]
        BY <1>0, <2>3, <2>4, <4>1, AppendProperties DEF TypeOK
      <4> QED BY <2>4, <4>1, <4>2 DEF StoreInv, InOrder
    <3> QED BY <3>2, <3>3
  <2>7. commit' = [commit EXCEPT ![p] = "idle"]
    BY <1>3 DEF CommitP2
  <2> QED BY <1>0, <1>1, <2>2, <2>3, <2>4, <2>6, <2>7 DEF StoreInv, TypeOK
<1> QED BY <1>2, <1>3 DEF CommitStep

(* release() joins its refresher and then removes its own lock. *)
LEMMA ReleaseKeeps ==
    ASSUME calm', LeaseInv, NEW p \in Procs, ReleaseStep(p)
    PROVE  FileInv' /\ RefreshInv' /\ StoreInv'
<1> USE DEF LeaseInv
<1>0. TypeOK
  OBVIOUS
<1>1. CASE Close(p)
  <2>1. FileInv' /\ RefreshInv'
    BY <1>0, <1>1 DEF Close, FileInv, RefreshInv, TypeOK, lockVars, Acquiring, Holding
  <2>2. StoreInv'
    BY <1>0, <1>1 DEF Close, StoreInv, InOrder, TypeOK, storeVars
  <2> QED BY <2>1, <2>2
<1>2. CASE Join(p)
  <2>1. rpc[p] = "off" /\ pc' = [pc EXCEPT ![p] = "check"]
    BY <1>2 DEF Join, RefreshInv
  <2>2. FileInv' /\ RefreshInv'
    BY <1>0, <1>2, <2>1 DEF Join, FileInv, RefreshInv, TypeOK, lockVars, Acquiring, Holding
  <2>3. StoreInv'
    BY <1>0, <1>2, <2>1 DEF Join, StoreInv, InOrder, TypeOK, storeVars
  <2> QED BY <2>2, <2>3
<1>3. CASE Check(p)
  <2>1. file = Lock(p)
    BY <1>3 DEF Check, FileInv, Holding
  <2>2. pc' = [pc EXCEPT ![p] = "remove"]
    BY <1>3, <2>1 DEF Check, Lock
  <2>3. FileInv' /\ RefreshInv'
    BY <1>0, <1>3, <2>2 DEF Check, FileInv, RefreshInv, TypeOK, lockVars, Acquiring, Holding
  <2>4. StoreInv'
    BY <1>0, <1>3, <2>2 DEF Check, StoreInv, InOrder, TypeOK, storeVars
  <2> QED BY <2>3, <2>4
<1>4. CASE Remove(p)
  <2>1. file = Lock(p) /\ pc[p] \in Holding
    BY <1>4 DEF Remove, FileInv, Holding
  <2>2. \A q \in Procs : pc[q] \in Holding => q = p
    BY <2>1, HolderUnique
  <2>3. \A q \in Procs : pc[q] # "payload"
    BY <2>1 DEF FileInv, Lock, Empty
  <2>4. \A q \in Procs : file'.by # q
    BY <1>4, LeaseConstants DEF Remove, Absent
  <2>5. FileInv'
    BY <1>0, <1>4, <2>2, <2>3, <2>4 DEF Remove, FileInv, TypeOK, Acquiring, Holding
  <2>6. RefreshInv'
    BY <1>0, <1>4 DEF Remove, RefreshInv, TypeOK
  <2>7. StoreInv'
    BY <1>0, <1>4 DEF Remove, StoreInv, InOrder, TypeOK, storeVars
  <2> QED BY <2>5, <2>6, <2>7
<1> QED BY <1>1, <1>2, <1>3, <1>4 DEF ReleaseStep

(* Only the stamps of the dead get old, and a crash frees nothing. *)
LEMMA EnvKeeps ==
    ASSUME calm', LeaseInv, NEW p \in Procs, EnvStep(p)
    PROVE  FileInv' /\ RefreshInv' /\ StoreInv'
<1> USE DEF LeaseInv
<1>0. TypeOK
  OBVIOUS
<1>1. ~Pause(p) /\ ~Resume(p)
  BY DEF Pause, Resume, RefreshInv
<1>2. CASE Expire(p)
  <2>1. pc[p] \notin Holding /\ rpc[p] = "off"
    BY <1>2 DEF Expire, RefreshInv, Holding
  <2>2. ASSUME NEW q \in Procs, q # p
        PROVE  Aged(Lock(q), p) = Lock(q) /\ Aged(Empty(q), p) = Empty(q)
    BY <2>2 DEF Aged, Ages, Lock, Empty
  <2>3. Aged(Empty(p), p) = Empty(p)
    BY DEF Aged, Ages, Empty
  <2>4. Aged(file, p).by = file.by
    BY <1>0 DEF Aged, TypeOK, Files
  <2>5. file' = Aged(file, p) /\ tmp' = Aged(tmp, p)
        /\ UNCHANGED <<pc, rpc, lost, paused, storeVars>>
    BY <1>2 DEF Expire
  <2>6. FileInv'
    BY <2>1, <2>2, <2>3, <2>4, <2>5 DEF FileInv
  <2>7. RefreshInv'
    BY <2>1, <2>2, <2>5 DEF RefreshInv
  <2>8. StoreInv'
    BY <2>5 DEF StoreInv, InOrder, storeVars
  <2> QED BY <2>6, <2>7, <2>8
<1>3. CASE Crash(p)
  <2>1. FileInv'
    BY <1>0, <1>3 DEF Crash, FileInv, TypeOK, lockVars, Acquiring, Holding
  <2>2. RefreshInv'
    BY <1>0, <1>3 DEF Crash, RefreshInv, TypeOK, lockVars
  <2>3. StoreInv'
    BY <1>0, <1>3 DEF Crash, StoreInv, InOrder, TypeOK
  <2> QED BY <2>1, <2>2, <2>3
<1>4. CASE Respawn(p)
  <2>1. FileInv'
    BY <1>0, <1>4 DEF Respawn, FileInv, TypeOK, lockVars, Acquiring, Holding
  <2>2. RefreshInv'
    BY <1>0, <1>4 DEF Respawn, RefreshInv, TypeOK, lockVars
  <2>3. StoreInv'
    BY <1>0, <1>4 DEF Respawn, StoreInv, InOrder, TypeOK
  <2> QED BY <2>1, <2>2, <2>3
<1> QED BY <1>1, <1>2, <1>3, <1>4 DEF EnvStep

LEMMA LeaseNext ==
    ASSUME calm', LeaseInv, [Next]_vars
    PROVE  LeaseInv'
<1>1. TypeOK'
  BY LeaseTypesStep DEF LeaseInv
<1>2. FileInv' /\ RefreshInv' /\ StoreInv'
  <2>1. CASE Tick
    BY <2>1 DEF Tick, LeaseInv, FileInv, RefreshInv, StoreInv, InOrder, lockVars, storeVars
  <2>2. CASE UNCHANGED vars
    BY <2>2 DEF vars, LeaseInv, FileInv, RefreshInv, StoreInv, InOrder, lockVars, storeVars
  <2>3. ASSUME NEW p \in Procs, Start(p) \/ AcquireStep(p)
        PROVE  FileInv' /\ RefreshInv' /\ StoreInv'
    BY <2>3, OpenerStep, HoldStep DEF AcquireStep
  <2>4. ASSUME NEW p \in Procs,
               RefreshStep(p) \/ CommitStep(p) \/ ReleaseStep(p) \/ EnvStep(p)
        PROVE  FileInv' /\ RefreshInv' /\ StoreInv'
    BY <2>4, RefreshKeeps, CommitKeeps, ReleaseKeeps, EnvKeeps
  <2> QED BY <2>1, <2>2, <2>3, <2>4 DEF Next
<1> QED BY <1>1, <1>2 DEF LeaseInv

(* The disturbances are remembered. *)
LEMMA CalmBefore == ASSUME [Next]_vars, calm' PROVE calm
<1>1. CASE UNCHANGED vars
  BY <1>1 DEF vars
<1>2. CASE Tick
  BY <1>2 DEF Tick
<1>3. ASSUME NEW p \in Procs, Start(p) \/ AcquireStep(p) PROVE calm
  BY <1>3 DEF Start, AcquireStep, Create, Read, Unlink, WritePayload, Boot
<1>4. ASSUME NEW p \in Procs, RefreshStep(p) \/ CommitStep(p) PROVE calm
  BY <1>4 DEF RefreshStep, RefreshRead, RefreshTmp, RefreshReplace, RefreshStop,
              CommitStep, CommitP1, CommitP2
<1>5. ASSUME NEW p \in Procs, ReleaseStep(p) \/ EnvStep(p) PROVE calm
  BY <1>5 DEF ReleaseStep, Close, Join, Check, Remove,
              EnvStep, Pause, Resume, Expire, Crash, Respawn
<1> QED BY <1>1, <1>2, <1>3, <1>4, <1>5 DEF Next

LEMMA LeaseAlways == Spec => [](TypeOK /\ (calm => LeaseInv))
<1>1. Init => TypeOK /\ (calm => LeaseInv)
  BY LeaseInit DEF LeaseInv
<1>2. TypeOK /\ (calm => LeaseInv) /\ [Next]_vars => TypeOK' /\ (calm' => LeaseInv')
  <2> SUFFICES ASSUME TypeOK, calm => LeaseInv, [Next]_vars
               PROVE  TypeOK' /\ (calm' => LeaseInv')
    OBVIOUS
  <2>1. TypeOK'
    BY LeaseTypesStep
  <2>2. ASSUME calm' PROVE LeaseInv'
    BY <2>2, CalmBefore, LeaseNext
  <2> QED BY <2>1, <2>2
<1> QED BY <1>1, <1>2, PTL DEF Spec

(* Openers that do not overlap never hold the store at the same time,       *)
(* whoever dies in whatever step of acquire(), a refresh or release().      *)
THEOREM LeaseOneHolder == Spec => []OneHolder
<1>1. (calm => LeaseInv) => OneHolder
  BY HolderUnique DEF OneHolder, OneWriter, Writable, Holding
<1> QED BY <1>1, LeaseAlways, PTL

(* ... so no process commits on top of a commit it does not know: a TID     *)
(* becomes durable once, in order.                                          *)
THEOREM LeaseTidsSequential == Spec => []TidsSequential
<1>1. (calm => LeaseInv) => TidsSequential
  BY DEF LeaseInv, StoreInv, TidsSequential
<1> QED BY <1>1, LeaseAlways, PTL

(* A closed store leaves no lock of its own behind.                         *)
THEOREM LeaseCloseReleases == Spec => []CloseReleases
<1>1. (calm => LeaseInv) => CloseReleases
  BY DEF LeaseInv, FileInv, CloseReleases
<1> QED BY <1>1, LeaseAlways, PTL

(* A holder that runs is never told that it lost its lease.                 *)
THEOREM LeaseNeverLost == Spec => []NeverLost
<1>1. (calm => LeaseInv) => NeverLost
  BY DEF LeaseInv, RefreshInv, NeverLost
<1> QED BY <1>1, LeaseAlways, PTL

-----------------------------------------------------------------------------
(* After the first pause.  A process that has been told it lost its lease    *)
(* has ended its refresher and is named neither by the lock file nor, unless *)
(* it died, by the temporary one: nothing can bring its payload back.        *)
LostInv ==
    /\ \A p \in Procs : lost[p] => /\ pc[p] \in {"boot", "open", "join", "closed"}
                                   /\ rpc[p] = "off"
                                   /\ file.by # p
    /\ \A p \in Procs : tmp.by = p => rpc[p] = "replace" \/ pc[p] = "crashed"
    /\ \A p \in Procs : rpc[p] # "off" => pc[p] \in Holding \cup {"closed"}
    /\ file.kind = "lock" => file.by \in Procs
    /\ tmp.kind = "lock" => tmp.by \in Procs

(* With two processes, one of them at a time has been told. *)
OneLoser == \A p, q \in Procs : lost[p] /\ lost[q] => p = q
AtMostTwo == \A p, q, r \in Procs : p = q \/ q = r \/ p = r

LEMMA LostStep == TypeOK /\ LostInv /\ [Next]_vars => LostInv'
<1> SUFFICES ASSUME TypeOK, LostInv, [Next]_vars PROVE LostInv'
  OBVIOUS
<1> USE LeaseConstants
<1>a. /\ Absent.by = NoProc /\ Absent.kind = "absent"
      /\ \A p \in Procs : /\ Lock(p).by = p /\ Lock(p).kind = "lock"
                          /\ Empty(p).by = p /\ Empty(p).kind = "empty"
  BY DEF Absent, Lock, Empty
<1>1. CASE Tick
  BY <1>1 DEF Tick, LostInv, lockVars
<1>2. ASSUME NEW p \in Procs, Start(p) PROVE LostInv'
  BY <1>2 DEF Start, LostInv, TypeOK, lockVars, Holding
<1>3. ASSUME NEW p \in Procs, AcquireStep(p) PROVE LostInv'
  <2>1. CASE Create(p)
    <3>1. ~lost[p] /\ rpc[p] = "off" /\ pc[p] = "create" /\ UNCHANGED <<lost, rpc, tmp>>
      BY <2>1 DEF Create, LostInv, Holding, TypeOK
    <3>2. /\ file' = file \/ file' = Empty(p)
          /\ pc' = [pc EXCEPT ![p] = "payload"] \/ pc' = [pc EXCEPT ![p] = "read"]
      BY <2>1 DEF Create
    <3>3. \A q \in Procs : q # p => pc'[q] = pc[q]
      BY <3>2 DEF TypeOK
    <3>4. \A q \in Procs : lost[q] => file'.by # q
      BY <3>1, <3>2, <1>a DEF LostInv
    <3>5. file'.kind = "lock" => file'.by \in Procs
      BY <3>2, <1>a DEF LostInv
    <3> QED BY <3>1, <3>3, <3>4, <3>5 DEF LostInv
  <2>2. CASE Read(p)
    BY <2>2 DEF Read, LostInv, TypeOK, lockVars, Holding
  <2>3. CASE Unlink(p)
    BY <2>3, <1>a DEF Unlink, LostInv, TypeOK, Holding
  <2>4. CASE WritePayload(p)
    <3>1. file' = Lock(p) \/ file' = file
      BY <2>4 DEF WritePayload
    <3>2. ~lost[p] /\ rpc[p] = "off"
      BY <2>4 DEF WritePayload, LostInv, Holding, TypeOK
    <3> QED BY <2>4, <3>1, <3>2, <1>a DEF WritePayload, LostInv, TypeOK, Holding
  <2>5. CASE Boot(p)
    BY <2>5 DEF Boot, LostInv, TypeOK, lockVars, Holding
  <2> QED BY <1>3, <2>1, <2>2, <2>3, <2>4, <2>5 DEF AcquireStep
<1>4. ASSUME NEW p \in Procs, RefreshStep(p) PROVE LostInv'
  <2>1. CASE RefreshRead(p)
    <3>1. rpc[p] = "wait" /\ pc[p] \in {"boot", "open"} /\ tmp.by # p
          /\ UNCHANGED <<pc, file, tmp>>
      BY <2>1 DEF RefreshRead, Runs, Stopped, LostInv, Holding, lockVars
    <3>2. CASE file.kind = "lock" /\ file.by # p
      <4>1. lost' = [lost EXCEPT ![p] = TRUE] /\ rpc' = [rpc EXCEPT ![p] = "off"]
        BY <2>1, <3>2 DEF RefreshRead
      <4> QED BY <3>1, <3>2, <4>1 DEF LostInv, TypeOK
    <3>3. CASE ~(file.kind = "lock" /\ file.by # p)
      BY <2>1, <3>1, <3>3 DEF RefreshRead, LostInv, TypeOK, lockVars, Holding
    <3> QED BY <3>2, <3>3
  <2>2. CASE RefreshTmp(p)
    BY <2>2, <1>a DEF RefreshTmp, LostInv, TypeOK, Holding
  <2>3. CASE RefreshReplace(p)
    <3>1. /\ rpc[p] = "replace" /\ rpc' = [rpc EXCEPT ![p] = "wait"]
          /\ tmp' = Absent /\ pc' = pc /\ lost' = lost
      BY <2>3 DEF RefreshReplace
    <3>2. CASE tmp = Absent
      BY <2>3, <3>1, <3>2, <1>a DEF RefreshReplace, LostInv, TypeOK, Holding
    <3>3. CASE tmp # Absent
      <4>1. file' = tmp
        BY <2>3, <3>3 DEF RefreshReplace
      <4>2. \A q \in Procs : lost[q] => tmp.by # q
        BY DEF LostInv
      <4> QED BY <3>1, <4>1, <4>2, <1>a DEF LostInv, TypeOK, Holding
    <3> QED BY <3>2, <3>3
  <2>4. CASE RefreshStop(p)
    BY <2>4 DEF RefreshStop, LostInv, TypeOK, lockVars, Holding
  <2> QED BY <1>4, <2>1, <2>2, <2>3, <2>4 DEF RefreshStep
<1>5. ASSUME NEW p \in Procs, CommitStep(p) PROVE LostInv'
  BY <1>5 DEF CommitStep, CommitP1, CommitP2, LostInv, TypeOK, lockVars, Holding
<1>6. ASSUME NEW p \in Procs, ReleaseStep(p) PROVE LostInv'
  <2>1. CASE Close(p)
    BY <2>1 DEF Close, LostInv, TypeOK, lockVars, Holding
  <2>2. CASE Join(p)
    BY <2>2 DEF Join, LostInv, TypeOK, lockVars, Holding
  <2>3. CASE Check(p)
    BY <2>3 DEF Check, LostInv, TypeOK, lockVars, Holding
  <2>4. CASE Remove(p)
    BY <2>4, <1>a DEF Remove, LostInv, TypeOK, Holding
  <2> QED BY <1>6, <2>1, <2>2, <2>3, <2>4 DEF ReleaseStep
<1>7. ASSUME NEW p \in Procs, EnvStep(p) PROVE LostInv'
  <2>1. CASE Pause(p)
    BY <2>1 DEF Pause, LostInv, lockVars
  <2>2. CASE Resume(p)
    BY <2>2 DEF Resume, LostInv, lockVars
  <2>3. CASE Expire(p)
    <3>1. \A f \in Files : Aged(f, p).by = f.by /\ Aged(f, p).kind = f.kind
      BY DEF Aged, Files
    <3>2. file'.by = file.by /\ file'.kind = file.kind
          /\ tmp'.by = tmp.by /\ tmp'.kind = tmp.kind
      BY <2>3, <3>1 DEF Expire, TypeOK
    <3> QED BY <2>3, <3>2 DEF Expire, LostInv
  <2>4. CASE Crash(p)
    BY <2>4 DEF Crash, LostInv, TypeOK, lockVars, Holding
  <2>5. CASE Respawn(p)
    BY <2>5 DEF Respawn, LostInv, TypeOK, lockVars, Holding
  <2> QED BY <1>7, <2>1, <2>2, <2>3, <2>4, <2>5 DEF EnvStep
<1>8. CASE UNCHANGED vars
  BY <1>8 DEF vars, LostInv, lockVars
<1> QED BY <1>1, <1>2, <1>3, <1>4, <1>5, <1>6, <1>7, <1>8 DEF Next

(* Only the refresher raises the flag, of the process whose lock it does not *)
(* find: the file then names the other process, which so was not told.       *)
LEMMA LoserStep == AtMostTwo /\ TypeOK /\ LostInv /\ OneLoser /\ [Next]_vars => OneLoser'
<1> SUFFICES ASSUME AtMostTwo, TypeOK, LostInv, OneLoser, [Next]_vars,
                    NEW p \in Procs, NEW q \in Procs, lost'[p], lost'[q], p # q
             PROVE  FALSE
  BY DEF OneLoser
<1>1. ASSUME NEW r \in Procs, lost'[r], ~lost[r]
      PROVE  RefreshRead(r) /\ lost' = [lost EXCEPT ![r] = TRUE]
  <2>1. lost' # lost
    BY <1>1
  <2>2. \A s \in Procs : lost' # [lost EXCEPT ![s] = FALSE]
    BY <1>1 DEF TypeOK
  <2>3. PICK s \in Procs : RefreshRead(s)
    BY <2>1, <2>2 DEF Next, vars, Tick, Start, AcquireStep, Create, Read, Unlink,
       WritePayload, Boot, RefreshStep, RefreshTmp, RefreshReplace, RefreshStop,
       CommitStep, CommitP1, CommitP2, ReleaseStep, Close, Join, Check, Remove,
       EnvStep, Pause, Resume, Expire, Crash, Respawn
  <2>4. lost' = [lost EXCEPT ![s] = TRUE]
    BY <2>1, <2>3 DEF RefreshRead
  <2>5. s = r
    BY <1>1, <2>4 DEF TypeOK
  <2> QED BY <2>3, <2>4, <2>5
<1>2. ASSUME NEW r \in Procs, NEW s \in Procs, r # s, lost'[r], lost'[s], ~lost[r]
      PROVE  FALSE
  <2>1. RefreshRead(r) /\ lost' = [lost EXCEPT ![r] = TRUE]
    BY <1>1, <1>2
  <2>2. lost[s]
    BY <1>2, <2>1 DEF TypeOK
  <2>3. file.kind = "lock" /\ file.by # r
    BY <1>2, <2>1 DEF RefreshRead
  <2>4. file.by \in Procs /\ file.by # s
    BY <2>2, <2>3 DEF LostInv
  <2> QED BY <1>2, <2>3, <2>4 DEF AtMostTwo
<1>3. CASE ~lost[p]
  BY <1>2, <1>3
<1>4. CASE ~lost[q]
  BY <1>2, <1>4
<1>5. CASE lost[p] /\ lost[q]
  BY <1>5 DEF OneLoser
<1> QED BY <1>3, <1>4, <1>5

(* Two processes that both believe they hold the store, after a pause or an  *)
(* overlap of openers, never both give it up: the one whose payload is in    *)
(* the file keeps the store writable.  A third process could take it from    *)
(* both.                                                                     *)
THEOREM LeaseOneSurvives ==
    ASSUME AtMostTwo PROVE Spec => []OneSurvives
<1>1. Init => TypeOK /\ LostInv /\ OneLoser
  <2> SUFFICES ASSUME Init PROVE LostInv /\ OneLoser
    BY LeaseInit DEF LeaseInv
  <2> QED BY LeaseConstants DEF Init, LostInv, OneLoser, Absent
<1>2. TypeOK /\ LostInv /\ OneLoser /\ [Next]_vars => (TypeOK /\ LostInv /\ OneLoser)'
  BY LeaseTypesStep, LostStep, LoserStep
<1>3. OneLoser => OneSurvives
  BY DEF OneLoser, OneSurvives
<1> QED BY <1>1, <1>2, <1>3, PTL DEF Spec

=============================================================================
