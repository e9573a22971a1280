------------------------------ MODULE LeaseLock ------------------------------
(***************************************************************************)
(* The single-writer lease of a store directory: the file used.lock, the    *)
(* opener's loop around O_CREAT|O_EXCL, the refresher thread, release(), and *)
(* what the commit path makes of them (Store.open, P1's _assert_lease_held,  *)
(* Store.close).  Every file operation is a step of its own.                 *)
(*                                                                          *)
(* Time is abstracted to what the code's margins guarantee: a refresher that *)
(* runs rewrites its stamp every ttl/3, so a stamp gets older than 2*ttl     *)
(* only while its writer is paused, stopped or dead; and the refreshers that *)
(* run take turns, one pass each per ttl/3 (the variable due).               *)
(***************************************************************************)
EXTENDS Integers, Sequences, FiniteSets

CONSTANTS
    Procs,      \* processes, each opening the directory at most once at a time
    NoProc,     \* no process
    MaxCommits, \* bound: durable commits of all processes together
    Env         \* what the environment does, a subset of Features

(* "crash": a process may die at any step.  "pause": the OS may stop one   *)
(* (SIGSTOP, a suspended laptop) and continue it.  "contend": two processes *)
(* may be inside acquire() at once.                                         *)
Features == {"crash", "pause", "contend"}

ASSUME LeaseConstants ==
    /\ NoProc \notin Procs
    /\ MaxCommits \in Nat
    /\ Env \subseteq Features

VARIABLES
    pc,      \* where the owner thread of each process is
    rpc,     \* where its refresher thread is
    lost,    \* LeaseLock._lost
    paused,  \* the processes the OS has stopped
    file,    \* what the path used.lock names
    tmp,     \* what the path used.lock.tmp names
    due,     \* refreshers that have not made their pass of this ttl/3 yet
    commit,  \* where the commit of each process is
    known,   \* Store._last_tid of each process
    tids,    \* the TIDs that became durable, in order
    calm     \* history: no opener overlapped another, nobody was paused

lockVars == <<file, tmp>>
storeVars == <<commit, known, tids>>
vars == <<pc, rpc, lost, paused, lockVars, due, storeVars, calm>>

(* A lock file: just created and still empty, or holding its writer's       *)
(* payload.  For an empty file, by is the process whose descriptor is open  *)
(* on it.                                                                   *)
Absent == [kind |-> "absent", by |-> NoProc, old |-> FALSE]
Empty(p) == [kind |-> "empty", by |-> p, old |-> FALSE]
Lock(p) == [kind |-> "lock", by |-> p, old |-> FALSE]

Acquiring == {"create", "read", "unlink", "payload"}
Holding == {"boot", "open", "join", "check", "remove"}

Runs(p) == p \notin paused /\ pc[p] # "crashed"

-----------------------------------------------------------------------------
(* acquire() *)

Alone == \A q \in Procs : pc[q] \notin Acquiring

Start(p) ==
    /\ pc[p] = "out"
    /\ Runs(p)
    /\ "contend" \notin Env => Alone
    /\ calm' = (calm /\ Alone)
    /\ pc' = [pc EXCEPT ![p] = "create"]
    /\ UNCHANGED <<rpc, lost, paused, lockVars, due, storeVars>>

(* O_CREAT | O_EXCL: the path now names an empty file. *)
Create(p) ==
    /\ pc[p] = "create"
    /\ Runs(p)
    /\ IF file = Absent
       THEN /\ file' = Empty(p)
            /\ pc' = [pc EXCEPT ![p] = "payload"]
       ELSE /\ file' = file
            /\ pc' = [pc EXCEPT ![p] = "read"]
    /\ UNCHANGED <<calm, rpc, lost, paused, tmp, due, storeVars>>

Bug_Stale(f) == TRUE

(* _stale_reason on this host: the stamp is older than 2*ttl, or no process *)
(* has the holder's pid.  A file without a payload counts as stale.         *)
Stale(f) == f.kind # "lock" \/ f.old \/ pc[f.by] = "crashed"

Read(p) ==
    /\ pc[p] = "read"
    /\ Runs(p)
    /\ pc' = [pc EXCEPT ![p] = IF Stale(file) THEN "unlink" ELSE "refused"]
    /\ UNCHANGED <<calm, rpc, lost, paused, lockVars, due, storeVars>>

Bug_Unlink(p) ==
    /\ pc[p] = "unlink"
    /\ Runs(p)
    /\ pc' = [pc EXCEPT ![p] = "create"]
    /\ UNCHANGED <<calm, rpc, lost, paused, lockVars, due, storeVars>>

(* The take-over unlinks whatever the path names by now. *)
Unlink(p) ==
    /\ pc[p] = "unlink"
    /\ Runs(p)
    /\ file' = Absent
    /\ pc' = [pc EXCEPT ![p] = "create"]
    /\ UNCHANGED <<calm, rpc, lost, paused, tmp, due, storeVars>>

(* The payload goes to the file created, which the path may not name any    *)
(* more; then the refresher starts with its first wait.                     *)
WritePayload(p) ==
    /\ pc[p] = "payload"
    /\ Runs(p)
    /\ file' = IF file = Empty(p) THEN Lock(p) ELSE file
    /\ pc' = [pc EXCEPT ![p] = "boot"]
    /\ rpc' = [rpc EXCEPT ![p] = "wait"]
    /\ UNCHANGED <<calm, lost, paused, tmp, due, storeVars>>

Bug_Boot(p) ==
    /\ pc[p] = "boot"
    /\ Runs(p)
    /\ pc' = [pc EXCEPT ![p] = "open"]
    /\ UNCHANGED <<calm, rpc, lost, paused, lockVars, due, storeVars>>

(* Store.__init__ loads the watermark once the lease is held. *)
Boot(p) ==
    /\ pc[p] = "boot"
    /\ Runs(p)
    /\ pc' = [pc EXCEPT ![p] = "open"]
    /\ known' = [known EXCEPT ![p] = Len(tids)]
    /\ UNCHANGED <<calm, rpc, lost, paused, lockVars, due, commit, tids>>

-----------------------------------------------------------------------------
(* The refresher thread *)

(* A new interval starts when every refresher that runs has made its pass.  *)
Tick ==
    /\ due \subseteq paused
    /\ \A p \in Procs \ paused : rpc[p] \in {"off", "wait"}
    /\ due' = {p \in Procs : rpc[p] = "wait"}
    /\ UNCHANGED <<calm, pc, rpc, lost, paused, lockVars, storeVars>>

Stopped(p) == pc[p] \in {"join", "check", "remove", "closed"}

Bug_RefreshRead(p) ==
    /\ rpc[p] = "wait"
    /\ Runs(p)
    /\ p \in due
    /\ ~Stopped(p)
    /\ rpc' = [rpc EXCEPT ![p] = "tmp"]
    /\ due' = due \ {p}
    /\ UNCHANGED <<calm, pc, lost, paused, lockVars, storeVars>>

Bug_RefreshRewrites(p) ==
    /\ rpc[p] = "wait"
    /\ Runs(p)
    /\ p \in due
    /\ ~Stopped(p)
    /\ lost' = [lost EXCEPT ![p] = @ \/ (file.kind = "lock" /\ file.by # p)]
    /\ rpc' = [rpc EXCEPT ![p] = "tmp"]
    /\ due' = due \ {p}
    /\ UNCHANGED <<calm, pc, paused, lockVars, storeVars>>

(* The wait is over: whoever finds another token in the file has lost the   *)
(* lease and never writes again; an absent or empty file is rewritten.      *)
RefreshRead(p) ==
    /\ rpc[p] = "wait"
    /\ Runs(p)
    /\ p \in due
    /\ ~Stopped(p)
    /\ IF file.kind = "lock" /\ file.by # p
       THEN /\ lost' = [lost EXCEPT ![p] = TRUE]
            /\ rpc' = [rpc EXCEPT ![p] = "off"]
       ELSE /\ lost' = lost
            /\ rpc' = [rpc EXCEPT ![p] = "tmp"]
    /\ due' = due \ {p}
    /\ UNCHANGED <<calm, pc, paused, lockVars, storeVars>>

RefreshTmp(p) ==
    /\ rpc[p] = "tmp"
    /\ Runs(p)
    /\ tmp' = Lock(p)
    /\ rpc' = [rpc EXCEPT ![p] = "replace"]
    /\ UNCHANGED <<calm, pc, lost, paused, file, due, storeVars>>

(* os.replace moves what the shared temporary path names, whoever wrote it; *)
(* a missing source is the OSError that is passed over.                     *)
RefreshReplace(p) ==
    /\ rpc[p] = "replace"
    /\ Runs(p)
    /\ file' = IF tmp = Absent THEN file ELSE tmp
    /\ tmp' = Absent
    /\ rpc' = [rpc EXCEPT ![p] = "wait"]
    /\ UNCHANGED <<calm, pc, lost, paused, due, storeVars>>

(* The stop event ends the wait and the thread. *)
RefreshStop(p) ==
    /\ rpc[p] = "wait"
    /\ Runs(p)
    /\ Stopped(p)
    /\ rpc' = [rpc EXCEPT ![p] = "off"]
    /\ due' = due \ {p}
    /\ UNCHANGED <<calm, pc, lost, paused, lockVars, storeVars>>

-----------------------------------------------------------------------------
(* Commits of the open store *)

(* P1: _assert_lease_held looks at the flag, not at the file. *)
CommitP1(p) ==
    /\ pc[p] = "open"
    /\ Runs(p)
    /\ commit[p] = "idle"
    /\ ~lost[p]
    /\ Len(tids) < MaxCommits
    /\ commit' = [commit EXCEPT ![p] = "p2"]
    /\ UNCHANGED <<calm, pc, rpc, lost, paused, lockVars, due, known, tids>>

(* P2: the batch with the TID this process believes to be next. *)
CommitP2(p) ==
    /\ commit[p] = "p2"
    /\ Runs(p)
    /\ Len(tids) < MaxCommits
    /\ tids' = Append(tids, known[p] + 1)
    /\ known' = [known EXCEPT ![p] = @ + 1]
    /\ commit' = [commit EXCEPT ![p] = "idle"]
    /\ UNCHANGED <<calm, pc, rpc, lost, paused, lockVars, due>>

-----------------------------------------------------------------------------
(* Store.close, release() *)

Close(p) ==
    /\ pc[p] = "open"
    /\ Runs(p)
    /\ commit[p] = "idle"
    /\ pc' = [pc EXCEPT ![p] = "join"]
    /\ UNCHANGED <<calm, rpc, lost, paused, lockVars, due, storeVars>>

(* join(timeout=ttl): only a pause of the whole process makes it time out   *)
(* with the refresher still in its pass.                                    *)
Join(p) ==
    /\ pc[p] = "join"
    /\ Runs(p)
    /\ rpc[p] = "off" \/ "pause" \in Env
    /\ calm' = (calm /\ rpc[p] = "off")
    /\ pc' = [pc EXCEPT ![p] = IF lost[p] THEN "closed" ELSE "check"]
    /\ UNCHANGED <<rpc, lost, paused, lockVars, due, storeVars>>

Check(p) ==
    /\ pc[p] = "check"
    /\ Runs(p)
    /\ pc' = [pc EXCEPT ![p] = IF file.kind = "lock" /\ file.by = p
                               THEN "remove" ELSE "closed"]
    /\ UNCHANGED <<calm, rpc, lost, paused, lockVars, due, storeVars>>

Remove(p) ==
    /\ pc[p] = "remove"
    /\ Runs(p)
    /\ file' = Absent
    /\ pc' = [pc EXCEPT ![p] = "closed"]
    /\ UNCHANGED <<calm, rpc, lost, paused, tmp, due, storeVars>>

-----------------------------------------------------------------------------
(* The environment *)

Pause(p) ==
    /\ "pause" \in Env
    /\ Runs(p)
    /\ paused' = paused \cup {p}
    /\ calm' = FALSE
    /\ UNCHANGED <<pc, rpc, lost, lockVars, due, storeVars>>

Resume(p) ==
    /\ p \in paused
    /\ paused' = paused \ {p}
    /\ UNCHANGED <<calm, pc, rpc, lost, lockVars, due, storeVars>>

(* More than 2*ttl pass for the stamps of a process that does not refresh:  *)
(* it is paused, dead, or has ended its refresher and is past release().    *)
Ages(f, p) == f.kind = "lock" /\ f.by = p /\ ~f.old
Aged(f, p) == IF Ages(f, p) THEN [f EXCEPT !.old = TRUE] ELSE f

Expire(p) ==
    /\ p \in paused \/ (rpc[p] = "off" /\ pc[p] \notin {"join", "check", "remove"})
    /\ Ages(file, p) \/ Ages(tmp, p)
    /\ file' = Aged(file, p)
    /\ tmp' = Aged(tmp, p)
    /\ UNCHANGED <<calm, pc, rpc, lost, paused, due, storeVars>>

Crash(p) ==
    /\ "crash" \in Env
    /\ pc[p] \notin {"out", "crashed"}
    /\ pc' = [pc EXCEPT ![p] = "crashed"]
    /\ rpc' = [rpc EXCEPT ![p] = "off"]
    /\ due' = due \ {p}
    /\ paused' = paused \ {p}
    /\ commit' = [commit EXCEPT ![p] = "idle"]
    /\ lost' = [lost EXCEPT ![p] = FALSE]
    /\ known' = [known EXCEPT ![p] = 0]
    /\ UNCHANGED <<calm, lockVars, tids>>

(* A new process, or a new LeaseLock with a fresh token, may take the name  *)
(* of one that has left no trace.                                           *)
Respawn(p) ==
    /\ pc[p] \in {"closed", "refused", "crashed"}
    /\ rpc[p] = "off"
    /\ p \notin {file.by, tmp.by}
    /\ pc' = [pc EXCEPT ![p] = "out"]
    /\ lost' = [lost EXCEPT ![p] = FALSE]
    /\ known' = [known EXCEPT ![p] = 0]
    /\ UNCHANGED <<calm, rpc, paused, lockVars, due, commit, tids>>

-----------------------------------------------------------------------------
Init ==
    /\ pc = [p \in Procs |-> "out"]
    /\ rpc = [p \in Procs |-> "off"]
    /\ lost = [p \in Procs |-> FALSE]
    /\ paused = {}
    /\ file = Absent
    /\ tmp = Absent
    /\ due = {}
    /\ commit = [p \in Procs |-> "idle"]
    /\ known = [p \in Procs |-> 0]
    /\ tids = <<>>
    /\ calm = TRUE

AcquireStep(p) == Create(p) \/ Read(p) \/ Unlink(p) \/ WritePayload(p) \/ Boot(p)
RefreshStep(p) == RefreshRead(p) \/ RefreshTmp(p) \/ RefreshReplace(p) \/ RefreshStop(p)
CommitStep(p) == CommitP1(p) \/ CommitP2(p)
ReleaseStep(p) == Close(p) \/ Join(p) \/ Check(p) \/ Remove(p)
EnvStep(p) == Pause(p) \/ Resume(p) \/ Expire(p) \/ Crash(p) \/ Respawn(p)

Next ==
    \/ Tick
    \/ \E p \in Procs : \/ Start(p) \/ AcquireStep(p) \/ RefreshStep(p) \/ CommitStep(p)
                        \/ ReleaseStep(p) \/ EnvStep(p)

Spec == Init /\ [][Next]_vars

(* Threads that can run do run, and a paused process is continued.          *)
FairSpec ==
    /\ Spec
    /\ WF_vars(Tick)
    /\ \A p \in Procs : /\ WF_vars(AcquireStep(p))
                        /\ WF_vars(RefreshStep(p))
                        /\ WF_vars(Resume(p))

-----------------------------------------------------------------------------
Files == [kind : {"absent", "empty", "lock"}, by : Procs \cup {NoProc}, old : BOOLEAN]

(* Every variable of the lease has its type. *)
TypeOK ==
    /\ pc \in [Procs -> Acquiring \cup Holding \cup {"out", "closed", "refused", "crashed"}]
    /\ rpc \in [Procs -> {"off", "wait", "tmp", "replace"}]
    /\ lost \in [Procs -> BOOLEAN]
    /\ paused \subseteq Procs
    /\ file \in Files
    /\ tmp \in Files
    /\ due \subseteq Procs
    /\ commit \in [Procs -> {"idle", "p2"}]
    /\ known \in [Procs -> Nat]
    /\ tids \in Seq(Nat)
    /\ calm \in BOOLEAN

(* A process that has the store open and has not been told otherwise. *)
Writable(p) == pc[p] \in {"boot", "open"} /\ ~lost[p]

(* "A fresh lock makes a second opener fail": two processes never have the  *)
(* store open for writing at once.                                          *)
OneWriter == \A p, q \in Procs : Writable(p) /\ Writable(q) => p = q

(* ... which the code keeps, whoever dies at whatever step, until two       *)
(* openers overlap or the OS pauses a process.                              *)
OneHolder == calm => OneWriter

(* Each durable commit was made by a process that knew of all the earlier   *)
(* ones: no TID is written twice, no commit overwrites one it never saw.    *)
InOrder == \A n \in DOMAIN tids : tids[n] = n
TidsSequential == calm => InOrder

(* Closing releases the lock: what a closed store leaves at the path is     *)
(* never its own lock, which would keep every later opener out for 2*ttl.   *)
CloseReleases == calm => \A p \in Procs : pc[p] = "closed" => file.by # p

(* No holder is told that it lost its lease by refreshers and openers that  *)
(* keep to the rules: the flag means that somebody's stamp expired.         *)
NeverLost == calm => \A p \in Procs : ~lost[p]

(* After a take-over from a paused holder the two refreshers fight over the *)
(* file; they never both give up, which would leave the store unwritable.   *)
OneSurvives ==
    \A p, q \in Procs :
        pc[p] = "open" /\ pc[q] = "open" /\ p # q => ~(lost[p] /\ lost[q])

(* ... and the fight ends once the OS stops pausing them: two writers are   *)
(* not writers for ever, one of them closes or learns that it has lost the  *)
(* lease.                                                                   *)
SplitBrainEnds == <>[](paused = {}) => (~OneWriter ~> OneWriter)

(* An opener gets an answer: a lock left behind by a dead or crashed        *)
(* process, even an empty one, never makes acquire() loop for ever, unless  *)
(* the OS pauses processes for ever.                                        *)
AcquireSettles ==
    <>[](paused = {}) =>
        \A p \in Procs : pc[p] = "create" ~> pc[p] \in {"open", "refused", "crashed"}

=============================================================================
