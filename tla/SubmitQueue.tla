----------------------------- MODULE SubmitQueue -----------------------------
(***************************************************************************)
(* Store.submit and the pump: foreign threads queue callables, the owner     *)
(* thread runs them when it next calls the store or, under aopen(), when the *)
(* loop is woken.  The commits those callables make are modelled with the    *)
(* commits of the owner's own tasks, down to their phases, because the       *)
(* asyncio facade serializes the latter with a lock the former do not take.  *)
(*                                                                          *)
(* The owner thread is a stack of frames: what it is inside of, the          *)
(* innermost last.  An empty stack is an owner between its calls, the event  *)
(* loop between two callbacks.                                              *)
(***************************************************************************)
EXTENDS Naturals, FiniteSets, Sequences, SequencesExt

CONSTANTS
    Jobs,   \* what foreign threads submit, each once
    Tasks,  \* the tasks of the owner's loop, or parts of its main program
    NoTask,
    PerTask, \* bound: records a task writes in its scope
    Authors \* bound: the tasks that write at all; the others only commit

Callers == Jobs \cup Tasks
Frames == Callers \cup {"pump", "close", "shutdown"}

(* What callers write: a job one record, a task the first, the second ... *)
Writes == (Jobs \X {1}) \cup (Authors \X (1..PerTask))

NoCapture == [tid |-> 0, writes |-> {}]

ASSUME SubmitConstants ==
    /\ Jobs \cap Tasks = {}
    /\ NoTask \notin Tasks
    /\ PerTask \in Nat
    /\ Authors \subseteq Tasks
    /\ Callers \cap {"pump", "close", "shutdown"} = {}

VARIABLES
    facade,   \* "blocking" (Store) or "async" (AsyncStore)
    closed,   \* Store._closed
    queue,    \* Store._submitted
    sub,      \* where each submission is
    wakes,    \* calls of _pump that call_soon_threadsafe has scheduled
    stack,    \* what the owner thread is inside of
    phase,    \* where each task is
    lock,     \* AsyncStore._commit_lock
    written,  \* how many records each caller has written
    buffer,   \* written and not captured yet
    nextTid, lastTid,  \* the allocator, Store._last_tid
    capture,  \* the capture of each caller's commit in flight
    io,       \* the IO worker's queue
    outcome,  \* the future of that job: "none", "ok" or "failed"
    durable,  \* the transactions that became durable, in order
    calm      \* history: no submission committed inside a scope or a commit

futures == <<queue, sub, wakes>>
tasks == <<phase, lock>>
commits == <<nextTid, lastTid, capture, io, outcome, durable>>
vars == <<facade, closed, futures, stack, tasks, written, buffer, commits, calm>>

Top == Last(stack)
Inside(f) == stack # <<>> /\ Top = f
Popped == Front(stack)
InFlight == {c \in Callers : capture[c] # NoCapture}

(* _pumping: the pump does not run again inside itself. *)
Pumping == \E i \in DOMAIN stack : stack[i] = "pump"

MayPump == queue # <<>> /\ ~Pumping

Settled(j) == sub[j] \in {"settled", "cancelled"}

-----------------------------------------------------------------------------
(* submit(): a foreign thread finds the store open, and appends later. *)

SubmitCheck(j) ==
    /\ sub[j] = "idle"
    /\ sub' = [sub EXCEPT ![j] = IF closed THEN "refused" ELSE "admitted"]
    /\ UNCHANGED <<facade, closed, queue, wakes, stack, tasks, written, buffer, commits, calm>>

Bug_SubmitAppend(j) ==
    /\ sub[j] = "admitted"
    /\ sub' = [sub EXCEPT ![j] = "queued"]
    /\ queue' = Append(queue, j)
    /\ UNCHANGED <<facade, closed, wakes, stack, tasks, written, buffer, commits, calm>>

SubmitAppend(j) ==
    /\ sub[j] = "admitted"
    /\ sub' = [sub EXCEPT ![j] = "queued"]
    /\ queue' = Append(queue, j)
    /\ wakes' = IF facade = "async" THEN wakes + 1 ELSE wakes
    /\ UNCHANGED <<facade, closed, stack, tasks, written, buffer, commits, calm>>

(* On the owner thread submit() runs the callable at once, outside a pump. *)
SubmitInline(j) ==
    /\ sub[j] = "idle"
    /\ stack = <<>>
    /\ ~closed
    /\ sub' = [sub EXCEPT ![j] = "running"]
    /\ stack' = <<j>>
    /\ UNCHANGED <<facade, closed, queue, wakes, tasks, written, buffer, commits, calm>>

(* The caller gives up on its future. *)
CancelFuture(j) ==
    /\ sub[j] = "queued"
    /\ sub' = [sub EXCEPT ![j] = "cancelled"]
    /\ UNCHANGED <<facade, closed, queue, wakes, stack, tasks, written, buffer, commits, calm>>

-----------------------------------------------------------------------------
(* The pump *)

(* A callback that call_soon_threadsafe scheduled; it does not look at      *)
(* _closed.                                                                 *)
Wake ==
    /\ wakes > 0
    /\ stack = <<>>
    /\ wakes' = wakes - 1
    /\ stack' = IF queue = <<>> THEN <<>> ELSE <<"pump">>
    /\ UNCHANGED <<facade, closed, queue, sub, tasks, written, buffer, commits, calm>>

(* run_pending(), or any other call that only reads. *)
RunPending ==
    /\ stack = <<>>
    /\ ~closed
    /\ MayPump
    /\ stack' = <<"pump">>
    /\ UNCHANGED <<facade, closed, futures, tasks, written, buffer, commits, calm>>

(* _enter: a call of the store pumps before it does anything. *)
Enter ==
    /\ stack # <<>>
    /\ Top \in Callers \ InFlight
    /\ ~closed
    /\ MayPump
    /\ stack' = Append(stack, "pump")
    /\ UNCHANGED <<facade, closed, futures, tasks, written, buffer, commits, calm>>

Entered(c) == Inside(c) /\ c \notin InFlight /\ ~closed /\ ~MayPump

PumpNext ==
    /\ Inside("pump")
    /\ queue # <<>>
    /\ queue' = Tail(queue)
    /\ LET j == Head(queue) IN
       IF sub[j] = "cancelled"
       THEN UNCHANGED <<sub, stack>>
       ELSE /\ sub' = [sub EXCEPT ![j] = "running"]
            /\ stack' = Append(stack, j)
    /\ UNCHANGED <<facade, closed, wakes, tasks, written, buffer, commits, calm>>

PumpEnd ==
    /\ Inside("pump")
    /\ queue = <<>>
    /\ stack' = Popped
    /\ UNCHANGED <<facade, closed, futures, tasks, written, buffer, commits, calm>>

(* The callable returned or raised. *)
JobReturn(j) ==
    /\ Inside(j)
    /\ j \notin InFlight
    /\ sub' = [sub EXCEPT ![j] = "settled"]
    /\ stack' = Popped
    /\ UNCHANGED <<facade, closed, queue, wakes, tasks, written, buffer, commits, calm>>

-----------------------------------------------------------------------------
(* The owner's tasks: a scope of writes and its commit, retried while it    *)
(* fails.  Under asyncio the scope is a transaction(), which holds the lock. *)

Bug_Begin(t) ==
    /\ stack = <<>>
    /\ phase[t] = "idle"
    /\ lock' = IF facade = "async" THEN t ELSE lock
    /\ phase' = [phase EXCEPT ![t] = "scope"]
    /\ UNCHANGED <<facade, closed, futures, stack, written, buffer, commits, calm>>

Begin(t) ==
    /\ stack = <<>>
    /\ phase[t] = "idle"
    /\ facade = "async" => lock = NoTask
    /\ lock' = IF facade = "async" THEN t ELSE lock
    /\ phase' = [phase EXCEPT ![t] = "scope"]
    /\ UNCHANGED <<facade, closed, futures, stack, written, buffer, commits, calm>>

(* commit() again after a failure. *)
Retry(t) ==
    /\ stack = <<>>
    /\ phase[t] = "over"
    /\ buffer # {}
    /\ facade = "async" => lock = NoTask
    /\ lock' = IF facade = "async" THEN t ELSE lock
    /\ phase' = [phase EXCEPT ![t] = "commit"]
    /\ UNCHANGED <<facade, closed, futures, stack, written, buffer, commits, calm>>

(* A scope left with an exception commits nothing and keeps its writes. *)
Abort(t) ==
    /\ stack = <<>>
    /\ phase[t] = "scope"
    /\ phase' = [phase EXCEPT ![t] = "over"]
    /\ lock' = NoTask
    /\ UNCHANGED <<facade, closed, futures, stack, written, buffer, commits, calm>>

(* The task calls the store: a write or, at the end, the commit. *)
Call(t) ==
    /\ stack = <<>>
    /\ ~closed
    /\ phase[t] \in {"scope", "commit"}
    /\ t \notin InFlight
    /\ stack' = <<t>>
    /\ UNCHANGED <<facade, closed, futures, tasks, written, buffer, commits, calm>>

Write(c) ==
    /\ Entered(c)
    /\ c \in Tasks => phase[c] = "scope"
    /\ <<c, written[c] + 1>> \in Writes
    /\ written' = [written EXCEPT ![c] = @ + 1]
    /\ buffer' = buffer \cup {<<c, written[c] + 1>>}
    /\ stack' = IF c \in Tasks THEN Popped ELSE stack
    /\ UNCHANGED <<facade, closed, futures, tasks, commits, calm>>

-----------------------------------------------------------------------------
(* Commits *)

(* A commit that the owner thread blocks in, and one a task awaits. *)
Blocking(c) == c \in Jobs \/ facade = "blocking"
Resumes(c) == IF Blocking(c) THEN Inside(c) ELSE stack = <<>>

(* Where the owner and the tasks are after the commit of c. *)
CommitEnds(c) ==
    /\ stack' = IF c \in Tasks /\ Blocking(c) THEN Popped ELSE stack
    /\ phase' = IF c \in Tasks THEN [phase EXCEPT ![c] = "over"] ELSE phase
    /\ lock' = IF lock = c THEN NoTask ELSE lock

(* Nothing is buffered: no commit. *)
P1Empty(t) ==
    /\ Entered(t)
    /\ buffer = {}
    /\ stack' = Popped
    /\ phase' = [phase EXCEPT ![t] = "over"]
    /\ lock' = NoTask
    /\ UNCHANGED <<facade, closed, futures, written, buffer, commits, calm>>

(* A callable's commit takes no lock. *)
Clashes(c) ==
    \/ InFlight # {}
    \/ facade = "async" /\ lock # NoTask /\ lock # c /\ phase[lock] = "scope" /\ \E w \in buffer : w[1] = lock

P1(c) ==
    /\ Entered(c)
    /\ buffer # {}
    /\ capture' = [capture EXCEPT ![c] = [tid |-> nextTid, writes |-> buffer]]
    /\ nextTid' = nextTid + 1
    /\ buffer' = {}
    /\ io' = Append(io, c)
    /\ phase' = IF c \in Tasks THEN [phase EXCEPT ![c] = "commit"] ELSE phase
    /\ stack' = IF Blocking(c) THEN stack ELSE Popped
    /\ calm' = (calm /\ ~Clashes(c))
    /\ UNCHANGED <<facade, closed, futures, lock, written, lastTid, outcome, durable>>

(* P2 on the single IO worker, which takes one transaction after the other. *)
P2Commit ==
    /\ io # <<>>
    /\ durable' = Append(durable, capture[Head(io)])
    /\ outcome' = [outcome EXCEPT ![Head(io)] = "ok"]
    /\ io' = Tail(io)
    /\ UNCHANGED <<facade, closed, futures, stack, tasks, written, buffer, nextTid, lastTid, capture, calm>>

P2Fail ==
    /\ io # <<>>
    /\ outcome' = [outcome EXCEPT ![Head(io)] = "failed"]
    /\ io' = Tail(io)
    /\ UNCHANGED <<facade, closed, futures, stack, tasks, written, buffer, nextTid, lastTid, capture, durable, calm>>

P3(c) ==
    /\ Resumes(c)
    /\ outcome[c] = "ok"
    /\ lastTid' = capture[c].tid
    /\ capture' = [capture EXCEPT ![c] = NoCapture]
    /\ outcome' = [outcome EXCEPT ![c] = "none"]
    /\ CommitEnds(c)
    /\ UNCHANGED <<facade, closed, futures, written, buffer, nextTid, io, durable, calm>>

Bug_Rollback(c) ==
    /\ Resumes(c)
    /\ outcome[c] = "failed"
    /\ nextTid' = capture[c].tid
    /\ buffer' = IF buffer = {} THEN capture[c].writes ELSE buffer
    /\ capture' = [capture EXCEPT ![c] = NoCapture]
    /\ outcome' = [outcome EXCEPT ![c] = "none"]
    /\ CommitEnds(c)
    /\ UNCHANGED <<facade, closed, futures, written, lastTid, io, durable, calm>>

Bug_RollbackTid(c) ==
    /\ Resumes(c)
    /\ outcome[c] = "failed"
    /\ buffer' = buffer \cup capture[c].writes
    /\ capture' = [capture EXCEPT ![c] = NoCapture]
    /\ outcome' = [outcome EXCEPT ![c] = "none"]
    /\ CommitEnds(c)
    /\ UNCHANGED <<facade, closed, futures, written, nextTid, lastTid, io, durable, calm>>

Rollback(c) ==
    /\ Resumes(c)
    /\ outcome[c] = "failed"
    /\ nextTid' = capture[c].tid
    /\ buffer' = buffer \cup capture[c].writes
    /\ capture' = [capture EXCEPT ![c] = NoCapture]
    /\ outcome' = [outcome EXCEPT ![c] = "none"]
    /\ CommitEnds(c)
    /\ UNCHANGED <<facade, closed, futures, written, lastTid, io, durable, calm>>

-----------------------------------------------------------------------------
(* close(), between two calls of the owner *)

Close ==
    /\ stack = <<>>
    /\ ~closed
    /\ closed' = TRUE
    /\ stack' = <<"close">>
    /\ UNCHANGED <<facade, futures, tasks, written, buffer, commits, calm>>

(* What is queued fails with StoreClosedError. *)
Drain ==
    /\ Inside("close")
    /\ queue # <<>>
    /\ queue' = Tail(queue)
    /\ sub' = IF sub[Head(queue)] = "cancelled" THEN sub ELSE [sub EXCEPT ![Head(queue)] = "settled"]
    /\ UNCHANGED <<facade, closed, wakes, stack, tasks, written, buffer, commits, calm>>

Drained ==
    /\ Inside("close")
    /\ queue = <<>>
    /\ stack' = <<"shutdown">>
    /\ UNCHANGED <<facade, closed, futures, tasks, written, buffer, commits, calm>>

(* The executor's shutdown waits for everything it was given. *)
CloseEnd ==
    /\ Inside("shutdown")
    /\ io = <<>>
    /\ stack' = Popped
    /\ UNCHANGED <<facade, closed, futures, tasks, written, buffer, commits, calm>>

-----------------------------------------------------------------------------
Init ==
    /\ facade \in {"blocking", "async"}
    /\ closed = FALSE
    /\ queue = <<>>
    /\ sub = [j \in Jobs |-> "idle"]
    /\ wakes = 0
    /\ stack = <<>>
    /\ phase = [t \in Tasks |-> "idle"]
    /\ lock = NoTask
    /\ written = [c \in Callers |-> 0]
    /\ buffer = {}
    /\ nextTid = 1
    /\ lastTid = 0
    /\ capture = [c \in Callers |-> NoCapture]
    /\ io = <<>>
    /\ outcome = [c \in Callers |-> "none"]
    /\ durable = <<>>
    /\ calm = TRUE

Foreign(j) == SubmitCheck(j) \/ SubmitAppend(j) \/ CancelFuture(j)
Pump == Wake \/ RunPending \/ Enter \/ PumpNext \/ PumpEnd
Commit(c) == P1(c) \/ P3(c) \/ Rollback(c)
Worker == P2Commit \/ P2Fail
Closing == Close \/ Drain \/ Drained \/ CloseEnd
Task(t) == Begin(t) \/ Retry(t) \/ Abort(t) \/ Call(t) \/ P1Empty(t)

Next ==
    \/ \E j \in Jobs : Foreign(j) \/ SubmitInline(j) \/ JobReturn(j)
    \/ \E t \in Tasks : Task(t)
    \/ \E c \in Callers : Write(c) \/ Commit(c)
    \/ Pump \/ Worker \/ Closing

Spec == Init /\ [][Next]_vars

(* The loop runs its callbacks, the owner thread what it is inside of, the  *)
(* IO worker what it was given; callables end, also those that retry a       *)
(* commit that keeps failing (SF).  Whether anybody submits, or calls the    *)
(* store again, is not assumed.                                             *)
Fairness ==
    /\ WF_vars(Wake)
    /\ WF_vars(Enter \/ PumpNext \/ PumpEnd)
    /\ WF_vars(Drain \/ Drained \/ CloseEnd)
    /\ WF_vars(Worker)
    /\ \A j \in Jobs : SF_vars(JobReturn(j)) /\ WF_vars(Commit(j))
    /\ \A t \in Tasks : WF_vars(Write(t) \/ P1Empty(t)) /\ WF_vars(Commit(t))

FairSpec == Spec /\ Fairness

-----------------------------------------------------------------------------
(* Properties *)

Captures == [tid : Nat, writes : SUBSET Writes]

(* Types of the queue, the owner's frames and the commits; the lock is held *)
(* by the task that is in a scope or a commit of the asyncio facade.        *)
TypeOK ==
    /\ facade \in {"blocking", "async"}
    /\ closed \in BOOLEAN
    /\ queue \in Seq(Jobs)
    /\ sub \in [Jobs -> {"idle", "refused", "admitted", "queued", "running", "settled", "cancelled"}]
    /\ wakes \in Nat
    /\ stack \in Seq(Frames)
    /\ phase \in [Tasks -> {"idle", "scope", "commit", "over"}]
    /\ lock \in Tasks \cup {NoTask}
    /\ \A t \in Tasks : lock = t <=> facade = "async" /\ phase[t] \in {"scope", "commit"}
    /\ written \in [Callers -> Nat]
    /\ buffer \subseteq Writes
    /\ nextTid \in Nat
    /\ lastTid \in Nat
    /\ capture \in [Callers -> Captures]
    /\ io \in Seq(Callers)
    /\ outcome \in [Callers -> {"none", "ok", "failed"}]
    /\ durable \in Seq(Captures)
    /\ calm \in BOOLEAN

(* A queued callable runs to its end before the next one starts: the store  *)
(* calls it makes do not pump.  Only one that the owner submitted itself,    *)
(* which no pump runs, can have another run inside it.                      *)
RunsAlone ==
    \A i, k \in DOMAIN stack : i < k /\ stack[i] \in Jobs /\ stack[k] \in Jobs => i = 1

Batches == {capture[c].writes : c \in {d \in InFlight : outcome[d] # "ok"}}
              \cup {durable[i].writes : i \in DOMAIN durable}

(* Whatever fails, and whoever commits what another buffered: each record   *)
(* written is still buffered, in flight or durable, and in one batch only.  *)
NothingLost ==
    /\ UNION (Batches \cup {buffer}) = {w \in Writes : w[2] <= written[w[1]]}
    /\ \A w \in Writes : Cardinality({b \in Batches \cup {buffer} : w \in b}) <= 1
    /\ \A i, k \in DOMAIN durable : i # k => durable[i].writes \cap durable[k].writes = {}

(* The TIDs of the durable transactions are 1, 2, ... in this order, and    *)
(* the allocator and last_tid agree with them when no commit is in flight,  *)
(* as long as no callable commits in the middle of a task's commit.         *)
Gapless ==
    /\ \A i \in DOMAIN durable : durable[i].tid = i
    /\ InFlight = {} => lastTid = Len(durable) /\ nextTid = lastTid + 1

TidsGapless == calm => Gapless

(* The same whatever the callables do: what a rejected commit leaves is a   *)
(* gapless sequence, and a TID is never used twice.                         *)
AlwaysGapless == \A i \in DOMAIN durable : durable[i].tid = i

(* What a transaction() scope has written is not durable before it ends,     *)
(* nor on its way, as long as no callable commits inside the scope.         *)
ScopeWhole ==
    calm /\ facade = "async" =>
        \A t \in Tasks : phase[t] = "scope" => {t} \X (1..written[t]) \subseteq buffer

(* The same whatever the callables do. *)
ScopeAlwaysWhole ==
    facade = "async" =>
        \A t \in Tasks : phase[t] = "scope" => {t} \X (1..written[t]) \subseteq buffer

(* What is queued in an open store runs, or is failed by close() or was     *)
(* cancelled: under aopen() because the loop is woken, in a blocking store   *)
(* if the owner comes back to it, or closes it.                             *)
OwnerReturns == facade = "blocking" => []<>(closed \/ stack # <<>> \/ queue = <<>>)

QueuedSettles ==
    OwnerReturns => \A j \in Jobs : (sub[j] = "queued" /\ ~closed) ~> Settled(j)

(* Every submission that was accepted settles, also one that found the      *)
(* store open and reached the queue after close() had drained it.           *)
AcceptedSettles ==
    OwnerReturns => \A j \in Jobs : sub[j] = "queued" ~> Settled(j)

(* Nothing becomes durable after close() has returned. *)
Closed == closed /\ \A i \in DOMAIN stack : stack[i] \notin {"close", "shutdown"}

NothingAfterClose == [][Closed => durable' = durable]_vars

=============================================================================
