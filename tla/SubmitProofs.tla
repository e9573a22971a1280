----------------------------- MODULE SubmitProofs -----------------------------
(***************************************************************************)
(* Machine-checked proofs about the commits of callables and tasks that run  *)
(* into each other: nothing written is lost, and as long as no callable      *)
(* commits in the middle of a task's scope or commit, the TIDs have no gap   *)
(* and a scope stays whole.                                                 *)
(***************************************************************************)
EXTENDS SubmitQueue, FiniteSetTheorems, TLAPS

(* A task is on the owner's stack only outermost, in its scope or commit. *)
StackInv ==
    \A i \in DOMAIN stack : stack[i] \in Tasks =>
        i = 1 /\ phase[stack[i]] \in {"scope", "commit"}

TypeInv == TypeOK /\ StackInv

(* A commit the IO worker has still to do is in flight, and queued once. *)
WireInv ==
    /\ \A i \in DOMAIN io : io[i] \in InFlight /\ outcome[io[i]] = "none"
    /\ \A i, k \in DOMAIN io : io[i] = io[k] => i = k
    /\ \A c \in Callers : outcome[c] # "none" => c \in InFlight

(* One commit at a time: the allocator is one ahead of it, last_tid behind. *)
OneCommit ==
    /\ \A c, d \in InFlight : c = d
    /\ \A c \in InFlight :
          /\ nextTid = capture[c].tid + 1
          /\ outcome[c] = "ok" => capture[c].tid = Len(durable)
          /\ outcome[c] # "ok" => capture[c].tid = Len(durable) + 1 /\ lastTid = Len(durable)

GaplessInv == calm => Gapless /\ OneCommit

(* Where a record that was written is. *)
Undone == {c \in InFlight : outcome[c] # "ok"}
Written == {w \in Writes : w[2] <= written[w[1]]}

InBuffer(w) == w \in buffer
InCapture(w, c) == c \in Undone /\ w \in capture[c].writes
InStore(w, i) == i \in DOMAIN durable /\ w \in durable[i].writes

Kept(w) ==
    /\ w \in Written <=>
          \/ InBuffer(w)
          \/ \E c \in Callers : InCapture(w, c)
          \/ \E i \in DOMAIN durable : InStore(w, i)
    /\ \A c \in Callers : InCapture(w, c) =>
          /\ ~InBuffer(w)
          /\ \A d \in Callers : InCapture(w, d) => d = c
          /\ \A i \in DOMAIN durable : ~InStore(w, i)
    /\ \A i \in DOMAIN durable : InStore(w, i) =>
          /\ ~InBuffer(w)
          /\ \A k \in DOMAIN durable : InStore(w, k) => k = i

KeptInv == \A w \in Writes : Kept(w)

(* What the task in a scope has written is still buffered. *)
ScopeInv ==
    /\ \A t \in Tasks : phase[t] = "idle" => written[t] = 0
    /\ ScopeWhole

(* Frames. *)
LEMMA Frame ==
    /\ Jobs \cap Tasks = {} /\ NoTask \notin Tasks /\ PerTask \in Nat
    /\ "pump" \notin Tasks /\ "close" \notin Tasks /\ "shutdown" \notin Tasks
    /\ \A t \in Tasks : t \in Callers /\ t \notin Jobs /\ t # NoTask
    /\ \A j \in Jobs : j \in Callers /\ j \notin Tasks
    /\ Callers \subseteq Frames /\ "pump" \in Frames /\ "close" \in Frames /\ "shutdown" \in Frames
BY SubmitConstants DEF Callers, Frames

LEMMA Popping ==
    ASSUME TypeInv, stack # <<>>
    PROVE  /\ Len(stack) \in Nat \ {0} /\ Popped \in Seq(Frames)
           /\ Top = stack[Len(stack)]
           /\ Len(Popped) = Len(stack) - 1
           /\ \A i \in 1..(Len(stack) - 1) : Popped[i] = stack[i]
           /\ Top \in Tasks => Popped = <<>>
<1>1. stack \in Seq(Frames)
  BY DEF TypeInv, TypeOK
<1> HIDE DEF Frames
<1>2. Len(stack) \in Nat \ {0} /\ DOMAIN stack = 1..Len(stack)
  BY <1>1
<1>3. Popped = SubSeq(stack, 1, Len(stack) - 1) /\ Top = stack[Len(stack)]
  BY DEF Popped, Front, Top, Last
<1>4. /\ Popped \in Seq(Frames) /\ Len(Popped) = Len(stack) - 1
      /\ \A i \in 1..(Len(stack) - 1) : Popped[i] = stack[i]
  BY <1>1, <1>2, <1>3
<1>5. ASSUME Top \in Tasks
      PROVE  Popped = <<>>
  <2>1. Len(stack) = 1
    BY <1>2, <1>3, <1>5 DEF TypeInv, StackInv
  <2> QED
    BY <1>4, <2>1
<1> QED
  BY <1>2, <1>3, <1>4, <1>5

(* What pushing a frame that is no task, or popping one, leaves of the stack. *)
LEMMA StackPopped ==
    ASSUME TypeInv, stack # <<>>, stack' = Popped,
           \A t \in Tasks : phase'[t] = phase[t] \/ t = Top
    PROVE  stack' \in Seq(Frames) /\ StackInv'
<1>1. /\ Len(stack) \in Nat \ {0} /\ stack' \in Seq(Frames)
      /\ Len(stack') = Len(stack) - 1
      /\ \A i \in 1..(Len(stack) - 1) : stack'[i] = stack[i]
      /\ Top \in Tasks => stack' = <<>>
      /\ stack \in Seq(Frames)
  BY Popping DEF TypeInv, TypeOK
<1> HIDE DEF Frames
<1>2. DOMAIN stack' = 1..(Len(stack) - 1) /\ DOMAIN stack = 1..Len(stack)
  BY <1>1
<1>3. CASE Top \in Tasks
  <2>1. stack' = <<>>
    BY <1>1, <1>3
  <2> QED
    BY <1>1, <2>1 DEF StackInv
<1>4. CASE Top \notin Tasks
  <2>1. \A i \in DOMAIN stack' : i \in DOMAIN stack /\ stack'[i] = stack[i]
    BY <1>1, <1>2
  <2> QED
    BY <1>1, <1>4, <2>1 DEF StackInv, TypeInv
<1> QED
  BY <1>3, <1>4

LEMMA StackPushed ==
    ASSUME TypeInv, NEW x \in Frames, stack' = Append(stack, x), phase' = phase,
           x \in Tasks => stack = <<>> /\ phase[x] \in {"scope", "commit"}
    PROVE  stack' \in Seq(Frames) /\ StackInv'
<1>1. stack \in Seq(Frames)
  BY DEF TypeInv, TypeOK
<1> HIDE DEF Frames
<1>2. /\ stack' \in Seq(Frames) /\ Len(stack) \in Nat
      /\ DOMAIN stack = 1..Len(stack) /\ DOMAIN stack' = 1..(Len(stack) + 1)
      /\ stack'[Len(stack) + 1] = x
      /\ \A i \in 1..Len(stack) : stack'[i] = stack[i]
  BY <1>1
<1>3. stack = <<>> => Len(stack) = 0
  OBVIOUS
<1>4. \A i \in DOMAIN stack' : \/ i \in DOMAIN stack /\ stack'[i] = stack[i]
                               \/ i = Len(stack) + 1 /\ stack'[i] = x
  BY <1>2
<1> QED
  BY <1>2, <1>3, <1>4 DEF StackInv, TypeInv

LEMMA StackKept ==
    ASSUME TypeInv, stack' = stack,
           \A t \in Tasks : phase'[t] = phase[t] \/ stack = <<>> \/ phase'[t] \in {"scope", "commit"}
    PROVE  stack' \in Seq(Frames) /\ StackInv'
<1>1. stack \in Seq(Frames)
  BY DEF TypeInv, TypeOK
<1>2. stack = <<>> => DOMAIN stack = {}
  OBVIOUS
<1> QED
  BY <1>1, <1>2 DEF StackInv, TypeInv

LEMMA TypeInit ==
    ASSUME Init
    PROVE  TypeInv
<1>1. NoCapture \in Captures
  BY DEF NoCapture, Captures
<1>2. /\ queue \in Seq(Jobs) /\ stack \in Seq(Frames)
      /\ io \in Seq(Callers) /\ durable \in Seq(Captures)
      /\ DOMAIN stack = {}
  BY DEF Init
<1> HIDE DEF Captures, NoCapture, Frames, Callers
<1>3. TypeOK
  BY <1>1, <1>2, Frame DEF Init, TypeOK
<1>4. StackInv
  BY <1>2 DEF StackInv
<1> QED
  BY <1>3, <1>4 DEF TypeInv

(* The foreign threads, and the pump. *)
LEMMA TypeQueue ==
    ASSUME TypeInv,
           \/ Pump
           \/ \E j \in Jobs : Foreign(j) \/ SubmitInline(j) \/ JobReturn(j)
    PROVE  TypeInv'
<1> USE DEF TypeOK, tasks, commits, futures
<1> HIDE DEF Frames, Callers
<1>0. TypeOK /\ stack \in Seq(Frames) /\ queue \in Seq(Jobs)
  BY DEF TypeInv
<1>1. ASSUME NEW j \in Jobs, Foreign(j)
      PROVE  TypeInv'
  <2>1. UNCHANGED <<stack, phase>>
    BY <1>1 DEF Foreign, SubmitCheck, SubmitAppend, CancelFuture
  <2>2. StackInv'
    BY <2>1, StackKept
  <2>3. queue' \in Seq(Jobs) /\ wakes' \in Nat
    <3>1. queue' = queue \/ queue' = Append(queue, j)
      BY <1>1 DEF Foreign, SubmitCheck, SubmitAppend, CancelFuture
    <3>2. wakes' = wakes \/ wakes' = wakes + 1
      BY <1>1 DEF Foreign, SubmitCheck, SubmitAppend, CancelFuture
    <3>3. wakes \in Nat /\ queue \in Seq(Jobs)
      BY <1>0
    <3>4. queue' \in Seq(Jobs)
      BY <3>1, <3>3
    <3>5. wakes' \in Nat
      BY <3>2, <3>3
    <3> QED
      BY <3>4, <3>5
  <2>4. sub' \in [Jobs -> {"idle", "refused", "admitted", "queued", "running", "settled", "cancelled"}]
    BY <1>0, <1>1 DEF Foreign, SubmitCheck, SubmitAppend, CancelFuture
  <2>5. TypeOK'
    BY <1>0, <1>1, <2>3, <2>4 DEF Foreign, SubmitCheck, SubmitAppend, CancelFuture
  <2> QED
    BY <2>2, <2>5 DEF TypeInv
<1>2. ASSUME NEW j \in Jobs, SubmitInline(j)
      PROVE  TypeInv'
  <2>1. stack' = Append(stack, j) /\ phase' = phase /\ j \in Frames /\ j \notin Tasks
    BY <1>2, Frame DEF SubmitInline
  <2>2. StackInv' /\ stack' \in Seq(Frames)
    BY <2>1, StackPushed
  <2>3. TypeOK'
    BY <1>0, <1>2, <2>2 DEF SubmitInline
  <2> QED
    BY <2>2, <2>3 DEF TypeInv
<1>3. ASSUME NEW j \in Jobs, JobReturn(j)
      PROVE  TypeInv'
  <2>1. StackInv' /\ stack' \in Seq(Frames)
    BY <1>3, StackPopped DEF JobReturn, Inside
  <2>2. TypeOK'
    BY <1>0, <1>3, <2>1 DEF JobReturn
  <2> QED
    BY <2>1, <2>2 DEF TypeInv
<1>4. ASSUME Wake \/ RunPending \/ Enter
      PROVE  TypeInv'
  <2>1. (stack' = stack \/ stack' = Append(stack, "pump")) /\ phase' = phase
    <3>1. <<"pump">> = Append(<<>>, "pump")
      OBVIOUS
    <3> QED
      BY <1>4, <3>1 DEF Wake, RunPending, Enter
  <2>2. StackInv' /\ stack' \in Seq(Frames)
    BY <2>1, StackKept, StackPushed, Frame
  <2>3. wakes' \in Nat
    BY <1>0, <1>4 DEF Wake, RunPending, Enter
  <2>4. TypeOK'
    BY <1>0, <1>4, <2>2, <2>3 DEF Wake, RunPending, Enter
  <2> QED
    BY <2>2, <2>4 DEF TypeInv
<1>5. CASE PumpNext
  <2>1. Head(queue) \in Jobs /\ Tail(queue) \in Seq(Jobs)
    BY <1>0, <1>5 DEF PumpNext
  <2>2. (stack' = stack \/ stack' = Append(stack, Head(queue))) /\ phase' = phase
    BY <1>5 DEF PumpNext
  <2>3. StackInv' /\ stack' \in Seq(Frames)
    BY <2>1, <2>2, StackKept, StackPushed, Frame
  <2>4. TypeOK'
    BY <1>0, <1>5, <2>1, <2>3 DEF PumpNext
  <2> QED
    BY <2>3, <2>4 DEF TypeInv
<1>6. CASE PumpEnd
  <2>1. StackInv' /\ stack' \in Seq(Frames)
    BY <1>6, StackPopped DEF PumpEnd, Inside
  <2>2. TypeOK'
    BY <1>0, <1>6, <2>1 DEF PumpEnd
  <2> QED
    BY <2>1, <2>2 DEF TypeInv
<1> QED
  BY <1>1, <1>2, <1>3, <1>4, <1>5, <1>6 DEF Pump

(* close() *)
LEMMA TypeClosing ==
    ASSUME TypeInv, Closing
    PROVE  TypeInv'
<1> USE DEF TypeOK, tasks, commits, futures
<1> HIDE DEF Frames, Callers
<1>0. TypeOK /\ stack \in Seq(Frames) /\ queue \in Seq(Jobs)
  BY DEF TypeInv
<1>1. CASE Close
  <2>1. stack' = Append(stack, "close") /\ phase' = phase
    BY <1>1 DEF Close
  <2>2. StackInv' /\ stack' \in Seq(Frames)
    BY <2>1, StackPushed, Frame
  <2>3. TypeOK'
    BY <1>0, <1>1, <2>2 DEF Close
  <2> QED
    BY <2>2, <2>3 DEF TypeInv
<1>2. CASE Drain
  <2>1. Head(queue) \in Jobs /\ Tail(queue) \in Seq(Jobs)
    BY <1>0, <1>2 DEF Drain
  <2>2. StackInv' /\ stack' \in Seq(Frames)
    BY <1>2, StackKept DEF Drain
  <2>3. TypeOK'
    BY <1>0, <1>2, <2>1, <2>2 DEF Drain
  <2> QED
    BY <2>2, <2>3 DEF TypeInv
<1>3. CASE Drained
  <2>1. stack' = <<"shutdown">> /\ DOMAIN stack' = {1} /\ stack'[1] = "shutdown"
    BY <1>3 DEF Drained
  <2>2. StackInv'
    BY <2>1, Frame DEF StackInv
  <2>3. <<"shutdown">> \in Seq(Frames)
    BY Frame
  <2>4. TypeOK'
    BY <1>0, <1>3, <2>1, <2>3 DEF Drained
  <2> QED
    BY <2>2, <2>4 DEF TypeInv
<1>4. CASE CloseEnd
  <2>1. StackInv' /\ stack' \in Seq(Frames)
    BY <1>4, StackPopped DEF CloseEnd, Inside
  <2>2. TypeOK'
    BY <1>0, <1>4, <2>1 DEF CloseEnd
  <2> QED
    BY <2>1, <2>2 DEF TypeInv
<1> QED
  BY <1>1, <1>2, <1>3, <1>4 DEF Closing

(* The owner's tasks. *)
LEMMA TypeTasks ==
    ASSUME TypeInv, NEW t \in Tasks, Task(t)
    PROVE  TypeInv'
<1> USE DEF TypeOK, commits, futures
<1> HIDE DEF Frames, Callers
<1>0. TypeOK /\ stack \in Seq(Frames) /\ t \in Frames /\ t # NoTask
  BY Frame DEF TypeInv
<1>1. CASE Begin(t) \/ Retry(t) \/ Abort(t)
  <2>1. StackInv' /\ stack' \in Seq(Frames)
    BY <1>1, StackKept DEF Begin, Retry, Abort
  <2>2. /\ phase' \in [Tasks -> {"idle", "scope", "commit", "over"}]
        /\ lock' \in Tasks \cup {NoTask} /\ facade' = facade
        /\ \A u \in Tasks : lock' = u <=> facade = "async" /\ phase'[u] \in {"scope", "commit"}
    <3>1. CASE Begin(t)
      BY <1>0, <3>1, Frame DEF Begin
    <3>2. CASE Retry(t)
      BY <1>0, <3>2, Frame DEF Retry
    <3>3. CASE Abort(t)
      BY <1>0, <3>3, Frame DEF Abort
    <3> QED
      BY <1>1, <3>1, <3>2, <3>3
  <2>3. TypeOK'
    BY <1>0, <1>1, <2>1, <2>2 DEF Begin, Retry, Abort
  <2> QED
    BY <2>1, <2>3 DEF TypeInv
<1>2. CASE Call(t)
  <2>1. stack' = Append(stack, t) /\ phase' = phase /\ stack = <<>> /\ phase[t] \in {"scope", "commit"}
    <3>1. <<t>> = Append(<<>>, t)
      OBVIOUS
    <3> QED
      BY <1>2, <3>1 DEF Call, tasks
  <2>2. StackInv' /\ stack' \in Seq(Frames)
    BY <1>0, <2>1, StackPushed
  <2>3. TypeOK'
    BY <1>0, <1>2, <2>2 DEF Call, tasks
  <2> QED
    BY <2>2, <2>3 DEF TypeInv
<1>3. CASE P1Empty(t)
  <2>1. stack # <<>> /\ Top = t /\ stack' = Popped
    BY <1>3 DEF P1Empty, Entered, Inside
  <2>2. phase[t] \in {"scope", "commit"}
    BY <1>0, <2>1, Popping DEF TypeInv, StackInv
  <2>3. phase' = [phase EXCEPT ![t] = "over"] /\ lock' = NoTask /\ facade' = facade
    BY <1>3 DEF P1Empty
  <2>4. StackInv' /\ stack' \in Seq(Frames)
    BY <1>0, <2>1, <2>3, StackPopped
  <2>5. \A u \in Tasks : lock' = u <=> facade = "async" /\ phase'[u] \in {"scope", "commit"}
    BY <1>0, <2>2, <2>3, Frame
  <2>6. TypeOK'
    BY <1>0, <1>3, <2>3, <2>4, <2>5 DEF P1Empty
  <2> QED
    BY <2>4, <2>6 DEF TypeInv
<1> QED
  BY <1>1, <1>2, <1>3 DEF Task

(* A commit that ends, for the stack, the phases and the lock. *)
LEMMA CommitEndTypes ==
    ASSUME TypeInv, NEW c \in Callers, Resumes(c), CommitEnds(c), facade' = facade
    PROVE  /\ stack' \in Seq(Frames) /\ StackInv'
           /\ phase' \in [Tasks -> {"idle", "scope", "commit", "over"}]
           /\ lock' \in Tasks \cup {NoTask}
           /\ \A u \in Tasks : lock' = u <=> facade' = "async" /\ phase'[u] \in {"scope", "commit"}
<1> HIDE DEF Frames, Callers
<1>0. /\ TypeOK /\ phase \in [Tasks -> {"idle", "scope", "commit", "over"}]
      /\ lock \in Tasks \cup {NoTask}
      /\ \A u \in Tasks : lock = u <=> facade = "async" /\ phase[u] \in {"scope", "commit"}
  BY DEF TypeInv, TypeOK
<1>1. /\ phase' = IF c \in Tasks THEN [phase EXCEPT ![c] = "over"] ELSE phase
      /\ lock' = IF lock = c THEN NoTask ELSE lock
      /\ stack' = IF c \in Tasks /\ Blocking(c) THEN Popped ELSE stack
  BY DEF CommitEnds
<1>2. stack' \in Seq(Frames) /\ StackInv'
  <2>1. CASE c \in Tasks /\ Blocking(c)
    <3>1. stack # <<>> /\ Top = c
      BY <2>1 DEF Resumes, Inside
    <3>2. stack' = Popped /\ \A t \in Tasks : phase'[t] = phase[t] \/ t = Top
      BY <1>0, <1>1, <2>1, <3>1
    <3> QED
      BY <3>1, <3>2, StackPopped
  <2>2. CASE c \in Tasks /\ ~Blocking(c)
    <3>1. stack' = stack /\ stack = <<>>
      BY <1>1, <2>2 DEF Resumes
    <3> QED
      BY <3>1, StackKept
  <2>3. CASE c \notin Tasks
    BY <1>1, <2>3, StackKept
  <2> QED
    BY <2>1, <2>2, <2>3
<1>3. phase' \in [Tasks -> {"idle", "scope", "commit", "over"}] /\ lock' \in Tasks \cup {NoTask}
  BY <1>0, <1>1
<1>4. \A u \in Tasks : lock' = u <=> facade' = "async" /\ phase'[u] \in {"scope", "commit"}
  BY <1>0, <1>1, Frame
<1> QED
  BY <1>2, <1>3, <1>4

LEMMA TypeCommits ==
    ASSUME TypeInv, NEW c \in Callers, Write(c) \/ Commit(c)
    PROVE  TypeInv'
<1> USE DEF TypeOK, futures
<1> HIDE DEF Frames, Callers
<1>0. TypeOK /\ stack \in Seq(Frames) /\ capture[c] \in Captures /\ NoCapture \in Captures
  <2>1. NoCapture \in Captures
    BY DEF NoCapture, Captures
  <2> QED
    BY <2>1 DEF TypeInv
<1>1. CASE Write(c)
  <2>1. /\ stack # <<>> /\ stack' = (IF c \in Tasks THEN Popped ELSE stack) /\ phase' = phase
        /\ UNCHANGED <<facade, closed, futures, tasks, commits, calm>>
        /\ written' = [written EXCEPT ![c] = @ + 1]
        /\ <<c, written[c] + 1>> \in Writes /\ buffer' = buffer \cup {<<c, written[c] + 1>>}
    BY <1>1 DEF Write, Entered, Inside, tasks
  <2>2. StackInv' /\ stack' \in Seq(Frames)
    BY <2>1, StackPopped, StackKept
  <2>3. written' \in [Callers -> Nat] /\ buffer' \subseteq Writes
    <3>1. written \in [Callers -> Nat] /\ written[c] + 1 \in Nat /\ buffer \subseteq Writes
      BY <1>0
    <3> QED
      BY <2>1, <3>1
  <2>4. TypeOK'
    BY <1>0, <2>1, <2>2, <2>3 DEF tasks, commits
  <2> QED
    BY <2>2, <2>4 DEF TypeInv
<1>2. CASE P1(c)
  <2>1. stack # <<>> /\ Top = c /\ stack' = (IF Blocking(c) THEN stack ELSE Popped)
    BY <1>2 DEF P1, Entered, Inside
  <2>2. c \in Tasks => phase[c] \in {"scope", "commit"}
    BY <1>0, <2>1, Popping DEF TypeInv, StackInv
  <2>3. /\ phase' = (IF c \in Tasks THEN [phase EXCEPT ![c] = "commit"] ELSE phase)
        /\ UNCHANGED <<facade, lock>>
    BY <1>2 DEF P1
  <2>4. \A u \in Tasks : /\ phase'[u] = phase[u] \/ phase'[u] \in {"scope", "commit"}
                         /\ phase'[u] = phase[u] \/ u = Top
    BY <1>0, <2>1, <2>3
  <2>5. StackInv' /\ stack' \in Seq(Frames)
    BY <2>1, <2>4, StackPopped, StackKept
  <2>6. /\ phase' \in [Tasks -> {"idle", "scope", "commit", "over"}]
        /\ \A u \in Tasks : lock' = u <=> facade' = "async" /\ phase'[u] \in {"scope", "commit"}
    BY <1>0, <2>2, <2>3
  <2>7. capture' \in [Callers -> Captures] /\ nextTid' \in Nat /\ io' \in Seq(Callers)
    <3>1. [tid |-> nextTid, writes |-> buffer] \in Captures
      BY <1>0 DEF Captures
    <3>2. io \in Seq(Callers) /\ nextTid \in Nat /\ capture \in [Callers -> Captures]
      BY <1>0
    <3> HIDE DEF TypeOK
    <3>3. /\ capture' = [capture EXCEPT ![c] = [tid |-> nextTid, writes |-> buffer]]
          /\ nextTid' = nextTid + 1 /\ io' = Append(io, c)
      BY <1>2 DEF P1
    <3>4. io' \in Seq(Callers)
      BY <3>2, <3>3
    <3> QED
      BY <3>1, <3>2, <3>3, <3>4
  <2>8. buffer' \subseteq Writes /\ calm' \in BOOLEAN
    BY <1>0, <1>2 DEF P1
  <2>9. TypeOK'
    BY <1>0, <1>2, <2>3, <2>5, <2>6, <2>7, <2>8 DEF P1
  <2> QED
    BY <2>5, <2>9 DEF TypeInv
<1>3. CASE P3(c) \/ Rollback(c)
  <2>1. /\ Resumes(c) /\ CommitEnds(c)
        /\ capture' = [capture EXCEPT ![c] = NoCapture]
        /\ outcome' = [outcome EXCEPT ![c] = "none"]
        /\ UNCHANGED <<facade, closed, futures, written, io, durable, calm>>
        /\ \/ lastTid' = capture[c].tid /\ UNCHANGED <<buffer, nextTid>>
           \/ /\ nextTid' = capture[c].tid /\ lastTid' = lastTid
              /\ buffer' = buffer \cup capture[c].writes
    BY <1>3 DEF P3, Rollback
  <2>2. /\ stack' \in Seq(Frames) /\ StackInv'
        /\ phase' \in [Tasks -> {"idle", "scope", "commit", "over"}]
        /\ lock' \in Tasks \cup {NoTask}
        /\ \A u \in Tasks : lock' = u <=> facade' = "async" /\ phase'[u] \in {"scope", "commit"}
    BY <2>1, CommitEndTypes
  <2>3. /\ lastTid' \in Nat /\ nextTid' \in Nat /\ buffer' \subseteq Writes
        /\ capture' \in [Callers -> Captures] /\ outcome' \in [Callers -> {"none", "ok", "failed"}]
    BY <1>0, <2>1 DEF Captures
  <2>4. TypeOK'
    BY <1>0, <2>1, <2>2, <2>3
  <2> QED
    BY <2>2, <2>4 DEF TypeInv
<1> QED
  BY <1>1, <1>2, <1>3 DEF Commit

LEMMA TypeWorker ==
    ASSUME TypeInv, Worker
    PROVE  TypeInv'
<1> USE DEF TypeOK
<1> HIDE DEF Frames, Callers, Captures
<1>0. TypeOK /\ Head(io) \in Callers /\ Tail(io) \in Seq(Callers)
  <2>1. io \in Seq(Callers) /\ io # <<>>
    BY DEF TypeInv, Worker, P2Commit, P2Fail
  <2> QED
    BY <2>1 DEF TypeInv
<1>1. UNCHANGED <<facade, closed, futures, stack, tasks, written, buffer, nextTid, lastTid, capture, calm>>
  BY DEF Worker, P2Commit, P2Fail
<1>2. StackInv'
  BY <1>1, StackKept DEF tasks
<1>3. /\ io' \in Seq(Callers) /\ outcome' \in [Callers -> {"none", "ok", "failed"}]
  BY <1>0 DEF Worker, P2Commit, P2Fail
<1>4. durable' \in Seq(Captures)
  <2>1. durable' = durable \/ durable' = Append(durable, capture[Head(io)])
    BY DEF Worker, P2Commit, P2Fail
  <2>2. durable \in Seq(Captures) /\ capture[Head(io)] \in Captures
    BY <1>0
  <2> QED
    BY <2>1, <2>2
<1>5. TypeOK'
  BY <1>0, <1>1, <1>3, <1>4 DEF futures, tasks
<1> QED
  BY <1>2, <1>5 DEF TypeInv

LEMMA TypeStep ==
    ASSUME TypeInv, [Next]_vars
    PROVE  TypeInv'
<1>1. CASE Next
  BY <1>1, TypeQueue, TypeClosing, TypeTasks, TypeCommits, TypeWorker DEF Next
<1>2. CASE UNCHANGED vars
  BY <1>2 DEF vars, futures, tasks, commits, TypeInv, TypeOK, StackInv
<1> QED
  BY <1>1, <1>2

(* Type correctness of the queue, the owner's stack and the commits for any    *)
(* number of callables and tasks; under aopen() the lock is held by the one    *)
(* task that is in a scope or a commit, whatever fails.                        *)
THEOREM SubmitTypes == Spec => []TypeOK
<1>1. Init => TypeInv
  BY TypeInit
<1>2. TypeInv /\ [Next]_vars => TypeInv'
  BY TypeStep
<1>3. TypeInv => TypeOK
  BY DEF TypeInv
<1> QED
  BY <1>1, <1>2, <1>3, PTL DEF Spec

-----------------------------------------------------------------------------
(* What the steps do to the commits. *)

LEMMA CommitSteps ==
    ASSUME [Next]_vars
    PROVE  \/ UNCHANGED <<written, buffer, commits, calm>>
           \/ \E c \in Callers : Write(c) \/ P1(c) \/ P3(c) \/ Rollback(c)
           \/ P2Commit \/ P2Fail
<1>1. ASSUME NEW j \in Jobs, Foreign(j) \/ SubmitInline(j) \/ JobReturn(j)
      PROVE  UNCHANGED <<written, buffer, commits, calm>>
  BY <1>1 DEF Foreign, SubmitCheck, SubmitAppend, CancelFuture, SubmitInline, JobReturn
<1>2. ASSUME NEW t \in Tasks, Task(t)
      PROVE  UNCHANGED <<written, buffer, commits, calm>>
  BY <1>2 DEF Task, Begin, Retry, Abort, Call, P1Empty
<1>3. ASSUME Pump \/ Closing
      PROVE  UNCHANGED <<written, buffer, commits, calm>>
  BY <1>3 DEF Pump, Wake, RunPending, Enter, PumpNext, PumpEnd, Closing, Close, Drain, Drained,
              CloseEnd
<1>4. CASE UNCHANGED vars
  BY <1>4 DEF vars
<1> QED
  BY <1>1, <1>2, <1>3, <1>4 DEF Next, Commit, Worker

LEMMA CommitTypes ==
    ASSUME TypeInv
    PROVE  /\ io \in Seq(Callers) /\ durable \in Seq(Captures)
           /\ capture \in [Callers -> Captures]
           /\ outcome \in [Callers -> {"none", "ok", "failed"}]
           /\ written \in [Callers -> Nat] /\ buffer \subseteq Writes
           /\ nextTid \in Nat /\ lastTid \in Nat
           /\ \A c \in Callers : capture[c].writes \subseteq Writes /\ capture[c].tid \in Nat
           /\ Len(durable) \in Nat /\ DOMAIN durable = 1..Len(durable)
BY DEF TypeInv, TypeOK, Captures

(* P1 puts a commit in flight. *)
LEMMA Captured ==
    ASSUME TypeInv, NEW c \in Callers, P1(c)
    PROVE  /\ c \notin InFlight /\ InFlight' = InFlight \cup {c}
           /\ capture'[c].tid = nextTid /\ capture'[c].writes = buffer
           /\ \A d \in Callers : d # c => capture'[d] = capture[d]
           /\ io' = Append(io, c)
           /\ nextTid' = nextTid + 1 /\ buffer' = {}
           /\ UNCHANGED <<written, lastTid, outcome, durable>>
           /\ calm' = (calm /\ ~Clashes(c))
<1>1. /\ c \notin InFlight /\ buffer # {}
      /\ capture' = [capture EXCEPT ![c] = [tid |-> nextTid, writes |-> buffer]]
      /\ io' = Append(io, c) /\ nextTid' = nextTid + 1 /\ buffer' = {}
      /\ UNCHANGED <<written, lastTid, outcome, durable>>
      /\ calm' = (calm /\ ~Clashes(c))
  BY DEF P1, Entered
<1>2. /\ capture'[c] = [tid |-> nextTid, writes |-> buffer]
      /\ \A d \in Callers : d # c => capture'[d] = capture[d]
  BY <1>1, CommitTypes
<1>3. capture'[c] # NoCapture /\ capture'[c].tid = nextTid /\ capture'[c].writes = buffer
  BY <1>1, <1>2 DEF NoCapture
<1>4. InFlight' = InFlight \cup {c}
  BY <1>2, <1>3 DEF InFlight
<1> QED
  BY <1>1, <1>2, <1>3, <1>4

(* P3 and the rollback take it out. *)
LEMMA Finished ==
    ASSUME TypeInv, WireInv, NEW c \in Callers, P3(c) \/ Rollback(c)
    PROVE  /\ c \in InFlight /\ InFlight' = InFlight \ {c} /\ outcome[c] # "none"
           /\ \A d \in Callers : d # c => capture'[d] = capture[d] /\ outcome'[d] = outcome[d]
           /\ outcome'[c] = "none"
           /\ UNCHANGED <<written, io, durable, calm>>
           /\ P3(c) => /\ outcome[c] = "ok" /\ lastTid' = capture[c].tid
                       /\ UNCHANGED <<buffer, nextTid>>
           /\ Rollback(c) => /\ outcome[c] = "failed" /\ nextTid' = capture[c].tid
                             /\ buffer' = buffer \cup capture[c].writes /\ lastTid' = lastTid
<1>1. /\ outcome[c] # "none"
      /\ capture' = [capture EXCEPT ![c] = NoCapture]
      /\ outcome' = [outcome EXCEPT ![c] = "none"]
      /\ UNCHANGED <<written, io, durable, calm>>
  BY DEF P3, Rollback
<1>2. c \in InFlight
  BY <1>1 DEF WireInv
<1>3. /\ capture'[c] = NoCapture /\ outcome'[c] = "none"
      /\ \A d \in Callers : d # c => capture'[d] = capture[d] /\ outcome'[d] = outcome[d]
  BY <1>1, CommitTypes
<1>4. InFlight' = InFlight \ {c}
  BY <1>3 DEF InFlight
<1> QED
  BY <1>1, <1>2, <1>3, <1>4 DEF P3, Rollback

(* The IO worker decides one. *)
LEMMA Decided ==
    ASSUME TypeInv, WireInv, P2Commit \/ P2Fail
    PROVE  \E c \in Callers :
              /\ c \in InFlight /\ outcome[c] = "none" /\ c = Head(io) /\ io # <<>>
              /\ io' = Tail(io) /\ InFlight' = InFlight
              /\ \A d \in Callers : d # c => outcome'[d] = outcome[d]
              /\ UNCHANGED <<written, buffer, nextTid, lastTid, capture, calm>>
              /\ \/ outcome'[c] = "ok" /\ durable' = Append(durable, capture[c])
                 \/ outcome'[c] = "failed" /\ durable' = durable
<1> DEFINE c == Head(io)
<1>1. io \in Seq(Callers) /\ io # <<>>
  BY CommitTypes DEF P2Commit, P2Fail
<1>2. c \in Callers /\ 1 \in DOMAIN io /\ c = io[1]
  BY <1>1
<1>3. c \in InFlight /\ outcome[c] = "none"
  BY <1>2 DEF WireInv
<1>4. /\ io' = Tail(io)
      /\ UNCHANGED <<written, buffer, nextTid, lastTid, capture, calm>>
      /\ \/ outcome' = [outcome EXCEPT ![c] = "ok"] /\ durable' = Append(durable, capture[c])
         \/ outcome' = [outcome EXCEPT ![c] = "failed"] /\ durable' = durable
  BY DEF P2Commit, P2Fail
<1>5. InFlight' = InFlight
  BY <1>4 DEF InFlight
<1>6. /\ \A d \in Callers : d # c => outcome'[d] = outcome[d]
      /\ \/ outcome'[c] = "ok" /\ durable' = Append(durable, capture[c])
         \/ outcome'[c] = "failed" /\ durable' = durable
  <2> HIDE DEF c
  <2> QED
    BY <1>2, <1>4, CommitTypes
<1> HIDE DEF c
<1>7. c = Head(io)
  BY DEF c
<1> QED
  BY <1>1, <1>2, <1>3, <1>4, <1>5, <1>6, <1>7

LEMMA WireStep ==
    ASSUME TypeInv, WireInv, [Next]_vars
    PROVE  WireInv'
<1>0. io \in Seq(Callers) /\ Len(io) \in Nat /\ DOMAIN io = 1..Len(io)
  BY CommitTypes
<1>1. ASSUME UNCHANGED commits
      PROVE  WireInv'
  BY <1>1 DEF WireInv, InFlight, commits
<1>2. ASSUME NEW c \in Callers, P1(c)
      PROVE  WireInv'
  <2>1. /\ c \notin InFlight /\ InFlight' = InFlight \cup {c} /\ io' = Append(io, c)
        /\ outcome' = outcome
    BY <1>2, Captured
  <2>2. outcome[c] = "none" /\ \A i \in DOMAIN io : io[i] # c
    BY <2>1 DEF WireInv
  <2>3. /\ DOMAIN io' = 1..(Len(io) + 1) /\ io'[Len(io) + 1] = c
        /\ \A i \in 1..Len(io) : io'[i] = io[i]
    BY <1>0, <2>1
  <2>4. \A i \in DOMAIN io' : \/ i \in DOMAIN io /\ io'[i] = io[i]
                              \/ i = Len(io) + 1 /\ io'[i] = c
    BY <1>0, <2>3
  <2> QED
    BY <2>1, <2>2, <2>4 DEF WireInv
<1>3. ASSUME NEW c \in Callers, P3(c) \/ Rollback(c)
      PROVE  WireInv'
  <2>1. /\ InFlight' = InFlight \ {c} /\ outcome[c] # "none" /\ io' = io
        /\ \A d \in Callers : d # c => outcome'[d] = outcome[d]
        /\ outcome'[c] = "none"
    BY <1>3, Finished
  <2>2. \A i \in DOMAIN io : io[i] # c /\ io[i] \in Callers
    BY <1>0, <2>1 DEF WireInv
  <2> QED
    BY <2>1, <2>2 DEF WireInv
<1>4. ASSUME P2Commit \/ P2Fail
      PROVE  WireInv'
  <2>1. PICK c \in Callers :
              /\ c \in InFlight /\ c = Head(io) /\ io # <<>>
              /\ io' = Tail(io) /\ InFlight' = InFlight
              /\ \A d \in Callers : d # c => outcome'[d] = outcome[d]
    BY <1>4, Decided
  <2>2. /\ DOMAIN io' = 1..(Len(io) - 1) /\ io[1] = c /\ 1 \in DOMAIN io
        /\ \A i \in 1..(Len(io) - 1) : io'[i] = io[i + 1]
    BY <1>0, <2>1
  <2>3. \A i \in DOMAIN io' : /\ i + 1 \in DOMAIN io /\ i \in Nat /\ i + 1 # 1
                              /\ io'[i] = io[i + 1]
    BY <1>0, <2>2
  <2>4. \A i \in DOMAIN io' : io'[i] # c /\ io'[i] \in Callers /\ io'[i] \in InFlight
                              /\ outcome[io'[i]] = "none"
    BY <1>0, <2>2, <2>3 DEF WireInv
  <2>5. \A i, k \in DOMAIN io' : io'[i] = io'[k] => i = k
    <3> SUFFICES ASSUME NEW i \in DOMAIN io', NEW k \in DOMAIN io', io'[i] = io'[k]
                 PROVE  i = k
      OBVIOUS
    <3>1. i + 1 = k + 1
      BY <2>3 DEF WireInv
    <3> QED
      BY <2>3, <3>1
  <2> QED
    BY <2>1, <2>4, <2>5 DEF WireInv
<1>5. ASSUME NEW c \in Callers, Write(c)
      PROVE  WireInv'
  BY <1>1, <1>5 DEF Write
<1> QED
  BY <1>1, <1>2, <1>3, <1>4, <1>5, CommitSteps

-----------------------------------------------------------------------------
(* TIDs. *)

LEMMA GaplessStep ==
    ASSUME TypeInv, WireInv, GaplessInv, [Next]_vars
    PROVE  GaplessInv'
<1> SUFFICES ASSUME calm'
             PROVE  Gapless' /\ OneCommit'
  BY DEF GaplessInv
<1>0. /\ nextTid \in Nat /\ lastTid \in Nat /\ Len(durable) \in Nat
      /\ \A c \in Callers : capture[c].tid \in Nat
      /\ DOMAIN durable = 1..Len(durable) /\ durable \in Seq(Captures)
      /\ \A c \in InFlight : c \in Callers
  BY CommitTypes DEF InFlight
<1>1. ASSUME UNCHANGED <<commits, calm>>
      PROVE  Gapless' /\ OneCommit'
  BY <1>1 DEF GaplessInv, Gapless, OneCommit, InFlight, commits
<1>2. ASSUME NEW c \in Callers, P1(c)
      PROVE  Gapless' /\ OneCommit'
  <2>1. /\ c \notin InFlight /\ InFlight' = InFlight \cup {c}
        /\ capture'[c].tid = nextTid /\ nextTid' = nextTid + 1
        /\ UNCHANGED <<lastTid, outcome, durable>>
        /\ calm /\ ~Clashes(c)
    BY <1>2, Captured
  <2>2. InFlight = {}
    BY <2>1 DEF Clashes
  <2>3. lastTid = Len(durable) /\ nextTid = lastTid + 1
        /\ \A i \in DOMAIN durable : durable[i].tid = i
    BY <2>1, <2>2 DEF GaplessInv, Gapless
  <2>4. InFlight' = {c} /\ outcome[c] # "ok"
    BY <2>1, <2>2 DEF WireInv
  <2> QED
    BY <1>0, <2>1, <2>3, <2>4 DEF Gapless, OneCommit
<1>3. ASSUME NEW c \in Callers, P3(c) \/ Rollback(c)
      PROVE  Gapless' /\ OneCommit'
  <2>1. /\ c \in InFlight /\ InFlight' = InFlight \ {c} /\ calm
        /\ durable' = durable
        /\ \/ outcome[c] = "ok" /\ lastTid' = capture[c].tid /\ nextTid' = nextTid
           \/ outcome[c] = "failed" /\ nextTid' = capture[c].tid /\ lastTid' = lastTid
    BY <1>3, Finished
  <2>2. Gapless /\ OneCommit
    BY <2>1 DEF GaplessInv
  <2>3. InFlight' = {}
    BY <2>1, <2>2 DEF OneCommit
  <2>4. /\ nextTid = capture[c].tid + 1
        /\ outcome[c] = "ok" => capture[c].tid = Len(durable)
        /\ outcome[c] = "failed" => capture[c].tid = Len(durable) + 1 /\ lastTid = Len(durable)
    BY <2>1, <2>2 DEF OneCommit
  <2> QED
    BY <1>0, <2>1, <2>2, <2>3, <2>4 DEF Gapless, OneCommit
<1>4. ASSUME P2Commit \/ P2Fail
      PROVE  Gapless' /\ OneCommit'
  <2>1. PICK c \in Callers :
              /\ c \in InFlight /\ outcome[c] = "none" /\ InFlight' = InFlight
              /\ UNCHANGED <<nextTid, lastTid, capture, calm>>
              /\ \/ outcome'[c] = "ok" /\ durable' = Append(durable, capture[c])
                 \/ outcome'[c] = "failed" /\ durable' = durable
    BY <1>4, Decided
  <2>2. Gapless /\ OneCommit
    BY <2>1 DEF GaplessInv
  <2>3. /\ \A d \in InFlight : d = c
        /\ nextTid = capture[c].tid + 1
        /\ capture[c].tid = Len(durable) + 1 /\ lastTid = Len(durable)
    BY <2>1, <2>2 DEF OneCommit
  <2>4. CASE durable' = durable /\ outcome'[c] = "failed"
    BY <2>1, <2>2, <2>3, <2>4 DEF Gapless, OneCommit
  <2>5. CASE durable' = Append(durable, capture[c]) /\ outcome'[c] = "ok"
    <3>1. /\ Len(durable') = Len(durable) + 1 /\ DOMAIN durable' = 1..(Len(durable) + 1)
          /\ durable'[Len(durable) + 1] = capture[c]
          /\ \A i \in 1..Len(durable) : durable'[i] = durable[i]
      BY <1>0, <2>5
    <3>2. \A i \in DOMAIN durable' : \/ i \in DOMAIN durable /\ durable'[i] = durable[i]
                                     \/ i = Len(durable) + 1 /\ durable'[i] = capture[c]
      BY <1>0, <3>1
    <3>3. \A i \in DOMAIN durable' : durable'[i].tid = i
      BY <2>2, <2>3, <3>2 DEF Gapless
    <3> QED
      BY <2>1, <2>3, <2>5, <3>1, <3>3 DEF Gapless, OneCommit
  <2> QED
    BY <2>1, <2>4, <2>5
<1>5. ASSUME NEW c \in Callers, Write(c)
      PROVE  Gapless' /\ OneCommit'
  BY <1>1, <1>5 DEF Write
<1> QED
  BY <1>1, <1>2, <1>3, <1>4, <1>5, CommitSteps

LEMMA WireInit == Init => WireInv
BY DEF Init, WireInv, InFlight

(* As long as no callable commits in the middle of a task's scope or commit,   *)
(* the TIDs of the durable transactions are 1, 2, ... and the allocator and    *)
(* last_tid agree with them between commits, for any number of callables and   *)
(* tasks, and whatever fails.                                                  *)
THEOREM SubmitTidsGapless == Spec => []TidsGapless
<1>1. Init => TypeInv /\ WireInv /\ GaplessInv
  <2>1. ASSUME Init
        PROVE  GaplessInv
    <3>1. InFlight = {} /\ DOMAIN durable = {} /\ Len(durable) = 0 /\ lastTid = 0 /\ nextTid = 1
      BY <2>1 DEF Init, InFlight
    <3> QED
      BY <3>1 DEF GaplessInv, Gapless, OneCommit
  <2> QED
    BY <2>1, TypeInit, WireInit
<1>2. (TypeInv /\ WireInv /\ GaplessInv) /\ [Next]_vars => (TypeInv /\ WireInv /\ GaplessInv)'
  BY TypeStep, WireStep, GaplessStep
<1>3. GaplessInv => TidsGapless
  BY DEF GaplessInv, TidsGapless
<1> QED
  BY <1>1, <1>2, <1>3, PTL DEF Spec

-----------------------------------------------------------------------------
(* What is written. *)

LEMMA KeptCommit ==
    ASSUME TypeInv, WireInv, NEW w \in Writes, Kept(w), NEW c \in Callers, P1(c)
    PROVE  Kept(w)'
<1>1. /\ c \notin InFlight /\ InFlight' = InFlight \cup {c}
      /\ capture'[c].writes = buffer
      /\ \A d \in Callers : d # c => capture'[d] = capture[d]
      /\ buffer' = {}
      /\ UNCHANGED <<written, outcome, durable>>
  BY Captured
<1>2. outcome[c] # "ok"
  BY <1>1 DEF WireInv
<1>3. ~InBuffer(w)' /\ (w \in Written)' = (w \in Written)
  BY <1>1 DEF InBuffer, Written
<1>4. \A i \in DOMAIN durable : InStore(w, i)' = InStore(w, i)
  BY <1>1 DEF InStore
<1>5. /\ \A d \in Callers : d # c => InCapture(w, d)' = InCapture(w, d)
      /\ InCapture(w, c)' = InBuffer(w) /\ ~InCapture(w, c)
  BY <1>1, <1>2 DEF InCapture, Undone, InBuffer
<1>6. DOMAIN durable' = DOMAIN durable
  BY <1>1
<1> QED
  BY <1>3, <1>4, <1>5, <1>6 DEF Kept

LEMMA KeptFinish ==
    ASSUME TypeInv, WireInv, NEW w \in Writes, Kept(w), NEW c \in Callers, P3(c) \/ Rollback(c)
    PROVE  Kept(w)'
<1>1. /\ c \in InFlight /\ InFlight' = InFlight \ {c} /\ outcome[c] # "none"
      /\ \A d \in Callers : d # c => capture'[d] = capture[d] /\ outcome'[d] = outcome[d]
      /\ UNCHANGED <<written, durable>>
      /\ \/ outcome[c] = "ok" /\ buffer' = buffer
         \/ outcome[c] = "failed" /\ buffer' = buffer \cup capture[c].writes
  BY Finished
<1>2. (w \in Written)' = (w \in Written) /\ InBuffer(w)' = (InBuffer(w) \/ InCapture(w, c))
  BY <1>1 DEF InBuffer, Written, InCapture, Undone
<1>3. \A i \in DOMAIN durable : InStore(w, i)' = InStore(w, i)
  BY <1>1 DEF InStore
<1>4. /\ \A d \in Callers : d # c => InCapture(w, d)' = InCapture(w, d)
      /\ ~InCapture(w, c)'
  BY <1>1 DEF InCapture, Undone
<1>5. DOMAIN durable' = DOMAIN durable
  BY <1>1
<1> QED
  BY <1>2, <1>3, <1>4, <1>5 DEF Kept

LEMMA KeptDecide ==
    ASSUME TypeInv, WireInv, NEW w \in Writes, Kept(w), P2Commit \/ P2Fail
    PROVE  Kept(w)'
<1>1. PICK c \in Callers :
          /\ c \in InFlight /\ outcome[c] = "none" /\ InFlight' = InFlight
          /\ \A d \in Callers : d # c => outcome'[d] = outcome[d]
          /\ UNCHANGED <<written, buffer, capture>>
          /\ \/ outcome'[c] = "ok" /\ durable' = Append(durable, capture[c])
             \/ outcome'[c] = "failed" /\ durable' = durable
  BY Decided
<1>2. (w \in Written)' = (w \in Written) /\ InBuffer(w)' = InBuffer(w)
  BY <1>1 DEF InBuffer, Written
<1>3. \A d \in Callers : d # c => InCapture(w, d)' = InCapture(w, d)
  BY <1>1 DEF InCapture, Undone
<1>4. CASE outcome'[c] = "failed" /\ durable' = durable
  <2>1. InCapture(w, c)' = InCapture(w, c)
    BY <1>1, <1>4 DEF InCapture, Undone
  <2>2. \A i \in DOMAIN durable : InStore(w, i)' = InStore(w, i)
    BY <1>4 DEF InStore
  <2>3. DOMAIN durable' = DOMAIN durable
    BY <1>4
  <2> QED
    BY <1>2, <1>3, <2>1, <2>2, <2>3 DEF Kept
<1>5. CASE outcome'[c] = "ok" /\ durable' = Append(durable, capture[c])
  <2> DEFINE n == Len(durable) + 1
  <2>1. /\ n \notin DOMAIN durable /\ DOMAIN durable' = DOMAIN durable \cup {n}
        /\ durable'[n] = capture[c]
        /\ \A i \in DOMAIN durable : durable'[i] = durable[i]
    <3>1. /\ durable \in Seq(Captures) /\ Len(durable) \in Nat /\ DOMAIN durable = 1..Len(durable)
      BY CommitTypes
    <3> HIDE DEF Captures
    <3>2. /\ DOMAIN durable' = 1..(Len(durable) + 1) /\ durable'[Len(durable) + 1] = capture[c]
          /\ \A i \in 1..Len(durable) : durable'[i] = durable[i]
      BY <1>5, <3>1, CommitTypes
    <3>3. 1..(Len(durable) + 1) = 1..Len(durable) \cup {Len(durable) + 1}
      BY <3>1
    <3> QED
      BY <3>1, <3>2, <3>3
  <2> HIDE DEF n
  <2>2. ~InCapture(w, c)'
    BY <1>5 DEF InCapture, Undone
  <2>3. /\ \A i \in DOMAIN durable : InStore(w, i)' = InStore(w, i)
        /\ (n \in DOMAIN durable' /\ w \in durable'[n].writes) = InCapture(w, c)
    BY <1>1, <2>1 DEF InStore, InCapture, Undone
  <2> DEFINE Later(i) == i \in DOMAIN durable' /\ w \in durable'[i].writes
  <2>4. \A i \in DOMAIN durable' : InStore(w, i)' = Later(i)
    BY DEF InStore
  <2>5. /\ \A i \in DOMAIN durable : Later(i) = InStore(w, i)
        /\ Later(n) = InCapture(w, c)
    BY <2>1, <2>3 DEF InStore
  <2> HIDE DEF Later
  <2> QED
    BY <1>2, <1>3, <2>1, <2>2, <2>4, <2>5 DEF Kept
<1> QED
  BY <1>1, <1>4, <1>5

LEMMA KeptWrite ==
    ASSUME TypeInv, NEW w \in Writes, Kept(w), NEW c \in Callers, Write(c)
    PROVE  Kept(w)'
<1> DEFINE new == <<c, written[c] + 1>>
<1>1. /\ new \in Writes /\ written' = [written EXCEPT ![c] = @ + 1]
      /\ buffer' = buffer \cup {new} /\ UNCHANGED commits
      /\ written[c] \in Nat /\ written \in [Callers -> Nat]
  BY CommitTypes DEF Write
<1>2. /\ \A d \in Callers : InCapture(w, d)' = InCapture(w, d)
      /\ \A i \in DOMAIN durable : InStore(w, i)' = InStore(w, i)
      /\ DOMAIN durable' = DOMAIN durable
  BY <1>1 DEF InCapture, InStore, Undone, InFlight, commits
<1>3. w[1] \in Callers /\ w[2] \in Nat /\ w = <<w[1], w[2]>>
  BY Frame, SubmitConstants DEF Writes, Callers
<1>4. /\ w = new => w \notin Written
      /\ (w \in Written)' = (w \in Written \/ w = new)
  <2>1. w \in Written <=> w[2] <= written[w[1]]
    BY DEF Written
  <2>2. (w \in Written)' <=> w[2] <= written'[w[1]]
    BY DEF Written
  <2>3. CASE w[1] = c
    <3>1. w = new <=> w[2] = written[c] + 1
      BY <1>3, <2>3
    <3>2. written'[w[1]] = written[c] + 1 /\ written[w[1]] = written[c]
      BY <1>1, <2>3
    <3> HIDE DEF new
    <3> QED
      BY <1>1, <1>3, <2>1, <2>2, <3>1, <3>2
  <2>4. CASE w[1] # c
    <3>1. w # new /\ written'[w[1]] = written[w[1]]
      BY <1>1, <1>3, <2>4
    <3> QED
      BY <2>1, <2>2, <3>1
  <2> QED
    BY <2>3, <2>4
<1>5. InBuffer(w)' = (InBuffer(w) \/ w = new)
  BY <1>1 DEF InBuffer
<1> HIDE DEF new
<1> QED
  BY <1>2, <1>4, <1>5 DEF Kept

LEMMA KeptStep ==
    ASSUME TypeInv, WireInv, KeptInv, [Next]_vars
    PROVE  KeptInv'
<1> SUFFICES ASSUME NEW w \in Writes
             PROVE  Kept(w)'
  BY DEF KeptInv
<1>1. Kept(w)
  BY DEF KeptInv
<1>2. ASSUME UNCHANGED <<written, buffer, commits>>
      PROVE  Kept(w)'
  <2>1. (w \in Written)' = (w \in Written) /\ InBuffer(w)' = InBuffer(w)
    BY <1>2 DEF Written, InBuffer
  <2>2. /\ \A d \in Callers : InCapture(w, d)' = InCapture(w, d)
        /\ \A i \in DOMAIN durable : InStore(w, i)' = InStore(w, i)
        /\ DOMAIN durable' = DOMAIN durable
    BY <1>2 DEF InCapture, InStore, Undone, InFlight, commits
  <2> QED
    BY <1>1, <2>1, <2>2 DEF Kept
<1> QED
  BY <1>1, <1>2, KeptCommit, KeptFinish, KeptDecide, KeptWrite, CommitSteps

LEMMA KeptImplies ==
    ASSUME TypeInv, KeptInv
    PROVE  NothingLost
<1>1. InFlight \subseteq Callers /\ Undone = {d \in InFlight : outcome[d] # "ok"}
  BY DEF InFlight, Undone
<1>2. \A c \in Undone : capture[c].writes \subseteq Writes
  BY <1>1, CommitTypes DEF Undone
<1>3. \A i \in DOMAIN durable : durable[i].writes \subseteq Writes
  <2>1. durable \in Seq(Captures)
    BY CommitTypes
  <2>2. \A i \in DOMAIN durable : durable[i] \in Captures
    BY <2>1
  <2> QED
    BY <2>2 DEF Captures
<1>4. buffer \subseteq Writes
  BY CommitTypes
<1>5. Batches = {capture[c].writes : c \in Undone} \cup {durable[i].writes : i \in DOMAIN durable}
  BY <1>1 DEF Batches
<1>6. \A b \in Batches \cup {buffer} : b \subseteq Writes
  BY <1>2, <1>3, <1>4, <1>5
<1>7. ASSUME NEW w \in Writes
      PROVE  (\E b \in Batches \cup {buffer} : w \in b) <=> w \in Written
  <2>1. w \in Written <=>
           \/ w \in buffer
           \/ \E c \in Undone : w \in capture[c].writes
           \/ \E i \in DOMAIN durable : w \in durable[i].writes
    <3>1. Kept(w) /\ Undone \subseteq Callers
      BY <1>1 DEF KeptInv
    <3>2. (\E c \in Callers : InCapture(w, c)) <=> \E c \in Undone : w \in capture[c].writes
      BY <3>1 DEF InCapture
    <3>3. (\E i \in DOMAIN durable : InStore(w, i)) <=> \E i \in DOMAIN durable : w \in durable[i].writes
      BY DEF InStore
    <3>4. InBuffer(w) <=> w \in buffer
      BY DEF InBuffer
    <3>5. w \in Written <=>
             \/ InBuffer(w)
             \/ \E c \in Callers : InCapture(w, c)
             \/ \E i \in DOMAIN durable : InStore(w, i)
      BY <3>1 DEF Kept
    <3> QED
      BY <3>2, <3>3, <3>4, <3>5
  <2>2. (\E b \in Batches \cup {buffer} : w \in b) <=>
           \/ w \in buffer
           \/ \E c \in Undone : w \in capture[c].writes
           \/ \E i \in DOMAIN durable : w \in durable[i].writes
    BY <1>5
  <2> QED
    BY <2>1, <2>2
<1>8. UNION (Batches \cup {buffer}) = {w \in Writes : w[2] <= written[w[1]]}
  <2>1. UNION (Batches \cup {buffer}) = Written
    BY <1>6, <1>7 DEF Written
  <2> QED
    BY <2>1 DEF Written
<1>9. ASSUME NEW w \in Writes, NEW a \in Batches \cup {buffer}, NEW b \in Batches \cup {buffer},
             w \in a, w \in b
      PROVE  a = b
  <2> DEFINE From(x) == \/ x = buffer /\ InBuffer(w)
                        \/ \E c \in Callers : x = capture[c].writes /\ InCapture(w, c)
                        \/ \E i \in DOMAIN durable : x = durable[i].writes /\ InStore(w, i)
  <2>1. From(a) /\ From(b)
    BY <1>1, <1>5, <1>9 DEF InBuffer, InCapture, InStore
  <2>2. Kept(w)
    BY DEF KeptInv
  <2> QED
    BY <2>1, <2>2 DEF Kept
<1>10. ASSUME NEW w \in Writes
       PROVE  Cardinality({b \in Batches \cup {buffer} : w \in b}) <= 1
  <2> DEFINE B == {b \in Batches \cup {buffer} : w \in b}
  <2>1. \A a, b \in B : a = b
    BY <1>9
  <2> HIDE DEF B
  <2>2. Cardinality(B) <= 1
    <3>1. CASE B = {}
      BY <3>1, FS_EmptySet
    <3>2. CASE B # {}
      <4>1. PICK b : b \in B
        BY <3>2
      <4>2. B = {b}
        BY <2>1, <4>1
      <4>3. Cardinality(B) = 1
        BY <4>2, FS_Singleton
      <4> QED
        BY <4>3
    <3> QED
      BY <3>1, <3>2
  <2> QED
    BY <2>2 DEF B
<1>11. \A i, k \in DOMAIN durable : i # k => durable[i].writes \cap durable[k].writes = {}
  <2> SUFFICES ASSUME NEW i \in DOMAIN durable, NEW k \in DOMAIN durable, i # k,
                      NEW w \in durable[i].writes, w \in durable[k].writes
               PROVE  FALSE
    OBVIOUS
  <2>1. w \in Writes
    BY <1>3
  <2> QED
    BY <2>1 DEF KeptInv, Kept, InStore
<1> QED
  BY <1>8, <1>10, <1>11 DEF NothingLost

(* Nothing written is lost or committed twice, for any number of callables and *)
(* tasks, whoever commits what another has buffered, in whatever order commits *)
(* overlap, fail and are rolled back: each record is in the buffer, in one     *)
(* commit in flight or in one durable transaction.                             *)
THEOREM SubmitNothingLost == Spec => []NothingLost
<1>1. Init => TypeInv /\ WireInv /\ KeptInv
  <2>1. ASSUME Init
        PROVE  KeptInv
    <3>1. /\ buffer = {} /\ InFlight = {} /\ DOMAIN durable = {}
          /\ \A c \in Callers : written[c] = 0
      BY <2>1 DEF Init, InFlight
    <3>2. \A w \in Writes : w[1] \in Callers /\ w[2] \in Nat \ {0}
      BY Frame, SubmitConstants DEF Writes, Callers
    <3>3. Written = {}
      BY <3>1, <3>2 DEF Written
    <3> QED
      BY <3>1, <3>3 DEF KeptInv, Kept, InBuffer, InCapture, InStore, Undone
  <2> QED
    BY <2>1, TypeInit, WireInit
<1>2. (TypeInv /\ WireInv /\ KeptInv) /\ [Next]_vars => (TypeInv /\ WireInv /\ KeptInv)'
  BY TypeStep, WireStep, KeptStep
<1>3. TypeInv /\ KeptInv => NothingLost
  BY KeptImplies
<1> QED
  BY <1>1, <1>2, <1>3, PTL DEF Spec

-----------------------------------------------------------------------------
(* Scopes. *)

(* What a step does to the phases, while no callable commits in a scope. *)
LEMMA ScopeStep ==
    ASSUME TypeInv, TypeInv', ScopeInv, [Next]_vars
    PROVE  ScopeInv'
<1>0. /\ phase \in [Tasks -> {"idle", "scope", "commit", "over"}]
      /\ written \in [Callers -> Nat]
      /\ \A u \in Tasks : lock = u <=> facade = "async" /\ phase[u] \in {"scope", "commit"}
      /\ \A t \in Tasks : phase[t] = "idle" => written[t] = 0
  BY DEF TypeInv, TypeOK, ScopeInv
<1> SUFFICES ASSUME NEW t \in Tasks
             PROVE  /\ phase'[t] = "idle" => written'[t] = 0
                    /\ calm' /\ facade' = "async" /\ phase'[t] = "scope" =>
                          {t} \X (1..written'[t]) \subseteq buffer'
  BY DEF ScopeInv, ScopeWhole
<1>1. calm /\ facade = "async" /\ phase[t] = "scope" => {t} \X (1..written[t]) \subseteq buffer
  BY DEF ScopeInv, ScopeWhole
<1>2. t \in Callers /\ t \notin Jobs
  BY Frame
<1>3. ASSUME UNCHANGED <<facade, written, calm>>, buffer \subseteq buffer',
             phase'[t] \in {phase[t], "commit", "over"}
      PROVE  /\ phase'[t] = "idle" => written'[t] = 0
             /\ calm' /\ facade' = "async" /\ phase'[t] = "scope" =>
                   {t} \X (1..written'[t]) \subseteq buffer'
  BY <1>0, <1>1, <1>3
<1>4. ASSUME NEW u \in Tasks, Begin(u)
      PROVE  /\ phase'[t] = "idle" => written'[t] = 0
             /\ calm' /\ facade' = "async" /\ phase'[t] = "scope" =>
                   {t} \X (1..written'[t]) \subseteq buffer'
  <2>1. UNCHANGED <<facade, written, buffer, calm>> /\ phase' = [phase EXCEPT ![u] = "scope"]
        /\ phase[u] = "idle"
    BY <1>4 DEF Begin, commits
  <2>2. CASE u = t
    <3>1. written[t] = 0 /\ written' = written /\ 1..0 = {}
      BY <1>0, <2>1, <2>2
    <3>2. phase'[t] = "scope" /\ {t} \X (1..written'[t]) = {}
      BY <1>0, <2>1, <2>2, <3>1
    <3> QED
      BY <3>1, <3>2
  <2>3. CASE u # t
    BY <1>0, <1>3, <2>1, <2>3
  <2> QED
    BY <2>2, <2>3
<1>5. ASSUME NEW u \in Tasks, Retry(u) \/ Abort(u) \/ Call(u) \/ P1Empty(u)
      PROVE  /\ phase'[t] = "idle" => written'[t] = 0
             /\ calm' /\ facade' = "async" /\ phase'[t] = "scope" =>
                   {t} \X (1..written'[t]) \subseteq buffer'
  <2>1. /\ UNCHANGED <<facade, written, buffer, calm>>
        /\ \/ phase' = phase
           \/ phase' = [phase EXCEPT ![u] = "commit"]
           \/ phase' = [phase EXCEPT ![u] = "over"]
    BY <1>5 DEF Retry, Abort, Call, P1Empty, tasks
  <2> QED
    BY <1>0, <1>3, <2>1
<1>6. ASSUME NEW c \in Callers, Write(c)
      PROVE  /\ phase'[t] = "idle" => written'[t] = 0
             /\ calm' /\ facade' = "async" /\ phase'[t] = "scope" =>
                   {t} \X (1..written'[t]) \subseteq buffer'
  <2>1. /\ c \in Tasks => phase[c] = "scope"
        /\ written' = [written EXCEPT ![c] = @ + 1]
        /\ buffer' = buffer \cup {<<c, written[c] + 1>>}
        /\ UNCHANGED <<facade, phase, calm>>
    BY <1>6 DEF Write, tasks
  <2>2. CASE c = t
    <3>1. written'[t] = written[t] + 1 /\ written[t] \in Nat
      BY <1>0, <1>2, <2>1, <2>2
    <3>2. 1..(written[t] + 1) = 1..written[t] \cup {written[t] + 1}
      BY <3>1
    <3>3. {t} \X (1..written'[t]) = ({t} \X (1..written[t])) \cup {<<t, written[t] + 1>>}
      BY <3>1, <3>2
    <3> QED
      BY <1>1, <1>2, <2>1, <2>2, <3>3
  <2>3. CASE c # t
    <3>1. written'[t] = written[t] /\ phase' = phase
      BY <1>0, <1>2, <2>1, <2>3
    <3> QED
      BY <1>0, <1>1, <2>1, <3>1
  <2> QED
    BY <2>2, <2>3
<1>7. ASSUME NEW c \in Callers, P1(c)
      PROVE  /\ phase'[t] = "idle" => written'[t] = 0
             /\ calm' /\ facade' = "async" /\ phase'[t] = "scope" =>
                   {t} \X (1..written'[t]) \subseteq buffer'
  <2>1. /\ calm' = (calm /\ ~Clashes(c)) /\ UNCHANGED <<facade, written>>
        /\ phase' = IF c \in Tasks THEN [phase EXCEPT ![c] = "commit"] ELSE phase
    BY <1>7 DEF P1
  <2>2. phase'[t] = "idle" => phase[t] = "idle"
    BY <1>0, <2>1
  <2>3. ASSUME calm', facade' = "async", phase'[t] = "scope"
        PROVE  {t} \X (1..written'[t]) = {}
    <3>1. calm /\ facade = "async" /\ phase[t] = "scope" /\ c # t
      BY <1>0, <2>1, <2>3
    <3>2. lock = t /\ lock # NoTask
      BY <1>0, <3>1, Frame
    <3>3. ~\E w \in buffer : w[1] = t
      BY <2>1, <2>3, <3>1, <3>2 DEF Clashes
    <3>4. \A w \in {t} \X (1..written[t]) : w \in buffer /\ w[1] = t
      BY <1>1, <3>1
    <3> QED
      BY <2>1, <3>3, <3>4
  <2> QED
    BY <1>0, <2>1, <2>2, <2>3
<1>8. ASSUME NEW c \in Callers, P3(c) \/ Rollback(c)
      PROVE  /\ phase'[t] = "idle" => written'[t] = 0
             /\ calm' /\ facade' = "async" /\ phase'[t] = "scope" =>
                   {t} \X (1..written'[t]) \subseteq buffer'
  <2>1. /\ UNCHANGED <<facade, written, calm>> /\ buffer \subseteq buffer'
        /\ phase' = IF c \in Tasks THEN [phase EXCEPT ![c] = "over"] ELSE phase
    BY <1>8 DEF P3, Rollback, CommitEnds
  <2> QED
    BY <1>0, <1>3, <2>1
<1>9. ASSUME UNCHANGED <<facade, phase, written, buffer, calm>>
      PROVE  /\ phase'[t] = "idle" => written'[t] = 0
             /\ calm' /\ facade' = "async" /\ phase'[t] = "scope" =>
                   {t} \X (1..written'[t]) \subseteq buffer'
  BY <1>3, <1>9
<1>10. ASSUME NEW j \in Jobs, Foreign(j) \/ SubmitInline(j) \/ JobReturn(j)
       PROVE  UNCHANGED <<facade, phase, written, buffer, calm>>
  BY <1>10 DEF Foreign, SubmitCheck, SubmitAppend, CancelFuture, SubmitInline, JobReturn, tasks
<1>11. ASSUME Pump \/ Closing \/ Worker
       PROVE  UNCHANGED <<facade, phase, written, buffer, calm>>
  BY <1>11 DEF Pump, Wake, RunPending, Enter, PumpNext, PumpEnd, Closing, Close, Drain, Drained,
               CloseEnd, Worker, P2Commit, P2Fail, tasks
<1>12. CASE UNCHANGED vars
  BY <1>9, <1>12 DEF vars, tasks
<1> QED
  BY <1>4, <1>5, <1>6, <1>7, <1>8, <1>9, <1>10, <1>11, <1>12 DEF Next, Task, Commit

(* What a transaction() scope has written is not on its way to disk before the *)
(* scope ends, for any number of callables and tasks: the lock keeps the other *)
(* tasks out, as long as no callable commits inside the scope.                 *)
THEOREM SubmitScopeWhole == Spec => []ScopeWhole
<1>1. Init => TypeInv /\ ScopeInv
  <2>1. Init => ScopeInv
    BY Frame DEF Init, ScopeInv, ScopeWhole
  <2> QED
    BY <2>1, TypeInit
<1>2. (TypeInv /\ ScopeInv) /\ [Next]_vars => (TypeInv /\ ScopeInv)'
  BY TypeStep, ScopeStep
<1>3. ScopeInv => ScopeWhole
  BY DEF ScopeInv
<1> QED
  BY <1>1, <1>2, <1>3, PTL DEF Spec

-----------------------------------------------------------------------------
(* close() and the pump. *)

(* When close() has returned, the IO worker has nothing left to do. *)
ClosedInv == Closed => io = <<>>

LEMMA ClosedStep ==
    ASSUME TypeInv, ClosedInv, [Next]_vars
    PROVE  ClosedInv'
<1>0. /\ stack \in Seq(Frames)
      /\ \A c \in Callers : c # "close" /\ c # "shutdown"
  BY SubmitConstants DEF TypeInv, TypeOK
<1>1. ASSUME closed' = closed, io' = io,
             \A i \in DOMAIN stack :
                stack[i] \in {"close", "shutdown"} =>
                    \E k \in DOMAIN stack' : stack'[k] \in {"close", "shutdown"}
      PROVE  ClosedInv'
  BY <1>1 DEF ClosedInv, Closed
<1>2. ASSUME closed' = closed, io' = io, NEW x, stack' = Append(stack, x)
      PROVE  ClosedInv'
  <2>1. \A i \in DOMAIN stack : i \in DOMAIN stack' /\ stack'[i] = stack[i]
    BY <1>0, <1>2
  <2>2. \A i \in DOMAIN stack : stack[i] \in {"close", "shutdown"} =>
           \E k \in DOMAIN stack' : stack'[k] \in {"close", "shutdown"}
    BY <2>1
  <2> QED
    BY <1>1, <1>2, <2>2
<1>3. ASSUME closed' = closed, io' = io, stack # <<>>, Top \notin {"close", "shutdown"},
             stack' = Popped
      PROVE  ClosedInv'
  <2>1. /\ Len(stack) \in Nat \ {0} /\ Top = stack[Len(stack)]
        /\ Len(stack') = Len(stack) - 1 /\ stack' \in Seq(Frames)
        /\ \A i \in 1..(Len(stack) - 1) : stack'[i] = stack[i]
    BY <1>3, Popping
  <2>2. DOMAIN stack = 1..Len(stack) /\ DOMAIN stack' = 1..(Len(stack) - 1)
    BY <1>0, <2>1
  <2>3. \A i \in 1..Len(stack) : i = Len(stack) \/ i \in 1..(Len(stack) - 1)
    BY <2>1
  <2>4. \A i \in DOMAIN stack : stack[i] \in {"close", "shutdown"} =>
           \E k \in DOMAIN stack' : stack'[k] \in {"close", "shutdown"}
    BY <1>3, <2>1, <2>2, <2>3
  <2> QED
    BY <1>1, <1>3, <2>4
<1>4. ASSUME closed' = closed, io' = io, stack' = stack
      PROVE  ClosedInv'
  BY <1>4 DEF ClosedInv, Closed
<1>5. ASSUME NEW j \in Jobs, Foreign(j)
      PROVE  ClosedInv'
  BY <1>4, <1>5 DEF Foreign, SubmitCheck, SubmitAppend, CancelFuture, commits
<1>6. ASSUME NEW j \in Jobs, SubmitInline(j)
      PROVE  ClosedInv'
  <2>1. ~closed' /\ closed' = closed
    BY <1>6 DEF SubmitInline
  <2> QED
    BY <2>1 DEF ClosedInv, Closed
<1>7. ASSUME NEW j \in Jobs, JobReturn(j)
      PROVE  ClosedInv'
  BY <1>0, <1>3, <1>7, Frame DEF JobReturn, Inside, commits
<1>8. ASSUME NEW t \in Tasks, Task(t)
      PROVE  ClosedInv'
  <2>1. CASE Begin(t) \/ Retry(t) \/ Abort(t)
    BY <1>4, <2>1 DEF Begin, Retry, Abort, commits
  <2>2. CASE Call(t) \/ P1Empty(t)
    <3>1. ~closed' /\ closed' = closed
      BY <2>2 DEF Call, P1Empty, Entered
    <3> QED
      BY <3>1 DEF ClosedInv, Closed
  <2> QED
    BY <1>8, <2>1, <2>2 DEF Task
<1>9. ASSUME NEW c \in Callers, Write(c) \/ P1(c)
      PROVE  ClosedInv'
  <2>1. ~closed' /\ closed' = closed
    BY <1>9 DEF Write, P1, Entered
  <2> QED
    BY <2>1 DEF ClosedInv, Closed
<1>10. ASSUME NEW c \in Callers, P3(c) \/ Rollback(c)
       PROVE  ClosedInv'
  <2>1. /\ closed' = closed /\ io' = io
        /\ \/ stack' = stack
           \/ stack' = Popped /\ Blocking(c) /\ Resumes(c)
    BY <1>10 DEF P3, Rollback, CommitEnds
  <2> QED
    BY <1>0, <1>3, <1>4, <2>1 DEF Resumes, Inside
<1>11. ASSUME Pump
       PROVE  ClosedInv'
  <2>1. closed' = closed /\ io' = io
    BY <1>11 DEF Pump, Wake, RunPending, Enter, PumpNext, PumpEnd, commits
  <2>2. \/ stack' = stack
        \/ stack' = Append(stack, "pump")
        \/ stack' = Append(stack, Head(queue))
        \/ stack' = Popped /\ stack # <<>> /\ Top = "pump"
    <3>1. <<"pump">> = Append(<<>>, "pump")
      OBVIOUS
    <3> QED
      BY <1>11, <3>1 DEF Pump, Wake, RunPending, Enter, PumpNext, PumpEnd, Inside
  <2> QED
    BY <1>2, <1>3, <1>4, <2>1, <2>2
<1>12. ASSUME Closing
       PROVE  ClosedInv'
  <2>1. CASE Close
    <3>1. stack' = <<"close">> /\ 1 \in DOMAIN stack' /\ stack'[1] = "close"
      BY <2>1 DEF Close
    <3> QED
      BY <3>1 DEF ClosedInv, Closed
  <2>2. CASE Drain
    BY <1>4, <2>2 DEF Drain, commits
  <2>3. CASE Drained
    <3>1. stack' = <<"shutdown">> /\ 1 \in DOMAIN stack' /\ stack'[1] = "shutdown"
      BY <2>3 DEF Drained
    <3> QED
      BY <3>1 DEF ClosedInv, Closed
  <2>4. CASE CloseEnd
    BY <2>4 DEF CloseEnd, ClosedInv, commits
  <2> QED
    BY <1>12, <2>1, <2>2, <2>3, <2>4 DEF Closing
<1>13. ASSUME Worker
       PROVE  ClosedInv'
  BY <1>13 DEF Worker, P2Commit, P2Fail, ClosedInv, Closed
<1>14. CASE UNCHANGED vars
  BY <1>4, <1>14 DEF vars, commits
<1> QED
  BY <1>5, <1>6, <1>7, <1>8, <1>9, <1>10, <1>11, <1>12, <1>13, <1>14 DEF Next, Commit

(* Nothing becomes durable after close() has returned, for any number of       *)
(* callables and tasks: neither what was queued or in flight when close() was  *)
(* called, nor what a late submission or a late wake-up of the pump runs.      *)
THEOREM SubmitNothingAfterClose == Spec => NothingAfterClose
<1>1. Init => TypeInv /\ ClosedInv
  <2>1. Init => ClosedInv
    BY DEF Init, ClosedInv
  <2> QED
    BY <2>1, TypeInit
<1>2. (TypeInv /\ ClosedInv) /\ [Next]_vars => (TypeInv /\ ClosedInv)'
  BY TypeStep, ClosedStep
<1>3. TypeInv /\ ClosedInv /\ [Next]_vars => [Closed => durable' = durable]_vars
  <2>1. ASSUME ClosedInv, Closed, [Next]_vars
        PROVE  durable' = durable
    <3>1. io = <<>>
      BY <2>1 DEF ClosedInv
    <3>2. ASSUME UNCHANGED commits
          PROVE  durable' = durable
      BY <3>2 DEF commits
    <3>3. ~P2Commit /\ ~P2Fail
      BY <3>1 DEF P2Commit, P2Fail
    <3>4. \A c \in Callers : Write(c) \/ P1(c) \/ P3(c) \/ Rollback(c) => durable' = durable
      BY DEF Write, P1, P3, Rollback, commits
    <3> QED
      BY <2>1, <3>2, <3>3, <3>4, CommitSteps
  <2> QED
    BY <2>1
<1> QED
  BY <1>1, <1>2, <1>3, PTL DEF Spec, NothingAfterClose

(* One pump at a time, and a callable runs on top of it, or outermost. *)
PumpInv ==
    /\ \A i, k \in DOMAIN stack : stack[i] = "pump" /\ stack[k] = "pump" => i = k
    /\ \A i \in DOMAIN stack : stack[i] \in Jobs => i = 1 \/ stack[i - 1] = "pump"

(* What the owner enters and leaves. *)
LEMMA StackSteps ==
    ASSUME TypeInv, [Next]_vars
    PROVE  \/ stack' = stack
           \/ stack # <<>> /\ stack' = Popped
           \/ stack = <<>> /\ \E x \in Frames : stack' = <<x>>
           \/ ~Pumping /\ stack' = Append(stack, "pump")
           \/ Inside("pump") /\ \E j \in Jobs : stack' = Append(stack, j)
           \/ stack' = <<"shutdown">>
<1>1. ASSUME NEW j \in Jobs, Foreign(j) \/ SubmitInline(j) \/ JobReturn(j)
      PROVE  \/ stack' = stack
             \/ stack # <<>> /\ stack' = Popped
             \/ stack = <<>> /\ \E x \in Frames : stack' = <<x>>
  BY <1>1, Frame DEF Foreign, SubmitCheck, SubmitAppend, CancelFuture, SubmitInline, JobReturn,
                     Inside
<1>2. ASSUME NEW t \in Tasks, Task(t)
      PROVE  \/ stack' = stack
             \/ stack # <<>> /\ stack' = Popped
             \/ stack = <<>> /\ \E x \in Frames : stack' = <<x>>
  BY <1>2, Frame DEF Task, Begin, Retry, Abort, Call, P1Empty, Entered, Inside
<1>3. ASSUME NEW c \in Callers, Write(c) \/ Commit(c)
      PROVE  \/ stack' = stack
             \/ stack # <<>> /\ stack' = Popped
  BY <1>3 DEF Write, Commit, P1, P3, Rollback, CommitEnds, Entered, Inside, Resumes
<1>4. ASSUME Wake \/ RunPending
      PROVE  \/ stack' = stack
             \/ stack = <<>> /\ \E x \in Frames : stack' = <<x>>
  BY <1>4, Frame DEF Wake, RunPending
<1>5. ASSUME Enter
      PROVE  ~Pumping /\ stack' = Append(stack, "pump")
  BY <1>5 DEF Enter, MayPump
<1>6. ASSUME PumpNext
      PROVE  \/ stack' = stack
             \/ Inside("pump") /\ \E j \in Jobs : stack' = Append(stack, j)
  <2>1. queue \in Seq(Jobs) /\ queue # <<>>
    BY <1>6 DEF TypeInv, TypeOK, PumpNext
  <2>2. Head(queue) \in Jobs
    BY <2>1
  <2> QED
    BY <1>6, <2>2 DEF PumpNext
<1>7. ASSUME PumpEnd \/ CloseEnd
      PROVE  stack # <<>> /\ stack' = Popped
  BY <1>7 DEF PumpEnd, CloseEnd, Inside
<1>8. ASSUME Close \/ Drain \/ Drained
      PROVE  \/ stack' = stack
             \/ stack = <<>> /\ \E x \in Frames : stack' = <<x>>
             \/ stack' = <<"shutdown">>
  BY <1>8, Frame DEF Close, Drain, Drained
<1>9. ASSUME Worker \/ UNCHANGED vars
      PROVE  stack' = stack
  BY <1>9 DEF Worker, P2Commit, P2Fail, vars
<1> QED
  BY <1>1, <1>2, <1>3, <1>4, <1>5, <1>6, <1>7, <1>8, <1>9 DEF Next, Pump, Closing

LEMMA PumpStep ==
    ASSUME TypeInv, PumpInv, [Next]_vars
    PROVE  PumpInv'
<1>0. /\ stack \in Seq(Frames) /\ Len(stack) \in Nat /\ DOMAIN stack = 1..Len(stack)
      /\ "pump" \notin Jobs
  BY SubmitConstants DEF TypeInv, TypeOK, Callers
<1>1. CASE stack' = stack
  BY <1>1 DEF PumpInv
<1>2. ASSUME NEW x, stack' = <<x>>
      PROVE  PumpInv'
  BY <1>2 DEF PumpInv
<1>3. CASE stack # <<>> /\ stack' = Popped
  <2>1. /\ Len(stack) \in Nat \ {0} /\ Len(stack') = Len(stack) - 1 /\ stack' \in Seq(Frames)
        /\ \A i \in 1..(Len(stack) - 1) : stack'[i] = stack[i]
    BY <1>3, Popping
  <2>2. DOMAIN stack' = 1..(Len(stack) - 1)
    BY <2>1
  <2>3. \A i \in 1..(Len(stack) - 1) : i \in 1..Len(stack) /\ (i # 1 => i - 1 \in 1..(Len(stack) - 1))
    BY <2>1
  <2> QED
    BY <1>0, <2>1, <2>2, <2>3 DEF PumpInv
<1>4. ASSUME NEW x, stack' = Append(stack, x)
      PROVE  /\ DOMAIN stack' = 1..(Len(stack) + 1) /\ stack'[Len(stack) + 1] = x
             /\ \A i \in 1..Len(stack) : stack'[i] = stack[i] /\ (i # 1 => i - 1 \in 1..Len(stack))
             /\ \A i \in 1..(Len(stack) + 1) : i \in 1..Len(stack) \/ i = Len(stack) + 1
  BY <1>0, <1>4
<1>5. CASE ~Pumping /\ stack' = Append(stack, "pump")
  <2>1. \A i \in 1..Len(stack) : stack[i] # "pump"
    BY <1>0, <1>5 DEF Pumping
  <2> QED
    BY <1>0, <1>4, <1>5, <2>1 DEF PumpInv
<1>6. ASSUME Inside("pump"), NEW j \in Jobs, stack' = Append(stack, j)
      PROVE  PumpInv'
  <2>1. Len(stack) \in 1..Len(stack) /\ stack[Len(stack)] = "pump" /\ j # "pump"
    BY <1>0, <1>6, Popping DEF Inside
  <2>2. (Len(stack) + 1) - 1 = Len(stack)
    BY <1>0
  <2> QED
    BY <1>0, <1>4, <1>6, <2>1, <2>2 DEF PumpInv
<1> QED
  BY <1>1, <1>2, <1>3, <1>5, <1>6, StackSteps

(* A queued callable runs to its end before the next one starts, for any       *)
(* number of callables and whatever store calls they make: the calls do not    *)
(* pump inside the pump.  Only a callable that the owner submitted itself can  *)
(* have another one run inside it.                                             *)
THEOREM SubmitRunsAlone == Spec => []RunsAlone
<1>1. Init => TypeInv /\ PumpInv
  <2>1. Init => PumpInv
    BY DEF Init, PumpInv
  <2> QED
    BY <2>1, TypeInit
<1>2. (TypeInv /\ PumpInv) /\ [Next]_vars => (TypeInv /\ PumpInv)'
  BY TypeStep, PumpStep
<1>3. TypeInv /\ PumpInv => RunsAlone
  <2> SUFFICES ASSUME TypeInv, PumpInv, NEW i \in DOMAIN stack, NEW k \in DOMAIN stack, i < k,
                      stack[i] \in Jobs, stack[k] \in Jobs, i # 1
               PROVE  FALSE
    BY DEF RunsAlone
  <2>1. Len(stack) \in Nat /\ DOMAIN stack = 1..Len(stack)
    BY DEF TypeInv, TypeOK
  <2>2. i - 1 \in DOMAIN stack /\ k - 1 \in DOMAIN stack /\ k # 1 /\ i - 1 # k - 1
    BY <2>1
  <2> QED
    BY <2>2 DEF PumpInv
<1> QED
  BY <1>1, <1>2, <1>3, PTL DEF Spec

=============================================================================
