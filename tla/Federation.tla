------------------------------ MODULE Federation ------------------------------
(***************************************************************************)
(* Replication of one coordinator's store to followers, and their writes     *)
(* back: the follower's sync(), commit() (_contribute) and the recovery of   *)
(* committing(), the coordinator's /v1/deltas and /v1/submit (_fan_in).      *)
(*                                                                          *)
(* A record is known by its natural key.  Its payload is the sequence of the *)
(* edits it has been through, since every edit is a read-modify-write; the   *)
(* base token of optimistic concurrency, a digest of the payload, is the     *)
(* payload.  What is durable on the coordinator is in db, how it became so   *)
(* in deltas: TID n is deltas[n].                                           *)
(***************************************************************************)
EXTENDS Naturals, FiniteSets, Sequences, SequencesExt

CONSTANTS
    Followers,
    Keys,
    Edits,     \* what programs do to records, each once
    MaxTid,    \* bound: commits of the coordinator
    MaxEdits,  \* bound: edits of one record
    MaxSends,  \* bound: requests of one follower
    None,      \* no record, no request, no edit
    Same       \* a delta's entry for a record it does not change

ASSUME FederationConstants ==
    /\ MaxTid \in Nat
    /\ MaxEdits \in Nat \ {0}
    /\ MaxSends \in Nat
    /\ None \notin Edits

VARIABLES
    db,       \* the coordinator's durable records
    buffer,   \* what the coordinator's store has buffered
    deltas,   \* its delta stream
    rep,      \* the records in each follower's backend
    wm,       \* each follower's watermark
    held,     \* the records a follower's program has read and holds
    edit,     \* the edit whose block the program runs
    out,      \* the writes a follower has buffered
    awaits,   \* the request whose reply a follower waits for
    net,      \* requests under way to the coordinator
    reply,    \* the reply under way to each follower
    sends,    \* how many requests each follower has sent
    begun,    \* the edits some program has begun
    accepted, \* history: the edits committed to each record, in order
    fresh,    \* history: nobody edited a record held across a sync
    certain   \* history: no request went without its reply

coordVars == <<db, buffer, deltas>>
repVars == <<rep, wm>>
progVars == <<held, edit, out>>
netVars == <<awaits, net, reply, sends>>
history == <<begun, accepted, fresh, certain>>
vars == <<coordVars, repVars, progVars, netVars, history>>

Payloads == SeqOf(Edits, MaxEdits)
Nothing == [k \in Keys |-> None]
Untouched == [k \in Keys |-> Same]

(* The keys a buffer or a delta says something about. *)
Touched(ops) == {k \in Keys : ops[k] # Same}

Applied(records, ops) == [k \in Keys |-> IF ops[k] = Same THEN records[k] ELSE ops[k]]

-----------------------------------------------------------------------------
(* The coordinator *)

(* commit() of what is buffered: durable, and in the stream. *)
Commits(ops) ==
    /\ Len(deltas) < MaxTid
    /\ db' = Applied(db, ops)
    /\ deltas' = Append(deltas, ops)
    /\ buffer' = Untouched

(* The coordinator's own program edits records, or deletes one, between two *)
(* awaits.                                                                  *)
Extended(payload, e) == IF payload = None THEN <<e>> ELSE Append(payload, e)

Roomy(payload) == payload # None => Len(payload) < MaxEdits

CoordinatorEdit(e, ks) ==
    /\ e \notin begun
    /\ ks # {}
    /\ \A k \in ks : Roomy(db[k])
    /\ Commits([k \in Keys |-> IF k \in ks THEN Extended(db[k], e) ELSE buffer[k]])
    /\ begun' = begun \cup {e}
    /\ accepted' = [k \in Keys |-> IF k \in ks THEN Extended(accepted[k], e) ELSE accepted[k]]
    /\ UNCHANGED <<repVars, progVars, netVars, fresh, certain>>

CoordinatorDelete(k) ==
    /\ db[k] # None
    /\ Commits([buffer EXCEPT ![k] = None])
    /\ accepted' = [accepted EXCEPT ![k] = None]
    /\ UNCHANGED <<repVars, progVars, netVars, begun, fresh, certain>>

Bug_Matches(r, k) == r.base[k] = None \/ r.base[k] = db[k]

(* _upsert_checked: the base is compared with the persisted payload. *)
Matches(r, k) == r.base[k] = db[k]

Bug_Discarded(r) == [k \in Keys |-> IF r.ops[k] # Same /\ Matches(r, k) THEN r.ops[k] ELSE buffer[k]]

(* discard() after a refusal. *)
Discarded(r) == Untouched

(* The reply goes to a follower that still waits for it. *)
Replies(r, answer) ==
    reply' = IF awaits[r.from] = r THEN [reply EXCEPT ![r.from] = answer] ELSE reply

(* /v1/submit: every operation of the batch in one commit, or none.  A      *)
(* batch whose commit raises is a request lost, for the follower.           *)
FanInAccept(r) ==
    /\ r \in net
    /\ \A k \in Touched(r.ops) : Matches(r, k)
    /\ Commits(Applied(buffer, r.ops))
    /\ accepted' = [k \in Keys |-> IF r.ops[k] = Same THEN accepted[k] ELSE Extended(accepted[k], r.edit)]
    /\ Replies(r, "ok")
    /\ net' = net \ {r}
    /\ UNCHANGED <<repVars, progVars, awaits, sends, begun, fresh, certain>>

FanInRefuse(r) ==
    /\ r \in net
    /\ \E k \in Touched(r.ops) : ~Matches(r, k)
    /\ buffer' = Discarded(r)
    /\ Replies(r, "conflict")
    /\ net' = net \ {r}
    /\ UNCHANGED <<db, deltas, repVars, progVars, awaits, sends, history>>

-----------------------------------------------------------------------------
(* A follower *)

Idle(f) == awaits[f] = None

(* _apply_catchup: the deltas behind the watermark, in order.               *)
CaughtUp(records, ds) ==
    LET upto[n \in 0..Len(ds)] == IF n = 0 THEN records ELSE Applied(upto[n - 1], ds[n])
    IN  upto[Len(ds)]

Bug_After(n) == SubSeq(deltas, n + 2, Len(deltas))

(* /v1/deltas?after=n *)
After(n) == SubSeq(deltas, n + 1, Len(deltas))

Synced(f) ==
    /\ rep' = [rep EXCEPT ![f] = CaughtUp(@, After(wm[f]))]
    /\ wm' = [wm EXCEPT ![f] = Len(deltas)]

(* sync() refuses while writes are buffered.  References that the program   *)
(* keeps stay as they are.                                                  *)
Sync(f) ==
    /\ Idle(f)
    /\ out[f] = Untouched
    /\ wm[f] < Len(deltas)
    /\ Synced(f)
    /\ UNCHANGED <<coordVars, progVars, netVars, history>>

(* The program reads records, or drops what it holds. *)
ReadRecords(f) ==
    /\ Idle(f)
    /\ out[f] = Untouched
    /\ held' = [held EXCEPT ![f] = rep[f]]
    /\ UNCHANGED <<coordVars, repVars, edit, out, netVars, history>>

(* A block that edits what the program holds, the new records included. *)
Edit(f, e, ks) ==
    /\ Idle(f)
    /\ out[f] = Untouched
    /\ edit[f] = e \/ (edit[f] = None /\ e \notin begun)
    /\ ks # {}
    /\ \A k \in ks : held[f][k] = None => rep[f][k] = None
    /\ \A k \in ks : Roomy(held[f][k])
    /\ begun' = begun \cup {e}
    /\ edit' = [edit EXCEPT ![f] = e]
    /\ out' = [out EXCEPT ![f] = [k \in Keys |->
                  IF k \in ks THEN Extended(held[f][k], e) ELSE Same]]
    /\ fresh' = (fresh /\ \A k \in ks : held[f][k] = rep[f][k])
    /\ UNCHANGED <<coordVars, repVars, held, netVars, accepted, certain>>

(* commit(): for a record that exists the base is the digest of what the    *)
(* follower's backend holds by now, for a new one there is none.            *)
Request(f) ==
    [from |-> f, no |-> sends[f], edit |-> edit[f], ops |-> out[f],
     base |-> [k \in Keys |-> IF out[f][k] = Same THEN None ELSE rep[f][k]]]

Contribute(f) ==
    /\ Idle(f)
    /\ out[f] # Untouched
    /\ sends[f] < MaxSends
    /\ sends' = [sends EXCEPT ![f] = @ + 1]
    /\ awaits' = [awaits EXCEPT ![f] = Request(f)]
    /\ net' = net \cup {Request(f)}
    /\ UNCHANGED <<coordVars, repVars, progVars, reply, history>>

(* A reference whose edit is done with, one way or the other, takes no more *)
(* edits: the program reads the record again.                               *)
Reread(f) == held' = [held EXCEPT ![f] = [k \in Keys |-> IF out[f][k] = Same THEN @[k] ELSE rep'[f][k]]]

Answered(f) ==
    /\ awaits' = [awaits EXCEPT ![f] = None]
    /\ reply' = [reply EXCEPT ![f] = None]

(* Accepted: the buffers are cleared and the follower syncs. *)
Done(f) ==
    /\ reply[f] = "ok"
    /\ Answered(f)
    /\ out' = [out EXCEPT ![f] = Untouched]
    /\ edit' = [edit EXCEPT ![f] = None]
    /\ Synced(f)
    /\ Reread(f)
    /\ UNCHANGED <<coordVars, net, sends, history>>

(* committing() recovers from a conflict: discard, sync; the block will run *)
(* again.                                                                   *)
Conflict(f) ==
    /\ reply[f] = "conflict"
    /\ Answered(f)
    /\ out' = [out EXCEPT ![f] = Untouched]
    /\ Synced(f)
    /\ Reread(f)
    /\ UNCHANGED <<coordVars, edit, net, sends, history>>

(* The transport fails before the request has arrived, or after, or the      *)
(* reply is lost: an exception, the buffers kept.                            *)
Timeout(f) ==
    /\ ~Idle(f)
    /\ Answered(f)
    /\ certain' = FALSE
    /\ UNCHANGED <<coordVars, repVars, progVars, net, sends, begun, accepted, fresh>>

Lose(r) ==
    /\ r \in net
    /\ awaits[r.from] # r
    /\ net' = net \ {r}
    /\ UNCHANGED <<coordVars, repVars, progVars, awaits, reply, sends, history>>

(* The program gives its block up. *)
Discard(f) ==
    /\ Idle(f)
    /\ edit[f] # None
    /\ out' = [out EXCEPT ![f] = Untouched]
    /\ edit' = [edit EXCEPT ![f] = None]
    /\ UNCHANGED <<coordVars, repVars, netVars, history>>
    /\ Reread(f)

-----------------------------------------------------------------------------
Init ==
    /\ db = Nothing
    /\ buffer = Untouched
    /\ deltas = <<>>
    /\ rep = [f \in Followers |-> Nothing]
    /\ wm = [f \in Followers |-> 0]
    /\ held = [f \in Followers |-> Nothing]
    /\ edit = [f \in Followers |-> None]
    /\ out = [f \in Followers |-> Untouched]
    /\ awaits = [f \in Followers |-> None]
    /\ net = {}
    /\ reply = [f \in Followers |-> None]
    /\ sends = [f \in Followers |-> 0]
    /\ begun = {}
    /\ accepted = Nothing
    /\ fresh = TRUE
    /\ certain = TRUE

Coordinator ==
    \/ \E e \in Edits, ks \in SUBSET Keys : CoordinatorEdit(e, ks)
    \/ \E k \in Keys : CoordinatorDelete(k)
    \/ \E r \in net : FanInAccept(r) \/ FanInRefuse(r) \/ Lose(r)

Follower(f) ==
    \/ Sync(f) \/ ReadRecords(f) \/ Contribute(f)
    \/ Done(f) \/ Conflict(f) \/ Timeout(f) \/ Discard(f)
    \/ \E e \in Edits, ks \in SUBSET Keys : Edit(f, e, ks)

Next == Coordinator \/ \E f \in Followers : Follower(f)

Spec == Init /\ [][Next]_vars

-----------------------------------------------------------------------------
(* Properties *)

Records == [Keys -> Payloads \cup {None}]
Operations == [Keys -> Payloads \cup {None, Same}]
Requests == [from : Followers, no : 0..MaxSends, edit : Edits, ops : Operations, base : Records]

(* The tokens are told from what they stand in for. *)
ASSUME FederationTokens ==
    /\ None \notin Payloads \cup Requests \cup {"ok", "conflict"}
    /\ Same \notin Payloads \cup {None}

(* Types of the stores, the programs and the wire; a reply is only for a     *)
(* follower that waits for it.                                              *)
TypeOK ==
    /\ db \in Records
    /\ buffer \in Operations
    /\ deltas \in Seq(Operations)
    /\ rep \in [Followers -> Records]
    /\ wm \in [Followers -> 0..Len(deltas)]
    /\ held \in [Followers -> Records]
    /\ edit \in [Followers -> Edits \cup {None}]
    /\ out \in [Followers -> Operations]
    /\ awaits \in [Followers -> Requests \cup {None}]
    /\ net \subseteq Requests
    /\ reply \in [Followers -> {None, "ok", "conflict"}]
    /\ \A f \in Followers : awaits[f] = None => reply[f] = None
    /\ begun \subseteq Edits

(* No lost update: a record is what its accepted edits make of it one after *)
(* the other, whoever made them and whatever was refused, lost or sent      *)
(* again, as long as programs edit what they read after their last sync.    *)
Serial == \A k \in Keys : db[k] = accepted[k]

Serializable == fresh => Serial

(* An edit reaches a record once, also a refused one that is made again on  *)
(* fresh state, as long as every request gets its reply.                    *)
AppliedOnce ==
    certain => \A k \in Keys : db[k] # None => IsInjective(db[k])

(* A follower reproduces the coordinator's state as of its watermark, and   *)
(* its present state when it has caught up, deletes and its own             *)
(* contributions included.                                                  *)
ReplicaExact ==
    \A f \in Followers :
        /\ rep[f] = CaughtUp(Nothing, SubSeq(deltas, 1, wm[f]))
        /\ wm[f] = Len(deltas) => rep[f] = db

(* A contribution sent again after its reply was lost is not refused as a   *)
(* conflict with itself.                                                    *)
ResendAnswered ==
    \A f \in Followers : reply[f] = "conflict" =>
        \A k \in Touched(out[f]) : accepted[k] # None => edit[f] \notin ToSet(accepted[k])

=============================================================================
