------------------------------ MODULE Sidecars ------------------------------
(***************************************************************************)
(* A store that delivers its commits to two derived copies, the parquet     *)
(* mirror and the full-text index: delivery in order with a failing         *)
(* consumer detached, attach and detach, bootstrap from a snapshot, deltas  *)
(* fed by hand, the mirror's flush and compaction file by file, an I/O      *)
(* error or a crash between any two of these steps, and reopening.  All of  *)
(* it runs on the owner's thread.                                           *)
(***************************************************************************)
EXTENDS ArrowMirror, TextIndex

CONSTANTS
    Batches,        \* the commits of the program: OIDs to a value or Deleted
    Protected,      \* the types of protected classes
    Denied,         \* the OIDs a search's principal may not read
    FlushEvery,     \* flush_every
    ChunkRows,      \* bootstrap's batch
    MaxTid,         \* bound: TIDs 1..MaxTid
    MaxFaults,      \* bound: I/O errors, and crashes
    Closed,         \* no object of a sidecar
    Env             \* what the environment does, a subset of Features

(* "crash": the process may die.  "fail": I/O may raise.  "feed": deltas    *)
(* are also applied to the mirror by hand.  "refeed": also if its bootstrap *)
(* was interrupted.  "power": a crash loses what was not fsynced.           *)
Features == {"crash", "fail", "feed", "refeed", "power"}

Consumers == {"mirror", "text"}

ASSUME SidecarConstants ==
    /\ Env \subseteq Features
    /\ FlushEvery \in Nat \ {0}
    /\ ChunkRows \in Nat \ {0}
    /\ MaxTid \in Nat
    /\ MaxFaults \in Nat

VARIABLES
    hist,       \* the durable commits, as deltas
    cids,       \* Store._cid_by_typename, by type
    consumers,  \* Store._consumers
    pc,         \* what the owner's thread is doing
    deliver,    \* the consumers _deliver has not reached yet
    mirror,     \* the ArrowMirror object
    flushing,   \* the local variables of flush(), compact() and bootstrap()
    files,      \* the segment files
    manifest,   \* manifest.json
    gutted,     \* history: a bootstrap removed a segment the manifest still names
    text,       \* the FullTextIndex object's _watermark and _types
    sidecar,    \* its SQLite file
    refused,    \* history: a consumer was detached without an I/O error
    faults      \* history: the I/O errors and crashes so far

storeVars == <<hist, cids, consumers, deliver, refused>>
manifestVars == <<manifest, gutted>>
mirrorVars == <<mirror, flushing, files, manifestVars>>
textVars == <<text, sidecar>>
vars == <<storeVars, pc, mirrorVars, textVars, faults>>

last_tid == Len(hist)

Fault(kind) == faults[kind] < MaxFaults /\ faults' = [faults EXCEPT ![kind] = @ + 1]

(* The rows of the store at a TID. *)
RowsAt[t \in Nat] ==
    IF t = 0 THEN NoRows
    ELSE Live([o \in Oids |-> IF o \in DOMAIN hist[t].ops THEN hist[t].ops[o] ELSE RowsAt[t - 1][o]])

durable_cids == UNION {hist[t].types : t \in 1..last_tid}

-----------------------------------------------------------------------------
(* The store *)

Upserted(ops) == {TypeOf[o] : o \in {p \in DOMAIN ops : ops[p] # Deleted}}

Bug_new_types(ops) == Upserted(ops) \ cids

(* _cid_for: the batch carries the lineage of every type it writes that is  *)
(* not durable yet, also when a failed commit had allocated it.             *)
_new_types(ops) == Upserted(ops) \ durable_cids

Possible(ops) == \A o \in DOMAIN ops : ops[o] = Deleted => RowsAt[last_tid][o] # Absent

Commit(ops) ==
    /\ pc = "idle"
    /\ last_tid < MaxTid
    /\ Possible(ops)
    /\ hist' = Append(hist, [ops |-> ops, types |-> _new_types(ops)])
    /\ cids' = cids \cup Upserted(ops)
    /\ deliver' = consumers
    /\ pc' = IF consumers = <<>> THEN "idle" ELSE "deliver"
    /\ UNCHANGED <<consumers, refused, mirrorVars, textVars, faults>>

(* P2 raises: nothing is durable, the type ids it allocated stay cached. *)
CommitFails(ops) ==
    /\ ~(Upserted(ops) \subseteq cids)
    /\ "fail" \in Env /\ Fault("fail")
    /\ pc = "idle"
    /\ last_tid < MaxTid
    /\ Possible(ops)
    /\ cids' = cids \cup Upserted(ops)
    /\ UNCHANGED <<hist, consumers, deliver, refused, pc, mirrorVars, textVars>>

(* _deliver goes on with the next consumer, whatever became of this one. *)
NextConsumer ==
    /\ deliver' = Tail(deliver)
    /\ pc' = IF Len(deliver) = 1 THEN "idle" ELSE "deliver"

Detached(c) == SelectSeq(consumers, LAMBDA x : x # c)

Watermark(c) == IF c = "mirror" THEN mirror.wm ELSE text.wm
IsOpen(c) == IF c = "mirror" THEN mirror # Closed ELSE text # Closed
IsAttached(c) == c \in ToSet(consumers)

(* attach() raises for a consumer behind or ahead of the store. *)
Attach(c) ==
    /\ pc = "idle"
    /\ IsOpen(c) /\ ~IsAttached(c)
    /\ Watermark(c) = last_tid
    /\ consumers' = Append(consumers, c)
    /\ UNCHANGED <<hist, cids, deliver, refused, pc, mirrorVars, textVars, faults>>

Detach(c) ==
    /\ pc = "idle"
    /\ IsAttached(c)
    /\ consumers' = Detached(c)
    /\ UNCHANGED <<hist, cids, deliver, refused, pc, mirrorVars, textVars, faults>>

-----------------------------------------------------------------------------
(* The mirror's flush.  "then" is what called it. *)

NotFlushing == [todo |-> {}, full |-> {}, doomed |-> {}, rest |-> {}, tid |-> 0, then |-> "call"]

Flushes(m, then, rest, tid) ==
    /\ flushing' = [NotFlushing EXCEPT !.todo = PendingTypes(m), !.then = then, !.rest = rest,
                                       !.tid = tid]
    /\ pc' = "write"

(* The types are taken in one order, that of their names. *)
First(types) == CHOOSE t \in types : TRUE

WriteSegment ==
    /\ pc = "write"
    /\ flushing.full = {} /\ flushing.todo # {}
    /\ LET t == First(flushing.todo)
           wide == WithColumns(mirror, t)
           m == WithSegment(wide, t)
       IN /\ mirror.tables[t].next <= MaxSegNo
          /\ files' = [files EXCEPT ![t][mirror.tables[t].next] =
                            _pending_table(PendingOf(mirror, t), wide.tables[t].tag)]
          /\ mirror' = m
          /\ flushing' = [flushing EXCEPT
                !.todo = @ \ {t},
                !.full = IF flushing.then # "chunk" /\ Len(m.tables[t].segs) > MaxSegments
                         THEN {t} ELSE {}]
    /\ UNCHANGED <<storeVars, pc, manifestVars, textVars, faults>>

(* The segments of the type to be compacted are not all there to be read. *)
Unreadable ==
    /\ pc = "write"
    /\ \E t \in flushing.full : \E n \in ToSet(mirror.tables[t].segs) : files[t][n] = NoFile

CompactType ==
    /\ pc = "write"
    /\ flushing.full # {} /\ ~Unreadable
    /\ LET t == First(flushing.full) IN
        /\ mirror.tables[t].next <= MaxSegNo
        /\ files' = [files EXCEPT ![t][mirror.tables[t].next] = _compact_type(files[t], mirror.tables[t])]
        /\ mirror' = WithCompacted(mirror, t)
        /\ flushing' = [flushing EXCEPT !.full = @ \ {t},
                                        !.doomed = @ \cup {<<t, n>> : n \in ToSet(mirror.tables[t].segs)}]
    /\ UNCHANGED <<storeVars, pc, manifestVars, textVars, faults>>

(* A temporary file, fsynced, renamed over the old manifest. *)
WriteManifest ==
    /\ pc = "write"
    /\ flushing.todo = {} /\ flushing.full = {}
    /\ manifest' = Manifest(mirror)
    /\ pc' = "unlink"
    /\ UNCHANGED <<storeVars, mirror, flushing, files, gutted, textVars, faults>>

(* The rows the next flush of a bootstrap streams: the next chunk. *)
Chunk(rest) == {o \in rest : Cardinality({p \in rest : p < o}) < ChunkRows}

Streams(m, rest, tid) ==
    LET chunk == Chunk(rest)
        last == Cardinality(rest) < ChunkRows
        m2 == [m EXCEPT !.pending = [o \in Oids |-> IF o \in chunk THEN RowsAt[tid][o] ELSE Absent],
                        !.wm = IF last THEN tid ELSE @]
    IN /\ mirror' = m2
       /\ Flushes(m2, IF last THEN "call" ELSE "chunk", rest \ chunk, tid)

(* The obsolete files go, and with them what was pending; then whatever     *)
(* called flush() goes on: _deliver, the bootstrap's next chunk, compact()  *)
(* with its second half, or the program.                                    *)
UnlinkDoomed ==
    /\ pc = "unlink"
    /\ files' = Unlinked(files, flushing.doomed)
    /\ LET m == [mirror EXCEPT !.pending = NoRows, !.since = 0]
       IN CASE flushing.then = "apply" ->
                    /\ mirror' = m
                    /\ flushing' = NotFlushing
                    /\ NextConsumer
            [] flushing.then = "chunk" ->
                    /\ Streams(m, flushing.rest, flushing.tid)
                    /\ UNCHANGED deliver
            [] flushing.then = "compact" ->
                    /\ mirror' = m
                    /\ flushing' = [NotFlushing EXCEPT
                                        !.full = {t \in Types : Len(m.tables[t].segs) > 1}]
                    /\ pc' = "write"
                    /\ UNCHANGED deliver
            [] flushing.then \in {"call", "close"} ->
                    /\ mirror' = IF flushing.then = "close" THEN Closed ELSE m
                    /\ flushing' = NotFlushing
                    /\ pc' = "idle"
                    /\ UNCHANGED deliver
    /\ UNCHANGED <<hist, cids, consumers, refused, manifestVars, textVars, faults>>

(* An I/O error in flush(), or a segment that is not there: the file being  *)
(* written is torn, the mirror keeps what it had changed in memory, and the *)
(* exception goes to _deliver, which detaches the mirror, or to the         *)
(* program, which has no mirror if it was in bootstrap().                   *)
FlushFails ==
    /\ pc \in {"write", "unlink"}
    /\ \/ Unreadable /\ UNCHANGED faults
       \/ ~Unreadable /\ "fail" \in Env /\ Fault("fail")
    /\ LET next == IF Unreadable THEN {}
                   ELSE IF flushing.full # {} THEN flushing.full ELSE flushing.todo
       IN \E torn \in {{}} \cup {{First(s)} : s \in {next} \ {{}}} :
        /\ files' = [t \in Types |-> [n \in SegNos |->
                        IF t \in torn /\ n = mirror.tables[t].next THEN Torn ELSE files[t][n]]]
        /\ mirror' = IF flushing.tid > 0 THEN Closed
                     ELSE [mirror EXCEPT !.tables = [t \in Types |->
                            IF t \in torn THEN WithColumns(mirror, t).tables[t] ELSE @[t]]]
    /\ flushing' = NotFlushing
    /\ IF flushing.then = "apply"
       THEN consumers' = Detached("mirror") /\ NextConsumer
       ELSE pc' = "idle" /\ UNCHANGED <<consumers, deliver>>
    /\ UNCHANGED <<hist, cids, refused, manifestVars, textVars>>

-----------------------------------------------------------------------------
(* The mirror's operations *)

(* apply(): a delta applied before is skipped; a gap, or an op of an unseen *)
(* type, raises and changes nothing.                                        *)
ApplyMirror(tid, then) ==
    LET m == Taken(mirror, hist[tid])
    IN /\ mirror' = m
       /\ IF m.since >= FlushEvery THEN Flushes(m, then, {}, 0) /\ UNCHANGED deliver
          ELSE /\ UNCHANGED flushing
               /\ IF then = "apply" THEN NextConsumer ELSE UNCHANGED <<pc, deliver>>

MirrorTakes(tid) == tid = mirror.wm + 1 /\ Decodes(mirror, hist[tid])

DeliverMirror ==
    /\ pc = "deliver"
    /\ Head(deliver) = "mirror"
    /\ IF MirrorTakes(last_tid)
       THEN ApplyMirror(last_tid, "apply") /\ UNCHANGED <<consumers, refused>>
       ELSE /\ consumers' = Detached("mirror")
            /\ refused' = TRUE
            /\ NextConsumer
            /\ UNCHANGED <<mirror, flushing>>
    /\ UNCHANGED <<hist, cids, files, manifestVars, textVars, faults>>

(* Segments under watermark 0: a bootstrap that was interrupted. *)
Interrupted == mirror.wm = 0 /\ \E t \in Types : mirror.tables[t].segs # <<>>

FeedMirror(tid) ==
    /\ "feed" \in Env
    /\ pc = "idle"
    /\ mirror # Closed /\ ~IsAttached("mirror")
    /\ Interrupted => "refeed" \in Env
    /\ tid <= last_tid
    /\ MirrorTakes(tid)
    /\ ApplyMirror(tid, "call")
    /\ UNCHANGED <<hist, cids, consumers, deliver, refused, files, manifestVars, textVars, faults>>

(* What a flush would change; one that would rewrite the same manifest is   *)
(* left out.                                                                *)
Unflushed(then) ==
    \/ PendingTypes(mirror) # {}
    \/ Manifest(mirror) # manifest
    \/ then = "compact" /\ \E t \in Types : Len(mirror.tables[t].segs) > 1

(* flush(), compact(), and close(), after which the program drops it.       *)
(* Bound: over a gutted directory, where a compaction raises each time,     *)
(* only the store's deltas make it flush.                                   *)
CallMirror(then) ==
    /\ pc = "idle"
    /\ mirror # Closed /\ ~gutted
    /\ then = "close" => ~IsAttached("mirror")
    /\ IF Unflushed(then) THEN Flushes(mirror, then, {}, 0) /\ UNCHANGED mirror
       ELSE then = "close" /\ mirror' = Closed /\ UNCHANGED <<pc, flushing>>
    /\ UNCHANGED <<storeVars, files, manifestVars, textVars, faults>>

(* A plaintext copy of a protected type takes a snapshot bound to root.     *)
_require_root_for_protected(root) == root \/ Only \cap Protected \cap durable_cids = {}

MirroredOids == {o \in Oids : TypeOf[o] \in Only /\ RowsAt[last_tid][o] # Absent}

(* bootstrap() from store.snapshot(): refused before anything is lost, or   *)
(* the removal of the directory begins.                                     *)
BootstrapMirror(root) ==
    /\ pc = "idle"
    /\ ~IsAttached("mirror")
    /\ last_tid > 0
    /\ _require_root_for_protected(root)
    /\ mirror' = Closed
    /\ pc' = "wipe"
    /\ UNCHANGED <<storeVars, flushing, files, manifestVars, textVars, faults>>

(* rmtree: the files go one by one.  The directory lists the manifest       *)
(* anywhere among the segments; these go in one order.                      *)
Segments == {<<t, n>> \in Types \X SegNos : files[t][n] # NoFile}

RemoveSegment ==
    /\ pc = "wipe"
    /\ Segments # {}
    /\ LET seg == First(Segments) IN
        /\ files' = Unlinked(files, {seg})
        /\ gutted' = (gutted \/ seg[2] \in Named(manifest, seg[1]))
    /\ UNCHANGED <<storeVars, pc, mirror, flushing, manifest, textVars, faults>>

RemoveManifest ==
    /\ pc = "wipe"
    /\ manifest # NoFile
    /\ manifest' = NoFile
    /\ gutted' = FALSE
    /\ UNCHANGED <<storeVars, pc, mirror, flushing, files, textVars, faults>>

(* It raises half-way: what is left stays. *)
RemovalFails ==
    /\ "fail" \in Env /\ Fault("fail")
    /\ pc = "wipe"
    /\ <<files, manifest>> # <<NoFiles, NoFile>>
    /\ pc' = "idle"
    /\ UNCHANGED <<storeVars, mirrorVars, textVars>>

Bug_StreamMirror ==
    /\ pc = "wipe"
    /\ files = NoFiles /\ manifest = NoFile
    /\ Streams([FreshMirror EXCEPT !.types = durable_cids, !.wm = last_tid], MirroredOids, last_tid)
    /\ UNCHANGED <<storeVars, files, manifestVars, textVars, faults>>

(* The rows are flushed chunk by chunk under watermark 0, and the last      *)
(* flush has the snapshot's.                                                *)
StreamMirror ==
    /\ pc = "wipe"
    /\ files = NoFiles /\ manifest = NoFile
    /\ Streams([FreshMirror EXCEPT !.types = durable_cids], MirroredOids, last_tid)
    /\ UNCHANGED <<storeVars, files, manifestVars, textVars, faults>>

(* __init__ over the directory as it is. *)
OpenMirror ==
    /\ pc = "idle"
    /\ mirror = Closed
    /\ mirror' = _load_manifest(manifest)
    /\ files' = _sweep_orphans(files, manifest)
    /\ UNCHANGED <<storeVars, pc, flushing, manifestVars, textVars, faults>>

-----------------------------------------------------------------------------
(* The text index's operations *)

(* apply(): the rows, the lineage and the watermark in one transaction. *)
ApplyText(tid) ==
    /\ sidecar' = Indexed(sidecar, hist[tid])
    /\ text' = [wm |-> tid, types |-> text.types \cup hist[tid].types]

TextTakes(tid) == tid = text.wm + 1 /\ Indexes(text.types, hist[tid])

DeliverText ==
    /\ pc = "deliver"
    /\ Head(deliver) = "text"
    /\ NextConsumer
    /\ IF TextTakes(last_tid)
       THEN ApplyText(last_tid) /\ UNCHANGED <<consumers, refused>>
       ELSE /\ consumers' = Detached("text")
            /\ refused' = TRUE
            /\ UNCHANGED textVars
    /\ UNCHANGED <<hist, cids, mirrorVars, faults>>

(* SQLite raises: the transaction is rolled back, the lineage is read anew. *)
TextFails ==
    /\ "fail" \in Env /\ Fault("fail")
    /\ pc = "deliver"
    /\ Head(deliver) = "text"
    /\ NextConsumer
    /\ consumers' = Detached("text")
    /\ text' = [text EXCEPT !.types = sidecar.types]
    /\ UNCHANGED <<hist, cids, refused, mirrorVars, sidecar>>

CloseText ==
    /\ pc = "idle"
    /\ text # Closed /\ ~IsAttached("text")
    /\ text' = Closed
    /\ UNCHANGED <<storeVars, pc, mirrorVars, sidecar, faults>>

OpenText ==
    /\ pc = "idle"
    /\ text = Closed
    /\ sidecar' = IF sidecar = NoFile THEN EmptyIndex ELSE sidecar
    /\ text' = [wm |-> sidecar'.wm, types |-> sidecar'.types]
    /\ UNCHANGED <<storeVars, pc, mirrorVars, faults>>

(* bootstrap(), first step: the old file goes and an empty one is made; a   *)
(* snapshot that is not root's is refused only then.                        *)
WipeText(root) ==
    /\ pc = "idle"
    /\ ~IsAttached("text")
    /\ last_tid > 0
    /\ sidecar' = EmptyIndex
    /\ text' = Closed
    /\ pc' = IF root \/ FullText \cap Protected = {} THEN "fill" ELSE "idle"
    /\ UNCHANGED <<storeVars, mirrorVars, faults>>

(* Second step: lineage, documents and watermark in one transaction. *)
FillText ==
    /\ pc = "fill"
    /\ sidecar' = [wm |-> last_tid, types |-> durable_cids, docs |-> Documents(RowsAt[last_tid])]
    /\ text' = [wm |-> last_tid, types |-> durable_cids]
    /\ pc' = "idle"
    /\ UNCHANGED <<storeVars, mirrorVars, faults>>

-----------------------------------------------------------------------------
(* The process dies and is started again. *)
Crash ==
    /\ <<mirror, text, cids, pc>> # <<Closed, Closed, durable_cids, "idle">>
    /\ Env \cap {"crash", "power"} # {} /\ Fault("crash")
    /\ pc' = "idle"
    /\ cids' = durable_cids
    /\ consumers' = <<>>
    /\ deliver' = <<>>
    /\ mirror' = Closed
    /\ flushing' = NotFlushing
    /\ text' = Closed
    /\ files' = IF "power" \notin Env THEN files
                ELSE [t \in Types |-> [n \in SegNos |->
                        IF files[t][n] \notin {NoFile, Torn} /\ ~files[t][n].synced
                        THEN Torn ELSE files[t][n]]]
    /\ UNCHANGED <<hist, refused, manifestVars, sidecar>>

Init ==
    /\ hist = <<>>
    /\ cids = {}
    /\ consumers = <<>>
    /\ pc = "idle"
    /\ deliver = <<>>
    /\ mirror = Closed
    /\ flushing = NotFlushing
    /\ files = NoFiles
    /\ manifest = NoFile
    /\ gutted = FALSE
    /\ text = Closed
    /\ sidecar = NoFile
    /\ refused = FALSE
    /\ faults = [fail |-> 0, crash |-> 0]

Next ==
    \/ \E ops \in Batches : Commit(ops) \/ CommitFails(ops)
    \/ \E c \in Consumers : Attach(c) \/ Detach(c)
    \/ WriteSegment \/ CompactType \/ WriteManifest \/ UnlinkDoomed \/ FlushFails
    \/ DeliverMirror
    \/ \E tid \in 1..MaxTid : FeedMirror(tid)
    \/ \E then \in {"call", "compact", "close"} : CallMirror(then)
    \/ RemoveSegment \/ RemoveManifest \/ RemovalFails \/ StreamMirror \/ OpenMirror
    \/ DeliverText \/ TextFails \/ CloseText \/ OpenText
    \/ \E root \in BOOLEAN : BootstrapMirror(root) \/ WipeText(root)
    \/ FillText
    \/ Crash

Spec == Init /\ [][Next]_vars

-----------------------------------------------------------------------------
(* Properties *)

Mirrored(rows) == [o \in Oids |-> IF TypeOf[o] \in Only THEN rows[o] ELSE Absent]

TableOf(m, t) == table(files[t], m.tables[t], PendingOf(m, t))

(* A cell shows a value if they are equal, or the value is an integer that  *)
(* a float cannot hold and the cell is its rounded float.                   *)
Shows(cell, v) ==
    \/ SameValue(cell, v)
    \/ v # Absent /\ v.kind = "int" /\ v.n > MaxExact /\ cell = Rounded(v)

(* Every cell of a type's table has the type of the one column, and shows   *)
(* the store's value at the mirror's watermark.                             *)
Reads(m) ==
    LET rows == Mirrored(RowsAt[m.wm]) IN
    \A t \in Types :
        LET cells == TableOf(m, t)
            tag == Widened(m.tables[t].tag, PendingOf(m, t))
        IN \A o \in OidsOf(t) :
            /\ cells[o] = Absent \/ tag \in {_tag_of(cells[o]), "fallback"}
            /\ Shows(cells[o], rows[o])

(* ArrowMirror.table (arrow.py:536): whatever flushes, compactions, column  *)
(* promotions and failed flushes came before, what a reader gets are        *)
(* columns of one type with the store's rows at the mirror's watermark, as  *)
(* a bootstrap would give them; only an integer past 2^53 may read as its   *)
(* rounded float.  Not over a directory that a bootstrap stopped removing   *)
(* with the manifest still in it.                                           *)
MirrorExact ==
    pc = "idle" /\ mirror # Closed /\ mirror.wm > 0 /\ ~gutted => Reads(mirror)

(* The same without the rounding, which the code does not keep. *)
MirrorUnrounded ==
    pc = "idle" /\ mirror # Closed /\ mirror.wm > 0 /\ ~gutted =>
        \A o \in Oids :
            SameValue(TableOf(mirror, TypeOf[o])[o], Mirrored(RowsAt[mirror.wm])[o])

(* Between any two steps the manifest names only whole files, and if it has *)
(* a watermark they fold to the store's rows at it.                         *)
Recoverable ==
    manifest # NoFile =>
        /\ \A t \in Types : \A n \in Named(manifest, t) : files[t][n] \notin {NoFile, Torn}
        /\ manifest.wm > 0 => Reads(_load_manifest(manifest))

(* ArrowMirror.flush (arrow.py:595) and bootstrap (464): every step of a    *)
(* flush, a compaction, a bootstrap or a reopening leaves a directory that  *)
(* recovers, except the removal of the old directory from the first segment *)
(* it takes until it takes the manifest: a bootstrap that stops in between  *)
(* leaves a directory that still opens at its old watermark.                *)
RecoverExact == ~gutted => Recoverable

(* Store._deliver and attach (_store.py:1436, 1659): between commits every  *)
(* attached consumer has applied the last one, whatever happened to the     *)
(* other consumer, and none is detached unless its own I/O raised.          *)
AttachedCurrent ==
    /\ ~refused
    /\ pc = "idle" => \A c \in Consumers : IsAttached(c) => Watermark(c) = last_tid

(* FullTextIndex.apply (fts.py:262): the file always holds the documents of *)
(* one commit, the one its watermark says, and the object agrees with it.   *)
TextExact ==
    /\ sidecar # NoFile => sidecar.docs = Documents(RowsAt[sidecar.wm])
    /\ text # Closed => text = [wm |-> sidecar.wm, types |-> sidecar.types]

(* FullTextIndex._search_fenced (fts.py:451): the hits are the first that   *)
(* the snapshot lets its principal read, up to the limit, among the first   *)
(* scan_cap ranked documents, whatever the windows were.                    *)
SearchExact ==
    pc = "idle" /\ text # Closed =>
        \A tid \in 0..last_tid : \A limit \in 0..2 : \A cap \in {1, 3} :
            LET readable == {o \in Oids \ Denied : RowsAt[tid][o] # Absent}
                ranked == Ranked(sidecar.docs)
                able == SelectSeq(SubSeq(ranked, 1, Lowest(cap, Len(ranked))),
                                  LAMBDA o : o \in readable)
            IN _search_fenced(sidecar.docs, readable, limit, cap)
                    = SubSeq(able, 1, Lowest(limit, Len(able)))

=============================================================================
