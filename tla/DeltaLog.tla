------------------------------ MODULE DeltaLog ------------------------------
(***************************************************************************)
(* The durable record of the commit stream: a delta consumer that appends   *)
(* frames to segment files and names the bytes that count in a manifest,    *)
(* with the flush in its two durable steps, crashes between them, reopening  *)
(* with the reconciliation of the segments, bootstrap, and the store that   *)
(* delivers to it, detaches it and takes it back.                           *)
(*                                                                          *)
(* A delta is its TID.  A frame is two cells on disk, so that an append can  *)
(* tear a frame; sizes count cells.                                         *)
(***************************************************************************)
EXTENDS Integers, Sequences, SequencesExt

CONSTANTS
    FlushEvery,      \* flush_every
    MaxSegmentCells, \* max_segment_bytes
    MaxTid,          \* bound: TIDs 1..MaxTid
    MaxSegs,         \* bound: segment numbers 1..MaxSegs
    MaxFileCells,    \* bound: cells of a segment file
    NoFile,          \* a path that names no file
    Env              \* what the environment does, a subset of Features

(* "crash": the process may die.  "fail": a write or an fsync may raise. *)
Features == {"crash", "fail"}

ASSUME DeltaLogConstants ==
    /\ FlushEvery \in Nat \ {0}
    /\ MaxSegmentCells \in Nat \ {0}
    /\ MaxTid \in Nat
    /\ MaxSegs \in Nat \ {0}
    /\ MaxFileCells \in Nat
    /\ NoFile \notin Seq((1..MaxTid) \X {0, 1})
    /\ Env \subseteq Features

VARIABLES
    lastTid,    \* Store.last_tid
    attached,   \* the log is among Store._consumers
    pc,         \* "closed", or what the open log is doing
    inApply,    \* the flush under way was called by apply()
    applied,    \* DeltaLog._applied
    watermark,  \* DeltaLog._watermark
    genesis,    \* DeltaLog._genesis_tid
    buffer,     \* DeltaLog._buffer
    pending,    \* DeltaLog._applies_since_flush
    segs,       \* DeltaLog._segments
    nextSeg,    \* DeltaLog._next_segment
    files,      \* the segment files
    manifest,   \* manifest.json
    debris      \* history: what a failed flush left behind, one of Debris

storeVars == <<lastTid, attached>>
memVars == <<applied, watermark, genesis, buffer, pending, segs, nextSeg>>
diskVars == <<files, manifest, debris>>
vars == <<storeVars, pc, inApply, memVars, diskVars>>

SegNos == 1..MaxSegs
NoFiles == [n \in SegNos |-> NoFile]
FreshManifest == [wm |-> 0, genesis |-> 0, segs |-> <<>>, nextSeg |-> 1]

Corrupt == 0

(* "torn": cells that no segment counts.  "doubled": counted deltas that    *)
(* are still buffered.  "counted": a failed flush was retried over them.    *)
Debris == {"none", "torn", "doubled", "counted"}

-----------------------------------------------------------------------------
(* Frames *)

Cells(tids) == [i \in 1..(2 * Len(tids)) |-> <<tids[(i + 1) \div 2], (i + 1) % 2>>]

(* _iter_segment: whole frames within the committed length; a header whose  *)
(* payload is not its own decodes to no delta.                              *)
Frames(cells) ==
    [i \in 1..(Len(cells) \div 2) |->
        LET t == cells[2 * i - 1][1]
        IN IF cells[2 * i - 1] = <<t, 0>> /\ cells[2 * i] = <<t, 1>> THEN t ELSE Corrupt]

Content(fs, n) == IF fs[n] = NoFile THEN <<>> ELSE fs[n]
Committed(fs, seg) == SubSeq(Content(fs, seg.no), 1, seg.nbytes)

(* replay(after_tid): segments behind the cursor are skipped unread; then   *)
(* what is buffered.                                                        *)
Framed(fs, sg, after) ==
    LET upto[n \in 0..Len(sg)] ==
            IF n = 0 THEN <<>>
            ELSE upto[n - 1] \o (IF sg[n].last > after THEN Frames(Committed(fs, sg[n])) ELSE <<>>)
    IN  upto[Len(sg)]

Later(tids, after) ==
    LET upto[n \in 0..Len(tids)] ==
            IF n = 0 THEN <<>>
            ELSE upto[n - 1] \o (IF tids[n] > after \/ tids[n] = Corrupt THEN <<tids[n]>> ELSE <<>>)
    IN  upto[Len(tids)]

Replay(fs, sg, buf, after) == Later(Framed(fs, sg, after) \o buf, after)

-----------------------------------------------------------------------------
(* apply(): what the store delivers after each commit *)

(* A delta applied before is skipped, a gap raises and the store detaches   *)
(* the log, any other delta is buffered and may make the buffer due.        *)
Apply(tid) ==
    IF tid <= applied THEN UNCHANGED <<pc, inApply, memVars, attached>>
    ELSE IF tid # applied + 1
    THEN /\ attached' = FALSE
         /\ UNCHANGED <<pc, inApply, memVars>>
    ELSE /\ buffer' = Append(buffer, tid)
         /\ applied' = tid
         /\ pending' = pending + 1
         /\ pc' = IF pending + 1 >= FlushEvery THEN "append" ELSE "idle"
         /\ inApply' = (pending + 1 >= FlushEvery)
         /\ UNCHANGED <<watermark, genesis, segs, nextSeg, attached>>

Commit ==
    /\ pc \in {"closed", "idle"}
    /\ lastTid < MaxTid
    /\ lastTid' = lastTid + 1
    /\ IF attached THEN Apply(lastTid') ELSE UNCHANGED <<attached, pc, inApply, memVars>>
    /\ UNCHANGED diskVars

(* A log may also be fed by hand, from another record of the stream: at     *)
(* least once, and not always in order.                                     *)
Feed(tid) ==
    /\ pc = "idle"
    /\ ~attached
    /\ tid <= lastTid
    /\ Apply(tid)
    /\ UNCHANGED <<lastTid, diskVars>>

(* The program, or close() and __exit__, flush what is buffered. *)
Flush ==
    /\ pc = "idle"
    /\ buffer # <<>>
    /\ pc' = "append"
    /\ inApply' = FALSE
    /\ UNCHANGED <<storeVars, memVars, diskVars>>

-----------------------------------------------------------------------------
(* flush(), first half: the frames go to the current segment. *)

(* _ensure_current_segment: a new one if there is none or the last is full. *)
Rolls == segs = <<>> \/ segs[Len(segs)].nbytes >= MaxSegmentCells

Bug_Ensured ==
    IF Rolls THEN <<[no |-> nextSeg, first |-> 0, last |-> 0, nbytes |-> 0]>> ELSE segs

Ensured ==
    IF Rolls THEN Append(segs, [no |-> nextSeg, first |-> 0, last |-> 0, nbytes |-> 0])
    ELSE segs

EnsureSegment == nextSeg' = IF Rolls THEN nextSeg + 1 ELSE nextSeg

Grown(seg) ==
    [seg EXCEPT !.first = IF @ = 0 THEN Head(buffer) ELSE @,
                !.last = Last(buffer),
                !.nbytes = @ + 2 * Len(buffer)]

WithinBounds ==
    /\ Rolls => nextSeg <= MaxSegs
    /\ Len(Content(files, Ensured[Len(Ensured)].no)) + 2 * Len(buffer) <= MaxFileCells

(* open(path, "ab"), write, fsync; then the bookkeeping in memory. *)
FlushAppend ==
    /\ pc = "append"
    /\ WithinBounds
    /\ LET n == Len(Ensured)
           no == Ensured[n].no
       IN /\ files' = [files EXCEPT ![no] = Content(files, no) \o Cells(buffer)]
          /\ segs' = [Ensured EXCEPT ![n] = Grown(@)]
    /\ EnsureSegment
    /\ watermark' = applied
    /\ debris' = IF debris = "none" THEN "none" ELSE "counted"
    /\ pc' = "manifest"
    /\ UNCHANGED <<storeVars, inApply, applied, genesis, buffer, pending, manifest>>

(* flush() raises: through apply() into the store, which detaches the log.  *)
(* The buffer is kept, and its frames, or a part of them, are in the file.  *)
Raises(left) ==
    /\ debris' = IF debris = "none" THEN left ELSE debris
    /\ pc' = "idle"
    /\ inApply' = FALSE
    /\ attached' = (attached /\ ~inApply)

(* The write or its fsync raises with any part of the bytes in the file.    *)
FlushAppendFails ==
    /\ "fail" \in Env
    /\ pc = "append"
    /\ WithinBounds
    /\ \E k \in 0..(2 * Len(buffer)) :
        LET no == Ensured[Len(Ensured)].no
        IN files' = [files EXCEPT ![no] = Content(files, no) \o SubSeq(Cells(buffer), 1, k)]
    /\ segs' = Ensured
    /\ EnsureSegment
    /\ Raises("torn")
    /\ UNCHANGED <<lastTid, applied, watermark, genesis, buffer, pending, manifest>>

(* ... second half: the manifest is replaced and the buffer cleared.        *)
InMemory == [wm |-> watermark, genesis |-> genesis, segs |-> segs, nextSeg |-> nextSeg]

Bug_FlushManifest ==
    /\ pc = "manifest"
    /\ manifest' = InMemory
    /\ pending' = 0
    /\ pc' = "idle"
    /\ inApply' = FALSE
    /\ UNCHANGED <<storeVars, applied, watermark, genesis, buffer, segs, nextSeg, files,
                   debris>>

FlushManifest ==
    /\ pc = "manifest"
    /\ manifest' = InMemory
    /\ buffer' = <<>>
    /\ pending' = 0
    /\ pc' = "idle"
    /\ inApply' = FALSE
    /\ UNCHANGED <<storeVars, applied, watermark, genesis, segs, nextSeg, files, debris>>

(* _write_manifest raises before the rename, or in the fsync after it: the  *)
(* segment's entry has grown by what stays in the buffer.                   *)
FlushManifestFails ==
    /\ "fail" \in Env
    /\ pc = "manifest"
    /\ manifest' \in {manifest, InMemory}
    /\ Raises("doubled")
    /\ UNCHANGED <<lastTid, memVars, files>>

-----------------------------------------------------------------------------
(* Opening, bootstrap, attach, crash *)

Bug_Reconciled(fs, sg) ==
    [n \in SegNos |->
        IF ~\E i \in 1..Len(sg) : sg[i].no = n THEN NoFile ELSE fs[n]]

(* _reconcile_segments: a named segment is cut to its committed length, a   *)
(* file the manifest does not name is deleted.                              *)
Reconciled(fs, sg) ==
    [n \in SegNos |->
        IF ~\E i \in 1..Len(sg) : sg[i].no = n THEN NoFile
        ELSE LET s == CHOOSE s \in ToSet(sg) : s.no = n
             IN IF fs[n] = NoFile THEN NoFile ELSE SubSeq(fs[n], 1, s.nbytes)]

Load(m) ==
    /\ applied' = m.wm
    /\ watermark' = m.wm
    /\ genesis' = m.genesis
    /\ segs' = m.segs
    /\ nextSeg' = m.nextSeg
    /\ buffer' = <<>>
    /\ pending' = 0

(* DeltaLog(path) after a restart. *)
Open ==
    /\ pc = "closed"
    /\ Load(manifest)
    /\ files' = Reconciled(files, manifest.segs)
    /\ debris' = IF debris = "counted" THEN "counted" ELSE "none"
    /\ pc' = "idle"
    /\ UNCHANGED <<storeVars, inApply, manifest>>

(* bootstrap(): the directory is removed, here in one step, and opened empty *)
Bootstrap ==
    /\ pc = "closed"
    /\ files' = NoFiles
    /\ manifest' = FreshManifest
    /\ debris' = "none"
    /\ Load(FreshManifest)
    /\ pc' = "joining"
    /\ UNCHANGED <<storeVars, inApply>>

(* ... and its manifest pinned to the snapshot. *)
Join ==
    /\ pc = "joining"
    /\ genesis' = lastTid
    /\ watermark' = lastTid
    /\ applied' = lastTid
    /\ manifest' = [wm |-> lastTid, genesis |-> lastTid, segs |-> segs, nextSeg |-> nextSeg]
    /\ pc' = "idle"
    /\ UNCHANGED <<storeVars, inApply, buffer, pending, segs, nextSeg, files, debris>>

(* Store.attach compares the watermark with last_tid. *)
Attach ==
    /\ pc = "idle"
    /\ ~attached
    /\ applied = lastTid
    /\ attached' = TRUE
    /\ UNCHANGED <<lastTid, pc, inApply, memVars, diskVars>>

Detach ==
    /\ pc = "idle"
    /\ attached
    /\ attached' = FALSE
    /\ UNCHANGED <<lastTid, pc, inApply, memVars, diskVars>>

(* The process dies; the store comes back with every acknowledged commit.   *)
Crash ==
    /\ "crash" \in Env
    /\ pc # "closed"
    /\ pc' = "closed"
    /\ inApply' = FALSE
    /\ attached' = FALSE
    /\ Load(FreshManifest)
    /\ UNCHANGED <<lastTid, diskVars>>

-----------------------------------------------------------------------------
Init ==
    /\ lastTid = 0
    /\ attached = FALSE
    /\ pc = "closed"
    /\ inApply = FALSE
    /\ applied = 0
    /\ watermark = 0
    /\ genesis = 0
    /\ buffer = <<>>
    /\ pending = 0
    /\ segs = <<>>
    /\ nextSeg = 1
    /\ files = NoFiles
    /\ manifest = FreshManifest
    /\ debris = "none"

FlushStep == FlushAppend \/ FlushAppendFails \/ FlushManifest \/ FlushManifestFails

Next == \/ \E t \in 1..MaxTid : Feed(t)
        \/ Commit \/ Flush \/ FlushStep
        \/ Open \/ Bootstrap \/ Join \/ Attach \/ Detach \/ Crash

Spec == Init /\ [][Next]_vars

-----------------------------------------------------------------------------
Segments == [no : SegNos, first : 0..MaxTid, last : 0..MaxTid, nbytes : Nat]

(* Every variable of the log has its type. *)
TypeOK ==
    /\ lastTid \in 0..MaxTid
    /\ attached \in BOOLEAN
    /\ pc \in {"closed", "idle", "append", "manifest", "joining"}
    /\ inApply \in BOOLEAN
    /\ {applied, watermark, genesis} \subseteq 0..lastTid
    /\ buffer \in Seq(1..MaxTid)
    /\ pending \in 0..Len(buffer)
    /\ segs \in Seq(Segments)
    /\ nextSeg \in 1..(MaxSegs + 1)
    /\ \A n \in SegNos : files[n] = NoFile \/ files[n] \in Seq((1..MaxTid) \X {0, 1})
    /\ manifest.wm \in 0..lastTid
    /\ manifest.segs \in Seq(Segments)
    /\ debris \in Debris

After(a, b) == [i \in 1..(IF b < a THEN 0 ELSE b - a) |-> a + i]

(* "The durable watermark never lies": at every moment, whatever is half    *)
(* done, the files the manifest names hold exactly the deltas from its      *)
(* genesis to its watermark, once each and in order.                        *)
DurableWatermark ==
    Replay(files, manifest.segs, <<>>, manifest.genesis) = After(manifest.genesis, manifest.wm)

(* ... which the code keeps through every crash and failure, until a flush  *)
(* that failed is retried without a reopening in between.                   *)
WatermarkHonest == debris # "counted" => DurableWatermark

(* replay(after_tid) of an open log, from any cursor, yields every later    *)
(* delta it was given, flushed or not, and nothing else; once and in TID    *)
(* order, unless a manifest write has failed since the log was opened: what *)
(* that flush counted is then read from the segment and again from the      *)
(* buffer.  After a retry of a failed flush ("counted") nothing is claimed. *)
ReplayComplete ==
    pc = "idle" /\ debris # "counted" =>
        \A t \in genesis..applied :
            LET replayed == Replay(files, segs, buffer, t)
            IN  /\ ToSet(replayed) = (t + 1)..applied
                /\ debris # "doubled" => replayed = After(t, applied)

(* ... and without exception, as replay()'s docstring has it: the code      *)
(* breaks it once a manifest write has failed.                              *)
ReplayExact ==
    pc = "idle" => \A t \in genesis..applied : Replay(files, segs, buffer, t) = After(t, applied)

(* An attached log has every commit: a delta it refused or failed to flush  *)
(* has detached it.                                                         *)
AttachedIsCurrent == attached /\ pc = "idle" => applied = lastTid

(* A crash of an open log costs no delta but what is buffered, also after a *)
(* failed flush and its retries; until a flush fails that is exactly what   *)
(* it costs, and fewer than flush_every deltas: at flush_every=1 none.      *)
(* After a failure the buffer may hold flush_every deltas and more.         *)
LossBounded ==
    pc = "idle" =>
        /\ applied - manifest.wm <= Len(buffer)
        /\ debris = "none" => /\ applied - manifest.wm = Len(buffer)
                              /\ Len(buffer) < FlushEvery

(* A recorded delta stays readable: until bootstrap() replaces the log, no  *)
(* flush, failure, crash or reopening takes one away.                       *)
Recorded == Replay(files, manifest.segs, <<>>, manifest.genesis)
RecordKept == [][pc' # "joining" => IsPrefix(Recorded, Recorded')]_vars

=============================================================================
