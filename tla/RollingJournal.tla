--------------------------- MODULE RollingJournal ---------------------------
(* The bounded rolling journal in which a guardian keeps the events it may   *)
(* share, and the reads its telemetry endpoint answers (bounded-rolling-file *)
(* and fetch_journal_directory).  The writer reserves a segment number in    *)
(* the directory before it creates the segment and never appends to a        *)
(* segment it did not create itself.  A read presents the cursor the last    *)
(* one returned, and says "gap" when the position is no longer a retained    *)
(* one and it starts over, or when it ends at a record too long to return,   *)
(* which it skips: what is missing then lies behind the batch.               *)
(*                                                                           *)
(* "dir" is what a running process sees in the directory and "disk" what a   *)
(* power loss is certain to leave of it: a directory sync makes them equal,  *)
(* and a power loss may keep or lose every later change on its own.  A       *)
(* handler queues its directory operations in "todo" and takes them one at a *)
(* time.  A record is the number of its append and fills one unit of its     *)
(* segment, a long one too.                                                  *)
EXTENDS Naturals, Sequences, FiniteSets, FiniteSetsExt, SequencesExt

CONSTANTS
    MaxFiles,    \* Config::max_files
    FileRecords, \* Config::max_file_bytes, in records
    BatchSize,   \* the records one read may return
    MaxRecords,  \* bound: appends
    MaxLong,     \* bound: records longer than a read may return
    MaxLosses,   \* bound: power losses and process deaths
    MaxErrors,   \* bound: I/O errors
    MaxWipes,    \* bound: replacements of the storage
    None,        \* no file, no value
    Torn         \* a file, or the last record of one, written in part

VARIABLES
    dir, disk,   \* the directory, as seen and as certainly kept
    file,        \* the complete or torn records of each segment of the directory
    synced,      \* whether the last append reached the disk
    writer,      \* the appender
    todo,        \* the directory operations the running handlers still make
    lock,        \* who holds incarnation.lock
    reader,      \* what the collector knows of the journal
    appended,    \* records ever started
    long,        \* those of them that exceed max_record_bytes
    acked,       \* the appends that returned success, in this storage
    lost, failed, wiped, minted  \* the uses of the bounds, and identities drawn so far

vars == <<dir, disk, file, synced, writer, todo, lock, reader, appended, long, acked,
          lost, failed, wiped, minted>>

EmptyDirectory ==
    [next |-> None, pending |-> None, marker |-> None,
     incarnation |-> None, incarnationPending |-> None, segments |-> {}]

\* RollingFileAppender, before it is opened.
Closed == [phase |-> "closed", segments |-> {}, active |-> None, next |-> 0,
           poisoned |-> FALSE]

\* A collector that has not yet listed the journal.
Unlisted == [incarnation |-> None, cursor |-> None, seen |-> None, got |-> <<>>,
             skipped |-> FALSE]

Init ==
    /\ dir = EmptyDirectory /\ disk = EmptyDirectory
    /\ file = [s \in {} |-> <<>>] /\ synced = TRUE
    /\ writer = Closed /\ todo = [writer |-> <<>>, reader |-> <<>>] /\ lock = "free"
    /\ reader = Unlisted
    /\ appended = 0 /\ long = {} /\ acked = {}
    /\ lost = 0 /\ failed = 0 /\ wiped = 0 /\ minted = 0

\* discover_segments
Newest(segments) == Max(segments)
Oldest(segments) == Min(segments)

-----------------------------------------------------------------------------
(* The directory operations of the handlers.                                 *)

Op(kind, value) == [op |-> kind, value |-> value]
Sync == Op("sync", None)

\* write_next_segment_pending
WritePending(n) == <<Op("createPending", None), Op("fillPending", n)>>

\* publish_pending
PublishPending ==
    <<Op("linkNext", None), Sync, Op("unlinkPending", None), Sync>>

\* replace_with_pending
ReplaceWithPending == <<Sync, Op("unlinkNext", None), Sync>> \o PublishPending

\* ensure_reservation_marker, reservation_marker_exists and
\* create_reservation_marker
EnsureMarker ==
    IF dir.marker = "whole" THEN <<Sync>>
    ELSE (IF dir.marker = Torn THEN <<Op("unlinkMarker", None), Sync>> ELSE <<>>)
         \o <<Op("createMarker", None), Op("fillMarker", None), Sync>>

\* next_after_segments
NextAfterSegments == IF dir.segments = {} THEN 0 ELSE Newest(dir.segments) + 1

\* validate_ahead
Ahead(n) == \A s \in dir.segments : s < n

\* open_next_segment: what the reservation files of an earlier process say, and
\* the operations that settle them.  A pending file that holds the published
\* number is the published file, since a number is written once.
OpenNextSegment ==
    CASE dir.next # None /\ dir.pending \notin {None, Torn} /\ dir.pending = dir.next ->
            [next |-> dir.next,
             ops |-> <<Sync, Op("unlinkPending", None), Sync>> \o EnsureMarker]
      [] dir.next # None /\ dir.pending \notin {None, Torn} /\ dir.pending > dir.next ->
            [next |-> dir.pending, ops |-> ReplaceWithPending \o EnsureMarker]
      [] dir.next # None /\ dir.pending \notin {None, Torn} /\ dir.pending < dir.next ->
            [next |-> None, ops |-> <<>>]
      [] dir.next # None /\ dir.pending = Torn ->
            [next |-> dir.next,
             ops |-> <<Op("unlinkPending", None), Sync>> \o EnsureMarker]
      [] dir.next # None /\ dir.pending = None ->
            [next |-> dir.next, ops |-> EnsureMarker]
      [] dir.next = None /\ dir.marker = Torn -> [next |-> None, ops |-> <<>>]
      [] dir.next = None /\ dir.marker # Torn /\ dir.pending \notin {None, Torn} ->
            [next |-> dir.pending, ops |-> PublishPending \o EnsureMarker]
      [] dir.next = None /\ dir.marker = "whole" /\ dir.pending = None ->
            [next |-> None, ops |-> <<>>]
      [] dir.next = None /\ dir.marker = None /\ dir.pending = None ->
            [next |-> NextAfterSegments,
             ops |-> WritePending(NextAfterSegments) \o PublishPending \o EnsureMarker]
      [] dir.next = None /\ dir.marker # Torn /\ dir.pending = Torn ->
            [next |-> NextAfterSegments,
             ops |-> <<Op("unlinkPending", None), Sync>> \o WritePending(NextAfterSegments)
                     \o PublishPending \o EnsureMarker]

\* reserve_next_segment with remove_unpublished_next_segment: the number after
\* n is published before n is used.
ReserveNextSegment(n) ==
    (IF dir.pending # None THEN <<Op("unlinkPending", None), Sync>> ELSE <<>>)
    \o WritePending(n + 1)
    \o <<Sync, Op("unlinkNext", None), Sync>> \o PublishPending
    \o <<Op("advance", n + 1)>>

\* remove_oldest, as often as the limit asks
RemoveOldest(segments, room) ==
    LET excess == {s \in segments :
                     Cardinality({t \in segments : t >= s}) > room}
    IN  FoldLeft(LAMBDA ops, s : ops \o <<Op("unlinkSegment", s), Sync>>, <<>>,
                 SetToSortSeq(excess, LAMBDA a, b : a < b))

\* open_incarnation_locked, with write_pending and the link that publishes it
OpenIncarnation ==
    LET link == <<Op("linkIncarnation", None), Sync,
                  Op("unlinkIncarnationPending", None), Sync>>
        draw == <<Op("createIncarnationPending", None),
                  Op("fillIncarnationPending", None)>>
    IN  CASE dir.incarnation # None /\ dir.incarnationPending # None ->
                <<Sync, Op("unlinkIncarnationPending", None), Sync>>
          [] dir.incarnation # None /\ dir.incarnationPending = None -> <<>>
          [] dir.incarnation = None /\ dir.incarnationPending = None -> draw \o link
          [] dir.incarnation = None /\ dir.incarnationPending = Torn ->
                <<Op("unlinkIncarnationPending", None), Sync>> \o draw \o link
          [] dir.incarnation = None /\ dir.incarnationPending \notin {None, Torn} -> link

\* One directory operation of a handler.  A process that dies or loses power
\* between two of them leaves the rest undone.
Do(p) ==
    /\ todo[p] # <<>>
    /\ todo' = [todo EXCEPT ![p] = Tail(@)]
    /\ LET o == Head(todo[p]) IN
        /\ dir' = CASE o.op = "createPending" -> [dir EXCEPT !.pending = Torn]
                    [] o.op = "fillPending" -> [dir EXCEPT !.pending = o.value]
                    [] o.op = "linkNext" -> [dir EXCEPT !.next = dir.pending]
                    [] o.op = "unlinkNext" -> [dir EXCEPT !.next = None]
                    [] o.op = "unlinkPending" -> [dir EXCEPT !.pending = None]
                    [] o.op = "createMarker" -> [dir EXCEPT !.marker = Torn]
                    [] o.op = "fillMarker" -> [dir EXCEPT !.marker = "whole"]
                    [] o.op = "unlinkMarker" -> [dir EXCEPT !.marker = None]
                    [] o.op = "createIncarnationPending" ->
                        [dir EXCEPT !.incarnationPending = Torn]
                    [] o.op = "fillIncarnationPending" ->
                        [dir EXCEPT !.incarnationPending = minted + 1]
                    [] o.op = "linkIncarnation" ->
                        [dir EXCEPT !.incarnation = dir.incarnationPending]
                    [] o.op = "unlinkIncarnationPending" ->
                        [dir EXCEPT !.incarnationPending = None]
                    [] o.op = "createSegment" ->
                        [dir EXCEPT !.segments = @ \union {o.value}]
                    [] o.op = "unlinkSegment" ->
                        [dir EXCEPT !.segments = @ \ {o.value}]
                    [] OTHER -> dir
        /\ disk' = IF o.op = "sync" THEN dir ELSE disk
        /\ minted' = IF o.op = "fillIncarnationPending" THEN minted + 1 ELSE minted
        /\ file' = CASE o.op = "createSegment" ->
                            [s \in DOMAIN file \union {o.value} |->
                                IF s = o.value THEN <<>> ELSE file[s]]
                     [] o.op = "repair" ->
                            [file EXCEPT ![o.value] = SelectSeq(@, LAMBDA r : r # Torn)]
                     [] OTHER -> file
        /\ writer' = CASE o.op = "advance" -> [writer EXCEPT !.next = o.value]
                       [] o.op = "forget" ->
                            [writer EXCEPT !.segments = @ \ {o.value}]
                       [] o.op = "activate" ->
                            [writer EXCEPT !.segments = @ \union {o.value},
                                           !.active = o.value]
                       [] o.op = "opened" ->
                            [writer EXCEPT !.phase = "open", !.segments = dir.segments]
                       [] OTHER -> writer
        /\ lock' = IF o.op \in {"opened", "release"} THEN "free" ELSE lock
        /\ reader' = IF o.op = "release" /\ reader.incarnation # dir.incarnation
                     THEN [Unlisted EXCEPT !.incarnation = dir.incarnation]
                     ELSE reader
        /\ synced' = (synced \/ o.op = "seal")
    /\ UNCHANGED <<appended, long, acked, lost, failed, wiped>>

-----------------------------------------------------------------------------
(* RollingFileAppender::open, append_record and rotate.                      *)

\* open, up to the identity of the storage
OpenBegin ==
    /\ writer.phase = "closed" /\ lock = "free"
    /\ lock' = "writer"
    /\ writer' = [Closed EXCEPT !.phase = "identity"]
    /\ todo' = [todo EXCEPT !.writer = OpenIncarnation]
    /\ UNCHANGED <<dir, disk, file, synced, reader, appended, long, acked, lost, failed, wiped, minted>>

\* open, from the identity to the sealed segments: the reservation is settled,
\* segments above the limit go, and the newest one loses a torn tail
\* (remove_oldest, repair_tail, seal_segment).
OpenSegments ==
    /\ writer.phase = "identity" /\ todo.writer = <<>>
    /\ LET reservation == OpenNextSegment IN
        IF reservation.next = None \/ ~Ahead(reservation.next)
        THEN /\ writer' = [writer EXCEPT !.phase = "refused"]
             /\ lock' = "free" /\ UNCHANGED todo
        ELSE /\ writer' = [writer EXCEPT !.phase = "segments", !.next = reservation.next]
             /\ todo' = [todo EXCEPT !.writer =
                    reservation.ops \o RemoveOldest(dir.segments, MaxFiles)
                    \o (IF dir.segments = {} THEN <<>>
                        ELSE <<Op("repair", Newest(dir.segments))>>)
                    \o <<Op("seal", None), Sync, Op("opened", None)>>]
             /\ UNCHANGED lock
    /\ UNCHANGED <<dir, disk, file, synced, reader, appended, long, acked, lost, failed, wiped, minted>>

Full(s) == Len(file[s]) >= FileRecords

\* append_record, when it has to rotate first
Rotate ==
    /\ writer.phase = "open" /\ ~writer.poisoned /\ todo.writer = <<>> /\ synced
    /\ writer.active # None => Full(writer.active)
    /\ appended < MaxRecords
    /\ dir.next = writer.next \* reserve_next_segment refuses otherwise
    /\ writer' = [writer EXCEPT !.active = None]
    /\ todo' = [todo EXCEPT !.writer =
            FoldLeft(LAMBDA ops, o : ops \o (IF o.op = "unlinkSegment"
                                             THEN <<o, Sync, Op("forget", o.value)>> ELSE <<>>),
                     <<>>, RemoveOldest(writer.segments, MaxFiles - 1))
            \o ReserveNextSegment(writer.next)
            \o <<Op("createSegment", writer.next), Sync, Op("activate", writer.next)>>]
    /\ UNCHANGED <<dir, disk, file, synced, lock, reader, appended, long, acked, lost, failed, wiped, minted>>

\* append_record: the bytes of a record reach the file in part, ...
WriteBegin ==
    /\ writer.phase = "open" /\ ~writer.poisoned /\ todo.writer = <<>> /\ synced
    /\ writer.active # None => ~Full(writer.active)
    /\ writer.active # None
    /\ appended < MaxRecords
    /\ appended' = appended + 1
    /\ \/ UNCHANGED long
       \/ Cardinality(long) < MaxLong /\ long' = long \union {appended + 1}
    /\ file' = [file EXCEPT ![writer.active] = Append(@, Torn)]
    /\ synced' = FALSE
    /\ UNCHANGED <<dir, disk, writer, todo, lock, reader, acked, lost, failed, wiped, minted>>

\* ... then wholly, ...
WriteEnd ==
    /\ writer.phase = "open" /\ ~synced /\ ~writer.poisoned
    /\ Last(file[writer.active]) = Torn
    /\ file' = [file EXCEPT ![writer.active] = Append(Front(@), appended)]
    /\ UNCHANGED <<dir, disk, synced, writer, todo, lock, reader, appended, long, acked,
                   lost, failed, wiped, minted>>

\* ... and the caller is told once sync_data has kept it.
SyncData ==
    /\ writer.phase = "open" /\ ~synced /\ ~writer.poisoned
    /\ Last(file[writer.active]) # Torn
    /\ synced' = TRUE /\ acked' = acked \union {appended}
    /\ UNCHANGED <<dir, disk, file, writer, todo, lock, reader, appended, long, lost, failed, wiped, minted>>

\* A write or a sync that fails poisons the appender; the length is put back
\* when the system still allows it.
WriteError ==
    /\ writer.phase = "open" /\ ~synced /\ ~writer.poisoned /\ failed < MaxErrors
    /\ failed' = failed + 1
    /\ writer' = [writer EXCEPT !.poisoned = TRUE]
    /\ \/ /\ Last(file[writer.active]) = Torn
          /\ file' = [file EXCEPT ![writer.active] = Front(@)]
       \/ UNCHANGED file
    /\ UNCHANGED <<dir, disk, synced, todo, lock, reader, appended, long, acked, lost, wiped, minted>>

\* A directory operation that fails ends its handler with an error: an open
\* appender keeps what it had noted, an opening one is dropped.
DirectoryError(p) ==
    /\ todo[p] # <<>> /\ failed < MaxErrors
    /\ failed' = failed + 1
    /\ todo' = [todo EXCEPT ![p] = <<>>]
    /\ writer' = IF p = "writer" /\ writer.phase # "open" THEN Closed ELSE writer
    /\ lock' = IF lock = p THEN "free" ELSE lock
    /\ UNCHANGED <<dir, disk, file, synced, reader, appended, long, acked, lost, wiped, minted>>

\* The host loses power: the files keep every change
\* that was synced and any of the others, and an append that was not synced
\* survives, is cut short or is lost.
PowerLoss ==
    /\ lost < MaxLosses /\ lost' = lost + 1
    /\ \E next \in {dir.next, disk.next}, pending \in {dir.pending, disk.pending},
          marker \in {dir.marker, disk.marker},
          incarnation \in {dir.incarnation, disk.incarnation},
          incarnationPending \in {dir.incarnationPending, disk.incarnationPending},
          undone \in SUBSET ((dir.segments \ disk.segments)
                             \union (disk.segments \ dir.segments)) :
        LET segments == (dir.segments \ undone) \union (undone \ dir.segments) IN
        /\ dir' = [next |-> next, pending |-> pending, marker |-> marker,
                   incarnation |-> incarnation,
                   incarnationPending |-> incarnationPending, segments |-> segments]
        /\ disk' = dir'
        /\ \E tail \in {"kept", "cut", "gone"} :
            file' = [s \in DOMAIN file |->
                IF synced \/ tail = "kept" \/ file[s] = <<>> THEN file[s]
                ELSE IF Last(file[s]) \in acked \union 1..appended - 1 THEN file[s]
                ELSE IF tail = "cut" THEN Append(Front(file[s]), Torn) ELSE Front(file[s])]
    /\ synced' = TRUE /\ writer' = Closed /\ lock' = "free"
    /\ todo' = [writer |-> <<>>, reader |-> <<>>]
    /\ reader' = [reader EXCEPT !.seen = None]
    /\ UNCHANGED <<appended, long, acked, failed, wiped, minted>>

\* Only the process that writes the journal ends, as the child of a seat may;
\* the daemon that answers reads goes on.
WriterExit ==
    /\ writer.phase # "closed" /\ lost < MaxLosses /\ lost' = lost + 1
    /\ writer' = Closed /\ todo' = [todo EXCEPT !.writer = <<>>]
    /\ lock' = IF lock = "writer" THEN "free" ELSE lock
    /\ UNCHANGED <<dir, disk, file, synced, reader, appended, long, acked, failed, wiped, minted>>

\* The guardian's storage is replaced by an empty one.
Wipe ==
    /\ writer.phase = "closed" /\ lock = "free" /\ wiped < MaxWipes
    /\ wiped' = wiped + 1
    /\ dir' = EmptyDirectory /\ disk' = EmptyDirectory /\ file' = [s \in {} |-> <<>>]
    /\ acked' = {}
    /\ UNCHANGED <<synced, writer, todo, lock, reader, appended, long, lost, failed, minted>>

-----------------------------------------------------------------------------
(* The reads of the telemetry endpoint, and the collector's cursor.          *)

\* list_safe_event_journals: open_incarnation under its lock
List ==
    /\ lock = "free" /\ todo.reader = <<>>
    /\ reader.incarnation = None \/ dir.incarnation = None
    /\ lock' = "reader"
    /\ todo' = [todo EXCEPT !.reader = OpenIncarnation \o <<Op("release", None)>>]
    /\ UNCHANGED <<dir, disk, file, synced, writer, reader, appended, long, acked, lost, failed, wiped, minted>>

\* cursor_is_valid
CursorIsValid(cursor) ==
    /\ cursor.segment \in dir.segments /\ ~cursor.inside
    /\ cursor.offset <= Len(file[cursor.segment])
    /\ cursor.offset > 0 => file[cursor.segment][cursor.offset] # Torn

\* read_batch_for_incarnation, up to the segments it discovers
ReadBegin ==
    /\ reader.incarnation # None /\ reader.seen = None /\ lock = "free"
    /\ dir.incarnation # None
    /\ IF dir.incarnation # reader.incarnation
       THEN reader' = [Unlisted EXCEPT !.incarnation = dir.incarnation] /\ UNCHANGED lock
       ELSE reader' = [reader EXCEPT !.seen = dir.segments] /\ lock' = "reader"
    /\ UNCHANGED <<dir, disk, file, synced, writer, todo, appended, long, acked, lost, failed, wiped, minted>>

\* The positions of the records from a position on, in order, up to the first
\* torn one, which is among them once it is too long to wait for.
Positions(segments, from, overlong) ==
    LET all == UNION {{[segment |-> s, offset |-> o, inside |-> file[s][o] = Torn] :
                        o \in DOMAIN file[s]} : s \in segments}
        here == {p \in all : \/ p.segment > from.segment
                             \/ p.segment = from.segment /\ p.offset > from.offset}
        before(p, q) == \/ p.segment < q.segment
                        \/ p.segment = q.segment /\ p.offset < q.offset
        read == {p \in here : \A q \in here :
                    q.inside => before(p, q) \/ (overlong /\ p = q)}
    IN  SetToSortSeq(read, before)

\* read_batch_anchored: a cursor that is not a retained position restarts the
\* read at the oldest segment and says so.  A record too long to return ends
\* the batch, which says so as well, and the next read begins behind it: inside
\* of it (discard_through_newline) if it was not yet written to its end.
ReadBatchFrom(cursor, overlong) ==
    LET restarted == cursor # None /\
            ~(cursor.segment \in reader.seen /\ CursorIsValid(cursor))
        from == IF cursor = None \/ restarted
                THEN [segment |-> Oldest(reader.seen), offset |-> 0] ELSE cursor
        found == Positions(reader.seen, from, overlong)
        record(i) == file[found[i].segment][found[i].offset]
        skip == {i \in 1..Min({Len(found), BatchSize + 1}) : record(i) \in long \union {Torn}}
        count == IF skip # {} THEN Min(skip) - 1 ELSE Min({Len(found), BatchSize})
        last == IF skip # {} THEN Min(skip) ELSE count
    IN  [restarted |-> restarted, skipped |-> skip # {},
         records |-> [i \in 1..count |-> record(i)],
         next |-> IF last > 0 THEN found[last] ELSE IF restarted THEN None ELSE cursor]

\* read_batch_for_incarnation, once the incarnation is known to be current; a
\* record still being written may already be too long.
ReadBatch ==
    {ReadBatchFrom(reader.cursor, overlong) :
        overlong \in {FALSE} \union {appended \in long}}

\* The rest of the read, and the cursor the collector keeps of it.  A segment
\* that was removed after it was discovered fails the read.
ReadEnd ==
    /\ reader.seen # None
    /\ lock' = "free"
    /\ IF reader.seen = {} THEN
            reader' = [reader EXCEPT !.seen = None, !.cursor = None, !.skipped = FALSE,
                                     !.got = IF reader.cursor = None THEN @ ELSE <<>>]
       ELSE IF ~(reader.seen \subseteq dir.segments) THEN
            reader' = [reader EXCEPT !.seen = None]
       ELSE \E batch \in ReadBatch :
            reader' = [reader EXCEPT !.seen = None, !.cursor = batch.next,
                !.skipped = batch.skipped,
                !.got = (IF batch.restarted \/ reader.skipped THEN <<>> ELSE @) \o batch.records]
    /\ UNCHANGED <<dir, disk, file, synced, writer, todo, appended, long, acked, lost, failed, wiped, minted>>

Next ==
    \/ \E p \in {"writer", "reader"} : Do(p) \/ DirectoryError(p)
    \/ OpenBegin \/ OpenSegments \/ Rotate \/ WriteBegin \/ WriteEnd \/ SyncData
    \/ WriteError \/ PowerLoss \/ WriterExit \/ Wipe
    \/ List \/ ReadBegin \/ ReadEnd

Spec == Init /\ [][Next]_vars

-----------------------------------------------------------------------------

Number == Nat \union {None, Torn}

\* Type correctness.
TypeOK ==
    /\ \A d \in {dir, disk} :
        /\ d.next \in Number /\ d.pending \in Number /\ d.marker \in {None, Torn, "whole"}
        /\ d.incarnation \in Number /\ d.incarnationPending \in Number
        /\ d.segments \subseteq Nat
    /\ dir.segments \subseteq DOMAIN file
    /\ writer.phase \in {"closed", "identity", "segments", "open", "refused"}
    /\ lock \in {"free", "writer", "reader"} /\ synced \in BOOLEAN
    /\ appended \in 0..MaxRecords /\ acked \union long \subseteq 1..appended

\* What the collector has read since the last gap it was told of is the
\* journal: no record twice, none out of order, and none missing whose append
\* had succeeded (read_batch_anchored, cursor_is_valid), although segments are
\* removed under it and a power loss may take back what it had already read.
\* The gap lies before a batch that restarted and behind one that skipped a
\* record; the flag it is told by, continuity_gap, does not say which.
NoSilentGap ==
    \A i \in 1..Len(reader.got) - 1 :
        /\ reader.got[i] < reader.got[i + 1]
        /\ \A r \in acked : ~(reader.got[i] < r /\ r < reader.got[i + 1])

Stored == UNION {Range(file[s]) : s \in dir.segments} \ {Torn}

\* An append that succeeded is kept until its segment is the oldest of more
\* than the limit: what is stored is a tail of what was acknowledged, in
\* segments of which at most the limit hold anything, and only the newest may
\* end in a torn record (append_record, rotate, repair_tail).
AckedSurvives ==
    /\ \A r \in acked, s \in Stored : s < r => r \in Stored
    /\ Cardinality({s \in dir.segments : file[s] # <<>>}) <= MaxFiles
    /\ \A s \in dir.segments : Torn \in Range(file[s]) =>
        \A t \in dir.segments : t > s => file[t] = <<>>

\* No sequence of power losses and failed directory operations leaves a journal
\* that a later open refuses (open_next_segment, reserve_next_segment).
AlwaysReopens == writer.phase # "refused"
=============================================================================
