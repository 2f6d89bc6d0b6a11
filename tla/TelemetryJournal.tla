-------------------------- MODULE TelemetryJournal --------------------------
(* The journal poller of the telemetry collector (cloud-mg-telemetry).       *)
(*                                                                           *)
(* It drains the safe-event journals of every registered guardian into an    *)
(* archive of files, one per stream and day.  A batch is fetched, appended   *)
(* to its file and synced, and only then committed: one transaction records  *)
(* the frame in the ledger and moves the cursor, if the target is still the  *)
(* one the poll began with and the stream is where the fetch found it.  What *)
(* the file holds past the ledger is cut off, at once when the commit was    *)
(* refused and at the next start otherwise.                                  *)
(*                                                                           *)
(* A source is the interval of records it retains in its current             *)
(* incarnation, one of which may be too long to be fetched; a cursor is the  *)
(* number of the next record to read.  The journals of a target are drained  *)
(* in any order: stream_offsets only makes the order fair.  A frame takes    *)
(* one unit of the archive's quota.  Of a registration only the row matters  *)
(* that it leaves (TelemetryTargets): "since" in it is the registration that *)
(* brought the endpoint and the capability now in use, and is not stored.    *)
EXTENDS Integers, FiniteSets, Sequences, SequencesExt, FiniteSetsExt

CONSTANTS
    Mgs,             \* Manifold Guardians that may register
    Lease,           \* lease_seconds
    Journals,        \* typed journals a guardian may list
    MaxJournals,     \* max_journals_per_target
    BatchSize,       \* records of a batch at most
    Quota,           \* quota_bytes, in frames
    Retention,       \* log_retention_days
    DayLength,       \* clock units of a reception day
    Workers,         \* log_concurrency
    MaxRecords,      \* bound: records of one incarnation
    LongRecords,     \* bound: the numbers a record too long to be fetched may have
    MaxIncarnations, \* bound: incarnations of one journal
    MaxFailures,     \* bound: stops, crashes and failed appends
    MaxRegistrations,\* bound: registrations admitted
    MaxTime,         \* bound: the clock
    None

VARIABLES
    now,      \* the collector's clock
    target,   \* the rows of targets
    registrations,
    source,   \* the guardian's journals
    stream,   \* journal_streams
    ledger,   \* archive_frames, by stream and day
    file,     \* the archive's files, by stream and day
    used,     \* used_bytes
    poisoned, \* append_poisoned
    pruned,   \* last_pruned_day
    cycle,    \* what poll_once is doing, and the targets it has not begun
    poll,     \* per target, what its task is doing
    closing,  \* a fatal error or a shutdown was announced
    alive,    \* the collector runs
    taken,    \* every frame committed, in order, by stream
    failures

targetVars == <<now, target, registrations>>
journalVars == <<source, stream, ledger, file, used, poisoned, pruned, cycle,
                 poll, closing, alive, taken, failures>>
vars == <<targetVars, journalVars>>

Days == 0..(MaxTime \div DayLength)
Streams == Mgs \X Journals
Idle == [phase |-> "idle", left |-> {}, cutoff |-> 0]
NoFiles == [s \in Streams |-> [d \in Days |-> <<>>]]
Day(time) == time \div DayLength
NewJournal(i) == [incarnation |-> i, first |-> 1, last |-> 0, long |-> None]

Init ==
    /\ now = 0 /\ target = [m \in Mgs |-> None] /\ registrations = 0
    /\ source = [s \in Streams |-> NewJournal(1)]
    /\ stream = [s \in Streams |-> None]
    /\ ledger = NoFiles /\ file = NoFiles /\ taken = [s \in Streams |-> <<>>]
    /\ used = 0 /\ poisoned = FALSE /\ pruned = 0 /\ failures = 0
    /\ cycle = Idle /\ poll = [m \in Mgs |-> None]
    /\ closing = FALSE /\ alive = TRUE

-----------------------------------------------------------------------------
(* The targets.                                                              *)

\* admit: a registration that changes what a poll uses, the endpoint or the
\* capability, raises the revision.  Its time was read before the holder's
\* badge was verified.
Register(m) ==
    /\ registrations < MaxRegistrations
    /\ registrations' = registrations + 1
    /\ \E read \in {now, now - 1} \intersect Nat, changed \in BOOLEAN :
        target' = [target EXCEPT ![m] =
            [lease |-> read + Lease,
             revision |-> IF @ = None THEN 1 ELSE @.revision + (IF changed THEN 1 ELSE 0),
             since |-> IF @ = None \/ changed THEN registrations + 1 ELSE @.since]]
    /\ UNCHANGED <<now, journalVars>>

Tick ==
    /\ now < MaxTime /\ now' = now + 1
    /\ UNCHANGED <<target, registrations, journalVars>>

\* active_collection_targets
Active(m) == target[m] # None /\ target[m].lease > now
ActiveTargets == {m \in Mgs : Active(m)}

\* target_is_current, and the guard of begin_collection_work
TargetIsCurrent(m, revision) == Active(m) /\ target[m].revision = revision

-----------------------------------------------------------------------------
(* The guardian's journals.                                                  *)

\* The journal grows, by a record that may be too long to be fetched, drops its
\* oldest records, or starts over (RollingJournal).
Record(s) ==
    /\ source[s].last < MaxRecords
    /\ \/ source' = [source EXCEPT ![s].last = @ + 1]
       \/ /\ source[s].long = None /\ source[s].last + 1 \in LongRecords
          /\ source' = [source EXCEPT ![s].last = @ + 1, ![s].long = source[s].last + 1]
    /\ UNCHANGED <<targetVars, stream, ledger, file, used, poisoned, pruned, cycle,
                   poll, closing, alive, taken, failures>>

Discard(s) ==
    /\ source[s].first <= source[s].last
    /\ source' = [source EXCEPT ![s].first = @ + 1]
    /\ UNCHANGED <<targetVars, stream, ledger, file, used, poisoned, pruned, cycle,
                   poll, closing, alive, taken, failures>>

Reincarnate(s) ==
    /\ source[s].incarnation < MaxIncarnations
    /\ source' = [source EXCEPT ![s] = NewJournal(@.incarnation + 1)]
    /\ UNCHANGED <<targetVars, stream, ledger, file, used, poisoned, pruned, cycle,
                   poll, closing, alive, taken, failures>>

\* fetch_safe_event_journal for a stream as the collector knows it: a batch that
\* restarted, or that ends where a long record was skipped, says "gap".
Response(s, state) ==
    LET j == source[s]
        restarted == state.cursor # None /\
                        (state.cursor < j.first \/ state.cursor > j.last + 1)
        from == IF state.cursor = None \/ restarted THEN j.first ELSE state.cursor
        skips == j.long # None /\ j.long \in from..from + BatchSize
        upTo == IF skips THEN j.long - 1 ELSE Min({j.last, from + BatchSize - 1})
    IN IF j.incarnation # state.incarnation
       THEN [kind |-> "changed", incarnation |-> j.incarnation]
       ELSE [kind |-> "batch", from |-> from, to |-> upTo, gap |-> restarted \/ skips,
             skips |-> skips,
             next |-> IF skips THEN upTo + 2
                      ELSE IF upTo < from /\ ~restarted THEN state.cursor ELSE upTo + 1]

\* ValidatedJournalBatch::is_empty
IsEmpty(batch) == batch.to < batch.from

-----------------------------------------------------------------------------
(* The archive.                                                              *)

\* A mutant: a batch behind a gap stays in its generation.
FrameUngapped(state, batch) ==
    [incarnation |-> state.incarnation, from |-> batch.from, to |-> batch.to,
     generation |-> state.generation, gap |-> batch.gap, skips |-> batch.skips]

\* ArchiveFrame, with the generation commit_journal_batch records for it.  That
\* a long record follows is not stored; the flag "gap" is.
Frame(state, batch) ==
    [incarnation |-> state.incarnation, from |-> batch.from, to |-> batch.to,
     generation |-> state.generation + (IF batch.gap THEN 1 ELSE 0),
     gap |-> batch.gap, skips |-> batch.skips]
TornFrame == [incarnation |-> 0, from |-> 0, to |-> 0, generation |-> 0,
              gap |-> FALSE, skips |-> FALSE]

\* scan_used_bytes
ScanUsed(files) ==
    MapThenSumSet(LAMBDA k : Len(files[k[1]][k[2]]), Streams \X Days)

\* prune_and_recover's cutoff; subtracting past the epoch keeps everything
Cutoff == IF Day(now) + 1 > Retention THEN Day(now) + 1 - Retention ELSE 0
Since(files, cutoff) ==
    [s \in Streams |-> [d \in Days |-> IF d < cutoff THEN <<>> ELSE files[s][d]]]

\* prune_archive_ledger
PruneLedger == ledger' = Since(ledger, Cutoff)
\* prune_before
PruneFiles(cutoff) ==
    /\ file' = Since(file, cutoff)
    /\ used' = used - (ScanUsed(file) - ScanUsed(file'))

\* verify_and_truncate: the last frame of the ledger is where it should be
Verified(frames, boundary) ==
    boundary # <<>> => Len(boundary) <= Len(frames) /\ frames[Len(boundary)] = Last(boundary)

\* recover_locked: MissingCommitted and Hash
Recoverable(boundaries) == \A s \in Streams, d \in Days : Verified(file[s][d], boundaries[s][d])

\* recover: what stays of the files
Recovered(boundaries) ==
    [s \in Streams |-> [d \in Days |-> SubSeq(file[s][d], 1, Len(boundaries[s][d]))]]

-----------------------------------------------------------------------------
(* poll_once.                                                                *)

Polling == alive /\ cycle.phase = "poll"
Done(m) == poll' = [poll EXCEPT ![m] = None]

\* prune_and_recover, the ledger's half; the day has moved on
PruneBegin ==
    /\ alive /\ ~closing /\ cycle = Idle /\ Cutoff > pruned
    /\ PruneLedger
    /\ cycle' = [phase |-> "prune", left |-> {}, cutoff |-> Cutoff]
    /\ UNCHANGED <<targetVars, source, stream, file, used, poisoned, pruned, poll,
                   closing, alive, taken, failures>>

\* prune_and_recover, the archive's half
PruneEnd ==
    /\ alive /\ cycle.phase = "prune"
    /\ PruneFiles(cycle.cutoff)
    /\ pruned' = cycle.cutoff /\ cycle' = Idle
    /\ UNCHANGED <<targetVars, source, stream, ledger, poisoned, poll, closing,
                   alive, taken, failures>>

\* active_targets; every target gets a task
SpawnTargets ==
    /\ alive /\ ~closing /\ cycle = Idle
    /\ ActiveTargets # {}
    /\ cycle' = [phase |-> "poll", cutoff |-> 0,
                 left |-> {[mg |-> m, revision |-> target[m].revision] : m \in ActiveTargets}]
    /\ UNCHANGED <<targetVars, source, stream, ledger, file, used, poisoned, pruned,
                   poll, closing, alive, taken, failures>>

\* poll_target up to its listing: a permit, begin_work, connect and list.  The
\* task ends when the fence fails, the source does not answer, or it lists too
\* many journals.
BeginTarget(t) ==
    /\ Polling /\ t \in cycle.left /\ poll[t.mg] = None
    /\ Cardinality({m \in Mgs : poll[m] # None}) < Workers
    /\ cycle' = [cycle EXCEPT !.left = @ \ {t}]
    /\ \/ Done(t.mg)
       \/ /\ ~closing /\ TargetIsCurrent(t.mg, t.revision)
          /\ \E listed \in SUBSET Journals \ {{}} :
               /\ Cardinality(listed) <= MaxJournals
               /\ poll' = [poll EXCEPT ![t.mg] =
                    [step |-> "drain", revision |-> t.revision, since |-> target[t.mg].since,
                     left |-> [j \in listed |-> source[<<t.mg, j>>].incarnation]]]
    /\ UNCHANGED <<targetVars, source, stream, ledger, file, used, poisoned, pruned,
                   closing, alive, taken, failures>>

\* poll_once returns when every task was joined
EndCycle ==
    /\ Polling /\ cycle.left = {} /\ \A m \in Mgs : poll[m] = None
    /\ cycle' = Idle
    /\ UNCHANGED <<targetVars, source, stream, ledger, file, used, poisoned, pruned,
                   poll, closing, alive, taken, failures>>

Draining(m, step) == alive /\ poll[m] # None /\ poll[m].step = step

\* The loop of poll_target stops: nothing is left, the budget of time or of
\* batches is spent, a shutdown was announced, or the fence no longer holds.
StopDraining(m) ==
    /\ Draining(m, "drain")
    /\ Done(m)
    /\ UNCHANGED <<targetVars, source, stream, ledger, file, used, poisoned, pruned,
                   cycle, closing, alive, taken, failures>>

Finished(t, j) == [t EXCEPT !.left = [k \in DOMAIN t.left \ {j} |-> t.left[k]]]

\* open_journal_stream: the row a poll goes on from
OpenedStream(s, listed) ==
    LET row == stream[s] IN
    IF row = None THEN [incarnation |-> listed, cursor |-> None, generation |-> 0, gaps |-> 0]
    ELSE IF row.incarnation = listed THEN row
    ELSE [incarnation |-> listed, cursor |-> None, generation |-> row.generation + 1,
          gaps |-> row.gaps + 1]

\* One turn of the loop: begin_work again, then open_journal_stream.  A target
\* with too many streams skips the journal (StoreError::Saturated).
OpenJournalStream(m, j) ==
    /\ Draining(m, "drain") /\ ~closing /\ j \in DOMAIN poll[m].left
    /\ TargetIsCurrent(m, poll[m].revision)
    /\ IF stream[<<m, j>>] = None
          /\ Cardinality({k \in Journals : stream[<<m, k>>] # None}) >= MaxJournals
       THEN poll' = [poll EXCEPT ![m] = Finished(@, j)] /\ UNCHANGED stream
       ELSE LET state == OpenedStream(<<m, j>>, poll[m].left[j]) IN
            /\ stream' = [stream EXCEPT ![<<m, j>>] = state]
            /\ poll' = [poll EXCEPT ![m] =
                [step |-> "fetch", revision |-> @.revision, since |-> @.since,
                 left |-> @.left, journal |-> j, state |-> state]]
    /\ UNCHANGED <<targetVars, source, ledger, file, used, poisoned, pruned, cycle,
                   closing, alive, taken, failures>>

\* JournalSession::fetch; an answer that does not come ends the task
Fetch(m) ==
    /\ Draining(m, "fetch")
    /\ \/ Done(m)
       \/ LET t == poll[m]  answer == Response(<<m, t.journal>>, t.state) IN
          poll' = [poll EXCEPT ![m] =
            [step |-> IF answer.kind = "batch" /\ ~IsEmpty(answer) THEN "append" ELSE "commit",
             revision |-> t.revision, since |-> t.since, left |-> t.left,
             journal |-> t.journal, state |-> t.state, answer |-> answer, frame |-> None]]
    /\ UNCHANGED <<targetVars, source, stream, ledger, file, used, poisoned, pruned,
                   cycle, closing, alive, taken, failures>>

\* JournalArchive::append; Capacity ends the task
AppendFrame(m) ==
    /\ Draining(m, "append") /\ ~poisoned
    /\ LET t == poll[m]  s == <<m, t.journal>>  d == Day(now) IN
       IF used + 1 > Quota
       THEN Done(m) /\ UNCHANGED <<file, used>>
       ELSE /\ used' = used + 1
            /\ file' = [file EXCEPT ![s][d] = @ \o <<Frame(t.state, t.answer)>>]
            /\ poll' = [poll EXCEPT ![m].step = "commit",
                        ![m].frame = [day |-> d, start |-> Len(file[s][d])]]
    /\ UNCHANGED <<targetVars, source, stream, ledger, poisoned, pruned, cycle,
                   closing, alive, taken, failures>>

\* append_reserved fails after it wrote nothing, a part or everything, or an
\* earlier append had failed: the error is fatal for the collector.
AppendFails(m) ==
    /\ Draining(m, "append")
    /\ LET t == poll[m]  s == <<m, t.journal>>  d == Day(now) IN
       \/ poisoned /\ UNCHANGED <<file, used, poisoned, failures>>
       \/ /\ ~poisoned /\ used + 1 <= Quota /\ failures < MaxFailures
          /\ failures' = failures + 1 /\ poisoned' = TRUE /\ used' = used + 1
          /\ \E written \in {<<>>, <<TornFrame>>, <<Frame(t.state, t.answer)>>} :
               file' = [file EXCEPT ![s][d] = @ \o written]
    /\ Done(m) /\ closing' = TRUE
    /\ UNCHANGED <<targetVars, source, stream, ledger, pruned, cycle, alive, taken>>

\* A mutant: the commit trusts the fence of begin_work.
CursorMatchesUnfenced(m) ==
    LET t == poll[m]  row == stream[<<m, t.journal>>] IN
    /\ row.incarnation = t.state.incarnation /\ row.generation = t.state.generation
    /\ t.answer.kind = "batch" => row.cursor = t.state.cursor

\* target_is_current and the comparisons of commit_journal_batch and
\* commit_incarnation_change, which does not look at the cursor
CursorMatches(m) ==
    LET t == poll[m]  row == stream[<<m, t.journal>>] IN
    /\ TargetIsCurrent(m, t.revision)
    /\ row.incarnation = t.state.incarnation /\ row.generation = t.state.generation
    /\ t.answer.kind = "batch" => row.cursor = t.state.cursor

\* commit_journal_batch
CommitBatch(m) ==
    LET t == poll[m]  s == <<m, t.journal>>  frame == Frame(t.state, t.answer) IN
    /\ t.answer.kind = "batch"
    /\ stream' = [stream EXCEPT ![s] =
        [incarnation |-> @.incarnation, cursor |-> t.answer.next,
         generation |-> frame.generation,
         gaps |-> @.gaps + (IF t.answer.gap THEN 1 ELSE 0)]]
    /\ IF t.frame = None THEN UNCHANGED <<ledger, taken>>
       ELSE /\ ledger' = [ledger EXCEPT ![s][t.frame.day] = @ \o <<frame>>]
            /\ taken' = [taken EXCEPT ![s] = @ \o <<frame>>]

\* commit_incarnation_change
CommitIncarnation(m) ==
    LET t == poll[m]  s == <<m, t.journal>> IN
    /\ t.answer.kind = "changed"
    /\ stream' = [stream EXCEPT ![s] =
        [incarnation |-> t.answer.incarnation, cursor |-> None,
         generation |-> @.generation + 1, gaps |-> @.gaps + 1]]
    /\ UNCHANGED <<ledger, taken>>

\* commit_if_current, and what poll_target makes of its outcome
Commit(m) ==
    /\ Draining(m, "commit") /\ CursorMatches(m)
    /\ CommitBatch(m) \/ CommitIncarnation(m)
    /\ LET t == poll[m]
           next == [step |-> "drain", revision |-> t.revision, since |-> t.since,
                    left |-> t.left]
       IN poll' = [poll EXCEPT ![m] =
            IF t.answer.kind = "changed" \/ IsEmpty(t.answer)
            THEN Finished(next, t.journal) ELSE next]
    /\ UNCHANGED <<targetVars, source, file, used, poisoned, pruned, cycle, closing,
                   alive, failures>>

\* commit_if_current: Stale, and truncate_uncommitted
CommitStale(m) ==
    /\ Draining(m, "commit") /\ ~CursorMatches(m)
    /\ LET t == poll[m]  s == <<m, t.journal>> IN
       /\ IF t.frame = None THEN UNCHANGED <<file, used>>
          ELSE /\ file' = [file EXCEPT ![s][t.frame.day] = SubSeq(@, 1, t.frame.start)]
               /\ used' = used - 1
       /\ poll' = [poll EXCEPT ![m] =
            Finished([step |-> "drain", revision |-> t.revision, since |-> t.since,
                      left |-> t.left], t.journal)]
    /\ UNCHANGED <<targetVars, source, stream, ledger, poisoned, pruned, cycle,
                   closing, alive, taken, failures>>

-----------------------------------------------------------------------------
(* supervise and serve.                                                      *)

\* Everything in memory goes; what was appended and not committed stays.
Dies ==
    /\ alive' = FALSE /\ closing' = FALSE
    /\ cycle' = Idle /\ poll' = [m \in Mgs |-> None]
    /\ UNCHANGED <<source, stream, ledger, file, used, poisoned, pruned, taken>>

\* supervise: the workers are joined before the process exits
Exit ==
    /\ alive /\ closing /\ \A m \in Mgs : poll[m] = None
    /\ Dies
    /\ UNCHANGED <<targetVars, failures>>

\* serve's shutdown signal, or a listener that failed
Shutdown ==
    /\ alive /\ ~closing /\ failures < MaxFailures
    /\ failures' = failures + 1 /\ closing' = TRUE
    /\ UNCHANGED <<targetVars, source, stream, ledger, file, used, poisoned, pruned,
                   cycle, poll, alive, taken>>

Crash ==
    /\ alive /\ failures < MaxFailures
    /\ failures' = failures + 1
    /\ Dies
    /\ UNCHANGED targetVars

\* serve: JournalArchive::open, prune_archive_ledger and recover
Start ==
    /\ ~alive
    /\ Recoverable(Since(ledger, Cutoff))
    /\ PruneLedger
    /\ file' = Recovered(ledger')
    /\ used' = ScanUsed(file')
    /\ poisoned' = FALSE /\ pruned' = Cutoff /\ alive' = TRUE
    /\ UNCHANGED <<targetVars, source, stream, cycle, poll, closing, taken, failures>>

Next ==
    \/ Tick
    \/ alive /\ \E m \in Mgs : Register(m)
    \/ \E s \in Streams : Record(s) \/ Discard(s) \/ Reincarnate(s)
    \/ PruneBegin \/ PruneEnd \/ SpawnTargets \/ EndCycle
    \/ \E t \in cycle.left : BeginTarget(t)
    \/ \E m \in Mgs :
        \/ \E j \in Journals : OpenJournalStream(m, j)
        \/ StopDraining(m) \/ Fetch(m) \/ AppendFrame(m) \/ AppendFails(m)
        \/ Commit(m) \/ CommitStale(m)
    \/ Exit \/ Shutdown \/ Crash \/ Start

Spec == Init /\ [][Next]_vars

-----------------------------------------------------------------------------

TypeOK ==
    /\ \A m \in Mgs :
        Cardinality({j \in Journals : stream[<<m, j>>] # None}) <= MaxJournals
    /\ used \in 0..Quota /\ {poisoned, closing, alive} \subseteq BOOLEAN

\* What the ledger says was archived is in the files, so that a start after a
\* stop at any moment finds every committed frame (prune_archive_ledger before
\* prune_before, append before commit_journal_batch, recover).
CommittedIsArchived ==
    \A s \in Streams, d \in Days : IsPrefix(ledger[s][d], file[s][d])

\* Within one generation of a stream the committed frames are consecutive
\* records of one incarnation: none is lost and none is there twice, unless the
\* stream counted a gap (open_journal_stream, commit_journal_batch,
\* commit_incarnation_change).  The gap of a skipped record is counted with the
\* frame before it, which opens the generation: the frame behind it is in that
\* generation too, and only the flag of the earlier frame tells of the loss.
ArchiveIsContiguous ==
    \A s \in Streams :
        /\ stream[s] # None => stream[s].generation = stream[s].gaps
        /\ \A i \in 1..(Len(taken[s]) - 1) :
            LET f == taken[s][i]  g == taken[s][i + 1] IN
            \/ g.generation > f.generation
            \/ /\ g.generation = f.generation /\ g.incarnation = f.incarnation
               /\ g.from = IF f.gap /\ f.skips THEN f.to + 2 ELSE f.to + 1

\* The quota counts what the files hold, and every frame beyond the ledger
\* belongs to a commit that is still to come, or the archive takes no more
\* until it was recovered (append, truncate_uncommitted, append_poisoned).
UsageIsCounted ==
    alive /\ ~poisoned =>
        /\ used = ScanUsed(file)
        /\ \A s \in Streams, d \in Days :
            Len(file[s][d]) > Len(ledger[s][d]) =>
                \/ cycle.phase = "prune"
                \/ /\ Len(file[s][d]) = Len(ledger[s][d]) + 1
                   /\ poll[s[1]] # None /\ poll[s[1]].step = "commit"
                   /\ poll[s[1]].journal = s[2] /\ poll[s[1]].frame.day = d

\* What a poll fetched, a batch, an empty answer or a new incarnation, moves the
\* stream only if the guardian has kept the endpoint and the capability that
\* the poll connected with ever since, although a registration may have changed
\* them and changed them back; and only while its lease lasts (admit,
\* begin_work, target_is_current in commit_journal_batch and in
\* commit_incarnation_change).
CommitsAreFenced ==
    \A m \in Mgs : \A j \in Journals :
        stream'[<<m, j>>] # stream[<<m, j>>] =>
            poll[m].since = target[m].since /\ target[m].lease > now
=============================================================================
