----------------------------- MODULE FlipBackup -----------------------------
(***************************************************************************)
(* The liquidity manager's backup barrier (daemon.rs: WorkQuiescence, lib.rs:*)
(* run_interval_task, backup.rs: create_backup_within).  The durable state  *)
(* spans SQLite and the target clients' directories.  Every periodic worker *)
(* pass holds the read side of a fair, write-preferring lock; a backup      *)
(* holds the write side while it copies SQLite and then the directories,    *)
(* or gives up when the passes in flight do not end in time.                *)
(*                                                                          *)
(* What a pass does to the two stores is the deposit of StabilityDeposit:   *)
(* the intent is recorded, the client acts, the result is recorded.         *)
(*                                                                          *)
(* Restore mode (daemon.rs: run_restore_daemon, backup.rs: RestoreTarget):  *)
(* concurrent restore_backup calls stage archives beside an empty data      *)
(* directory and one of them moves its entries in, one rename at a time.    *)
(* The directory may then be started by a normal daemon.                    *)
(***************************************************************************)
EXTENDS Integers, Sequences, SequencesExt, FiniteSets

CONSTANTS Workers,  \* periodic workers, each over its own client
          Backups,  \* create_backup calls
          Calls,    \* restore_backup calls, each with its own archive
          Archives, \* what each of those archives is
          Entries,  \* the archive's entries, in rename order
          MaxOps,   \* bound: client operations per worker
          MaxStops, \* bound: process deaths
          None

VARIABLES holders, \* who holds the lock
          queue,   \* who waits for it, in arrival order
          pass,    \* the step each worker's pass is at
          sql,     \* SQLite: the operation a worker records and its phase
          client,  \* the client's directory: the last operation it holds
          backup,  \* per call: where it is, what it has copied
          root,    \* the restored directory: whose archive an entry came from
          busy,    \* RestoreTarget: who holds it
          call,    \* per restore call: where it is and the entry it is at
          done,    \* restore calls that reported success
          stops

barrier == <<holders, queue, pass, sql, client, backup>>
target == <<root, busy, call, done>>
vars == <<holders, queue, pass, sql, client, backup, root, busy, call, done, stops>>

Idle == [pc |-> "idle", sql |-> <<>>, client |-> <<>>]
IdleCall == [pc |-> "idle", at |-> 1]
Names == {Entries[i] : i \in DOMAIN Entries}
Empty == \A e \in Names : root[e] = None

Init ==
    /\ holders = {} /\ queue = <<>>
    /\ pass = [w \in Workers |-> "idle"]
    /\ sql = [w \in Workers |-> [op |-> 0, phase |-> "done"]]
    /\ client = [w \in Workers |-> 0]
    /\ backup = [b \in Backups |-> Idle]
    /\ root = [e \in Names |-> None] /\ busy = None
    /\ call = [c \in Calls |-> IdleCall] /\ done = {}
    /\ stops = 0

----------------------------------------------------------------------------
(* tokio's RwLock: first come, first served; readers share.                  *)

Enqueue(c) == queue' = Append(queue, c)

Admits(c) == IF c \in Backups THEN holders = {} ELSE holders \cap Backups = {}

Granted(c) ==
    /\ queue # <<>> /\ Head(queue) = c /\ Admits(c)
    /\ queue' = Tail(queue) /\ holders' = holders \cup {c}

----------------------------------------------------------------------------
(* run_interval_task                                                         *)

Tick(w) ==
    /\ pass[w] = "idle"
    /\ pass' = [pass EXCEPT ![w] = "waiting"] /\ Enqueue(w)
    /\ UNCHANGED <<holders, sql, client, backup, target, stops>>

PassStarts(w) ==
    /\ pass[w] = "waiting" /\ Granted(w)
    /\ pass' = [pass EXCEPT ![w] = "intent"]
    /\ UNCHANGED <<sql, client, backup, target, stops>>

\* The pass records the operation it is about to make, or resumes one.
RecordIntent(w) ==
    /\ pass[w] = "intent"
    /\ sql[w].phase = "done" => sql[w].op < MaxOps
    /\ sql' = IF sql[w].phase = "done"
              THEN [sql EXCEPT ![w] = [op |-> @.op + 1, phase |-> "submitting"]] ELSE sql
    /\ pass' = [pass EXCEPT ![w] = "client"]
    /\ UNCHANGED <<holders, queue, client, backup, target, stops>>

ActOnClient(w) ==
    /\ pass[w] = "client"
    /\ client' = [client EXCEPT ![w] = sql[w].op]
    /\ pass' = [pass EXCEPT ![w] = "result"]
    /\ UNCHANGED <<holders, queue, sql, backup, target, stops>>

RecordResult(w) ==
    /\ pass[w] = "result"
    /\ sql' = [sql EXCEPT ![w].phase = "done"]
    /\ pass' = [pass EXCEPT ![w] = "ending"]
    /\ UNCHANGED <<holders, queue, client, backup, target, stops>>

\* The pass ends, early when a dependency fails or there is nothing to do.
PassEnds(w) ==
    /\ pass[w] \in {"intent", "client", "result", "ending"}
    /\ pass' = [pass EXCEPT ![w] = "idle"] /\ holders' = holders \ {w}
    /\ UNCHANGED <<queue, sql, client, backup, target, stops>>

----------------------------------------------------------------------------
(* create_backup_within                                                      *)

CreateBackup(b) ==
    /\ backup[b].pc = "idle"
    /\ backup' = [backup EXCEPT ![b] = [Idle EXCEPT !.pc = "waiting"]] /\ Enqueue(b)
    /\ UNCHANGED <<holders, pass, sql, client, target, stops>>

QuiescedUnlocked(b) ==
    /\ backup[b].pc = "waiting"
    /\ queue' = Remove(queue, b) /\ UNCHANGED holders
    /\ backup' = [backup EXCEPT ![b].pc = "sqlite"]
    /\ UNCHANGED <<pass, sql, client, target, stops>>

Quiesced(b) ==
    /\ backup[b].pc = "waiting" /\ Granted(b)
    /\ backup' = [backup EXCEPT ![b].pc = "sqlite"]
    /\ UNCHANGED <<pass, sql, client, target, stops>>

\* BACKUP_QUIESCENCE_TIMEOUT: the call is refused and leaves the queue.
TimedOutIn(b, left) ==
    /\ backup[b].pc = "waiting"
    /\ queue' = left
    /\ backup' = [backup EXCEPT ![b] = Idle]
    /\ UNCHANGED <<holders, pass, sql, client, target, stops>>

Timeout(b) == TimedOutIn(b, Remove(queue, b))

\* stage_payload: VACUUM INTO, then every other file.
StageSqlite(b) ==
    /\ backup[b].pc = "sqlite"
    /\ backup' = [backup EXCEPT ![b].pc = "files", ![b].sql = sql]
    /\ UNCHANGED <<holders, queue, pass, sql, client, target, stops>>

\* The barrier is released before the archive is written from the copy.
StageFiles(b) ==
    /\ backup[b].pc = "files"
    /\ backup' = [backup EXCEPT ![b].pc = "copied", ![b].client = client]
    /\ holders' = holders \ {b}
    /\ UNCHANGED <<queue, pass, sql, client, target, stops>>

StageFails(b) ==
    /\ backup[b].pc \in {"sqlite", "files"}
    /\ backup' = [backup EXCEPT ![b] = Idle] /\ holders' = holders \ {b}
    /\ UNCHANGED <<queue, pass, sql, client, target, stops>>

\* The archive is written beside its name and renamed when it is complete.
CreateArchive(b) ==
    /\ backup[b].pc = "copied"
    /\ backup' = [backup EXCEPT ![b].pc = "archived"]
    /\ UNCHANGED <<holders, queue, pass, sql, client, target, stops>>

\* An entry cannot be read, is a symbolic link or has a reserved name.
CollectFails(b) ==
    /\ backup[b].pc = "copied"
    /\ backup' = [backup EXCEPT ![b] = Idle]
    /\ UNCHANGED <<holders, queue, pass, sql, client, target, stops>>

\* The operator asks again later.
ArchiveKept(b) ==
    /\ backup[b].pc = "archived"
    /\ backup' = [backup EXCEPT ![b] = Idle]
    /\ UNCHANGED <<holders, queue, pass, sql, client, target, stops>>

----------------------------------------------------------------------------
(* restore_backup in restore mode                                            *)

Goto(c, pc) == call' = [call EXCEPT ![c] = [pc |-> pc, at |-> 1]]
Leave(c) == Goto(c, "idle") /\ busy' = IF busy = c THEN None ELSE busy

\* RestoreTarget::begin rejects a second caller; then the target must be empty.
BeginWith(c, held) ==
    /\ call[c].pc = "idle" /\ c \notin done
    /\ held
    /\ IF Empty THEN Goto(c, "stage") ELSE Leave(c)
    /\ UNCHANGED <<barrier, root, done, stops>>

Begin(c) == BeginWith(c, busy = None /\ busy' = IF Empty THEN c ELSE None)

Staged(c, from, to, passes) ==
    /\ call[c].pc = from
    /\ IF passes THEN Goto(c, to) /\ UNCHANGED busy ELSE Leave(c)
    /\ UNCHANGED <<barrier, root, done, stops>>

\* Every entry is readable, named once and within the archive, and the manifest
\* is there and of this format.
InspectArchive(c) == Staged(c, "stage", "extract", Archives[c] # "malformed")

\* The files unpacked are exactly the files recorded, with the digests recorded.
ExtractArchive(c) == Staged(c, "extract", "validate", Archives[c] # "corrupt")

\* The restored database opens and the key at hand decrypts its secrets.
ValidateRestoredState(c) == Staged(c, "validate", "recheck", Archives[c] # "sealed")

Recheck(c) == Staged(c, "recheck", "move", Empty)

\* move_staged_contents
MoveUpTo(c, last) ==
    /\ call[c].pc = "move"
    /\ IF call[c].at <= last
       THEN /\ root' = [root EXCEPT ![Entries[call[c].at]] = c]
            /\ call' = [call EXCEPT ![c].at = @ + 1]
            /\ UNCHANGED <<busy, done>>
       ELSE Leave(c) /\ done' = done \cup {c} /\ UNCHANGED root
    /\ UNCHANGED <<barrier, stops>>

Move(c) == MoveUpTo(c, Len(Entries))

MoveFails(c) ==
    /\ call[c].pc = "move" /\ call[c].at <= Len(Entries) /\ stops < MaxStops
    /\ Leave(c) /\ stops' = stops + 1
    /\ UNCHANGED <<barrier, root, done>>

Crash ==
    /\ stops < MaxStops /\ stops' = stops + 1
    /\ holders' = {} /\ queue' = <<>>
    /\ pass' = [w \in Workers |-> "idle"]
    /\ backup' = [b \in Backups |-> IF backup[b].pc = "archived" THEN backup[b] ELSE Idle]
    /\ call' = [c \in Calls |-> IdleCall] /\ busy' = None
    /\ UNCHANGED <<sql, client, root, done>>

\* The operator clears a directory that a failed restore left behind.
ClearRoot ==
    /\ ~Empty /\ busy = None /\ done = {} /\ \A c \in Calls : call[c].pc = "idle"
    /\ root' = [e \in Names |-> None]
    /\ UNCHANGED <<barrier, busy, call, done, stops>>

\* A daemon in restore mode serves nothing else.
RestoreCall(c) ==
    \/ Begin(c) \/ InspectArchive(c) \/ ExtractArchive(c)
    \/ ValidateRestoredState(c) \/ Recheck(c) \/ Move(c) \/ MoveFails(c)

Next ==
    \/ \E w \in Workers : \/ Tick(w) \/ PassStarts(w) \/ RecordIntent(w)
                          \/ ActOnClient(w) \/ RecordResult(w) \/ PassEnds(w)
    \/ \E b \in Backups : \/ CreateBackup(b) \/ Quiesced(b) \/ Timeout(b) \/ StageSqlite(b)
                          \/ StageFiles(b) \/ StageFails(b) \/ CreateArchive(b)
                          \/ CollectFails(b) \/ ArchiveKept(b)
    \/ \E c \in Calls : RestoreCall(c)
    \/ Crash \/ ClearRoot

Spec == Init /\ [][Next]_vars

----------------------------------------------------------------------------
Phases == [op : 0..MaxOps, phase : {"done", "submitting"}]

\* The type invariant; whoever waits in the queue is waiting for the lock, and
\* only the holder of the target works on the directory.
TypeOK ==
    /\ holders \subseteq Workers \cup Backups
    /\ pass \in [Workers -> {"idle", "waiting", "intent", "client", "result", "ending"}]
    /\ sql \in [Workers -> Phases] /\ client \in [Workers -> 0..MaxOps]
    /\ \A b \in Backups : backup[b].pc \in {"idle", "waiting", "sqlite", "files", "copied", "archived"}
    /\ root \in [Names -> Calls \cup {None}] /\ busy \in Calls \cup {None}
    /\ call \in [Calls -> [pc : {"idle", "stage", "extract", "validate", "recheck", "move"},
                           at : 1..(Len(Entries) + 1)]]
    /\ \A c \in Calls : call[c].pc # "idle" => busy = c
    /\ done \subseteq Calls /\ stops \in 0..MaxStops
    /\ IsInjective(queue)
    /\ \A i \in DOMAIN queue : IF queue[i] \in Workers THEN pass[queue[i]] = "waiting"
                               ELSE backup[queue[i]].pc = "waiting"

\* An archive has one recovery point for both stores: it never holds a client
\* that is ahead of what its SQLite copy records, nor a recorded result the
\* client does not have (CLAIM-official-backup-lacks-common-recovery-point).
CommonRecoveryPoint ==
    \A b \in Backups : backup[b].pc = "archived" =>
        \A w \in Workers :
            LET s == backup[b].sql[w]
                c == backup[b].client[w]
            IN  IF s.phase = "done" THEN c = s.op ELSE c \in {s.op - 1, s.op}

\* The data root never holds entries of two archives, however the calls
\* interleave, fail and are repeated after crashes
\* (CLAIM-concurrent-restore-merges-two-archives).
OneArchivePerRoot ==
    \A d, e \in Names : root[d] # None /\ root[e] # None => root[d] = root[e]

\* A restore that reported success left its whole archive in place, no later
\* call disturbs it, and nothing of an archive that is not whole is ever in the
\* data root (restore_backup, extract_archive, verify_checksums).
ReportedIsComplete ==
    /\ \A c \in done : \A e \in Names : root[e] = c
    /\ \A e \in Names : root[e] # None => Archives[root[e]] = "whole"

=============================================================================
