---------------------------- MODULE TargetClients ----------------------------
(***************************************************************************)
(* The bounded pool of target-federation Fedimint clients                  *)
(* (target_fedimint.rs).                                                   *)
(*                                                                         *)
(* A client is named by the sequence number of the open that built it.     *)
(* An open runs on a task of its own, takes the RocksDB file lock of its   *)
(* federation, builds the client, and installs it if its slot still names  *)
(* it.  Callers hold a per-federation mutex from the check of the slot to  *)
(* the answer of the open; they may be dropped at any await.  The pool's   *)
(* own mutex is held for single steps only, so it is not a variable.       *)
(***************************************************************************)
EXTENDS Naturals, Sequences, FiniteSets, SequencesExt

CONSTANTS
  Feds, Callers,
  MaxOpen,      \* --max-open-target-clients
  MaxPending,   \* MAX_PENDING_OPENS
  MaxCalls, MaxOpens, MaxEvicts,
  None

Seqs == 1 .. MaxOpens

VARIABLES
  clients,   \* federation -> installed client, or None
  usage,     \* federations of installed clients, least recently used first
  opens,     \* federation -> the open in flight the pool waits for, or None
  locks,     \* federation -> the caller that holds its mutex, or None
  tasks,     \* open -> [fed, stage, epoch], for the opens started so far
  results,   \* open -> the published answer
  file,      \* federation -> the open or client that holds its file lock
  closing,   \* clients whose shutdown is running
  ops,       \* the callers
  calls,
  evicts     \* federation -> how often its client was evicted

vars == <<clients, usage, opens, locks, tasks, results, file, closing, ops, calls, evicts>>

Gone == [pc |-> "idle", fed |-> None, victim |-> None, seq |-> None]

Init ==
  /\ clients = [f \in Feds |-> None]
  /\ usage = <<>>
  /\ opens = [f \in Feds |-> None]
  /\ locks = [f \in Feds |-> None]
  /\ tasks = <<>>
  /\ results = <<>>
  /\ file = [f \in Feds |-> None]
  /\ closing = {}
  /\ ops = [c \in Callers |-> Gone]
  /\ calls = 0
  /\ evicts = [f \in Feds |-> 0]

Touched(f) == Append(SelectSeq(usage, LAMBDA g : g # f), f)
Untouched(f) == SelectSeq(usage, LAMBDA g : g # f)
Installed == {f \in Feds : clients[f] # None}
Pending == {f \in Feds : opens[f] # None}

\* Who holds a reference to client s besides the client map: callers using
\* it, callers about to receive it, and the slot that still carries it.
Held(s) ==
  \/ \E c \in Callers : ops[c].seq = s
  \/ \E f \in Feds : opens[f] = s

Idle(f) == clients[f] # None /\ ~Held(clients[f])

Unlocked(c) == [f \in Feds |-> IF locks[f] = c THEN None ELSE locks[f]]

\* The caller leaves with client s and releases the mutex it holds.
Serve(c, s) ==
  /\ ops' = [ops EXCEPT ![c] = [Gone EXCEPT !.pc = "using", !.fed = ops[c].fed, !.seq = s]]
  /\ locks' = Unlocked(c)

Fail(c) ==
  /\ ops' = [ops EXCEPT ![c] = Gone]
  /\ locks' = Unlocked(c)

\* A read of the cache, a step at the start and after every wait.
Cached(c, miss) ==
  LET f == ops[c].fed
  IN  \/ clients[f] # None /\ usage' = Touched(f) /\ Serve(c, clients[f])
      \/ clients[f] = None /\ UNCHANGED usage /\ miss

(***************************************************************************)
(* create_or_load.                                                         *)
(***************************************************************************)
Call(c, f) ==
  /\ ops[c].pc = "idle" /\ calls < MaxCalls
  /\ calls' = calls + 1
  /\ IF clients[f] # None
       THEN /\ usage' = Touched(f)
            /\ ops' = [ops EXCEPT ![c] = [Gone EXCEPT !.pc = "using", !.fed = f,
                                                      !.seq = clients[f]]]
       ELSE /\ ops' = [ops EXCEPT ![c] = [Gone EXCEPT !.pc = "room", !.fed = f]]
            /\ UNCHANGED usage
  /\ UNCHANGED <<clients, opens, locks, tasks, results, file, closing, evicts>>

IdleClients == SelectSeq(usage, Idle)

\* make_room: one turn of its loop, which ends with room, with every client
\* in use, or with the least recently used idle client as its victim.
MakeRoom(c) ==
  /\ ops[c].pc = "room"
  /\ \/ /\ Cardinality(Installed) < MaxOpen \/ IdleClients = <<>>
        /\ ops' = [ops EXCEPT ![c].pc = "lookup"]
     \/ /\ Cardinality(Installed) >= MaxOpen /\ IdleClients # <<>>
        /\ ops' = [ops EXCEPT ![c].pc = "evict", ![c].victim = Head(IdleClients)]
  /\ UNCHANGED <<clients, usage, opens, locks, tasks, results, file, closing, calls, evicts>>

EvictIfIdleWhen(c, idle) ==
  LET v == ops[c].victim
  IN  /\ ops[c].pc = "evict" /\ locks[v] = None
      /\ \/ /\ idle
            /\ closing' = closing \cup {clients[v]}
            /\ clients' = [clients EXCEPT ![v] = None]
            /\ usage' = Untouched(v)
            /\ ops' = [ops EXCEPT ![c].pc = "room", ![c].victim = None]
         \/ /\ ~idle
            /\ ops' = [ops EXCEPT ![c].pc = "lookup", ![c].victim = None]
            /\ UNCHANGED <<closing, clients, usage>>
      /\ UNCHANGED <<opens, locks, tasks, results, file, calls, evicts>>

\* evict_if_idle, under the victim's mutex; its shutdown runs on a task.
EvictIfIdle(c) == EvictIfIdleWhen(c, Idle(ops[c].victim))

\* The second read of the cache, before the federation's mutex is awaited.
Lookup(c) ==
  /\ ops[c].pc = "lookup"
  /\ Cached(c, ops' = [ops EXCEPT ![c].pc = "await"] /\ UNCHANGED locks)
  /\ UNCHANGED <<clients, opens, tasks, results, file, closing, calls, evicts>>

Acquire(c) ==
  /\ ops[c].pc = "await" /\ locks[ops[c].fed] = None
  /\ locks' = [locks EXCEPT ![ops[c].fed] = c]
  /\ ops' = [ops EXCEPT ![c].pc = "locked"]
  /\ UNCHANGED <<clients, usage, opens, tasks, results, file, closing, calls, evicts>>

\* The third read, then the endpoint policy, which may refuse the invite.
CheckInvite(c) ==
  /\ ops[c].pc = "locked"
  /\ \/ Cached(c, ops' = [ops EXCEPT ![c].pc = "slot"] /\ UNCHANGED locks)
     \/ clients[ops[c].fed] = None /\ Fail(c) /\ UNCHANGED usage
  /\ UNCHANGED <<clients, opens, tasks, results, file, closing, calls, evicts>>

Wait(c, s) == ops' = [ops EXCEPT ![c].pc = "wait", ![c].seq = s]

OpenSlotWith(c, attach, room) ==
  LET f == ops[c].fed
      s == Len(tasks) + 1
  IN  /\ ops[c].pc = "slot" /\ s \in Seqs
      /\ \/ Cached(c, FALSE) /\ UNCHANGED <<opens, tasks>>
         \/ /\ clients[f] = None /\ attach
            /\ Wait(c, opens[f]) /\ UNCHANGED <<opens, tasks, usage, locks>>
         \/ /\ clients[f] = None /\ ~attach /\ ~room
            /\ Fail(c) /\ UNCHANGED <<opens, tasks, usage>>
         \/ /\ clients[f] = None /\ ~attach /\ room
            /\ opens' = [opens EXCEPT ![f] = s]
            /\ tasks' = Append(tasks, [fed |-> f, stage |-> "flock", epoch |-> evicts[f]])
            /\ Wait(c, s)
            /\ UNCHANGED <<usage, locks>>
      /\ UNCHANGED <<clients, results, file, closing, calls, evicts>>

\* open_slot: the installed client, the open in flight, a refusal, or a new
\* open, decided under one guard.
OpenSlot(c) ==
  OpenSlotWith(c, opens[ops[c].fed] # None, Cardinality(Pending) < MaxPending)

Answered(s) == \E i \in 1 .. Len(results) : results[i].seq = s
Succeeded(s) == \E i \in 1 .. Len(results) : results[i] = [seq |-> s, ok |-> TRUE]

\* The answer of the open reaches a waiter.
Receive(c) ==
  /\ ops[c].pc = "wait" /\ Answered(ops[c].seq)
  /\ IF Succeeded(ops[c].seq) THEN Serve(c, ops[c].seq) ELSE Fail(c)
  /\ UNCHANGED <<clients, usage, opens, tasks, results, file, closing, calls, evicts>>

\* Client s closes when its last reference goes and no map entry holds it.
Orphaned(s, c) ==
  /\ Succeeded(s)
  /\ \A f \in Feds : clients[f] # s /\ opens[f] # s
  /\ \A d \in Callers \ {c} : ops[d].seq # s

Release(c) ==
  /\ ops[c].pc = "using"
  /\ closing' = IF Orphaned(ops[c].seq, c) THEN closing \cup {ops[c].seq} ELSE closing
  /\ Fail(c)
  /\ UNCHANGED <<clients, usage, opens, tasks, results, file, calls, evicts>>

CancelWith(c, dropped) ==
  /\ ops[c].pc \notin {"idle", "using"}
  /\ closing' = IF ops[c].pc = "wait" /\ Orphaned(ops[c].seq, c)
                  THEN closing \cup {ops[c].seq} ELSE closing
  /\ Fail(c)
  /\ tasks' = [s \in 1 .. Len(tasks) |->
                 IF s \in dropped THEN [tasks[s] EXCEPT !.stage = "done"] ELSE tasks[s]]
  /\ UNCHANGED <<clients, usage, opens, results, file, calls, evicts>>

\* A dropped caller takes the open it started with it.
CancelOpen(c) ==
  CancelWith(c, IF ops[c].pc = "wait" /\ tasks[ops[c].seq].stage \in {"flock", "build"}
                  THEN {ops[c].seq} ELSE {})

\* The caller's future is dropped, by the item budget or a stopped worker;
\* the open behind it runs on.
Cancel(c) == CancelWith(c, {})

(***************************************************************************)
(* The task of an open.                                                    *)
(***************************************************************************)
Stage(s, stage) == tasks' = [tasks EXCEPT ![s].stage = stage]

\* open_rocksdb blocks on the file lock.
LockFile(s) ==
  /\ tasks[s].stage = "flock" /\ file[tasks[s].fed] = None
  /\ file' = [file EXCEPT ![tasks[s].fed] = s]
  /\ Stage(s, "build")
  /\ UNCHANGED <<clients, usage, opens, locks, results, closing, ops, calls, evicts>>

InstallIf(s, current) ==
  /\ tasks[s].stage = "build"
  /\ \/ /\ current
        /\ clients' = [clients EXCEPT ![tasks[s].fed] = s]
        /\ usage' = Touched(tasks[s].fed)
        /\ Stage(s, "installed")
     \/ /\ ~current
        /\ Stage(s, "superseded")
        /\ UNCHANGED <<clients, usage>>
  /\ UNCHANGED <<opens, locks, results, file, closing, ops, calls, evicts>>

\* The client is built: it is installed only while the slot names this open.
Install(s) == InstallIf(s, opens[tasks[s].fed] = s)

\* The build fails and drops the database.
BuildFails(s) ==
  /\ tasks[s].stage = "build"
  /\ file' = [file EXCEPT ![tasks[s].fed] = None]
  /\ Stage(s, "failed")
  /\ UNCHANGED <<clients, usage, opens, locks, results, closing, ops, calls, evicts>>

\* The answer is published before the slot is cleared.
Publish(s) ==
  /\ tasks[s].stage \in {"installed", "superseded", "failed"} /\ ~Answered(s)
  /\ results' = Append(results, [seq |-> s, ok |-> tasks[s].stage = "installed"])
  /\ UNCHANGED <<clients, usage, opens, locks, tasks, file, closing, ops, calls, evicts>>

ForgetClosing(s, closes) ==
  /\ tasks[s].stage \in {"installed", "superseded", "failed"} /\ Answered(s)
  /\ opens' = [opens EXCEPT ![tasks[s].fed] = IF @ = s THEN None ELSE @]
  /\ Stage(s, "done")
  /\ closing' = IF closes THEN closing \cup {s} ELSE closing
  /\ UNCHANGED <<clients, usage, locks, results, file, ops, calls, evicts>>

LastReference(s) ==
  /\ tasks[s].stage = "installed" /\ clients[tasks[s].fed] # s
  /\ \A c \in Callers : ops[c].seq # s

\* forget_open, by sequence; a superseded client is then shut down.
Forget(s) == ForgetClosing(s, tasks[s].stage = "superseded" \/ LastReference(s))

\* A shutdown ends and releases the file lock.
Closed(s) ==
  /\ s \in closing
  /\ closing' = closing \ {s}
  /\ file' = [f \in Feds |-> IF file[f] = s THEN None ELSE file[f]]
  /\ UNCHANGED <<clients, usage, opens, locks, tasks, results, ops, calls, evicts>>

(***************************************************************************)
(* Operator eviction and teardown.                                         *)
(***************************************************************************)
Drop(fs) ==
  /\ clients' = [f \in Feds |-> IF f \in fs THEN None ELSE clients[f]]
  /\ opens' = [f \in Feds |-> IF f \in fs THEN None ELSE opens[f]]
  /\ closing' = closing \cup
       {clients[f] : f \in {g \in fs \cap Installed :
          \A c \in Callers : ops[c].seq # clients[g]}}
  /\ evicts' = [f \in Feds |-> IF f \in fs THEN evicts[f] + 1 ELSE evicts[f]]

MayEvict == \A f \in Feds : evicts[f] < MaxEvicts

\* evict: under the federation's mutex, the slot and the client go; a client
\* in use closes with its last reference.
Evict(f) ==
  /\ MayEvict /\ locks[f] = None
  /\ f \in Installed \cup Pending
  /\ Drop({f})
  /\ usage' = Untouched(f)
  /\ UNCHANGED <<locks, tasks, results, file, ops, calls>>

\* shutdown_all, at the teardown of a generation, asks for no mutex.
ShutdownAll ==
  /\ MayEvict /\ Installed \cup Pending # {}
  /\ Drop(Feds)
  /\ usage' = <<>>
  /\ UNCHANGED <<locks, tasks, results, file, ops, calls>>

CallerStep(c) ==
  \/ MakeRoom(c) \/ EvictIfIdle(c) \/ Lookup(c) \/ Acquire(c) \/ CheckInvite(c)
  \/ OpenSlot(c) \/ Receive(c) \/ Release(c)

TaskStep(s) ==
  \/ LockFile(s) \/ Install(s) \/ BuildFails(s) \/ Publish(s) \/ Forget(s)

Next ==
  \/ \E c \in Callers : CallerStep(c) \/ Cancel(c) \/ \E f \in Feds : Call(c, f)
  \/ \E s \in 1 .. Len(tasks) : TaskStep(s) \/ Closed(s)
  \/ \E f \in Feds : Evict(f)
  \/ ShutdownAll

Spec == Init /\ [][Next]_vars

(***************************************************************************)
(* Properties.                                                             *)
(***************************************************************************)
\* Every variable has its type, and the usage order lists exactly the
\* installed clients, once each.
TypeOK ==
  /\ \A f \in Feds : clients[f] \in Seqs \cup {None} /\ opens[f] \in Seqs \cup {None}
  /\ ToSet(usage) = Installed /\ Len(usage) = Cardinality(Installed)
  /\ \A c \in Callers :
       ops[c].pc \in {"idle", "room", "evict", "lookup", "await", "locked", "slot",
                      "wait", "using"}
  /\ closing \subseteq Seqs

Running(s) == tasks[s].stage \in {"build", "installed", "superseded"}

\* Whoever holds a federation's file lock will give it up: it is an open
\* whose task runs, an installed client, a client in use or one being shut
\* down.  No dropped caller and no eviction leaves a lock that only the end
\* of the process releases.
FileLockIsOwned ==
  \A f \in Feds : file[f] # None =>
    \/ Running(file[f])
    \/ clients[f] = file[f]
    \/ file[f] \in closing
    \/ \E c \in Callers : ops[c].pc \in {"using", "wait"} /\ ops[c].seq = file[f]

\* An eviction is not undone: an installed client was opened after the last
\* eviction of its federation (evict, shutdown_all, the sequence check).
EvictionStands ==
  \A f \in Feds : clients[f] # None => tasks[clients[f]].epoch = evicts[f]

\* Reclaiming room never closes a client somebody uses (evict_if_idle).
InUseStaysOpen ==
  \A c \in Callers : ops[c].pc = "using" => ops[c].seq \notin closing

\* The opens the pool waits for stay within their budget (may_start_open).
PendingWithinBudget == Cardinality(Pending) <= MaxPending

\* Callers share one open: unless the operator evicted the federation in
\* between, a second open of it starts only after the first has ended, so it
\* never queues on a file lock the first one holds.
OneOpenPerFederation ==
  \A s, t \in 1 .. Len(tasks) :
    /\ s < t /\ tasks[s].fed = tasks[t].fed /\ tasks[s].epoch = tasks[t].epoch
    => tasks[s].stage \in {"failed", "done"}

=============================================================================
