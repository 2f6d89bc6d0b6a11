--------------------------- MODULE WalletClients ---------------------------
(***************************************************************************)
(* The Fedimint clients of one MG wallet (crates/mg/fedimint/src/lib.rs    *)
(* and setup_payment_policy.rs): every scope (a payment federation, or a   *)
(* guarded seat of one) gets a partition of one RocksDB, named by a        *)
(* durable prefix, and at most one client opens it per daemon process. A   *)
(* wallet restored from its mnemonic scans its keys before it is usable.   *)
(* Joins come from the setup-payment reconciler, which cancels the ones    *)
(* whose federation leaves the set, and from claims, fees and payouts.     *)
(***************************************************************************)
EXTENDS Naturals, FiniteSets

CONSTANTS Feds,        \* federations
          Guarded,     \* federations with a guarded seat: a second scope each
          Callers,     \* concurrent calls
          MaxPrefix,   \* bound: prefixes ever reserved
          MaxRestarts, \* bound: daemon restarts
          None

VARIABLES map,       \* durable: the scope each prefix was reserved for
          next,      \* durable: next-client-prefix
          part,      \* durable: contents of each partition
          origin,    \* WalletOrigin
          known,     \* prefixes in memory
          attempted, \* open_attempted, process lifetime
          ledger,    \* ATTEMPTED_FEDERATION_IDS, process lifetime
          published, \* federations: the prefix of each usable client
          openers,   \* client tasks alive on each partition
          mode,      \* whether the partition's client has its modules
          lock,      \* join_locks
          call, policy, up, restarts

durable == <<map, next, part, origin>>
wallet == <<known, attempted, published, lock>>
vars == <<durable, wallet, ledger, openers, mode, call, policy, up, restarts>>

ClientScopes == [fed : Feds, guardian : {FALSE}] \cup [fed : Guarded, guardian : {TRUE}]
Payment(f) == [fed |-> f, guardian |-> FALSE]
Prefixes == 1..MaxPrefix
Blank == [init |-> "none", owner |-> None, scan |-> FALSE, settled |-> FALSE, ready |-> FALSE]
Idle == [pc |-> "idle", scope |-> None, how |-> None, prefix |-> 0]

Init ==
    /\ map = [p \in Prefixes |-> None] /\ next = 1
    /\ part = [p \in Prefixes |-> Blank]
    /\ origin \in {"fresh", "restored"}
    /\ known = [s \in ClientScopes |-> 0]
    /\ attempted = {} /\ ledger = {}
    /\ published = [s \in ClientScopes |-> 0]
    /\ openers = [p \in Prefixes |-> 0]
    /\ mode = [p \in Prefixes |-> "none"]
    /\ lock = [s \in ClientScopes |-> None]
    /\ call = [c \in Callers |-> Idle]
    /\ policy = {} /\ up = TRUE /\ restarts = 0

-----------------------------------------------------------------------------
(* Calls. *)

Goto(c, pc) == call' = [call EXCEPT ![c].pc = pc]
\* A call returns or is dropped, and its join exclusion with it.
Ended(c) ==
    /\ call' = [call EXCEPT ![c] = Idle]
    /\ lock' = [s \in ClientScopes |-> IF lock[s] = c THEN None ELSE lock[s]]

\* How a call asks: the policy's join, another join, or client(), which only
\* opens what is already there.
Starts(c, s, how) ==
    /\ up /\ call[c] = Idle
    /\ call' = [call EXCEPT ![c] = [pc |-> "lock", scope |-> s, how |-> how, prefix |-> 0]]

Call(c, s, how) ==
    /\ how = "client" => ~ s.guardian
    /\ Starts(c, s, how)
    /\ UNCHANGED <<durable, known, attempted, ledger, published, openers, mode, lock,
                   policy, up, restarts>>

\* The admitted set changes.
PolicyChanges(set) ==
    /\ up /\ policy # set /\ policy' = set
    /\ UNCHANGED <<durable, known, attempted, ledger, published, openers, mode, lock,
                   call, up, restarts>>

\* The reconciler starts one join per federation and process.
Reconcile(c, f) ==
    /\ f \in policy /\ published[Payment(f)] = 0 /\ f \notin ledger
    /\ ledger' = ledger \cup {f}
    /\ Starts(c, Payment(f), "policy")
    /\ UNCHANGED <<durable, known, attempted, published, openers, mode, lock, policy,
                   up, restarts>>

\* It aborts the join of a removed member, at any await of that join.
Abort(c) ==
    /\ call[c].how = "policy" /\ call[c].scope.fed \notin policy
    /\ Ended(c)
    /\ UNCHANGED <<durable, known, attempted, ledger, published, openers, mode, policy,
                   up, restarts>>

\* join_exclusion, then what is published or known already.
TakeLock(c) ==
    LET s == call[c].scope IN
    /\ call[c].pc = "lock" /\ lock[s] = None
    /\ IF published[s] # 0 \/ (known[s] = 0 /\ call[c].how = "client")
       THEN Ended(c)
       ELSE /\ lock' = [lock EXCEPT ![s] = c]
            /\ call' = [call EXCEPT ![c].pc = IF known[s] = 0 THEN "reserve" ELSE "probe",
                                    ![c].prefix = known[s]]
    /\ UNCHANGED <<durable, known, attempted, ledger, published, openers, mode, policy,
                   up, restarts>>

\* reserve_prefix: counter and mapping in one transaction.
ReserveTo(c, following) ==
    /\ call[c].pc = "reserve" /\ next \in Prefixes
    /\ map' = [map EXCEPT ![next] = call[c].scope]
    /\ next' = following
    /\ call' = [call EXCEPT ![c].pc = "note", ![c].prefix = next]
    /\ UNCHANGED <<part, origin, known, attempted, ledger, published, openers, mode, lock,
                   policy, up, restarts>>

Reserve(c) == ReserveTo(c, next + 1)

\* The reserved prefix enters the in-memory map after its transaction.
Note(c) ==
    /\ call[c].pc = "note"
    /\ known' = [known EXCEPT ![call[c].scope] = call[c].prefix]
    /\ Goto(c, "probe")
    /\ UNCHANGED <<durable, attempted, ledger, published, openers, mode, lock, policy,
                   up, restarts>>

\* Client::is_initialized; an uninitialized scope is previewed first, which
\* writes nothing and may be retried.
Probe(c) ==
    LET blank == part[call[c].prefix].init = "none" IN
    /\ call[c].pc = "probe"
    /\ IF blank /\ call[c].how = "client"
       THEN Ended(c)
       ELSE Goto(c, IF blank THEN "preview" ELSE "fence") /\ UNCHANGED lock
    /\ UNCHANGED <<durable, known, attempted, ledger, published, openers, mode, policy,
                   up, restarts>>

Previewed(c) ==
    /\ call[c].pc = "preview" /\ Goto(c, "fence")
    /\ UNCHANGED <<durable, known, attempted, ledger, published, openers, mode, lock,
                   policy, up, restarts>>

\* client_open_once.
OpenOnceIf(c, first) ==
    /\ call[c].pc = "fence"
    /\ attempted' = attempted \cup {call[c].scope}
    /\ IF first THEN Goto(c, "open") /\ UNCHANGED lock ELSE Ended(c)
    /\ UNCHANGED <<durable, known, ledger, published, openers, mode, policy, up, restarts>>

OpenOnce(c) == OpenOnceIf(c, call[c].scope \notin attempted)

Opened(p, m) == /\ openers' = [openers EXCEPT ![p] = @ + 1]
                /\ mode' = [mode EXCEPT ![p] = m]

\* join or recover on a blank partition.
OpenBlank(c) ==
    LET p == call[c].prefix
        restored == origin = "restored"
    IN /\ call[c].pc = "open" /\ part[p].init = "none"
       /\ part' = [part EXCEPT ![p].init = IF restored THEN "recover" ELSE "fresh",
                               ![p].owner = call[c].scope]
       /\ Opened(p, IF restored THEN "recovering" ELSE "modules")
       /\ Goto(c, IF restored THEN "scan" ELSE "publish")
       /\ UNCHANGED <<map, next, origin, known, attempted, ledger, published, lock, policy,
                      up, restarts>>

\* open_initialized_scope: the stored federation must be the scope's; a crash
\* may have left scans, or outputs without the ready marker.
OpenInitializedTo(c, settled(_)) ==
    LET p == call[c].prefix
        k == part[p]
    IN /\ call[c].pc = "open" /\ k.init # "none"
       /\ k.owner.fed = call[c].scope.fed
       /\ IF k.init = "recover" /\ ~ k.scan
          THEN Opened(p, "recovering") /\ Goto(c, "scan")
          ELSE Opened(p, "modules")
               /\ Goto(c, IF settled(k) THEN "publish" ELSE "settle")
       /\ UNCHANGED <<durable, known, attempted, ledger, published, lock, policy, up, restarts>>

Completed(k) == TRUE
NeedsNoMarker(k) == k.init = "fresh" \/ k.ready
OpenCompleted(c) == OpenInitializedTo(c, Completed)
OpenInitialized(c) == OpenInitializedTo(c, NeedsNoMarker)

\* finish_recovery: the scans end, the handle without modules is shut down,
\* and the database is reopened.
ShutDown(c) ==
    LET p == call[c].prefix IN
    /\ call[c].pc = "scan" /\ part[p].scan
    /\ openers' = [openers EXCEPT ![p] = @ - 1]
    /\ mode' = [mode EXCEPT ![p] = "none"]
    /\ Goto(c, "reopen")
    /\ UNCHANGED <<durable, known, attempted, ledger, published, lock, policy, up, restarts>>

Reopen(c) ==
    /\ call[c].pc = "reopen"
    /\ Opened(call[c].prefix, "modules") /\ Goto(c, "settle")
    /\ UNCHANGED <<durable, known, attempted, ledger, published, lock, policy, up, restarts>>

\* wait_for_all_active_state_machines, then mark_recovery_ready.
MarkReady(c) ==
    LET p == call[c].prefix IN
    /\ call[c].pc = "settle" /\ part[p].settled
    /\ part' = [part EXCEPT ![p].ready = TRUE]
    /\ Goto(c, "publish")
    /\ UNCHANGED <<map, next, origin, known, attempted, ledger, published, openers, mode,
                   lock, policy, up, restarts>>

Publish(c) ==
    /\ call[c].pc = "publish"
    /\ published' = [published EXCEPT ![call[c].scope] = call[c].prefix]
    /\ Ended(c)
    /\ UNCHANGED <<durable, known, attempted, ledger, openers, mode, policy, up, restarts>>

\* A dependency fails, or the caller goes away while it waits on one. What it
\* opened can leave a task behind.
Waits == {"preview", "open", "scan", "reopen", "settle"}
Fails(c) ==
    /\ call[c].pc \in Waits
    /\ Ended(c)
    /\ UNCHANGED <<durable, known, attempted, ledger, published, openers, mode, policy,
                   up, restarts>>

-----------------------------------------------------------------------------
(* The Fedimint client's own tasks. *)

Uses(p) == {c \in Callers : call[c].prefix = p /\ call[c].pc \in {"scan", "settle", "publish"}}
Owned(p) == Cardinality(Uses(p)) + (IF \E s \in ClientScopes : published[s] = p THEN 1 ELSE 0)

LeftoverEnds(p) ==
    /\ openers[p] > Owned(p)
    /\ openers' = [openers EXCEPT ![p] = @ - 1]
    /\ UNCHANGED <<durable, known, attempted, ledger, published, mode, lock, call, policy,
                   up, restarts>>

Scanned(p) ==
    /\ openers[p] > 0 /\ mode[p] = "recovering" /\ ~ part[p].scan
    /\ part' = [part EXCEPT ![p].scan = TRUE]
    /\ UNCHANGED <<map, next, origin, known, attempted, ledger, published, openers, mode,
                   lock, call, policy, up, restarts>>

OutputsSettle(p) ==
    /\ openers[p] > 0 /\ mode[p] = "modules" /\ part[p].scan /\ ~ part[p].settled
    /\ part' = [part EXCEPT ![p].settled = TRUE]
    /\ UNCHANGED <<map, next, origin, known, attempted, ledger, published, openers, mode,
                   lock, call, policy, up, restarts>>

\* The daemon restarts; load_prefixes refuses two prefixes of one scope, and
\* then the wallet does not open.
Reserved(s) == {p \in Prefixes : map[p] = s}
Restart ==
    /\ restarts < MaxRestarts /\ restarts' = restarts + 1
    /\ up' = \A s \in ClientScopes : Cardinality(Reserved(s)) <= 1
    /\ known' = [s \in ClientScopes |-> IF Reserved(s) = {} THEN 0 ELSE CHOOSE p \in Reserved(s) : TRUE]
    /\ attempted' = {} /\ ledger' = {}
    /\ published' = [s \in ClientScopes |-> 0]
    /\ openers' = [p \in Prefixes |-> 0]
    /\ mode' = [p \in Prefixes |-> "none"]
    /\ lock' = [s \in ClientScopes |-> None]
    /\ call' = [c \in Callers |-> Idle]
    /\ UNCHANGED <<durable, policy>>

-----------------------------------------------------------------------------
Next ==
    \/ \E c \in Callers :
         \/ \E s \in ClientScopes, how \in {"join", "client"} : Call(c, s, how)
         \/ \E f \in Feds : Reconcile(c, f)
         \/ Abort(c) \/ TakeLock(c) \/ Reserve(c) \/ Note(c) \/ Probe(c) \/ Previewed(c)
         \/ OpenOnce(c) \/ OpenBlank(c) \/ OpenInitialized(c) \/ ShutDown(c) \/ Reopen(c)
         \/ MarkReady(c) \/ Publish(c) \/ Fails(c)
    \/ \E set \in SUBSET Feds : PolicyChanges(set)
    \/ \E p \in Prefixes : LeftoverEnds(p) \/ Scanned(p) \/ OutputsSettle(p)
    \/ Restart

Spec == Init /\ [][Next]_vars

-----------------------------------------------------------------------------
\* Types, and a join exclusion is held only by a call in its scope.
TypeOK ==
    /\ map \in [Prefixes -> ClientScopes \cup {None}] /\ next \in 1..(MaxPrefix + 1)
    /\ \A p \in Prefixes : part[p].init \in {"none", "fresh", "recover"}
    /\ known \in [ClientScopes -> 0..MaxPrefix] /\ published \in [ClientScopes -> 0..MaxPrefix]
    /\ attempted \subseteq ClientScopes /\ ledger \subseteq Feds /\ policy \subseteq Feds
    /\ openers \in [Prefixes -> 0..3]
    /\ \A s \in ClientScopes : lock[s] # None => call[lock[s]].scope = s

\* No two clients ever work in one partition, the tasks that a failed or
\* cancelled open leaves behind included (client_open_once).
OneOpener == \A p \in Prefixes : openers[p] <= 1

\* A client a caller can spend from has all of its value: it was joined
\* fresh, or its scans ended and the recovered outputs settled, over any
\* crash in between (open_initialized_scope, finish_recovery).
PublishedIsWhole ==
    \A s \in ClientScopes : published[s] # 0 =>
        LET k == part[published[s]] IN k.init = "fresh" \/ (k.scan /\ k.settled)

\* A partition holds the state of the scope its prefix was reserved for:
\* no federation inherits what a cancelled join left (reserve_prefix).
PartitionIsTheirs == \A p \in Prefixes : part[p].init # "none" => part[p].owner = map[p]
=============================================================================
