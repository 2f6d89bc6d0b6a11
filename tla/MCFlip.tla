------------------------------- MODULE MCFlip --------------------------------
(* The liquidity manager, for TLC.  A behaviour of this suite is a          *)
(* behaviour of one of its components, named by "part".  Of what it         *)
(* promises and pays: the funding of a gateway item, wallet capacity,       *)
(* operator withdrawals, a stability deposit, the admission of requests, or *)
(* concurrent edits of the setup they are admitted under.  Of the process   *)
(* itself: a live restore and its generations, the backup of both stores,   *)
(* restore mode, the relay advertisement (two calls over two relays, or     *)
(* three over one), or the pool of target clients.                          *)
EXTENDS FlipFunding, TLC

CONSTANTS
    Parts,    \* the components a run checks
    Off,      \* a component that is not under check, and no value
    Callers,  \* two callers, workers or requests no rule tells apart
    Others    \* two relays, federations or restore calls of that kind

VARIABLES
    part,  \* the component this behaviour is of
    wallet, tick, obs, items, ops, debited, sends, reads,
    status, step, deposit, depositor, binds, target, made, stops,
    setup, secret, writers, calls, alloc, bound, now, sent, restarts,
    written,
    proc, dir, aside, eras, book, archives, admission, pending, restoring,
    lastError, staged, guarded, accepted, failed, cut, exit, held, faults,
    holders, queue, pass, sql, client, backup, root, busy, call, done, kills,
    row, rows, relay, ready, clock, last, gate, lock, orders, asked, reboots,
    intent, severed,
    clients, usage, opens, locks, tasks, results, file, closing, using, uses,
    evicts

\* The entries in the order read_dir_sorted lists them.
DataDir == <<"federations", "flip.sqlite", "secret-store.key">>

\* What each restore call uploads.
Uploads == [u1 |-> "whole", u2 |-> "whole", u3 |-> "malformed", u4 |-> "corrupt",
            u5 |-> "sealed"]

C == INSTANCE FlipCapacity WITH Items <- {"i1", "i2", "i3"}, Intents <- {},
                                Calls <- {}, Readers <- {"sync", "funds"},
                                IntentOf <- [c \in {} |-> 0],
                                Amount <- [i1 |-> 2, i2 |-> 2, i3 |-> 1],
                                Funds <- 5, TopUp <- 1, FeeReserve <- 1,
                                ExplicitCap <- 3, MaxTick <- 2, Null <- Off
W == INSTANCE FlipCapacity WITH Items <- {}, Intents <- {"w1", "w2"},
                                Calls <- {"c1", "c2", "c3"},
                                Readers <- {"sync"},
                                IntentOf <- [c1 |-> "w1", c2 |-> "w2", c3 |-> "w1"],
                                Amount <- [w1 |-> 1, w2 |-> 1], Funds <- 1,
                                TopUp <- 1, FeeReserve <- 0,
                                ExplicitCap <- 2, MaxTick <- 3, Null <- Off
S == INSTANCE StabilityDeposit WITH
    Legacy <- {1, 2}, Binders <- {"b1"}, TargetMayChange <- TRUE,
    MaxStops <- 3, op <- deposit, worker <- depositor
A == INSTANCE FlipAdmission WITH Requests <- {"r1", "r2"},
                                 Requester <- [r1 |-> "alice", r2 |-> "bob"],
                                 Details <- [r1 |-> "same", r2 |-> "same"],
                                 Expires <- [r1 |-> 1, r2 |-> 1],
                                 Editors <- {"e1"}, SecretCalls <- {},
                                 Gateways <- {"g1"}, Policies <- {1, 2},
                                 Attempts <- 2, MaxNow <- 1,
                                 MaxRevision <- 2, MaxSends <- 1,
                                 MaxRestarts <- 0, sends <- sent
E == INSTANCE FlipAdmission WITH Requests <- {"r1"},
                                 Requester <- [r1 |-> "alice"],
                                 Details <- [r1 |-> "same"],
                                 Expires <- [r1 |-> 1],
                                 Editors <- {"e1", "e2"},
                                 SecretCalls <- {"s1"}, Gateways <- {"g1"},
                                 Policies <- {1}, Attempts <- 1, MaxNow <- 0,
                                 MaxRevision <- 2, MaxSends <- 0,
                                 MaxRestarts <- 1, sends <- sent
G == INSTANCE FlipGenerations WITH
    Entries <- DataDir, DbEntry <- "flip.sqlite", Feds <- {"F1"},
    Requests <- Callers, Handlers <- Others, MaxEras <- 5, MaxArchives <- 1,
    MaxFaults <- 2, None <- Off
B == INSTANCE FlipBackup WITH Workers <- Callers, Backups <- Others,
                              Calls <- {}, Archives <- <<>>, Entries <- <<>>,
                              None <- Off, MaxOps <- 1, MaxStops <- 1,
                              stops <- kills
R == INSTANCE FlipBackup WITH Workers <- {}, Backups <- {},
                              Calls <- DOMAIN Uploads, Archives <- Uploads,
                              MaxOps <- 0, MaxStops <- 5, Entries <- DataDir,
                              None <- Off, stops <- kills
V == INSTANCE FlipAdvertisement WITH
    Relays <- Others, MaxClock <- 4, MaxCalls <- 2, MaxRestarts <- 1,
    NoOne <- Off, ops <- orders, calls <- asked, restarts <- reboots
L == INSTANCE FlipAdvertisement WITH
    Relays <- {"relay"}, MaxClock <- 4, MaxCalls <- 3, MaxRestarts <- 1,
    NoOne <- Off, ops <- orders, calls <- asked, restarts <- reboots
T == INSTANCE TargetClients WITH Feds <- Others, MaxOpen <- 1,
                                 MaxPending <- 1, MaxCalls <- 3,
                                 MaxOpens <- 3, MaxEvicts <- 1, None <- Off,
                                 ops <- using, calls <- uses

walletVars == <<wallet, tick, obs, items, ops, debited, sends, reads>>
depositVars == <<status, step, deposit, depositor, binds, target, made,
                 stops>>
admissionVars == <<setup, secret, writers, calls, alloc, bound, now, sent,
                   restarts, written>>
generationVars == <<proc, dir, aside, eras, book, archives, admission,
                    pending, restoring, lastError, staged, guarded, accepted,
                    failed, cut, exit, held, faults>>
backupVars == <<holders, queue, pass, sql, client, backup, root, busy, call,
                done, kills>>
adVars == <<row, rows, relay, ready, clock, last, gate, lock, orders, asked,
            reboots, intent, severed>>
poolVars == <<clients, usage, opens, locks, tasks, results, file, closing,
              using, uses, evicts>>
allVars == <<part, vars, walletVars, depositVars, admissionVars,
             generationVars, backupVars, adVars, poolVars>>

\* A component that is not under check is switched off.
PartsInit ==
    /\ part \in Parts
    /\ Init
    /\ CASE part = "capacity" -> C!Init
            [] part = "withdrawals" -> W!Init
            [] OTHER ->
            /\ wallet = Off /\ tick = Off /\ obs = Off /\ items = Off
            /\ ops = Off /\ debited = Off /\ sends = Off /\ reads = Off
    /\ IF part = "stability" THEN S!Init ELSE
            /\ status = Off /\ step = Off /\ deposit = Off /\ depositor = Off
            /\ binds = Off /\ target = Off /\ made = Off /\ stops = Off
    /\ CASE part = "admission" -> A!Init
            [] part = "setup" -> E!Init
            [] OTHER ->
            /\ setup = Off /\ secret = Off /\ writers = Off /\ calls = Off
            /\ alloc = Off /\ bound = Off /\ now = Off /\ sent = Off
            /\ restarts = Off /\ written = Off
    /\ IF part = "generations" THEN G!Init ELSE
            /\ proc = Off /\ dir = Off /\ aside = Off /\ eras = Off
            /\ book = Off /\ archives = Off /\ admission = Off /\ pending = Off
            /\ restoring = Off /\ lastError = Off /\ staged = Off /\ guarded = Off
            /\ accepted = Off /\ failed = Off /\ cut = Off /\ exit = Off
            /\ held = Off /\ faults = Off
    /\ CASE part = "backup" -> B!Init
            [] part = "mode" -> R!Init
            [] OTHER ->
            /\ holders = Off /\ queue = Off /\ pass = Off /\ sql = Off
            /\ client = Off /\ backup = Off /\ root = Off /\ busy = Off
            /\ call = Off /\ done = Off /\ kills = Off
    /\ CASE part = "advertisement" -> V!Init
            [] part = "readvertisement" -> L!Init
            [] OTHER ->
            /\ row = Off /\ rows = Off /\ relay = Off /\ ready = Off
            /\ clock = Off /\ last = Off /\ gate = Off /\ lock = Off
            /\ orders = Off /\ asked = Off /\ reboots = Off /\ intent = Off
            /\ severed = Off
    /\ IF part = "clients" THEN T!Init ELSE
            /\ clients = Off /\ usage = Off /\ opens = Off /\ locks = Off
            /\ tasks = Off /\ results = Off /\ file = Off /\ closing = Off
            /\ using = Off /\ uses = Off /\ evicts = Off

PartsNext ==
    \/ part = "funding" /\ Next
       /\ UNCHANGED <<part, walletVars, depositVars, admissionVars,
                      generationVars, backupVars, adVars, poolVars>>
    \/ part = "capacity" /\ C!Next
       /\ UNCHANGED <<part, vars, depositVars, admissionVars, generationVars,
                      backupVars, adVars, poolVars>>
    \/ part = "withdrawals" /\ W!Next
       /\ UNCHANGED <<part, vars, depositVars, admissionVars, generationVars,
                      backupVars, adVars, poolVars>>
    \/ part = "stability" /\ S!Next
       /\ UNCHANGED <<part, vars, walletVars, admissionVars, generationVars,
                      backupVars, adVars, poolVars>>
    \/ part = "admission" /\ A!Next
       /\ UNCHANGED <<part, vars, walletVars, depositVars, generationVars,
                      backupVars, adVars, poolVars>>
    \/ part = "setup" /\ E!Next
       /\ UNCHANGED <<part, vars, walletVars, depositVars, generationVars,
                      backupVars, adVars, poolVars>>
    \/ part = "generations" /\ G!Next
       /\ UNCHANGED <<part, vars, walletVars, depositVars, admissionVars,
                      backupVars, adVars, poolVars>>
    \/ part = "backup" /\ B!Next
       /\ UNCHANGED <<part, vars, walletVars, depositVars, admissionVars,
                      generationVars, adVars, poolVars>>
    \/ part = "mode" /\ R!Next
       /\ UNCHANGED <<part, vars, walletVars, depositVars, admissionVars,
                      generationVars, adVars, poolVars>>
    \/ part = "advertisement" /\ V!Next
       /\ UNCHANGED <<part, vars, walletVars, depositVars, admissionVars,
                      generationVars, backupVars, poolVars>>
    \/ part = "readvertisement" /\ L!Next
       /\ UNCHANGED <<part, vars, walletVars, depositVars, admissionVars,
                      generationVars, backupVars, poolVars>>
    \/ part = "clients" /\ T!Next
       /\ UNCHANGED <<part, vars, walletVars, depositVars, admissionVars,
                      generationVars, backupVars, adVars>>

PartsSpec == PartsInit /\ [][PartsNext]_allVars

Symmetry == Permutations(Callers) \cup Permutations(Others)

\* What an operator or a worker repeats is sent once: one send per withdrawal
\* intent, whatever lost answers, restarts and repeated calls do; and one
\* stability item puts value into the pool at most once, by the deposit it
\* names, and completes only when that deposit succeeded (request_withdrawal,
\* the deposit walk of stability_allocation.rs).
SentOnce ==
    /\ part = "funding" => TypeOK
    /\ part = "withdrawals" => W!TypeOK /\ W!IntentSentOnce
    /\ part = "stability" =>
        S!TypeOK /\ S!OneRecordedDeposit /\ S!CompletedIsProvided

\* Every accepted item can be paid from what the wallet really holds, the fee
\* reserve kept aside, and within the operator's cap, however balance replies
\* are delayed and reordered around settlements (plan_allocation,
\* active_wallet_withdrawal_amount_tx, begin_balance_read).
AcceptedIsCovered ==
    part = "capacity" => C!TypeOK /\ C!WalletCoversPromises /\ C!CapRespected

\* "A send stops being subtracted from available capacity only once its debit
\* is proven to be in that balance" (wallet.rs): withdrawals that were
\* committed can be paid as well.
WithdrawalsCovered == part = "withdrawals" => W!WalletCoversPromises

\* No commit rests on a setup another writer changed meanwhile: an item in
\* flight settles under the funding policy it was accepted under, and no write
\* of the whole setup row undoes a committed change to another of its fields
\* (accept_or_reject_request, ensure_funding_policy_settled_tx,
\* upsert_setup_state_tx).
NoStaleCommit ==
    /\ part = "admission" => A!TypeOK /\ A!SettledUnderAcceptedPolicy
    /\ part = "setup" => E!TypeOK /\ E!NoLostUpdate

\* Neither a restore nor a backup mixes two states or loses one.  Of a live
\* restore: wherever a rename failed or the process died, everything that was
\* served and every allocation that was accepted is still on the disk, and a
\* reported rollback put back entries that were served; as long as no process
\* ended halfway through a swap (the ghost "cut"), what was accepted is also
\* served, and a generation serves one state in whole.  A process that does end
\* there leaves a directory no later start repairs, and this property excuses
\* what is served from it.  Of the rest: an archive has one recovery point for
\* both stores, and a data root never holds entries of two archives, wherever
\* the process died (commit_live_restore,
\* CLAIM-official-backup-lacks-common-recovery-point,
\* CLAIM-concurrent-restore-merges-two-archives).
NoTornState ==
    /\ part = "generations" =>
        /\ G!TypeOK /\ G!AcceptedSurvives /\ G!ServedWhole /\ G!RolledBackIsWhole
        /\ G!PriorStateKept /\ G!AcceptedIsOnDisk
    /\ part = "backup" => B!TypeOK /\ B!CommonRecoveryPoint
    /\ part = "mode" => R!TypeOK /\ R!OneArchivePerRoot /\ R!ReportedIsComplete

\* The relays serve what the operator last asked for: a withdrawal stands
\* until a republish is asked for, every event supersedes what its relay
\* holds, and a row that says published or disconnected is true of the relay,
\* across callers, cancellations and restarts (republish, withdraw, the
\* advertisement writer).
AdvertisedAsTold ==
    /\ part = "advertisement" =>
        /\ V!TypeOK /\ V!WithdrawalStands /\ V!EventsMoveForward
        /\ V!PublishedIsServed /\ V!DisconnectedIsGone
    /\ part = "readvertisement" =>
        /\ L!TypeOK /\ L!WithdrawalStands /\ L!EventsMoveForward
        /\ L!PublishedIsServed /\ L!DisconnectedIsGone

\* The pool of target clients: every file lock is held by someone who will
\* give it up, an eviction is not undone by an open that was under way, room
\* is never made by closing a client in use, and a federation has one open at
\* a time within the budget (open_client, evict, make_room, the open task).
PoolIsSound ==
    part = "clients" =>
        /\ T!TypeOK /\ T!FileLockIsOwned /\ T!EvictionStands /\ T!InUseStaysOpen
        /\ T!PendingWithinBudget /\ T!OneOpenPerFederation
==============================================================================
