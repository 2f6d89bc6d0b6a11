----------------------------- MODULE MCServices ------------------------------
(* The push gateway and fleet telemetry, for TLC.  A behaviour of this      *)
(* suite is a behaviour of one of its components, named by "part".  Of the  *)
(* gateway: the delivery outbox, the outbox under caller idempotency keys,  *)
(* device registrations (of two recipients with two devices each, where the *)
(* recipient's and the row ceilings bind, or of three recipients, where the *)
(* global one does), hooks and their caps, or the door of signed requests;  *)
(* the hook of the outbox outlives every retention horizon, or has no end   *)
(* at all ("legacy").  Of telemetry: a guardian's safe-event journal on its *)
(* disk (with a record longer than a batch, or with failed operations on    *)
(* its directory before and after a power loss), registration with the      *)
(* collector (of one guardian, or of two that compete for one place), the   *)
(* collector's journal archive (across registrations, or behind gaps), its  *)
(* metric polls and the exposition they feed (of two guardians, across      *)
(* restarts, or across leases that clock readings overtake), or the metrics *)
(* policy.                                                                  *)
EXTENDS TLC

CONSTANTS
    Parts,   \* the components a run checks
    Off,     \* a component that is not under check, and no value
    Tokens,  \* provider tokens
    Devices, \* the provider tokens of the registrations
    NoKey, NoToken,
    Torn    \* the partial record a crash leaves at the end of a segment

VARIABLES
    part,  \* the component this behaviour is of
    now, hook, marker, reg, row, used, task, pc, crashes, replays, accepted,
    refused,
    clock, routes, owners, hooks, door,
    dir, disk, segment, synced, writer, todo, lock, reader, appended, long,
    acked, lost, failed, wiped, minted,
    tgtNow, mg, request, consumed, budget, verifying, tgtTarget, admitted,
    tgtUsed,
    arcNow, arcTarget, arcRegistrations, source, stream, ledger, file,
    arcUsed, poisoned, pruned, cycle, poll, closing, arcAlive, taken,
    failures,
    metNow, metTarget, metRegistrations, snapshot, listed, pollState,
    revision, due, metTask, cache, scrape, retained, metAlive, attempts,
    stops, feed

\* Callers on the two address families, a trusted proxy, and another address.
Caller == [v6 |-> FALSE, net |-> "outside", host |-> 1]
Caller6 == [v6 |-> TRUE, net |-> "far", host |-> 1]
Proxy == [v6 |-> FALSE, net |-> "inside", host |-> 1]
Stranger == [v6 |-> FALSE, net |-> "outside", host |-> 2]

MCForgeries ==
    {[h \in {"forwarded", "x-forwarded-for"} |-> IF h \in written THEN <<a>> ELSE <<>>] :
        written \in SUBSET {"forwarded", "x-forwarded-for"}, a \in {Stranger, Proxy}}

MCEvents == {[at |-> 2, recipient |-> "r1", kind |-> "write"], [at |-> 3, recipient |-> "r1", kind |-> "create"]}

MCBudget == [auth |-> 1, source |-> 1, recipient_source |-> 1, creation |-> 1]

\* What a guardian process shows: two release markers, one histogram line by
\* line, a counter with a label or a value that is not admitted, and a family
\* that is denied.
Line(family, suffix, labels, value) ==
    [name |-> [family |-> family, suffix |-> suffix], labels |-> labels, value |-> value]
GuardianLines ==
    {Line("app_start_ts", "", [version |-> v], "1") : v \in {"v1", "v2"}} \cup
    {Line("mint_inout_sats", s, [direction |-> "incoming"], "1") : s \in {"_sum", "_count"}} \cup
    {Line("mint_inout_sats", "_bucket", [direction |-> "incoming", le |-> "+Inf"], "1"),
     Line("peer_connect_total", "", [direction |-> "other"], "1"),
     Line("peer_connect_total", "", [direction |-> "outgoing"], "other"),
     Line("ln_rpc_requests_total", "", <<>>, "1")}

O == INSTANCE PushOutbox WITH Hooks <- {"h"}, Keys <- {},
                              Expires <- [h |-> 5], MaxAttempts <- 2,
                              Concurrency <- 2, Markers <- 0, MaxTime <- 5,
                              MaxRows <- 1, MaxReplays <- 2, MaxCrashes <- 1,
                              Backoff <- <<1, 1>>, MaxUses <- 2,
                              Deadline <- 2, Lease <- 2,
                              ProviderTimeout <- 1, Margin <- 0,
                              Retention <- 1, Backlog <- 1, Never <- Off,
                              HookLifetime <- 1
K == INSTANCE PushOutbox WITH Hooks <- {"h"}, Keys <- {"k"}, Tokens <- {"t"},
                              Expires <- [h |-> 6], MaxAttempts <- 1,
                              Concurrency <- 1, Markers <- 1, MaxTime <- 4,
                              MaxRows <- 2, MaxReplays <- 0, MaxCrashes <- 0,
                              Backoff <- <<1>>, MaxUses <- 2, Deadline <- 1,
                              Lease <- 1, ProviderTimeout <- 1, Margin <- 0,
                              Retention <- 0, Backlog <- 1, Never <- Off,
                              HookLifetime <- 1
\* Of a legacy hook the marker is asked about, in behaviours in which the rows
\* run into their deadline unsent.
L == INSTANCE PushOutbox WITH Hooks <- {"h"}, Keys <- {"k"}, Tokens <- {"t"},
                              Expires <- [h |-> Off], MaxAttempts <- 1,
                              Concurrency <- 0, Markers <- 1, MaxTime <- 4,
                              MaxRows <- 2, MaxReplays <- 0, MaxCrashes <- 1,
                              Backoff <- <<1>>, MaxUses <- 2, Deadline <- 0,
                              Lease <- 1, ProviderTimeout <- 1, Margin <- 0,
                              Retention <- 0, Backlog <- 1, Never <- Off,
                              HookLifetime <- 1
R == INSTANCE PushAdmission WITH None <- Off, Deleted <- NoKey, Batch <- 1,
                                 Lifetime <- 1, MaxTime <- 4, Retention <- 1,
                                 Events <- {}, Allowed <- {}, Clients <- {},
                                 Forgeries <- {}, Hops <- {},
                                 TrustedNets <- {}, MaxAge <- 1, Skew <- 1,
                                 MaxEntries <- 1, Window <- 1,
                                 FamilyCapacity <- 1, MaxStall <- 1,
                                 MaxCalls <- 1, Budget <- <<>>,
                                 Recipients <- {"r1", "r2"},
                                 Installations <- {"i1", "i2"},
                                 Tokens <- Devices, Hooks <- {}, TTL <- 2,
                                 MaxPerRecipient <- 1, MaxActive <- 2,
                                 MaxRegRows <- 5, MaxHooksPerRecipient <- 1,
                                 MaxHooks <- 1, MaxHookRows <- 1,
                                 now <- clock, reg <- routes,
                                 owner <- owners, hook <- hooks
G == INSTANCE PushAdmission WITH None <- Off, Deleted <- NoKey, Batch <- 1,
                                 Lifetime <- 1, MaxTime <- 3, Retention <- 1,
                                 Events <- {}, Allowed <- {}, Clients <- {},
                                 Forgeries <- {}, Hops <- {},
                                 TrustedNets <- {}, MaxAge <- 1, Skew <- 1,
                                 MaxEntries <- 1, Window <- 1,
                                 FamilyCapacity <- 1, MaxStall <- 1,
                                 MaxCalls <- 1, Budget <- <<>>,
                                 Recipients <- {"r1", "r2", "r3"},
                                 Installations <- {"i1"},
                                 Tokens <- Devices, Hooks <- {}, TTL <- 1,
                                 MaxPerRecipient <- 1, MaxActive <- 2,
                                 MaxRegRows <- 6, MaxHooksPerRecipient <- 1,
                                 MaxHooks <- 1, MaxHookRows <- 1,
                                 now <- clock, reg <- routes,
                                 owner <- owners, hook <- hooks
H == INSTANCE PushAdmission WITH None <- Off, Deleted <- NoKey, Batch <- 1,
                                 Lifetime <- 1, MaxTime <- 4, Retention <- 1,
                                 Events <- {}, Allowed <- {}, Clients <- {},
                                 Forgeries <- {}, Hops <- {},
                                 TrustedNets <- {}, MaxAge <- 1, Skew <- 1,
                                 MaxEntries <- 1, Window <- 1,
                                 FamilyCapacity <- 1, MaxStall <- 1,
                                 MaxCalls <- 1, Budget <- <<>>,
                                 Recipients <- {"r"},
                                 Installations <- {"i1"}, Tokens <- Tokens,
                                 Hooks <- {"h1", "h2", "h3"}, TTL <- 1,
                                 MaxPerRecipient <- 2, MaxActive <- 2,
                                 MaxRegRows <- 5, MaxHooksPerRecipient <- 1,
                                 MaxHooks <- 1, MaxHookRows <- 2,
                                 now <- clock, reg <- routes,
                                 owner <- owners, hook <- hooks
D == INSTANCE PushAdmission WITH None <- Off, Deleted <- NoKey, Batch <- 1,
                                 Lifetime <- 1, MaxTime <- 6, Retention <- 1,
                                 Events <- MCEvents, Allowed <- {"r1"},
                                 Clients <- {Caller, Caller6},
                                 Forgeries <- MCForgeries,
                                 Hops <- {<<>>, <<Proxy, Proxy>>},
                                 TrustedNets <- {"inside"}, MaxAge <- 2,
                                 Skew <- 2, MaxEntries <- 2, Window <- 2,
                                 FamilyCapacity <- 2, MaxStall <- 1,
                                 MaxCalls <- 2, Budget <- MCBudget,
                                 Recipients <- {}, Installations <- {},
                                 Tokens <- {}, Hooks <- {}, TTL <- 1,
                                 MaxPerRecipient <- 1, MaxActive <- 1,
                                 MaxRegRows <- 1, MaxHooksPerRecipient <- 1,
                                 MaxHooks <- 1, MaxHookRows <- 1,
                                 now <- clock, reg <- routes,
                                 owner <- owners, hook <- hooks
\* A journal of segments with two records each, and one that rotates with
\* every record, so that segments are removed before a loss or an error.
J == INSTANCE RollingJournal WITH
    MaxFiles <- 2, FileRecords <- 2, BatchSize <- 2, MaxRecords <- 3,
    MaxLong <- 1, MaxLosses <- 1, MaxErrors <- 0, MaxWipes <- 1,
    Torn <- Torn, None <- Off, file <- segment
S == INSTANCE RollingJournal WITH
    MaxFiles <- 2, FileRecords <- 1, BatchSize <- 2, MaxRecords <- 3,
    MaxLong <- 0, MaxLosses <- 1, MaxErrors <- 1, MaxWipes <- 0,
    Torn <- Torn, None <- Off, file <- segment
\* One guardian that moves and rotates, and two that compete for one place,
\* whose clock may run ahead.
T == INSTANCE TelemetryTargets WITH
    Mgs <- {"a"}, Endpoints <- {"e1", "e2"}, Lease <- 1, MaxTargets <- 1,
    AuthAge <- 1, Ahead <- 0, MaxAuth <- 2, SourceBudget <- 2, Window <- 2,
    Permits <- 2, MaxRotations <- 1, MaxRequests <- 2, MaxTime <- 2,
    None <- Off, now <- tgtNow, used <- tgtUsed, target <- tgtTarget
C == INSTANCE TelemetryTargets WITH
    Mgs <- {"a", "b"}, Endpoints <- {"e"}, Lease <- 1, MaxTargets <- 1,
    AuthAge <- 1, Ahead <- 1, MaxAuth <- 1, SourceBudget <- 1, Window <- 1,
    Permits <- 1, MaxRotations <- 0, MaxRequests <- 3, MaxTime <- 2,
    None <- Off, now <- tgtNow, used <- tgtUsed, target <- tgtTarget
\* Two registrations and two days, and one registration of a source that drops
\* or skips records a frame follows.
A == INSTANCE TelemetryJournal WITH
    Mgs <- {"a"}, Lease <- 1, MaxRegistrations <- 2, MaxTime <- 1,
    Journals <- {"j"}, MaxJournals <- 1, BatchSize <- 2, Quota <- 3,
    Retention <- 1, DayLength <- 1, Workers <- 1, MaxRecords <- 2,
    LongRecords <- {}, MaxIncarnations <- 2, MaxFailures <- 1, None <- Off,
    now <- arcNow, target <- arcTarget, used <- arcUsed, alive <- arcAlive,
    registrations <- arcRegistrations
B == INSTANCE TelemetryJournal WITH
    Mgs <- {"a"}, Lease <- 1, MaxRegistrations <- 1, MaxTime <- 0,
    Journals <- {"j"}, MaxJournals <- 1, BatchSize <- 2, Quota <- 3,
    Retention <- 1, DayLength <- 1, Workers <- 1, MaxRecords <- 4,
    LongRecords <- {1, 2, 3}, MaxIncarnations <- 1, MaxFailures <- 1,
    None <- Off, now <- arcNow, target <- arcTarget, used <- arcUsed,
    alive <- arcAlive, registrations <- arcRegistrations
\* Two guardians under one cap, one guardian across a restart, and the leases
\* of two guardians, which are not polled.
X == INSTANCE TelemetryMetrics WITH
    Mgs <- {"a", "b"}, Seats <- {"s"}, Sizes <- {1}, StateCap <- 1,
    Lease <- 1, Cadence <- 2, Bucket <- 3, Workers <- 2,
    MaxRegistrations <- 2, MaxPolls <- 2, MaxStops <- 0, MaxTime <- 2,
    Lines <- {}, MaxLines <- 0, MaxSamples <- 0, MaxFamilies <- 0,
    MaxOutput <- 0, None <- Off, now <- metNow, target <- metTarget,
    alive <- metAlive, registrations <- metRegistrations, task <- metTask
W == INSTANCE TelemetryMetrics WITH
    Mgs <- {"a"}, Seats <- {"s"}, Sizes <- {1}, StateCap <- 1,
    Lease <- 2, Cadence <- 2, Bucket <- 3, Workers <- 1,
    MaxRegistrations <- 2, MaxPolls <- 2, MaxStops <- 1, MaxTime <- 2,
    Lines <- {}, MaxLines <- 0, MaxSamples <- 0, MaxFamilies <- 0,
    MaxOutput <- 0, None <- Off, now <- metNow, target <- metTarget,
    alive <- metAlive, registrations <- metRegistrations, task <- metTask
Z == INSTANCE TelemetryMetrics WITH
    Mgs <- {"a", "b"}, Seats <- {"s"}, Sizes <- {1}, StateCap <- 1,
    Lease <- 2, Cadence <- 4, Bucket <- 4, Workers <- 1,
    MaxRegistrations <- 3, MaxPolls <- 0, MaxStops <- 0, MaxTime <- 3,
    Lines <- {}, MaxLines <- 0, MaxSamples <- 0, MaxFamilies <- 0,
    MaxOutput <- 0, None <- Off, now <- metNow, target <- metTarget,
    alive <- metAlive, registrations <- metRegistrations, task <- metTask
Y == INSTANCE TelemetryMetrics WITH
    Mgs <- {}, Seats <- {}, Sizes <- {}, StateCap <- 0, Lease <- 1,
    Cadence <- 1, Bucket <- 1, Workers <- 0, MaxRegistrations <- 0,
    MaxPolls <- 0, MaxStops <- 0, MaxTime <- 0, Lines <- GuardianLines,
    MaxLines <- 5, MaxSamples <- 4, MaxFamilies <- 3, MaxOutput <- 7,
    None <- Off, now <- metNow, target <- metTarget, alive <- metAlive,
    registrations <- metRegistrations, task <- metTask

outboxVars == <<now, hook, marker, reg, row, used, task, pc, crashes,
                replays, accepted, refused>>
admissionVars == <<clock, routes, owners, hooks, door>>
rollingVars == <<dir, disk, segment, synced, writer, todo, lock, reader,
                 appended, long, acked, lost, failed, wiped, minted>>
targetVars == <<tgtNow, mg, request, consumed, budget, verifying, tgtTarget,
                admitted, tgtUsed>>
archiveVars == <<arcNow, arcTarget, arcRegistrations, source, stream, ledger,
                 file, arcUsed, poisoned, pruned, cycle, poll, closing,
                 arcAlive, taken, failures>>
metricVars == <<metNow, metTarget, metRegistrations, snapshot, listed,
                pollState, revision, due, metTask, cache, scrape, retained,
                metAlive, attempts, stops, feed>>
allVars == <<part, outboxVars, admissionVars, rollingVars, targetVars,
             archiveVars, metricVars>>

\* A component that is not under check is switched off.
PartsInit ==
    /\ part \in Parts
    /\ CASE part = "outbox" -> O!Init
            [] part = "keys" -> K!Init
            [] part = "legacy" -> L!Init
            [] OTHER ->
            /\ now = Off /\ hook = Off /\ marker = Off /\ reg = Off
            /\ row = Off /\ used = Off /\ task = Off /\ pc = Off
            /\ crashes = Off /\ replays = Off /\ accepted = Off /\ refused = Off
    /\ CASE part = "registrations" -> R!Init
            [] part = "recipients" -> G!Init
            [] part = "hooks" -> H!Init
            [] part = "door" -> D!Init
            [] OTHER ->
            /\ clock = Off /\ routes = Off /\ owners = Off /\ hooks = Off
            /\ door = Off
    /\ CASE part = "rolling" -> J!Init
            [] part = "rotation" -> S!Init
            [] OTHER ->
            /\ dir = Off /\ disk = Off /\ segment = Off /\ synced = Off
            /\ writer = Off /\ todo = Off /\ lock = Off /\ reader = Off
            /\ appended = Off /\ long = Off /\ acked = Off /\ lost = Off
            /\ failed = Off /\ wiped = Off /\ minted = Off
    /\ CASE part = "targets" -> T!Init
            [] part = "places" -> C!Init
            [] OTHER ->
            /\ tgtNow = Off /\ mg = Off /\ request = Off /\ consumed = Off
            /\ budget = Off /\ verifying = Off /\ tgtTarget = Off /\ admitted = Off
            /\ tgtUsed = Off
    /\ CASE part = "archive" -> A!Init
            [] part = "gaps" -> B!Init
            [] OTHER ->
            /\ arcNow = Off /\ arcTarget = Off /\ arcRegistrations = Off /\ source = Off
            /\ stream = Off /\ ledger = Off /\ file = Off /\ arcUsed = Off
            /\ poisoned = Off /\ pruned = Off /\ cycle = Off /\ poll = Off
            /\ closing = Off /\ arcAlive = Off /\ taken = Off /\ failures = Off
    /\ CASE part = "metrics" -> X!Init
            [] part = "restarts" -> W!Init
            [] part = "leases" -> Z!Init
            [] part = "policy" -> Y!Init
            [] OTHER ->
            /\ metNow = Off /\ metTarget = Off /\ metRegistrations = Off /\ snapshot = Off
            /\ listed = Off /\ pollState = Off /\ revision = Off /\ due = Off
            /\ metTask = Off /\ cache = Off /\ scrape = Off /\ retained = Off
            /\ metAlive = Off /\ attempts = Off /\ stops = Off /\ feed = Off

PartsNext ==
    \/ part = "outbox" /\ O!Next
       /\ UNCHANGED <<part, admissionVars, rollingVars, targetVars, archiveVars, metricVars>>
    \/ part = "keys" /\ K!Next
       /\ UNCHANGED <<part, admissionVars, rollingVars, targetVars, archiveVars, metricVars>>
    \/ part = "legacy" /\ L!Next
       /\ UNCHANGED <<part, admissionVars, rollingVars, targetVars, archiveVars, metricVars>>
    \/ part = "registrations" /\ R!Next
       /\ UNCHANGED <<part, outboxVars, rollingVars, targetVars, archiveVars, metricVars>>
    \/ part = "recipients" /\ G!Next
       /\ UNCHANGED <<part, outboxVars, rollingVars, targetVars, archiveVars, metricVars>>
    \/ part = "hooks" /\ H!Next
       /\ UNCHANGED <<part, outboxVars, rollingVars, targetVars, archiveVars, metricVars>>
    \/ part = "door" /\ D!DoorNext
       /\ UNCHANGED <<part, outboxVars, rollingVars, targetVars, archiveVars, metricVars>>
    \/ part = "rolling" /\ J!Next
       /\ UNCHANGED <<part, outboxVars, admissionVars, targetVars, archiveVars, metricVars>>
    \/ part = "rotation" /\ S!Next
       /\ UNCHANGED <<part, outboxVars, admissionVars, targetVars, archiveVars, metricVars>>
    \/ part = "targets" /\ T!Next
       /\ UNCHANGED <<part, outboxVars, admissionVars, rollingVars, archiveVars, metricVars>>
    \/ part = "places" /\ C!Next
       /\ UNCHANGED <<part, outboxVars, admissionVars, rollingVars, archiveVars, metricVars>>
    \/ part = "archive" /\ A!Next
       /\ UNCHANGED <<part, outboxVars, admissionVars, rollingVars, targetVars, metricVars>>
    \/ part = "gaps" /\ B!Next
       /\ UNCHANGED <<part, outboxVars, admissionVars, rollingVars, targetVars, metricVars>>
    \/ part = "metrics" /\ X!Next
       /\ UNCHANGED <<part, outboxVars, admissionVars, rollingVars, targetVars, archiveVars>>
    \/ part = "restarts" /\ W!Next
       /\ UNCHANGED <<part, outboxVars, admissionVars, rollingVars, targetVars, archiveVars>>
    \/ part = "leases" /\ Z!Next
       /\ UNCHANGED <<part, outboxVars, admissionVars, rollingVars, targetVars, archiveVars>>
    \/ part = "policy" /\ Y!PolicyNext
       /\ UNCHANGED <<part, outboxVars, admissionVars, rollingVars, targetVars, archiveVars>>

PartsSpec == PartsInit /\ [][PartsNext]_allVars

Symmetry == Permutations(Tokens) \cup Permutations(Devices)

\* An invocation is handled once: a caller's key never creates a second event,
\* whatever was purged and reclaimed between two attempts; unresolved rows
\* stay within the backlog; one row has one send at a time; a registration is
\* only disabled for the token the provider refused; and no late answer counts
\* as a success (accept_invocation, claim_due, mark_succeeded,
\* mark_invalid_token_and_disable_registration).
HandledOnce ==
    /\ part = "keys" => K!TypeOK /\ K!AcceptedOnce /\ K!BacklogBounded
    /\ part = "legacy" => L!TypeOK /\ L!AcceptedOnce
    /\ part = "outbox" =>
        /\ O!TypeOK /\ O!BacklogBounded
        /\ O!OneSendPerRow /\ O!DisabledForCause /\ O!NoLateSuccess

\* A settled row is final: a late answer of an earlier claim, a restart or an
\* expiry never reopens or rewrites it.  Only the operator, with the gateway
\* stopped, puts a dead letter back.
TerminalIsFinal == [][part = "outbox" => O!TerminalIsFinal]_allVars

\* Registrations and token owners agree, a token routes to one installation,
\* and no sequence of admissions, moves, rotations, deletions and reclamations
\* takes the rows above a ceiling, although the ceilings are checked on a
\* projection of the change.  The signed requests that drive them open the
\* door once each and are charged to the address they come from, provided the
\* trusted proxies append to one forwarding header and strip the other
\* (admit_installation, create_hook, record_unused, effective_source_prefix).
RegistrationsAgree ==
    /\ part = "registrations" =>
        /\ R!TypeOK /\ R!OwnerAgrees
        /\ R!TokenRoutesOnce /\ R!ActiveWithinCaps /\ R!RowsWithinCap
    /\ part = "recipients" =>
        /\ G!TypeOK /\ G!OwnerAgrees
        /\ G!TokenRoutesOnce /\ G!ActiveWithinCaps /\ G!RowsWithinCap
    /\ part = "door" => D!UsedOnce /\ D!SourceIsCaller
    /\ part = "hooks" => H!TypeOK /\ H!OwnerAgrees /\ H!HooksWithinCaps

\* Telemetry is lost only where a loss is reported.  A record the guardian's
\* journal acknowledged is read once and in order, or the batch that passes
\* it over has its gap flag: what the flag reports is missing before the batch
\* when the read had to start again, and behind it when a record was longer
\* than a batch.  Power losses and failed directory operations neither drop an
\* acknowledged record silently, nor leave a journal that a later open refuses
\* (append_record, rotate, open, read_batch_anchored).  What the collector's
\* cursor says it has is in its archive, consecutive within one generation of
\* a stream except where a gap is marked, and counted against the quota,
\* wherever a stop, a failed append, a prune or a re-registration cuts a poll
\* (commit_journal_batch, commit_incarnation_change, recover, prune_before).
ArchiveIsFaithful ==
    /\ part = "rolling" => J!TypeOK /\ J!NoSilentGap /\ J!AckedSurvives /\ J!AlwaysReopens
    /\ part = "rotation" => S!TypeOK /\ S!NoSilentGap /\ S!AckedSurvives /\ S!AlwaysReopens
    /\ part = "archive" => A!TypeOK /\ A!CommittedIsArchived /\ A!ArchiveIsContiguous /\ A!UsageIsCounted
    /\ part = "gaps" => B!TypeOK /\ B!CommittedIsArchived /\ B!ArchiveIsContiguous /\ B!UsageIsCounted

\* A registration is admitted once and never goes back to an older one, and a
\* target's revision names one endpoint and capability; the exposition a
\* scrape is served shows the targets whose lease runs, but for those a
\* registration with an overtaken reading of the clock has revived or cut
\* short under the revision of the cached body; polls keep their cadence
\* through renewals and restarts, and what is stored stays within its cap
\* (reserve_auth, admit, metrics_at, reserve_metric_attempt, commit_metrics);
\* and of the samples a guardian shows, whole families are kept, which every
\* later admission keeps as well (project_with_identity,
\* revalidate_persisted).
ExpositionIsCurrent ==
    /\ part = "targets" => T!TypeOK /\ T!RegistrationsAreOrdered
    /\ part = "places" => C!TypeOK /\ C!RegistrationsAreOrdered
    /\ part = "metrics" => X!TypeOK /\ X!CacheIsCurrent /\ X!CadenceIsKept /\ X!StoredIsCapped
    /\ part = "restarts" => W!TypeOK /\ W!CacheIsCurrent /\ W!CadenceIsKept /\ W!StoredIsCapped
    /\ part = "leases" => Z!TypeOK /\ Z!CacheIsCurrent /\ Z!CadenceIsKept /\ Z!StoredIsCapped
    /\ part = "policy" => Y!PolicyIsExact

\* What a poll fetched reaches the archive, the cursor (also when the guardian
\* turns out to have a new incarnation), the snapshots and the listed seats
\* only if the guardian has kept the endpoint and the capability the poll
\* connected with ever since, although a registration may have changed them
\* and changed them back, and while its lease runs (admit, begin_collection_work,
\* commit_journal_batch, commit_incarnation_change, commit_metrics).
PollsAreFenced ==
    [][/\ part = "archive" => A!CommitsAreFenced
       /\ part = "metrics" => X!CommitsAreFenced
       /\ part = "restarts" => W!CommitsAreFenced]_allVars
==============================================================================
