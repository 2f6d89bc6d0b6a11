----------------------------- MODULE PushOutbox -----------------------------
(***************************************************************************)
(* Hook invocation and push delivery in the push gateway:                  *)
(* push-gateway/src/invoke_hook.rs (acceptance), delivery_worker.rs (the   *)
(* worker), push-gateway-storage/src/delivery_outbox.rs and                *)
(* hook_idempotency_repository.rs (the durable rows), and the start-up     *)
(* purges of app_state.rs.                                                 *)
(*                                                                         *)
(* Every database mutation of the process holds the write lock of          *)
(* database_write_lock.rs, so each one is one step; provider calls run     *)
(* outside it and interleave with everything.  A hook names exactly one    *)
(* installation, so an accepted invocation writes one event and one outbox *)
(* row: row r below is both, and row[r].event says that the event is still *)
(* retained.  Rate limits and backlog caps only refuse a call, and a       *)
(* refused call rolls its transaction back.  Registration ownership and    *)
(* ageing are PushAdmission's; here an installation has a token and may be *)
(* disabled or gone.                                                       *)
(***************************************************************************)
EXTENDS Integers, FiniteSets, Sequences

CONSTANTS
    Hooks,          \* hook ids; a hook is created once, before time 1
    Keys,           \* caller idempotency keys
    NoKey,          \* an invocation without a key
    Tokens,         \* FCM tokens the installation may hold
    NoToken,        \* the registration row is gone
    Expires,        \* [Hooks -> Nat]: notification_hooks.expires_at, or Never
    Never,          \* the expires_at a legacy hook does not have
    HookLifetime,   \* MAX_HOOK_LIFETIME_SECONDS
    MaxUses,        \* notification_hooks.max_uses
    Deadline,       \* DELIVERY_RESOLUTION_DEADLINE_SECONDS
    Lease,          \* IN_PROGRESS_LEASE_SECONDS
    ProviderTimeout,\* PROVIDER_DELIVERY_TIMEOUT
    Backoff,        \* [1 .. MaxAttempts -> Nat]: backoff_seconds
    MaxAttempts,    \* MAX_DELIVERY_ATTEMPTS
    Concurrency,    \* outbox_worker_concurrency
    Backlog,        \* max_global_outbox_backlog
    Markers,        \* max_idempotency_rows_global
    Margin,         \* IDEMPOTENCY_CLEANUP_MARGIN_SECONDS
    Retention,      \* retention_seconds
    MaxTime,        \* bound: the last second of a behaviour
    MaxRows,        \* bound: invocations accepted in a behaviour
    MaxReplays,     \* bound: operator replays
    MaxCrashes      \* bound: restarts of the process

VARIABLES
    now,        \* unix time, shared by process and database
    hook,       \* [Hooks -> [exists, revoked, uses]]: notification_hooks
    marker,     \* [Hooks -> [Keys -> retain_until, or 0]]: idempotency tombstones
    reg,        \* push_registrations of the installation: [token, disabled]
    row,        \* delivery_outbox (and its notification_events row); "claims"
                \* counts the claims made, so that claim ids are never reused
    used,       \* rows created so far
    task,       \* deliveries in flight in this process
    pc,         \* the worker: "down", "reset", "wait", "claim"
    crashes, replays,
    accepted,   \* ghost: [Hooks -> [Keys -> when events were created for the key]]
    refused     \* ghost: tokens the provider has declared permanently bad

vars == <<now, hook, marker, reg, row, used, task, pc, crashes, replays, accepted, refused>>

Active == {"pending", "retrying", "in_progress"}
Terminal == {"succeeded", "invalid_token", "dead_letter"}
Rows == 1 .. MaxRows
Gone == "gone"

NoRow == [status |-> Gone, event |-> FALSE, hook |-> CHOOSE h \in Hooks : TRUE, key |-> NoKey,
          token |-> NoToken, attempts |-> 0, next |-> 0, created |-> 0, updated |-> 0,
          claim |-> 0, claims |-> 0]

Init ==
    /\ now = 1
    /\ hook = [h \in Hooks |-> [exists |-> TRUE, revoked |-> FALSE, uses |-> 0]]
    /\ marker = [h \in Hooks |-> [k \in Keys |-> 0]]
    /\ \E t \in Tokens : reg = [token |-> t, disabled |-> "no"]
    /\ row = [r \in Rows |-> NoRow]
    /\ used = 0 /\ task = {} /\ pc = "reset"
    /\ crashes = 0 /\ replays = 0
    /\ accepted = [h \in Hooks |-> [k \in Keys |-> <<>>]]
    /\ refused = {}

----------------------------------------------------------------------------
(* Accepting an invocation.                                                *)

\* classify_hook_capability_terminated and the secret check: a deleted,
\* revoked or expired hook answers nothing, not even a replayed key.
Current(h) == ~hook[h].revoked /\ (Expires[h] # Never => now < Expires[h])
Capable(h) == hook[h].exists /\ Current(h)

ActiveRows == {r \in Rows : row[r].status \in Active}
Marked(h, k) == marker[h][k] # 0
Purged(m) == [h \in Hooks |-> [k \in Keys |-> IF m[h][k] < now THEN 0 ELSE m[h][k]]]
MarkerCount(m) == Cardinality({p \in Hooks \X Keys : m[p[1]][p[2]] # 0})

\* UNIQUE (hook_id, caller_idempotency_key) on notification_events.
EventExists(h, k) ==
    k # NoKey /\ \E r \in Rows : row[r].event /\ row[r].hook = h /\ row[r].key = k

\* record_in_transaction: the hook's lifetime, or the longest one from now on.
RetainUntil(h) ==
    LET end == IF Expires[h] = Never THEN now + HookLifetime ELSE Expires[h]
    IN  (IF end > now THEN end ELSE now) + Margin

\* A known key returns the recorded count and changes nothing; everything
\* else is admitted against the current policy in one transaction that also
\* writes the event, the marker and the outbox row.  With a key, expired
\* markers are reclaimed first.
InvocationUpTo(h, k, limit) ==
    /\ pc # "down" /\ Capable(h)
    /\ k # NoKey => ~Marked(h, k)
    /\ hook[h].uses < MaxUses
    /\ reg.token # NoToken /\ reg.disabled = "no"
    /\ k # NoKey => MarkerCount(Purged(marker)) < Markers
    /\ Cardinality(ActiveRows) < limit
    /\ ~EventExists(h, k)

InvocationAllowed(h, k) == InvocationUpTo(h, k, Backlog)

AcceptWith(h, k, until) ==
    /\ used < MaxRows /\ now + Deadline < MaxTime
    /\ used' = used + 1
    /\ hook' = [hook EXCEPT ![h].uses = @ + 1]
    /\ row' = [row EXCEPT ![used + 1] =
                 [status |-> "pending", event |-> TRUE, hook |-> h, key |-> k, token |-> reg.token,
                  attempts |-> 0, next |-> now, created |-> now, updated |-> now,
                  claim |-> 0, claims |-> 0]]
    /\ marker' = IF k = NoKey THEN marker ELSE [Purged(marker) EXCEPT ![h][k] = until]
    /\ accepted' = IF k = NoKey THEN accepted ELSE [accepted EXCEPT ![h][k] = Append(@, now)]
    /\ UNCHANGED <<now, reg, task, pc, crashes, replays, refused>>

AcceptShortMarker(h, k) == InvocationAllowed(h, k) /\ AcceptWith(h, k, now + Margin)

AcceptInvocation(h, k) == InvocationAllowed(h, k) /\ AcceptWith(h, k, RetainUntil(h))

RevokeHook(h) ==
    /\ pc # "down" /\ hook[h].exists /\ ~hook[h].revoked
    /\ hook' = [hook EXCEPT ![h].revoked = TRUE]
    /\ UNCHANGED <<now, marker, reg, row, used, task, pc, crashes, replays, accepted, refused>>

\* A signed registration refresh: the token may rotate and a disabled row is
\* enabled again (admit_installation's upsert).
RegisterInstallation(t) ==
    /\ pc # "down"
    /\ reg # [token |-> t, disabled |-> "no"]
    /\ reg' = [token |-> t, disabled |-> "no"]
    /\ UNCHANGED <<now, hook, marker, row, used, task, pc, crashes, replays, accepted, refused>>

\* disable_installation; COALESCE keeps an earlier reason.
DisableInstallation ==
    /\ pc # "down" /\ reg.token # NoToken /\ reg.disabled = "no"
    /\ reg' = [reg EXCEPT !.disabled = "user"]
    /\ UNCHANGED <<now, hook, marker, row, used, task, pc, crashes, replays, accepted, refused>>

----------------------------------------------------------------------------
(* The delivery worker.                                                    *)

ResetInProgress ==
    /\ pc = "reset"
    /\ row' = [r \in Rows |->
                 IF row[r].status = "in_progress"
                 THEN [row[r] EXCEPT !.status = "pending", !.updated = now] ELSE row[r]]
    /\ pc' = "wait"
    /\ UNCHANGED <<now, hook, marker, reg, used, task, crashes, replays, accepted, refused>>

Overdue(r) == row[r].created + Deadline <= now

DeadLetter(r) == [row[r] EXCEPT !.status = "dead_letter", !.next = now, !.updated = now, !.claim = 0]

ExpireThose(states) ==
    /\ pc = "wait"
    /\ row' = [r \in Rows |->
                 IF row[r].status \in states /\ Overdue(r) THEN DeadLetter(r) ELSE row[r]]
    /\ pc' = "claim"
    /\ UNCHANGED <<now, hook, marker, reg, used, task, crashes, replays, accepted, refused>>

ExpireUnclaimed == ExpireThose({"pending", "retrying"})

ExpireDeliveryResolutionDeadlines == ExpireThose(Active)

Due(r) == row[r].status \in Active /\ row[r].next <= now

\* ORDER BY next_attempt_at, created_at LIMIT 1.
First(r) ==
    /\ Due(r)
    /\ \A s \in Rows : Due(s) =>
         \/ row[r].next < row[s].next
         \/ row[r].next = row[s].next /\ row[r].created <= row[s].created

\* A claim takes a fresh fencing token and leases the row.
Claimed(r) ==
    [row[r] EXCEPT !.status = "in_progress", !.claims = @ + 1, !.claim = row[r].claims + 1,
                   !.next = now + Lease, !.updated = now]

ClaimThat(r) ==
    /\ pc = "claim" /\ Cardinality(task) < Concurrency
    /\ row' = [row EXCEPT ![r] = Claimed(r)]
    /\ task' = task \cup {[row |-> r, claim |-> row[r].claims + 1, start |-> now, stage |-> "sending"]}
    /\ UNCHANGED <<now, hook, marker, reg, used, pc, crashes, replays, accepted, refused>>

ClaimDue(r) == First(r) /\ ClaimThat(r)

\* The claimed row does not decode: it is dead-lettered at once and no task
\* is started.
ClaimCorrupted(r) ==
    /\ pc = "claim" /\ Cardinality(task) < Concurrency /\ First(r)
    /\ row' = [row EXCEPT ![r] = [DeadLetter(r) EXCEPT !.attempts = @ + 1, !.claims = @ + 1]]
    /\ UNCHANGED <<now, hook, marker, reg, used, task, pc, crashes, replays, accepted, refused>>

\* Nothing is due or every permit is taken: the worker waits for a
\* notification, a finished task or its timer, any of which starts the next
\* iteration with an expiry pass.
WorkerWaits ==
    /\ pc = "claim"
    /\ Cardinality(task) = Concurrency \/ ~\E r \in Rows : Due(r)
    /\ pc' = "wait"
    /\ UNCHANGED <<now, hook, marker, reg, row, used, task, crashes, replays, accepted, refused>>

\* deliver_provider_call: the earlier of the provider timeout and the row's
\* deadline, except that a row already past it has the whole timeout (the
\* negative remainder does not convert to u64).
SendUntil(t) ==
    LET remaining == row[t.row].created + Deadline - t.start
    IN  t.start + (IF remaining \in 0 .. ProviderTimeout THEN remaining ELSE ProviderTimeout)

Outcomes == {"ok", "invalid_token", "invalid_payload", "unavailable"}

ProviderAnswers(t, outcome) ==
    /\ t \in task /\ t.stage = "sending"
    /\ task' = (task \ {t}) \cup {[t EXCEPT !.stage = outcome]}
    /\ refused' = IF outcome = "invalid_token" THEN refused \cup {row[t.row].token} ELSE refused
    /\ UNCHANGED <<now, hook, marker, reg, row, used, pc, crashes, replays, accepted>>

\* WHERE outbox_id = .. AND claim_id = .. AND status = 'in_progress'.
Fenced(t) == row[t.row].status = "in_progress" /\ row[t.row].claim = t.claim
Settle(t, new) ==
    /\ row' = [row EXCEPT ![t.row] = new]
    /\ task' = task \ {t}

DropTask(t) == row' = row /\ task' = task \ {t}

SucceededRow(t) == [row[t.row] EXCEPT !.status = "succeeded", !.claim = 0, !.updated = now]

MarkWhen(t, holds) ==
    /\ t \in task /\ t.stage = "ok"
    /\ IF holds THEN Settle(t, SucceededRow(t)) ELSE DropTask(t)
    /\ UNCHANGED <<now, hook, marker, reg, used, pc, crashes, replays, accepted, refused>>

MarkSucceeded(t) == MarkWhen(t, Fenced(t) /\ ~Overdue(t.row))

FailedRow(t, permanent) ==
    LET r == t.row
        n == row[r].attempts + 1
        dead == permanent \/ n >= MaxAttempts \/ Overdue(r)
    IN  [row[r] EXCEPT !.status = IF dead THEN "dead_letter" ELSE "retrying", !.attempts = n,
                       !.next = IF dead THEN now ELSE now + Backoff[n], !.updated = now, !.claim = 0]

MarkFailed(t) ==
    /\ t \in task /\ t.stage \in {"invalid_payload", "unavailable"}
    /\ IF Fenced(t) THEN Settle(t, FailedRow(t, t.stage = "invalid_payload")) ELSE DropTask(t)
    /\ UNCHANGED <<now, hook, marker, reg, used, pc, crashes, replays, accepted, refused>>

\* One transaction: the row becomes terminal and the registration is disabled
\* if it still holds the token that was refused.
Invalidate(t, holds, matches) ==
    /\ t \in task /\ t.stage = "invalid_token"
    /\ IF holds
       THEN Settle(t, [row[t.row] EXCEPT !.status = "invalid_token", !.attempts = @ + 1,
                                          !.next = now, !.updated = now, !.claim = 0])
       ELSE DropTask(t)
    /\ reg' = IF holds /\ matches /\ reg.token # NoToken /\ reg.disabled = "no"
              THEN [reg EXCEPT !.disabled = "provider"] ELSE reg
    /\ UNCHANGED <<now, hook, marker, used, pc, crashes, replays, accepted, refused>>

InvalidateUnfenced(t) == Invalidate(t, TRUE, reg.token = row[t.row].token)

MarkInvalidTokenAndDisableRegistration(t) ==
    Invalidate(t, Fenced(t), reg.token = row[t.row].token)

----------------------------------------------------------------------------
(* The process, the operator and the clock.                                *)

\* A crash (or a shutdown: the tasks it would have drained may all finish
\* first) loses the tasks and nothing durable.
CrashWith(left) ==
    /\ pc # "down" /\ crashes < MaxCrashes
    /\ pc' = "down" /\ task' = left /\ crashes' = crashes + 1
    /\ UNCHANGED <<now, hook, marker, reg, row, used, replays, accepted, refused>>

Crash == CrashWith({})

\* AppState::connect: the retention purges, then the worker is started.
Kept(r) == ~(row[r].status \in Terminal /\ row[r].updated < now - Retention)
Retained(r) ==
    LET status == IF Kept(r) THEN row[r].status ELSE Gone
        event == row[r].event /\ (row[r].created >= now - Retention \/ status # Gone)
    IN  IF event THEN [row[r] EXCEPT !.status = status] ELSE NoRow
StillReferenced(h) == \E r \in Rows : Retained(r).event /\ row[r].hook = h
KeptHook(h) == hook[h].exists /\ (Current(h) \/ StillReferenced(h))

ConnectPurging(markers) ==
    /\ pc = "down"
    /\ pc' = "reset"
    /\ row' = [r \in Rows |-> Retained(r)]
    /\ hook' = [h \in Hooks |-> [hook[h] EXCEPT !.exists = KeptHook(h)]]
    /\ marker' = [h \in Hooks |-> IF KeptHook(h) THEN markers[h] ELSE [k \in Keys |-> 0]]
    /\ \/ reg' = reg
       \/ reg.disabled # "no" /\ reg' = [token |-> NoToken, disabled |-> "no"]
    /\ UNCHANGED <<now, used, task, crashes, replays, accepted, refused>>

Connect == ConnectPurging(Purged(marker))

\* The operator's commands, run while the gateway is stopped.
ReplayDeadLetterRows(S) ==
    /\ pc = "down" /\ S # {} /\ replays + Cardinality(S) <= MaxReplays
    /\ \A r \in S : row[r].status = "dead_letter" /\ ~Overdue(r)
    /\ row' = [r \in Rows |->
                 IF r \in S THEN [row[r] EXCEPT !.status = "pending", !.claim = 0,
                                                !.next = now, !.updated = now] ELSE row[r]]
    /\ replays' = replays + Cardinality(S)
    /\ UNCHANGED <<now, hook, marker, reg, used, task, pc, crashes, accepted, refused>>

DeleteDeadLetterRows(S) ==
    /\ pc = "down" /\ S # {} /\ \A r \in S : row[r].status = "dead_letter"
    /\ row' = [r \in Rows |-> IF r \in S THEN [row[r] EXCEPT !.status = Gone] ELSE row[r]]
    /\ UNCHANGED <<now, hook, marker, reg, used, task, pc, crashes, replays, accepted, refused>>

\* A provider call does not outlive its timeout.
Tick ==
    /\ now < MaxTime
    /\ \A t \in task : t.stage = "sending" => now < SendUntil(t)
    /\ now' = now + 1
    /\ UNCHANGED <<hook, marker, reg, row, used, task, pc, crashes, replays, accepted, refused>>

Worker ==
    \/ ResetInProgress \/ ExpireDeliveryResolutionDeadlines \/ WorkerWaits
    \/ \E r \in Rows : ClaimDue(r) \/ ClaimCorrupted(r)

Deliveries ==
    \E t \in task :
        \/ \E o \in Outcomes : ProviderAnswers(t, o)
        \/ MarkSucceeded(t) \/ MarkFailed(t) \/ MarkInvalidTokenAndDisableRegistration(t)

Next ==
    \/ \E h \in Hooks : RevokeHook(h) \/ \E k \in Keys \cup {NoKey} : AcceptInvocation(h, k)
    \/ \E t \in Tokens : RegisterInstallation(t)
    \/ DisableInstallation
    \/ Worker \/ Deliveries
    \/ Crash \/ Connect
    \/ \E S \in SUBSET Rows : ReplayDeadLetterRows(S) \/ DeleteDeadLetterRows(S)
    \/ Tick

Spec == Init /\ [][Next]_vars

----------------------------------------------------------------------------
(* Properties.                                                             *)

\* The durable rows and the in-memory tasks have the shapes of their tables.
TypeOK ==
    /\ now \in 1 .. MaxTime /\ used \in 0 .. MaxRows
    /\ pc \in {"down", "reset", "wait", "claim"}
    /\ hook \in [Hooks -> [exists : BOOLEAN, revoked : BOOLEAN, uses : 0 .. MaxUses]]
    /\ marker \in [Hooks -> [Keys -> Nat]]
    /\ reg \in [token : Tokens \cup {NoToken}, disabled : {"no", "user", "provider"}]
    /\ row \in [Rows -> [status : Active \cup Terminal \cup {Gone}, event : BOOLEAN, hook : Hooks,
                         key : Keys \cup {NoKey}, token : Tokens \cup {NoToken}, attempts : Nat,
                         next : Nat, created : Nat, updated : Nat, claim : Nat, claims : Nat]]
    /\ \A t \in task : t.row \in Rows /\ row[t.row].claims >= t.claim
    /\ Cardinality(task) <= Concurrency

\* accept_invocation promises that replaying an accepted key never creates a
\* second event, "even after sensitive event/outbox retention cleanup": for
\* each hook and key at most one event is ever created, whatever the purges,
\* the marker reclamation and the restarts in between.  Of a legacy hook, which
\* never expires, that holds for the longest lifetime a hook may have.
AcceptedOnce ==
    \A h \in Hooks, k \in Keys : \A i, j \in DOMAIN accepted[h][k] : i < j =>
        Expires[h] = Never /\ accepted[h][k][j] - accepted[h][k][i] > HookLifetime + Margin

\* The lease and the provider timeout keep two sends of one row from running
\* at the same time in one process.
OneSendPerRow ==
    \A s, t \in task : s.stage = "sending" /\ t.stage = "sending" /\ s.row = t.row => s = t

\* mark_invalid_token_and_disable_registration disables only the token the
\* provider refused: a registration that has rotated to another token since
\* the row was written stays enabled.
DisabledForCause == reg.disabled = "provider" => reg.token \in refused

\* mark_succeeded refuses a late answer: a delivery counts as succeeded only
\* if it was settled before the row's resolution deadline.
NoLateSuccess ==
    \A r \in Rows : row[r].status = "succeeded" => row[r].updated < row[r].created + Deadline

\* enforce_outbox_backlog_caps: unresolved rows never exceed the cap, except by
\* the rows an operator replayed.
BacklogBounded == Cardinality(ActiveRows) <= Backlog + replays

\* Of every step: a settled row is final, a late answer of an earlier claim, a restart or an
\* expiry never reopens or rewrites it.  Only the operator, with the gateway
\* stopped, puts a dead letter back.
TerminalIsFinal ==
    \A r \in Rows : row[r].status \in Terminal =>
        \/ row'[r].status \in {row[r].status, Gone}
        \/ row[r].status = "dead_letter" /\ row'[r].status = "pending" /\ pc = "down"

\* delivery_outbox.rs promises a "maximum elapsed time from durable enqueue to
\* a terminal delivery outcome": every accepted row is settled, through
\* crashes, a provider that never answers and late answers.
AcceptedIsResolved ==
    \A r \in Rows : row[r].status \in Active ~> row[r].status \notin Active

=============================================================================
