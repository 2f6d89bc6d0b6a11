---------------------------- MODULE PushAdmission ----------------------------
(***************************************************************************)
(* Durable admission in the push gateway: installation registrations, the  *)
(* token-ownership rows that outlive them, and notification hooks          *)
(* (push-gateway-storage/src/push_registration_repository.rs and           *)
(* hook_repository.rs, called by push-gateway/src/register.rs and          *)
(* hook_management.rs under the database write lock).                      *)
(*                                                                         *)
(* Each operation is one transaction: a refused one rolls back whole, the  *)
(* reclamation it began with included.                                     *)
(*                                                                         *)
(* The last part (DoorNext) is what a signed request passes before its     *)
(* operation: nostr_http_auth.rs and rate_limits.rs.  The time check and   *)
(* the replay cache are two steps, with a lock waited for in between.      *)
(***************************************************************************)
EXTENDS Integers, FiniteSets, Sequences, SequencesExt, Functions

CONSTANTS
    Recipients, Installations, Tokens, Hooks,
    None,               \* no row
    Deleted,            \* a hook id whose row is gone
    TTL,                \* registration_ttl_seconds
    Retention,          \* retention_seconds
    MaxPerRecipient,    \* max_active_installations_per_recipient
    MaxActive,          \* max_active_installations_global
    MaxRegRows,         \* max_registration_rows_global
    MaxHooksPerRecipient, MaxHooks, MaxHookRows,
    Batch,              \* admission_gc_batch_size
    Lifetime,           \* a hook's expires_in_seconds
    MaxTime,            \* bound: the last second of a behaviour
    Events,             \* signed authorizations: created_at, recipient, request they are for
    Allowed,            \* admitted recipients
    Clients,            \* callers' addresses
    Forgeries,          \* what a caller may write in each of the forwarding headers
    Hops,               \* the proxies a request may pass
    TrustedNets,        \* trusted_proxy_cidrs
    MaxAge, Skew,       \* AUTH_EVENT_MAX_AGE_SECONDS, AUTH_EVENT_FUTURE_SKEW_SECONDS
    MaxEntries,         \* AUTH_REPLAY_CACHE_MAX_ENTRIES
    Window, FamilyCapacity,
    Budget,             \* [family -> requests in a window], 0 for no limit
    MaxStall,           \* bound: seconds a request waits between the two steps
    MaxCalls            \* bound: requests that wait at once

VARIABLES
    now,
    reg,    \* [Routes -> row]: push_registrations, by (recipient_id, installation_id)
    owner,  \* [Tokens -> row]: push_registration_token_owners
    hook,   \* [Hooks -> row]: notification_hooks; "event" says an event refers to it
    door    \* replay cache, rate windows, waiting requests; "used" and "passed" are history

vars == <<now, reg, owner, hook, door>>

Routes == Recipients \X Installations

Trusted(ip) == ip.net \in TrustedNets

\* An IPv6 caller is its /64, an IPv4 caller its address.
NormalizeSourcePrefix(ip) == IF ip.v6 THEN <<ip.net>> ELSE <<ip.net, ip.host>>

\* Every address a request can show.
Addresses ==
    Clients \cup UNION {Range(h) : h \in Hops}
            \cup UNION {Range(f["forwarded"]) \cup Range(f["x-forwarded-for"]) : f \in Forgeries}

Init ==
    /\ now = 1
    /\ reg = [p \in Routes |-> None]
    /\ owner = [t \in Tokens |-> None]
    /\ hook = [h \in Hooks |-> None]
    /\ door = [cache |-> <<>>, windows |-> <<>>, calls |-> {}, used |-> [e \in Events |-> 0],
                passed |-> [k \in {NormalizeSourcePrefix(c) : c \in Addresses} \X (1 .. MaxTime) |-> 0]]

----------------------------------------------------------------------------
(* Reading the tables.                                                     *)

RegRows(rg) == {p \in Routes : rg[p] # None}
OwnerRows(ow) == {t \in Tokens : ow[t] # None}

\* registration_row_is_active, at the cutoff now - TTL.
ActiveRegs(rg) == {p \in RegRows(rg) : rg[p].disabled = 0 /\ now - TTL <= rg[p].seen}
ActiveOf(rg, r) == {p \in ActiveRegs(rg) : p[1] = r}

\* DELETE .. ORDER BY key LIMIT n: the n oldest of the candidates.
Oldest(S, age(_), n) ==
    {D \in SUBSET S :
        /\ Cardinality(D) = IF Cardinality(S) < n THEN Cardinality(S) ELSE n
        /\ \A x \in D, y \in S \ D : age(x) <= age(y)}

StaleRegs == {p \in RegRows(reg) : reg[p].seen < now - TTL}
WithoutRegs(D) == [p \in Routes |-> IF p \in D THEN None ELSE reg[p]]

\* Owners of tokens no registration holds, last refreshed before the cutoff.
Orphans(rg) ==
    {t \in OwnerRows(owner) :
        owner[t].updated < now - TTL /\ \A p \in RegRows(rg) : rg[p].token # t}
WithoutOwners(D) == [t \in Tokens |-> IF t \in D THEN None ELSE owner[t]]

\* purge_stale_in_transaction: a batch of stale registrations, then a batch
\* of the owners this leaves without one.
Reclaimed ==
    UNION {{[reg |-> WithoutRegs(D), owner |-> WithoutOwners(E)] :
              E \in Oldest(Orphans(WithoutRegs(D)), LAMBDA t : owner[t].updated, Batch)} :
              D \in Oldest(StaleRegs, LAMBDA p : reg[p].seen, Batch)}

----------------------------------------------------------------------------
(* Registrations.                                                          *)

HoldersOf(rg, t) == {p \in RegRows(rg) : rg[p].token = t}

\* The token is bound to another recipient's other installation.
Conflicts(p, q) == q[1] # p[1] /\ q[2] # p[2]

\* The effect of admitting token t at route p on reclaimed tables db: the
\* token's other routes go, a token p rotates away from is released, and p's
\* registration and the token's owner are written.
AdmittedSeen(db, p, t, others, seen) ==
    LET old == IF db.reg[p] = None THEN t ELSE db.reg[p].token
        releases == old # t /\ db.owner[old] # None /\ db.owner[old].route = p
    IN  [reg |-> [q \in Routes |->
                    IF q = p THEN [token |-> t, disabled |-> 0, seen |-> seen]
                    ELSE IF q \in others THEN None ELSE db.reg[q]],
         owner |-> [u \in Tokens |->
                    IF u = t THEN [route |-> p, updated |-> now]
                    ELSE IF u = old /\ releases THEN None ELSE db.owner[u]]]

AdmittedKeepingOwner(db, p, t) ==
    [AdmittedSeen(db, p, t, HoldersOf(db.reg, t) \ {p}, now) EXCEPT
        !.owner[t] = IF db.owner[t] = None THEN @ ELSE db.owner[t]]

Admitted(db, p, t) == AdmittedSeen(db, p, t, HoldersOf(db.reg, t) \ {p}, now)

\* The ceilings are checked on net-delta projections before anything is
\* written: rows the admission will remove do not count against it.
ProjectedActive(db, p, t, mine(_)) ==
    LET removed == {q \in ActiveRegs(db.reg) : mine(q) /\ (q = p \/ q \in HoldersOf(db.reg, t))}
    IN  Cardinality({q \in ActiveRegs(db.reg) : mine(q)}) - Cardinality(removed) + 1

ProjectedRows(db, p, t) ==
    LET removed == Cardinality(HoldersOf(db.reg, t) \ {p})
                   + (IF db.reg[p] # None /\ db.reg[p].token # t /\ db.owner[db.reg[p].token] # None
                         /\ db.owner[db.reg[p].token].route = p THEN 1 ELSE 0)
        added == (IF db.reg[p] = None THEN 1 ELSE 0) + (IF db.owner[t] = None THEN 1 ELSE 0)
    IN  Cardinality(RegRows(db.reg)) + Cardinality(OwnerRows(db.owner)) - removed + added

Fits(db, p, t) ==
    /\ ProjectedActive(db, p, t, LAMBDA q : q[1] = p[1]) <= MaxPerRecipient
    /\ ProjectedActive(db, p, t, LAMBDA q : TRUE) <= MaxActive
    /\ ProjectedRows(db, p, t) <= MaxRegRows

\* The routes a token is bound to, by its registration and by its owner row.
BoundTo(db, t) ==
    HoldersOf(db.reg, t) \cup (IF db.owner[t] = None THEN {} ELSE {db.owner[t].route})

\* db is what the reclamation of the same transaction leaves.
AdmitInstallation(db, p, t) ==
    /\ \A q \in BoundTo(db, t) : ~Conflicts(p, q)
    /\ Fits(db, p, t)
    /\ LET new == Admitted(db, p, t)
       IN  reg' = new.reg /\ owner' = new.owner
    /\ UNCHANGED <<now, hook, door>>

\* The registration and every owner row still bound to the route.
DeleteInstallation(p) ==
    /\ reg[p] # None \/ \E t \in OwnerRows(owner) : owner[t].route = p
    /\ reg' = [reg EXCEPT ![p] = None]
    /\ owner' = WithoutOwners({t \in OwnerRows(owner) : owner[t].route = p})
    /\ UNCHANGED <<now, hook, door>>

\* By its owner (disable_installation) or after the provider refused the
\* token (PushOutbox).
DisableInstallation(p) ==
    /\ reg[p] # None
    /\ reg' = [reg EXCEPT ![p].disabled = IF @ = 0 THEN now ELSE @]
    /\ UNCHANGED <<now, owner, hook, door>>

----------------------------------------------------------------------------
(* Hooks.                                                                  *)

HookRows(hk) == {h \in Hooks : hk[h] # None /\ hk[h] # Deleted}
LiveHooks(hk) == {h \in HookRows(hk) : ~hk[h].revoked /\ now < hk[h].expires}
Reclaimable(hk) == {h \in HookRows(hk) \ LiveHooks(hk) : ~hk[h].event}
WithoutHooks(D) == [h \in Hooks |-> IF h \in D THEN Deleted ELSE hook[h]]

Target(p) == p \in ActiveRegs(reg)

HookFits(hk, r) ==
    /\ Cardinality({h \in LiveHooks(hk) : hk[h].route[1] = r}) < MaxHooksPerRecipient
    /\ Cardinality(LiveHooks(hk)) < MaxHooks
    /\ Cardinality(HookRows(hk)) < MaxHookRows

\* A hook id is random: it is never used twice.
AdmitHook(h, p) ==
    /\ hook[h] = None
    /\ Target(p)
    /\ \E D \in Oldest(Reclaimable(hook), LAMBDA g : hook[g].created, Batch) :
         /\ HookFits(WithoutHooks(D), p[1])
         /\ hook' = [WithoutHooks(D) EXCEPT ![h] =
                       [route |-> p, created |-> now, expires |-> now + Lifetime,
                        revoked |-> FALSE, event |-> FALSE]]
    /\ UNCHANGED <<now, reg, owner, door>>

RevokeHook(h) ==
    /\ h \in HookRows(hook) /\ ~hook[h].revoked
    /\ hook' = [hook EXCEPT ![h].revoked = TRUE]
    /\ UNCHANGED <<now, reg, owner, door>>

\* An accepted invocation (PushOutbox) leaves an event that refers to the hook.
InvokeHook(h) ==
    /\ h \in LiveHooks(hook) /\ Target(hook[h].route) /\ ~hook[h].event
    /\ hook' = [hook EXCEPT ![h].event = TRUE]
    /\ UNCHANGED <<now, reg, owner, door>>

\* AppState::connect: disabled registrations and events past the retention
\* horizon go, then all stale registrations and orphaned owners, then the
\* terminal hooks no event refers to.  Which events are old enough is
\* PushOutbox's, so here any may be.
Connect ==
    LET kept == {p \in RegRows(reg) :
                   /\ ~(reg[p].disabled # 0 /\ reg[p].disabled < now - Retention)
                   /\ reg[p].seen >= now - TTL}
        rg == WithoutRegs(Routes \ kept)
    IN  \E purged \in SUBSET {h \in HookRows(hook) : hook[h].event} :
          LET hk == [h \in Hooks |-> IF h \in purged THEN [hook[h] EXCEPT !.event = FALSE] ELSE hook[h]]
          IN  /\ reg' = rg
              /\ owner' = WithoutOwners(Orphans(rg))
              /\ hook' = [h \in Hooks |-> IF h \in Reclaimable(hk) THEN Deleted ELSE hk[h]]
              /\ UNCHANGED <<now, door>>

Tick == now < MaxTime /\ now' = now + 1 /\ UNCHANGED <<reg, owner, hook, door>>

Next ==
    \/ \E db \in Reclaimed, p \in Routes, t \in Tokens : AdmitInstallation(db, p, t)
    \/ \E p \in Routes :
         \/ DeleteInstallation(p) \/ DisableInstallation(p)
         \/ \E h \in Hooks : AdmitHook(h, p)
    \/ \E h \in Hooks : RevokeHook(h) \/ InvokeHook(h)
    \/ Connect \/ Tick

----------------------------------------------------------------------------
(* The door.                                                               *)

\* The last address no trusted proxy has, or the first one there is.
SelectClient(chain) ==
    LET outside == {i \in DOMAIN chain : ~Trusted(chain[i])}
    IN  chain[IF outside = {} THEN 1 ELSE CHOOSE i \in outside : \A j \in outside : j <= i]

\* forwarded_for: the addresses that parse in Forwarded, and those in
\* X-Forwarded-For only when there are none.
ForwardedFor(headers) ==
    IF headers["forwarded"] # <<>> THEN headers["forwarded"] ELSE headers["x-forwarded-for"]

\* Forwarding headers count only when a trusted proxy brings them.
EffectiveSourcePrefix(peer, headers) ==
    LET chain == ForwardedFor(headers) IN
    NormalizeSourcePrefix(IF Trusted(peer) /\ chain # <<>> THEN SelectClient(chain) ELSE peer)

\* What the last of the proxies sends on.  Each adds the address it was called
\* from to the one header the deployment uses, in the same line, and strips the
\* other, as SPEC-abuse-limits expects of trusted proxies.
Forwarding(forged, path, header) ==
    IF Len(path) = 1 THEN forged
    ELSE [h \in DOMAIN forged |-> IF h = header THEN forged[h] \o Front(path) ELSE <<>>]

\* RateLimiters::check: the family's ended windows go, a new key needs room,
\* and a key's window counts up to its budget.
Check(windows, family, key) ==
    LET id == <<family, key>>
        live == Restrict(windows, {k \in DOMAIN windows : k[1] = family => now < windows[k].start + Window})
        room == Cardinality({k \in DOMAIN live : k[1] = family}) < FamilyCapacity
        mine == IF id \in DOMAIN live THEN live[id] ELSE [start |-> now, count |-> 0]
    IN  IF Budget[family] = 0 THEN [ok |-> TRUE, windows |-> windows]
        ELSE IF (id \notin DOMAIN live /\ ~room) \/ mine.count >= Budget[family]
        THEN [ok |-> FALSE, windows |-> live]
        ELSE [ok |-> TRUE, windows |-> [k \in DOMAIN live \cup {id} |->
                IF k = id THEN [mine EXCEPT !.count = @ + 1] ELSE live[k]]]

\* The signature, the tags and the time: the event is for this request and
\* neither too old nor from the future.
Verifies(e, kind) == e.kind = kind /\ now - MaxAge <= e.at /\ e.at <= now + Skew

AuthBudget(source) == Check(door.windows, "auth", source)

\* The sources a caller's request may be charged to, over what it forges and
\* the way it takes.
SourcesOf(caller) ==
    {EffectiveSourcePrefix(Last(<<caller>> \o hops), Forwarding(forged, <<caller>> \o hops, header)) :
        forged \in Forgeries, hops \in Hops, header \in {"forwarded", "x-forwarded-for"}}

\* Up to the caller's budget.
Arrive(e, kind, caller, source) ==
    LET got == AuthBudget(source)
    IN  /\ Cardinality(door.calls) < MaxCalls
        /\ Verifies(e, kind)
        /\ door' = [door EXCEPT
             !.windows = got.windows,
             !.calls = IF got.ok THEN @ \cup {[event |-> e, source |-> source, caller |-> caller, since |-> now]} ELSE @,
             !.passed[<<source, now>>] = IF got.ok THEN @ + 1 ELSE @]

\* Expired ids leave from the front only.
Prune(cache) ==
    LET held == {i \in DOMAIN cache : cache[i].until > now}
    IN  IF held = {} THEN <<>>
        ELSE SubSeq(cache, CHOOSE i \in held : \A j \in held : i <= j, Len(cache))

Until(e) == LET end == e.at + MaxAge + Skew IN IF end > now THEN end ELSE now + 1

\* record_unused, under the cache's lock.  A full cache refuses.
RecordUnused(e) ==
    LET cache == Prune(door.cache)
        seen == \E i \in DOMAIN cache : cache[i].event = e
    IN  IF seen \/ Len(cache) >= MaxEntries THEN [ok |-> FALSE, cache |-> cache]
        ELSE [ok |-> TRUE, cache |-> Append(cache, [event |-> e, until |-> Until(e)])]

\* A registration write counts for its source, then for the recipient there.
WriteBudget(call) ==
    LET first == Check(door.windows, "source", call.source)
    IN  IF first.ok THEN Check(first.windows, "recipient_source", <<call.event.recipient, call.source>>)
        ELSE first

CreationBudget(call) == Check(door.windows, "creation", call.event.recipient)

\* verify_authorization: an unused event of an admitted recipient.
Admits(call, fresh) == fresh /\ call.event.recipient \in Allowed

\* The rest of the way in: the replay cache, the recipient, the budgets.
Enter(call) ==
    LET got == RecordUnused(call.event)
        own == IF call.event.kind = "create" THEN CreationBudget(call) ELSE WriteBudget(call)
    IN  door' = [door EXCEPT
            !.calls = @ \ {call},
            !.cache = got.cache,
            !.windows = IF Admits(call, got.ok) THEN own.windows ELSE @,
            !.used[call.event] = @ + (IF got.ok THEN 1 ELSE 0)]

DoorTick ==
    /\ now < MaxTime /\ \A call \in door.calls : now < call.since + MaxStall
    /\ now' = now + 1 /\ UNCHANGED door

DoorNext ==
    /\ \/ /\ \/ \E e \in Events, kind \in {x.kind : x \in Events}, caller \in Clients :
                  \E source \in SourcesOf(caller) : Arrive(e, kind, caller, source)
             \/ \E call \in door.calls : Enter(call)
          /\ UNCHANGED now
       \/ DoorTick
    /\ UNCHANGED <<reg, owner, hook>>

Spec == Init /\ [][Next]_vars

----------------------------------------------------------------------------
(* Properties.                                                             *)

PushRegistration == [token : Tokens, disabled : 0 .. now, seen : 1 .. now]

HookRecord == [route : Routes, created : 1 .. now, expires : Nat, revoked : BOOLEAN, event : BOOLEAN]

\* Rows have the columns of their tables.
TypeOK ==
    /\ now \in 1 .. MaxTime
    /\ reg \in [Routes -> PushRegistration \cup {None}]
    /\ owner \in [Tokens -> [route : Routes, updated : 1 .. now] \cup {None}]
    /\ hook \in [Hooks -> HookRecord \cup {None, Deleted}]

\* A token is delivered to at most one route: admit_installation removes the
\* token's former route before it writes the new one.
TokenRoutesOnce ==
    \A p, q \in RegRows(reg) : reg[p].token = reg[q].token => p = q

\* The two tables agree: whenever a route holds a token, the token's durable
\* owner is that route, through moves, rotations, account switches, deletions
\* and both kinds of reclamation.  The conflict check relies on it.
OwnerAgrees ==
    \A p \in RegRows(reg) : owner[reg[p].token] # None /\ owner[reg[p].token].route = p

\* The net-delta projections are exact: no sequence of admissions, moves and
\* rotations brings the active registrations above either ceiling.
ActiveWithinCaps ==
    /\ Cardinality(ActiveRegs(reg)) <= MaxActive
    /\ \A r \in Recipients : Cardinality(ActiveOf(reg, r)) <= MaxPerRecipient

\* Registration and ownership rows together stay within the physical ceiling.
RowsWithinCap == Cardinality(RegRows(reg)) + Cardinality(OwnerRows(owner)) <= MaxRegRows

\* Live hooks stay within their ceiling, and hook rows, the terminal ones that
\* events still pin included, within the physical one.
HooksWithinCaps ==
    /\ Cardinality(LiveHooks(hook)) <= MaxHooks
    /\ Cardinality(HookRows(hook)) <= MaxHookRows

\* A signed authorization opens the door at most once, although it stays in
\* time for a minute, the cache forgets and is bounded, and its time is checked
\* before the wait for the cache: an id outlives its event by the skew, so a
\* wait shorter than the skew cannot outlast it (verify_timestamp,
\* record_unused, prune).
UsedOnce == \A e \in Events : door.used[e] <= 1

\* A caller cannot choose the source it is charged to: whatever it writes in
\* the forwarding headers, directly or through trusted proxies that append to
\* one of them and strip the other, the budget is that of its own address
\* (effective_source_prefix), and no source passes more than two budgets in the
\* length of one window.
SourceIsCaller ==
    /\ \A call \in door.calls : call.source = NormalizeSourcePrefix(call.caller)
    /\ Budget["auth"] > 0 =>
         \A k \in DOMAIN door.passed :
            FoldFunctionOnSet(+, 0, door.passed, {j \in DOMAIN door.passed :
                j[1] = k[1] /\ j[2] \in k[2] .. k[2] + Window - 1}) <= 2 * Budget["auth"]

=============================================================================
