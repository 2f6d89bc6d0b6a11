------------------------------ MODULE Directory ------------------------------
(* What the roles read from and write to the Nostr relays: the publication   *)
(* of the setup-payment policy (setup-payment-publisher), the bounded relay  *)
(* queries of nostr-clients, the policy a Manifold Guardian and a Federation *)
(* Ambassador retain, and a Manifold Guardian's onboarding and holder        *)
(* authorization (mg/core/src/onboarding.rs, mg/nostr/src/lib.rs).           *)
EXTENDS Integers, Sequences, FiniteSets, SequencesExt

CONSTANTS
    Relays,    \* the relays of the environment's profile
    Runs,      \* runs of the publisher's tool
    Drivers,   \* driver runs of the Federation Ambassador that may overlap
    Guardian,  \* what the Manifold Guardian does: "policy", "enrolment"
    Policies,  \* policy contents: [members, ok], ok the releases admitting it
    Releases,  \* the releases a reader may be upgraded to, oldest first
    Published, \* the sets of events the relays may hold at the start
    MaxEvents, \* bound: events ever signed
    MaxTime,   \* bound: the clock
    Skew,      \* how far in the future an event or authorization may be dated
    Limit,     \* candidates a query keeps
    Issues,    \* issue times of the holder authorizations on the relays
    MaxBacks,  \* bound: times the guardian's clock is set back
    None

VARIABLES
    now,       \* the clock
    backs,     \* times it was set back
    held,      \* held[r]: the policy events relay r holds
    receipts,  \* signed events the publisher saved
    pub,       \* pub[x]: a run of the publisher's tool
    query,     \* query[c]: the relay query client c waits for
    release,   \* the release each reader runs
    row,       \* the policy event the guardian retains
    members,   \* the payment federations it accepts, beside the row
    epoch,     \* its offer epoch
    policy,    \* the policy its services use, in memory
    fa,        \* the event the Federation Ambassador stores
    driver,    \* driver[d]: one refresh of the Ambassador
    up,        \* the guardian's daemon: "down", "waiting" or "open"
    stage,     \* its onboarding stage
    raised,    \* the daemon was told that onboarding completed
    answer,    \* the onboarding request being answered
    auth,      \* issue time of the retained holder authorization, 0 for none
    auths,     \* the one in memory
    refresh,   \* the running daemon's authorization refresh
    seen,      \* the advertising loop: what it has taken note of
    listed     \* the authorization last advertised

relayVars == <<held, receipts, pub>>
policyVars == <<row, members, epoch, policy>>
enrolVars == <<stage, raised, answer, auth, auths, refresh, seen, listed>>
vars == <<now, backs, held, receipts, pub, query, release, row, members, epoch,
          policy, fa, driver, up, stage, raised, answer, auth, auths, refresh,
          seen, listed>>

Clients == Runs \cup Drivers \cup {"mg"}

(***************************************************************************)
(* The policy event and its admission (nostr/setup_payment_federations)    *)
(***************************************************************************)

\* members: the federations a policy admits; ok: the releases that admit its
\* content; real: it is the pinned publisher's, of the right kind and tag.
Events == [at : 0..MaxTime + Skew + 1, id : 1..MaxEvents, members : SUBSET Nat,
           ok : SUBSET Releases, real : BOOLEAN]

Newer(e, f) == e.at > f.at \/ (e.at = f.at /\ e.id < f.id)

AuthenticateAddress(e) == e.real

\* AdmittedSetupPaymentFederations::parse of a release: its bounds, known
\* protocol version, invites and limits decide whether it admits the content.
ParseContent(e, rel) == rel \in e.ok

StaticallyAdmit(e, rel) == AuthenticateAddress(e) /\ ParseContent(e, rel)

RestoreDurably(e, rel) ==
    IF e # None /\ StaticallyAdmit(e, rel) THEN e ELSE None

AdmitEvent(e, rel, time, current) ==
    /\ StaticallyAdmit(e, rel)
    /\ \/ current # None /\ e.id = current.id
       \/ /\ e.at <= time + Skew
          /\ current # None => Newer(e, current)

Newest(S) == IF S = {} THEN None ELSE CHOOSE e \in S : \A f \in S \ {e} : Newer(e, f)

Authentic(S) == {e \in S : AuthenticateAddress(e)}

(***************************************************************************)
(* A bounded relay query (nostr-clients/nostr_relay_client)                *)
(***************************************************************************)

\* kind "complete": fails unless one relay finished (FailClosed);
\* kind "capped": whatever arrived in time.
Query(kind, pending) ==
    [kind |-> kind, relays |-> pending, pending |-> pending, complete |-> 0,
     got |-> <<>>, done |-> FALSE, failed |-> FALSE]

Answer(q) == [q EXCEPT !.done = TRUE]
Incomplete(q) == [q EXCEPT !.done = TRUE, !.failed = TRUE]

Settle(q) ==
    IF q.kind = "capped" \/ q.complete > 0 THEN Answer(q) ELSE Incomplete(q)

\* connect_pool needs one relay; a pool keeps the relays it reached, a single
\* relay is asked whatever its state.
Subscribe(kind, S) == IF S = {} THEN Settle(Query(kind, S)) ELSE Query(kind, S)

Seen(q) == {q.got[i] : i \in DOMAIN q.got}

Collected(q, e) ==
    CASE q.kind = "capped" /\ Len(q.got) + 1 = Limit ->
            Answer([q EXCEPT !.got = Append(@, e)])
      [] q.kind = "complete" /\ Len(q.got) = Limit -> Settle(q)
      [] OTHER -> [q EXCEPT !.got = Append(@, e)]

Ended(q, r, finished) ==
    LET left == [q EXCEPT !.pending = @ \ {r},
                          !.complete = IF finished THEN @ + 1 ELSE @]
    IN  IF left.pending = {} THEN Settle(left) ELSE left

Waiting(c) == query[c] # None /\ ~query[c].done

Collect(c) ==
    /\ Waiting(c)
    /\ \E r \in query[c].pending : \E e \in held[r] \ Seen(query[c]) :
          query' = [query EXCEPT ![c] = Collected(@, e)]
    /\ UNCHANGED <<now, backs, relayVars, release, policyVars, fa, driver, up, enrolVars>>

\* A relay sends what it holds before it says that it has no more (NIP-01).
EndOfStoredEvents(c) ==
    /\ Waiting(c)
    /\ \E r \in query[c].pending :
          /\ held[r] \subseteq Seen(query[c])
          /\ query' = [query EXCEPT ![c] = Ended(@, r, TRUE)]
    /\ UNCHANGED <<now, backs, relayVars, release, policyVars, fa, driver, up, enrolVars>>

Closed(c) ==
    /\ Waiting(c)
    /\ \E r \in query[c].pending : query' = [query EXCEPT ![c] = Ended(@, r, FALSE)]
    /\ UNCHANGED <<now, backs, relayVars, release, policyVars, fa, driver, up, enrolVars>>

Deadline(c) ==
    /\ Waiting(c)
    /\ query' = [query EXCEPT ![c] = Settle(@)]
    /\ UNCHANGED <<now, backs, relayVars, release, policyVars, fa, driver, up, enrolVars>>

(***************************************************************************)
(* The publisher's tool (setup-payment-publisher)                          *)
(***************************************************************************)

PublicationBasis(rel) == {None} \cup {e \in receipts : StaticallyAdmit(e, rel)}

Run(rel, basis, republish) ==
    [pc |-> "preflight", rel |-> rel, basis |-> basis, republish |-> republish,
     todo |-> Relays, bad |-> FALSE, event |-> basis, relay |-> None]

PublishStart(x) ==
    /\ pub[x] = None
    /\ \E rel \in Releases : \E b \in PublicationBasis(rel), again \in BOOLEAN :
          /\ again => b # None
          /\ pub' = [pub EXCEPT ![x] = Run(rel, b, again)]
    /\ UNCHANGED <<now, backs, held, receipts, query, release, policyVars, fa, driver, up, enrolVars>>

\* Every relay is asked, one after the other, and a failure only noted.
FetchAddressCandidates(x) ==
    /\ pub[x] # None /\ pub[x].pc = "preflight" /\ query[x] = None
    /\ \E r \in pub[x].todo : \E reached \in BOOLEAN :
          /\ pub' = [pub EXCEPT ![x].todo = @ \ {r}, ![x].bad = @ \/ ~reached]
          /\ query' = [query EXCEPT ![x] =
                IF reached THEN Subscribe("complete", {r}) ELSE None]
    /\ UNCHANGED <<now, backs, held, receipts, release, policyVars, fa, driver, up, enrolVars>>

LatestAddressState(S, basis) == Newest(Authentic(S) \cup ({basis} \ {None}))

ValidateRelayHighWater(q, basis) ==
    ~q.failed /\ LatestAddressState(Seen(q), basis) = basis

PreflightRelay(x) ==
    /\ pub[x] # None /\ pub[x].pc = "preflight"
    /\ query[x] # None /\ query[x].done
    /\ pub' = [pub EXCEPT ![x].bad =
                  @ \/ ~ValidateRelayHighWater(query[x], pub[x].basis)]
    /\ query' = [query EXCEPT ![x] = None]
    /\ UNCHANGED <<now, backs, held, receipts, release, policyVars, fa, driver, up, enrolVars>>

NextTimestamp(basis) ==
    IF basis = None \/ now > basis.at THEN now ELSE basis.at + 1

Preflighted(x) ==
    pub[x] # None /\ pub[x].pc = "preflight" /\ pub[x].todo = {} /\ query[x] = None

PreflightFails(x) ==
    /\ Preflighted(x) /\ pub[x].bad
    /\ pub' = [pub EXCEPT ![x] = None]
    /\ UNCHANGED <<now, backs, held, receipts, query, release, policyVars, fa, driver, up, enrolVars>>

Signed == receipts \cup {pub[x].event : x \in {y \in Runs : pub[y] # None}}
Ids == {e.id : e \in Signed \ {None}}

\* The event's hash orders it among events of one second: any order may come.
SignEvent(x) ==
    /\ Preflighted(x) /\ ~pub[x].bad /\ ~pub[x].republish
    /\ NextTimestamp(pub[x].basis) <= now + Skew
    /\ \E p \in Policies, id \in 1..MaxEvents \ Ids :
          LET e == [at |-> NextTimestamp(pub[x].basis), id |-> id,
                    members |-> p.members, ok |-> p.ok, real |-> TRUE]
          IN  /\ AdmitEvent(e, pub[x].rel, now, pub[x].basis)
              /\ pub' = [pub EXCEPT ![x].event = e, ![x].pc = "receipt"]
    /\ UNCHANGED <<now, backs, held, receipts, query, release, policyVars, fa, driver, up, enrolVars>>

WriteReceipt(x) ==
    /\ pub[x] # None /\ pub[x].pc = "receipt"
    /\ receipts' = receipts \cup {pub[x].event}
    /\ pub' = [pub EXCEPT ![x].pc = "publish", ![x].todo = Relays]
    /\ UNCHANGED <<now, backs, held, query, release, policyVars, fa, driver, up, enrolVars>>

Republish(x) ==
    /\ Preflighted(x) /\ ~pub[x].bad /\ pub[x].republish
    /\ pub' = [pub EXCEPT ![x].pc = "publish", ![x].todo = Relays]
    /\ UNCHANGED <<now, backs, held, receipts, query, release, policyVars, fa, driver, up, enrolVars>>

\* External: a relay keeps the newest event of an address, and maybe the ones
\* before it; it may also drop what it acknowledged.
Stored(S, e) == {S, S \cup {e}, (S \ Authentic(S)) \cup {Newest(Authentic(S) \cup {e})}}

\* publish_signed_event: the relay's answer may be lost after it stored it.
PublishSigned(x) ==
    /\ pub[x] # None /\ pub[x].pc = "publish"
    /\ \E r \in pub[x].todo, answered \in BOOLEAN : \E S \in Stored(held[r], pub[x].event) :
          /\ held' = [held EXCEPT ![r] = S]
          /\ pub' = [pub EXCEPT ![x].todo = @ \ {r},
                                ![x].bad = @ \/ ~answered,
                                ![x].pc = IF answered THEN "readback" ELSE @,
                                ![x].relay = r]
    /\ UNCHANGED <<now, backs, receipts, query, release, policyVars, fa, driver, up, enrolVars>>

VerifyCanonicalSelection(e, S) == LatestAddressState(S, None) = e

ReadBack(x) ==
    /\ pub[x] # None /\ pub[x].pc = "readback"
    /\ \E read \in BOOLEAN :
          LET S == held[pub[x].relay]
              verified == read /\ pub[x].event \in S /\ VerifyCanonicalSelection(pub[x].event, S)
          IN  pub' = [pub EXCEPT ![x].pc = "publish", ![x].bad = @ \/ ~verified]
    /\ UNCHANGED <<now, backs, held, receipts, query, release, policyVars, fa, driver, up, enrolVars>>

\* The tool ends; it reports success only when no relay failed.
PublishEnds(x) ==
    /\ pub[x] # None /\ pub[x].pc = "publish" /\ pub[x].todo = {}
    /\ pub' = [pub EXCEPT ![x] = None]
    /\ UNCHANGED <<now, backs, held, receipts, query, release, policyVars, fa, driver, up, enrolVars>>

PublisherDies(x) ==
    /\ pub[x] # None
    /\ pub' = [pub EXCEPT ![x] = None]
    /\ query' = [query EXCEPT ![x] = None]
    /\ UNCHANGED <<now, backs, held, receipts, release, policyVars, fa, driver, up, enrolVars>>

Publisher(x) ==
    \/ PublishStart(x) \/ FetchAddressCandidates(x) \/ PreflightRelay(x)
    \/ PreflightFails(x) \/ SignEvent(x) \/ WriteReceipt(x) \/ Republish(x)
    \/ PublishSigned(x) \/ ReadBack(x) \/ PublishEnds(x) \/ PublisherDies(x)

(***************************************************************************)
(* The policy a Manifold Guardian retains (mg/nostr)                       *)
(***************************************************************************)

FloorForgotten(stored, rel) == None

\* The retained event bounds the candidates even when this release refuses
\* its content: an older policy is not admitted in its place.
Floor(stored, rel) == IF RestoreDurably(stored, rel) = None THEN stored ELSE None

AdmitPolicy(stored, rel, candidates) ==
    LET floor == Floor(stored, rel)
        Step(current, e) ==
            IF current = None /\ floor # None /\ AuthenticateAddress(e) /\ ~Newer(e, floor)
            THEN current
            ELSE IF AdmitEvent(e, rel, now, current) THEN e ELSE current
    IN  FoldLeft(Step, RestoreDurably(stored, rel), candidates)

RefreshPolicy ==
    /\ "policy" \in Guardian /\ up = "open" /\ query["mg"] = None
    /\ \E S \in SUBSET Relays : query' = [query EXCEPT !["mg"] = Subscribe("capped", S)]
    /\ UNCHANGED <<now, backs, relayVars, release, policyVars, fa, driver, up, enrolVars>>

\* replace_setup_payment_policy: the event, its members and the offer epoch
\* change together; the watched policy follows.
AdmitPolicies ==
    /\ up = "open" /\ query["mg"] # None /\ query["mg"].done
    /\ LET admitted == AdmitPolicy(row, release.mg, query["mg"].got)
           retain == admitted # None /\ admitted # row
       IN  /\ row' = IF retain THEN admitted ELSE row
           /\ members' = IF retain THEN admitted.members ELSE members
           /\ epoch' = IF retain /\ ~(members \subseteq admitted.members)
                       THEN epoch + 1 ELSE epoch
           /\ policy' = IF admitted # None THEN admitted ELSE policy
    /\ query' = [query EXCEPT !["mg"] = None]
    /\ UNCHANGED <<now, backs, relayVars, release, fa, driver, up, enrolVars>>

(***************************************************************************)
(* The policy a Federation Ambassador stores (fa-client)                   *)
(***************************************************************************)

\* A stored event this release refuses fails every refresh.
StartRefresh(d) ==
    /\ driver[d] = None
    /\ fa # None => StaticallyAdmit(fa, release.fa)
    /\ driver' = [driver EXCEPT ![d] = [current |-> fa]]
    /\ \E S \in SUBSET Relays : query' = [query EXCEPT ![d] = Subscribe("capped", S)]
    /\ UNCHANGED <<now, backs, relayVars, release, policyVars, fa, up, enrolVars>>

AdmitCandidates(current, candidates) ==
    LET Step(cur, e) == IF AdmitEvent(e, release.fa, now, cur) THEN e ELSE cur
    IN  FoldLeft(Step, current, candidates)

\* store_setup_payment_federations_event: another refresh may have stored a
\* newer event meanwhile.
StoreEvent(e) ==
    IF e = None \/ (fa # None /\ ~Newer(e, fa)) THEN fa ELSE e

FinishRefresh(d) ==
    /\ driver[d] # None /\ query[d].done
    /\ fa' = StoreEvent(AdmitCandidates(driver[d].current, query[d].got))
    /\ driver' = [driver EXCEPT ![d] = None]
    /\ query' = [query EXCEPT ![d] = None]
    /\ UNCHANGED <<now, backs, relayVars, release, policyVars, up, enrolVars>>

\* The run's deadline, its caller or the application ends the refresh.
AbandonRefresh(d) ==
    /\ driver[d] # None
    /\ driver' = [driver EXCEPT ![d] = None]
    /\ query' = [query EXCEPT ![d] = None]
    /\ UNCHANGED <<now, backs, relayVars, release, policyVars, fa, up, enrolVars>>

\* The application is replaced by a later release.
UpgradeAmbassador ==
    /\ Drivers # {} /\ \A d \in Drivers : driver[d] = None
    /\ \E rel \in Releases : rel > release.fa /\ release' = [release EXCEPT !.fa = rel]
    /\ UNCHANGED <<now, backs, relayVars, query, policyVars, fa, driver, up, enrolVars>>

Ambassador(d) == StartRefresh(d) \/ FinishRefresh(d) \/ AbandonRefresh(d)

(***************************************************************************)
(* A Manifold Guardian's onboarding and holder authorization               *)
(***************************************************************************)

MaxIssuedAt == now + Skew

\* holder_authorization_event_json: a row dated beyond the bound is deleted.
Retained == IF auth > MaxIssuedAt THEN 0 ELSE auth

\* replace_holder_authorization_event: only a later statement replaces.
Replaced(issued) == IF issued > Retained THEN issued ELSE Retained

\* newest_issued_candidate among what the relays sent: 0 when there is none.
NewestIssued(S) ==
    LET fit == {i \in S : i <= MaxIssuedAt}
    IN  IF fit = {} THEN 0 ELSE CHOOSE i \in fit : \A j \in fit : j <= i

Serving == up \in {"waiting", "asleep"}

\* One request at a time (the operation mutex).  OnboardAsNew and
\* OnboardFromBackup write the identity and the stage in one transaction.
AnswerIdentity ==
    /\ Serving /\ answer = None /\ stage = "identity"
    /\ stage' = "holder_authorization"
    /\ UNCHANGED <<now, backs, relayVars, query, release, policyVars, fa, driver, up,
                   raised, answer, auth, auths, refresh, seen, listed>>

StatusJson ==
    /\ Serving /\ answer = None /\ stage # "identity"
    /\ auth' = Retained
    /\ UNCHANGED <<now, backs, relayVars, query, release, policyVars, fa, driver, up,
                   stage, raised, answer, auths, refresh, seen, listed>>

AnswerRefresh ==
    /\ Serving /\ answer = None /\ stage = "holder_authorization"
    /\ \E S \in SUBSET Issues : answer' = [op |-> "refresh", got |-> NewestIssued(S)]
    /\ UNCHANGED <<now, backs, relayVars, query, release, policyVars, fa, driver, up,
                   stage, raised, auth, auths, refresh, seen, listed>>

\* The clock is read again after the fetch: it may have been set back.
AnswerRefreshed ==
    /\ answer # None /\ answer.op = "refresh"
    /\ LET kept == answer.got # 0 /\ answer.got <= MaxIssuedAt
       IN  /\ auth' = IF kept THEN Replaced(answer.got) ELSE auth
           /\ stage' = IF kept THEN "initial_offer" ELSE stage
    /\ answer' = None
    /\ UNCHANGED <<now, backs, relayVars, query, release, policyVars, fa, driver, up,
                   raised, auths, refresh, seen, listed>>

ConfigureInitialOffer ==
    /\ Serving /\ answer = None /\ stage = "initial_offer"
    /\ stage' = "complete"
    /\ epoch' = epoch + 1
    /\ answer' = [op |-> "offer", got |-> 0]
    /\ UNCHANGED <<now, backs, relayVars, query, release, row, members, policy, fa,
                   driver, up, raised, auth, auths, refresh, seen, listed>>

RaiseCompleted ==
    /\ answer # None /\ answer.op = "offer"
    /\ raised' = TRUE
    /\ answer' = None
    /\ UNCHANGED <<now, backs, relayVars, query, release, policyVars, fa, driver, up,
                   stage, auth, auths, refresh, seen, listed>>

\* The operator's HTTP connection ends and its handler with it.
Disconnect ==
    /\ answer # None
    /\ answer' = None
    /\ UNCHANGED <<now, backs, relayVars, query, release, policyVars, fa, driver, up,
                   stage, raised, auth, auths, refresh, seen, listed>>

StartDaemon ==
    /\ up = "down" /\ Guardian # {}
    /\ up' = "waiting"
    /\ \E rel \in Releases : rel >= release.mg /\ release' = [release EXCEPT !.mg = rel]
    /\ UNCHANGED <<now, backs, relayVars, query, policyVars, fa, driver, enrolVars>>

\* Onboarding::completed: the stage is read once, then the watch is awaited.
ReadStage ==
    /\ up = "waiting" /\ stage # "complete"
    /\ up' = "asleep"
    /\ UNCHANGED <<now, backs, relayVars, query, release, policyVars, fa, driver, enrolVars>>

\* The fleet opens with the policy and the authorization it retains.
OpenFleet ==
    /\ \/ up = "waiting" /\ stage = "complete"
       \/ up = "asleep" /\ raised
    /\ up' = "open"
    /\ policy' = RestoreDurably(row, release.mg)
    /\ auth' = Retained /\ auths' = Retained
    /\ seen' = TRUE
    /\ UNCHANGED <<now, backs, relayVars, query, release, row, members, epoch, fa,
                   driver, stage, raised, answer, refresh, listed>>

DaemonDies ==
    /\ up # "down"
    /\ up' = "down"
    /\ query' = [query EXCEPT !["mg"] = None]
    /\ policy' = None
    /\ raised' = FALSE /\ answer' = None /\ refresh' = None
    /\ auths' = 0 /\ seen' = TRUE /\ listed' = [busy |-> FALSE, auth |-> 0]
    /\ UNCHANGED <<now, backs, relayVars, release, row, members, epoch, fa, driver, stage, auth>>

\* HolderAuthorizationRefresher::refresh, one at a time (try_lock).
StartAuthorizationRefresh ==
    /\ up = "open" /\ refresh = None /\ "enrolment" \in Guardian
    /\ \E S \in SUBSET Issues : refresh' = [pc |-> "replace", got |-> NewestIssued(S)]
    /\ UNCHANGED <<now, backs, relayVars, query, release, policyVars, fa, driver, up,
                   stage, raised, answer, auth, auths, seen, listed>>

ReplaceAuthorization ==
    /\ refresh # None /\ refresh.pc = "replace"
    /\ IF refresh.got > MaxIssuedAt
       THEN refresh' = None /\ UNCHANGED auth
       ELSE /\ refresh' = [refresh EXCEPT !.pc = "reload"]
            /\ auth' = IF refresh.got = 0 THEN auth ELSE Replaced(refresh.got)
    /\ UNCHANGED <<now, backs, relayVars, query, release, policyVars, fa, driver, up,
                   stage, raised, answer, auths, seen, listed>>

ReloadAuthorization ==
    /\ refresh # None /\ refresh.pc = "reload"
    /\ auth' = Retained /\ auths' = Retained
    /\ seen' = FALSE
    /\ refresh' = None
    /\ UNCHANGED <<now, backs, relayVars, query, release, policyVars, fa, driver, up,
                   stage, raised, answer, listed>>

\* run_advertisements: a cycle takes the current authorization without noting
\* the change, which "changed" then reports once more.
AdvertiseStart ==
    /\ up = "open" /\ ~listed.busy /\ "enrolment" \in Guardian
    /\ listed' = [busy |-> TRUE, auth |-> auths]
    /\ UNCHANGED <<now, backs, relayVars, query, release, policyVars, fa, driver, up,
                   stage, raised, answer, auth, auths, refresh, seen>>

AdvertiseEndNotes ==
    /\ listed.busy
    /\ listed' = [listed EXCEPT !.busy = FALSE]
    /\ seen' = TRUE
    /\ UNCHANGED <<now, backs, relayVars, query, release, policyVars, fa, driver, up,
                   stage, raised, answer, auth, auths, refresh>>

AdvertiseEnd ==
    /\ listed.busy
    /\ listed' = [listed EXCEPT !.busy = FALSE]
    /\ UNCHANGED <<now, backs, relayVars, query, release, policyVars, fa, driver, up,
                   stage, raised, answer, auth, auths, refresh, seen>>

\* authorizations.changed(): the loop starts over at once.
AuthorizationChanged ==
    /\ up = "open" /\ ~listed.busy /\ ~seen
    /\ seen' = TRUE
    /\ listed' = [busy |-> TRUE, auth |-> auths]
    /\ UNCHANGED <<now, backs, relayVars, query, release, policyVars, fa, driver, up,
                   stage, raised, answer, auth, auths, refresh>>

GuardianSteps ==
    \/ RefreshPolicy \/ AdmitPolicies
    \/ AnswerIdentity \/ StatusJson \/ AnswerRefresh \/ AnswerRefreshed
    \/ ConfigureInitialOffer \/ RaiseCompleted \/ Disconnect
    \/ StartDaemon \/ ReadStage \/ OpenFleet \/ DaemonDies
    \/ StartAuthorizationRefresh \/ ReplaceAuthorization \/ ReloadAuthorization
    \/ AdvertiseStart \/ AdvertiseEnd \/ AuthorizationChanged

Tick ==
    /\ now < MaxTime
    /\ now' = now + 1
    /\ UNCHANGED <<backs, relayVars, query, release, policyVars, fa, driver, up, enrolVars>>

SetBack ==
    /\ backs < MaxBacks /\ now > 0
    /\ backs' = backs + 1
    /\ \E t \in 0..now - 1 : now' = t
    /\ UNCHANGED <<relayVars, query, release, policyVars, fa, driver, up, enrolVars>>

Init ==
    /\ now = 1 /\ backs = 0
    /\ held \in [Relays -> Published]
    /\ receipts = Authentic(UNION {held[r] : r \in Relays})
    /\ pub = [x \in Runs |-> None]
    /\ query = [c \in Clients |-> None]
    /\ release = [mg |-> 1, fa |-> 1]
    /\ row = None /\ members = {} /\ epoch = 0 /\ policy = None
    /\ fa = None /\ driver = [d \in Drivers |-> None]
    /\ up = "down"
    /\ stage = IF "enrolment" \in Guardian THEN "identity" ELSE "complete"
    /\ raised = FALSE /\ answer = None
    /\ auth = 0 /\ auths = 0 /\ refresh = None
    /\ seen = TRUE /\ listed = [busy |-> FALSE, auth |-> 0]

Next ==
    \/ \E x \in Runs : Publisher(x)
    \/ \E c \in Clients : Collect(c) \/ EndOfStoredEvents(c) \/ Closed(c) \/ Deadline(c)
    \/ \E d \in Drivers : Ambassador(d)
    \/ UpgradeAmbassador
    \/ GuardianSteps
    \/ Tick \/ SetBack

Spec == Init /\ [][Next]_vars

(***************************************************************************)
(* Properties                                                              *)
(***************************************************************************)

TypeOK ==
    /\ now \in 0..MaxTime /\ backs \in 0..MaxBacks
    /\ receipts \subseteq Events
    /\ epoch \in 0..MaxEvents + 1
    /\ up \in {"down", "waiting", "asleep", "open"}
    /\ stage \in {"identity", "holder_authorization", "initial_offer", "complete"}
    /\ auth \in Issues \cup {0} /\ auths \in Issues \cup {0}

\* What a reader retains of the policy is what the relays can restore: an
\* event on a relay was saved as a receipt before (save_receipt_and_publish),
\* the guardian serves the policy it retains and nothing else, and accepts
\* exactly that policy's federations (replace_setup_payment_policy).
PolicyIsRetained ==
    /\ \A r \in Relays : Authentic(held[r]) \subseteq receipts
    /\ policy # None => policy = row
    /\ row # None => members = row.members

\* The advertised authorization is the current one unless the advertising
\* loop is about to run again, and the daemon holds the authorization it
\* retained unless a refresh is storing one (retain_authorization,
\* run_advertisements); onboarding is only reported complete when its last
\* stage is durable (Onboarding::completed).
EnrolmentIsCurrent ==
    /\ up = "open" /\ refresh = None => auths = auth
    /\ up = "open" /\ seen /\ listed.auth # 0 => listed.auth = auths
    /\ raised => stage = "complete"

\* No reader goes back to an older policy, whatever the relays send, whatever
\* its release refuses and however refreshes overlap; a removed federation
\* changes the offer epoch; a signed policy is newer than all that any relay
\* held; and the tool reports success only when its event is the current one
\* everywhere (admit, store_setup_payment_federations_event,
\* validate_relay_high_water, verify_canonical_selection).
PolicyStep ==
    /\ row # None /\ row' # row => row' # None /\ Newer(row', row)
    /\ fa # None /\ fa' # fa => fa' # None /\ Newer(fa', fa)
    /\ ~(members \subseteq members') => epoch' # epoch
    /\ \A x \in Runs :
          /\ pub[x] # None /\ pub'[x] # None /\ pub[x].pc = "preflight" /\ pub'[x].pc = "receipt"
             => \A r \in Relays : \A e \in Authentic(held[r]) : Newer(pub'[x].event, e)
          /\ pub[x] # None /\ pub[x].pc = "publish" /\ pub[x].todo = {} /\ ~pub[x].bad /\ pub'[x] = None
             => \A r \in Relays : Newest(Authentic(held[r])) = pub[x].event

\* A retained authorization is replaced only by a later one, and given up
\* only when it lies beyond what the clock allows; onboarding never goes back
\* (replace_holder_authorization_event, holder_authorization_event_json).
EnrolmentStep ==
    /\ auth # 0 /\ auth' < auth => auth > now' + Skew
    /\ stage = "complete" => stage' = "complete"

StepsAreOrdered == PolicyStep /\ EnrolmentStep
==============================================================================
