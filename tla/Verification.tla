---------------------------- MODULE Verification ----------------------------
(***************************************************************************)
(* How a badge is believed.  Four parts share the relays and the clock:    *)
(*                                                                         *)
(*  - FLIP's trust pipeline (verification.rs): the admission gate on the   *)
(*    MG endorsement, the allowance spent before anything is called, the   *)
(*    fail-closed revocation stage, the federation preview with its seat   *)
(*    bindings, the request's trust material and the attester policies;    *)
(*  - the operator's store of issuer authorities, whose replacement is a   *)
(*    DELETE and an INSERT that are not one transaction;                   *)
(*  - the PeerBadge verifier the FA and the MG share, which reads every    *)
(*    relay of an authority completely;                                    *)
(*  - FLIP's own enrolment: the Holder authorizations it collects.         *)
(***************************************************************************)
EXTENDS Integers, Sequences, FiniteSets, SequencesExt

CONSTANTS
    Requests,       \* liquidity requests the FA may send
    Federations,    \* invite -> what a preview of it reads
    Workers,        \* verifications that may be in flight at once
    Policies,       \* accepted_attester_policies, in order
    Authorities,    \* issuer authorities the operator may install
    First,          \* the ones installed at the start
    Installers,     \* admin calls that may overlap
    Announced,      \* authority events the issuers may publish
    Pinned,         \* authorities the environment profile pins
    Roots,          \* issuer identity roots of the profile
    Badges,         \* envelopes handed to the PeerBadge verifier
    Checkers,       \* calls of the PeerBadge verifier in flight
    AuthorityRelays, \* the profile's relays, in order
    Development,    \* the profile is that of the development environment
    Relays,
    Revocations,    \* revocation events the issuers may publish
    Enrolments,     \* Holder authorizations issued to this provider
    Readers,        \* overlapping enrolment reads
    MinLevel, MaxBindings, MaxRevocationLocations,
    Window, PerWindow, MaxTracked, MaxAge, Skew, MaxTime, None

VARIABLES
    now,        \* the wall clock, also the budget's Instant
    revoked,    \* relay -> digests with a revocation event there
    authority,  \* relay -> the newest authority event it holds, per issuer
    enrolled,   \* relay -> Holder authorizations it holds
    installed,  \* rows of attestation_payloads
    install,    \* installer -> the authority between its two statements
    entries,    \* the budget's entries
    work,       \* worker -> the verification it runs
    answers,    \* worker -> its last verdict, with what held when it began
    spends,     \* ghost: federation -> when verifications passed its allowance
    check,      \* checker -> the PeerBadge verification it runs
    verdicts,   \* checker -> its last verdict, with what held when it began
    rows,       \* digest -> issue time in holder_authorization_events
    reader,     \* reader -> its enrolment read
    lastRead    \* LastRelayRead

flipVars == <<installed, install, entries, work, answers, spends>>
badgeVars == <<check, verdicts>>
enrolVars == <<rows, reader, lastRead>>
worldVars == <<now, revoked, authority, enrolled>>
vars == <<worldVars, flipVars, badgeVars, enrolVars>>

Issuers == {a.issuer : a \in Authorities} \union {e.issuer : e \in Announced} \union Roots

-----------------------------------------------------------------------------
(* Pure checks.                                                            *)

\* parse_canonical: a bounded, non-empty list in ascending peer order.
ParseCanonical(value) ==
    IF /\ value # None
       /\ Len(value) \in 1..MaxBindings
       /\ \A i \in 1..(Len(value) - 1) : value[i].peer < value[i + 1].peer
    THEN value ELSE None

\* verify_for_federation: each binding is signed for this federation, its
\* config and its guardian, no fee account serves two seats, no seat is unbound.
VerifyForFederation(bindings, invite) ==
    LET f == Federations[invite]
        Bound(b) == /\ b.signed
                    /\ b.federation = f.federation
                    /\ b.hash = f.hash
                    /\ \E p \in f.peers : p.peer = b.peer /\ p.guardian = b.guardian
                    /\ b.depositor
    IN  /\ \A i \in DOMAIN bindings : Bound(bindings[i])
        /\ \A i, j \in DOMAIN bindings : bindings[i].account = bindings[j].account => i = j
        /\ \A p \in f.peers : \E i \in DOMAIN bindings : bindings[i].peer = p.peer

\* verify_for_mg_age: the signed material is bounded, for this MG, recent, and
\* every badge in it was authorized for the MG.
VerifyForMgAge(entry, mg, at) ==
    /\ entry.signed
    /\ entry.mg = mg
    /\ entry.issued <= at + Skew
    /\ at - entry.issued <= MaxAge
    /\ \A i \in DOMAIN entry.badges : entry.badges[i].subject = mg

\* The credential check of the PeerBadge SDK, against the authorities and the
\* revocations one verification has loaded.
CredentialHolds(badge, issuers, gone, at) ==
    /\ badge.issuer \in issuers
    /\ badge.digest \notin gone
    /\ badge.from <= at /\ at < badge.until

\* verify_holder_trust_envelope, then the profile's minimum level.
VerifyMgPeerBadge(badge, issuers, gone, subject, at) ==
    /\ CredentialHolds(badge, issuers, gone, at)
    /\ badge.subject = subject
    /\ badge.schema
    /\ badge.level >= MinLevel

\* check_invite_endpoints: an invite names few endpoints, all of an allowed kind.
EndpointsAllowed(f) == f.endpoints

\* preview: the config must be usable, with a wallet module of a known network.
Usable(f) == f.usable

-----------------------------------------------------------------------------
(* The allowance.                                                          *)

Lapsed(entry) == now - entry.started >= Window

\* retain: entries whose window has lapsed make room for an untracked one.
Retained ==
    IF Cardinality(DOMAIN entries) >= MaxTracked
    THEN {f \in DOMAIN entries : ~Lapsed(entries[f])}
    ELSE DOMAIN entries

Tracked(f) == f \in DOMAIN entries

TrySpend(f) ==
    IF Tracked(f)
    THEN Lapsed(entries[f]) \/ entries[f].spent < PerWindow
    ELSE Cardinality(Retained) < MaxTracked

Spent(f) ==
    LET kept == IF Tracked(f) THEN DOMAIN entries ELSE Retained
        fresh == [started |-> now, spent |-> 1]
    IN  [g \in kept \union {f} |->
            IF g # f THEN entries[g]
            ELSE IF Tracked(f) /\ ~Lapsed(entries[f])
                 THEN [entries[f] EXCEPT !.spent = @ + 1]
                 ELSE fresh]

\* A refused spend may still have dropped lapsed entries.
Unspent(f) ==
    [g \in (IF Tracked(f) THEN DOMAIN entries ELSE Retained) |-> entries[g]]

-----------------------------------------------------------------------------
(* The operator's issuer authorities.                                      *)

Docs == {row.doc : row \in installed}

InstalledIssuers(docs) == {d.issuer : d \in docs}

\* The first authority of an issuer, in the order the rows are read.
AuthorityFor(table, issuer) ==
    LET own == {row \in table : row.doc.issuer = issuer}
    IN  (CHOOSE row \in own : \A o \in own :
            row.at < o.at \/ (row.at = o.at /\ row.doc.id <= o.doc.id)).doc

\* install, its first statement: other documents of the issuer are deleted.
InstallDeletes(i, a) ==
    /\ install[i] = None
    /\ install' = [install EXCEPT ![i] = a]
    /\ installed' = {row \in installed : row.doc.issuer = a.issuer => row.doc.id = a.id}
    /\ UNCHANGED <<worldVars, entries, work, answers, spends, badgeVars, enrolVars>>

\* install, its second statement: the document is written, or the call dies.
InstallInserts(i) ==
    /\ install[i] # None
    /\ install' = [install EXCEPT ![i] = None]
    /\ \/ installed' = {row \in installed : row.doc.id # install[i].id}
                           \union {[doc |-> install[i], at |-> now]}
       \/ UNCHANGED installed
    /\ UNCHANGED <<worldVars, entries, work, answers, spends, badgeVars, enrolVars>>

\* remove, by id or by issuer.
RemoveRows(gone) ==
    /\ gone # {}
    /\ installed' = installed \ gone
    /\ UNCHANGED <<worldVars, install, entries, work, answers, spends, badgeVars, enrolVars>>

RemoveSome ==
    \/ \E row \in installed : RemoveRows({row})
    \/ \E x \in Issuers : RemoveRows({row \in installed : row.doc.issuer = x})

-----------------------------------------------------------------------------
(* The trust pipeline.                                                     *)

\* What every relay knew when a verification began.
KnownRevoked == {e.digest : e \in {x \in Revocations : x.valid /\ \A r \in Relays : x \in revoked[r]}}

Arrive(w, r) ==
    /\ work[w] = None
    /\ work' = [work EXCEPT ![w] =
            [pc |-> "gate", req |-> r, began |-> now, before |-> KnownRevoked,
             queue |-> <<>>, gone |-> {}, issuers |-> {}, candidates |-> {},
             unavailable |-> FALSE]]
    /\ answers' = [answers EXCEPT ![w] = None]
    /\ UNCHANGED <<worldVars, installed, install, entries, spends, badgeVars, enrolVars>>

\* The verdict, as the pipeline's caller receives it.
Outcome(w, code, policy) ==
    /\ work' = [work EXCEPT ![w] = None]
    /\ answers' = [answers EXCEPT ![w] =
            [req |-> work[w].req, began |-> work[w].began, before |-> work[w].before,
             code |-> code, policy |-> policy]]

\* group_by_issuer, with the relays each group is looked up on.  A group whose
\* authority is absent or lists no Nostr relay has none.
Groups(required, table) ==
    LET Digests(x) == {b.digest : b \in {c \in required : c.issuer = x}}
        RelaysOf(x) == IF x \in InstalledIssuers({row.doc : row \in table})
                       THEN AuthorityFor(table, x).relays ELSE <<>>
        order == SetToSeq({b.issuer : b \in required})
    IN  [i \in DOMAIN order |->
            [issuer |-> order[i], digests |-> Digests(order[i]), relays |-> RelaysOf(order[i])]]

Lookable(group) == group.relays # <<>>

\* run_revocation_stage begins: groups without a relay make it unavailable.
StageBegins(job, required, table) ==
    LET groups == Groups(required, table)
    IN  [job EXCEPT !.queue = SelectSeq(groups, Lookable),
                    !.unavailable = \E i \in DOMAIN groups : ~Lookable(groups[i]),
                    !.gone = {},
                    !.issuers = InstalledIssuers({row.doc : row \in table})]

\* The gate's refusals, in the order they are tried.
GateRefusal(r) ==
    CASE r.endorsement = None -> "InvalidCredentials"
      [] ~r.endorsement.signed -> "InvalidCredentials"
      [] r.invite = None -> "InvalidDetailsPayload"
      [] r.endorsement.federation # r.invite -> "InvalidSeatBinding"
      [] ~VerifyMgPeerBadge(r.endorsement.badge, InstalledIssuers(Docs), {},
                            r.endorsement.mg, now) -> "InvalidCredentials"
      [] OTHER -> None

\* run_admission_gate up to its first outbound call.
AdmissionGate(w) ==
    LET r == work[w].req
        refusal == GateRefusal(r)
    IN  /\ work[w] # None /\ work[w].pc = "gate"
        /\ IF refusal # None
           THEN Outcome(w, refusal, None) /\ UNCHANGED <<entries, spends>>
           ELSE IF TrySpend(r.invite)
           THEN /\ entries' = Spent(r.invite)
                /\ spends' = [spends EXCEPT ![r.invite] = Append(@, now)]
                /\ work' = [work EXCEPT ![w] =
                        [StageBegins(@, {r.endorsement.badge}, installed) EXCEPT !.pc = "gate_lookup"]]
                /\ UNCHANGED answers
           ELSE /\ entries' = Unspent(r.invite)
                /\ Outcome(w, "ProviderUnavailable", None)
                /\ UNCHANGED spends
        /\ UNCHANGED <<worldVars, installed, install, badgeVars, enrolVars>>

\* fetch_revocations from one relay: malformed events are discarded.
Fetched(r, digests) == {d \in digests : [digest |-> d, valid |-> TRUE] \in revoked[r]}

LookupFailsOpen(w) ==
    /\ work[w] # None /\ work[w].queue # <<>>
    /\ work' = [work EXCEPT ![w].queue = Tail(@)]
    /\ UNCHANGED <<worldVars, installed, install, entries, answers, spends, badgeVars, enrolVars>>

\* One relay is asked: an answer settles the issuer's group, a failure moves to
\* the next relay, and a group whose relays all failed is unavailable.
LookupFails(w) ==
    LET job == work[w]
        group == Head(job.queue)
    IN  /\ work[w] # None /\ work[w].queue # <<>>
        /\ work' = [work EXCEPT ![w] =
                IF Len(group.relays) = 1
                THEN [job EXCEPT !.queue = Tail(@), !.unavailable = TRUE]
                ELSE [job EXCEPT !.queue[1].relays = Tail(@)]]
        /\ UNCHANGED <<worldVars, installed, install, entries, answers, spends, badgeVars, enrolVars>>

LookupAnswers(w) ==
    LET job == work[w]
        group == Head(job.queue)
    IN  /\ work[w] # None /\ work[w].queue # <<>>
        /\ work' = [work EXCEPT ![w] =
                [job EXCEPT !.queue = Tail(@),
                            !.gone = @ \union Fetched(Head(group.relays), group.digests)]]
        /\ UNCHANGED <<worldVars, installed, install, entries, answers, spends, badgeVars, enrolVars>>

\* run_admission_gate after its revocation stage.
GateVerdict(w) ==
    LET job == work[w]
        e == job.req.endorsement
    IN  /\ work[w] # None /\ job.pc = "gate_lookup" /\ job.queue = <<>>
        /\ IF job.unavailable THEN Outcome(w, "ProviderUnavailable", None)
           ELSE IF ~VerifyMgPeerBadge(e.badge, job.issuers, job.gone, e.mg, now)
           THEN Outcome(w, "InvalidCredentials", None)
           ELSE /\ work' = [work EXCEPT ![w].pc = "preview"]
                /\ UNCHANGED answers
        /\ UNCHANGED <<worldVars, installed, install, entries, spends, badgeVars, enrolVars>>

\* The distinct MG identities the consensus seat bindings name.
Operators(invite) == {b.mg : b \in Range(Federations[invite].bindings)}

\* resolve_trust_material: two entries for one operator, or an entry that does
\* not verify, refuse the request; an operator without one is merely untrusted.
MaterialFor(r, mg) ==
    {i \in DOMAIN r.material : r.material[i].mg = mg}

MaterialHolds(r, at) ==
    /\ r.material # None
    /\ \A mg \in Operators(r.invite) :
        /\ Cardinality(MaterialFor(r, mg)) <= 1
        /\ \A i \in MaterialFor(r, mg) : VerifyForMgAge(r.material[i], mg, at)

\* The refusals between the preview and the second read of the authorities.
DetailsRefusal(r, at) ==
    LET f == Federations[r.invite]
    IN  CASE ~Usable(f) -> "InvalidDetailsPayload"
          [] \/ f.federation # r.invite \/ r.claimed # f.federation
             \/ r.hash # f.hash \/ r.network # f.network -> "InvalidDetailsPayload"
          [] ~(r.hints \subseteq f.peers) -> "InvalidDetailsPayload"
          [] r.stability /\ ~f.stability -> "UnsupportedSourceType"
          [] ParseCanonical(f.bindings) = None -> "InvalidSeatBinding"
          [] ~VerifyForFederation(f.bindings, r.invite) -> "InvalidSeatBinding"
          [] ~MaterialHolds(r, at) -> "InvalidCredentials"
          [] OTHER -> None

Preview(w, available) ==
    LET job == work[w]
        f == Federations[job.req.invite]
    IN  /\ work[w] # None /\ job.pc = "preview"
        /\ IF ~EndpointsAllowed(f) THEN Outcome(w, "InvalidDetailsPayload", None)
           ELSE IF ~available THEN Outcome(w, "ProviderUnavailable", None)
           ELSE IF DetailsRefusal(job.req, job.began) # None
           THEN Outcome(w, DetailsRefusal(job.req, job.began), None)
           ELSE /\ work' = [work EXCEPT ![w].pc = "authorities"]
                /\ UNCHANGED answers
        /\ UNCHANGED <<worldVars, installed, install, entries, spends, badgeVars, enrolVars>>

Attesters == {Policies[i].attester : i \in DOMAIN Policies}

\* The badges the operators' material carries.
Candidates(r) ==
    UNION {[mg : {mg}, badge : UNION {Range(r.material[i].badges) : i \in MaterialFor(r, mg)}] :
                mg \in Operators(r.invite)}

\* Those from accepted attesters whose authority is installed.
Counted(r, issuers) ==
    {c \in Candidates(r) : c.badge.issuer \in Attesters \intersect issuers}

\* The pipeline reads the authorities again and begins its own lookups.
ReadAuthorities(w) ==
    LET job == work[w]
        found == Counted(job.req, InstalledIssuers(Docs))
    IN  /\ work[w] # None /\ job.pc = "authorities"
        /\ work' = [work EXCEPT ![w] =
                [StageBegins(job, {c.badge : c \in found}, installed)
                    EXCEPT !.pc = "lookup", !.candidates = found]]
        /\ UNCHANGED <<worldVars, installed, install, entries, answers, spends, badgeVars, enrolVars>>

\* Attester policies are tried in order over the pooled trusted identities.
Satisfied(policy, trusted, invite) ==
    IF policy.all THEN trusted = Operators(invite)
    ELSE Cardinality(trusted) >= Federations[invite].threshold

PolicyVerdict(w) ==
    LET job == work[w]
        trusted == {c.mg : c \in job.candidates}
        met == {i \in DOMAIN Policies : Satisfied(Policies[i], trusted, job.req.invite)}
    IN  /\ work[w] # None /\ job.pc = "lookup" /\ job.queue = <<>>
        /\ IF job.unavailable THEN Outcome(w, "ProviderUnavailable", None)
           ELSE IF \E c \in job.candidates :
                    ~VerifyMgPeerBadge(c.badge, job.issuers, job.gone, c.mg, job.began)
           THEN Outcome(w, "InvalidCredentials", None)
           ELSE IF met = {} THEN Outcome(w, "PolicyMismatch", None)
           ELSE Outcome(w, "Accepted", CHOOSE i \in met : \A j \in met : i <= j)
        /\ UNCHANGED <<worldVars, installed, install, entries, spends, badgeVars, enrolVars>>

Flip ==
    \/ \E i \in Installers : (\E a \in Authorities : InstallDeletes(i, a)) \/ InstallInserts(i)
    \/ RemoveSome
    \/ \E w \in Workers :
        \/ \E r \in Requests : Arrive(w, r)
        \/ AdmissionGate(w)
        \/ LookupFails(w)
        \/ LookupAnswers(w)
        \/ GateVerdict(w)
        \/ \E available \in BOOLEAN : Preview(w, available)
        \/ ReadAuthorities(w)
        \/ PolicyVerdict(w)

-----------------------------------------------------------------------------
(* The PeerBadge verifier of the FA and the MG.                            *)

\* newest_event_first: creation time, then the smaller id.
Newer(e, f) == e.at > f.at \/ (e.at = f.at /\ e.id < f.id)

NewestEvent(events) == CHOOSE e \in events : \A f \in events \ {e} : Newer(e, f)

\* admit_current_authority: the newest authentic event, which must then parse
\* and verify; an older one never stands in for it.
AdmitCurrentAuthority(events) ==
    IF \/ events = {}
       \/ {e \in events : e.authentic} = {}
       \/ ~NewestEvent({e \in events : e.authentic}).valid
    THEN None
    ELSE NewestEvent({e \in events : e.authentic}).doc

Pin(issuer) == {d \in Pinned : d.issuer = issuer}

\* The newest authentic authority the profile's relays hold.
Known(issuer) ==
    LET held == {e \in UNION {authority[AuthorityRelays[i]] : i \in DOMAIN AuthorityRelays} :
                    e.issuer = issuer /\ e.authentic}
    IN  IF held = {} THEN None ELSE CHOOSE e \in held : \A f \in held : ~Newer(f, e)

Job(b) == [pc |-> "authority", badge |-> b, began |-> now, relays |-> AuthorityRelays,
           events |-> {}, doc |-> None, hits |-> {},
           held |-> {r \in Relays : \E e \in revoked[r] : e.digest = b.digest},
           current |-> Known(b.issuer)]

Judged(c, job, ok) ==
    /\ check' = [check EXCEPT ![c] = None]
    /\ verdicts' = [verdicts EXCEPT ![c] =
            [badge |-> job.badge, began |-> job.began, doc |-> job.doc, ok |-> ok,
             held |-> job.held, current |-> job.current]]

\* development_revocation_relays: a development profile reads revocations from
\* its own relays, which an override may have moved, and not from the locations
\* the authority has signed.
RevocationRelays(doc) == IF Development THEN AuthorityRelays ELSE doc.relays

\* check_revocation up to its lookups: the authority must sign a bounded number
\* of Nostr locations, one at least, whether or not they are the ones read.
CheckRevocation(c, job) ==
    IF job.doc = None \/ Len(job.doc.relays) \notin 1..MaxRevocationLocations
    THEN Judged(c, job, FALSE)
    ELSE /\ check' = [check EXCEPT ![c] =
                [job EXCEPT !.pc = "revocation", !.relays = RevocationRelays(job.doc)]]
         /\ UNCHANGED verdicts

\* verify: an issuer outside the roots is refused, a pinned authority is used
\* as it is, any other one is fetched.
StartCheck(c, b) ==
    /\ check[c] = None
    /\ IF b.issuer \notin Roots THEN Judged(c, Job(b), FALSE)
       ELSE IF Pin(b.issuer) # {}
       THEN CheckRevocation(c, [Job(b) EXCEPT !.doc = CHOOSE d \in Pin(b.issuer) : TRUE])
       ELSE /\ check' = [check EXCEPT ![c] = Job(b)]
            /\ verdicts' = [verdicts EXCEPT ![c] = None]
    /\ UNCHANGED <<worldVars, flipVars, enrolVars>>

\* fetch_all_relay_candidates: every relay must answer completely, before the
\* deadline of the whole verification.
FetchAuthority(c) ==
    LET job == check[c]
        found == job.events \union {e \in authority[Head(job.relays)] : e.issuer = job.badge.issuer}
    IN  /\ check[c] # None /\ job.pc = "authority"
        /\ IF Len(job.relays) = 1
           THEN CheckRevocation(c, [job EXCEPT !.events = found, !.doc = AdmitCurrentAuthority(found)])
           ELSE /\ check' = [check EXCEPT ![c] = [job EXCEPT !.relays = Tail(@), !.events = found]]
                /\ UNCHANGED verdicts
        /\ UNCHANGED <<worldVars, flipVars, enrolVars>>

\* admit_revocation_candidates, then the badge itself: a valid revocation, a
\* malformed one and an expired or low badge all refuse.
AdmitBadge(job) ==
    /\ job.hits = {}
    /\ CredentialHolds(job.badge, {job.doc.issuer}, {}, job.began)
    /\ job.badge.schema
    /\ job.badge.level >= MinLevel

FetchRevocation(c) ==
    LET job == check[c]
        seen == [job EXCEPT !.relays = Tail(@),
                            !.hits = @ \union {e \in revoked[Head(job.relays)] : e.digest = job.badge.digest}]
    IN  /\ check[c] # None /\ job.pc = "revocation"
        /\ IF Len(job.relays) = 1 THEN Judged(c, seen, AdmitBadge(seen))
           ELSE check' = [check EXCEPT ![c] = seen] /\ UNCHANGED verdicts
        /\ UNCHANGED <<worldVars, flipVars, enrolVars>>

\* A relay that fails, or does not finish in time, refuses the badge.
CheckUnavailable(c) ==
    /\ check[c] # None
    /\ Judged(c, check[c], FALSE)
    /\ UNCHANGED <<worldVars, flipVars, enrolVars>>

PeerBadge ==
    \E c \in Checkers :
        \/ \E b \in Badges : StartCheck(c, b)
        \/ FetchAuthority(c)
        \/ FetchRevocation(c)
        \/ CheckUnavailable(c)

-----------------------------------------------------------------------------
(* FLIP's enrolment.                                                       *)

\* The newest verified candidate for each credential.
Winners(found) ==
    {e \in found : e.ok /\ \A f \in found : f.ok /\ f.digest = e.digest => f.issued <= e.issued}

StartRead(x) ==
    /\ reader[x] = None
    /\ reader' = [reader EXCEPT ![x] =
            [relays |-> AuthorityRelays, found |-> {}, answered |-> 0, merged |-> FALSE]]
    /\ UNCHANGED <<worldVars, flipVars, badgeVars, rows, lastRead>>

\* refresh asks each relay in turn; one that fails is passed over.
ReadRelay(x, answered) ==
    LET job == reader[x]
    IN  /\ reader[x] # None /\ job.relays # <<>>
        /\ reader' = [reader EXCEPT ![x] =
                IF answered
                THEN [job EXCEPT !.relays = Tail(@), !.answered = @ + 1,
                                 !.found = @ \union enrolled[Head(job.relays)]]
                ELSE [job EXCEPT !.relays = Tail(@)]]
        /\ UNCHANGED <<worldVars, flipVars, badgeVars, rows, lastRead>>

MergeRowsOver(found) ==
    found \union {row \in rows : \A e \in found : e.digest # row.digest}

\* merge, one transaction: a row gives way only to a later authorization.
MergeRows(found) ==
    LET later == {e \in found : \A row \in rows : row.digest = e.digest => e.issued > row.issued}
    IN  later \union {row \in rows : \A e \in later : e.digest # row.digest}

Merge(x) ==
    LET job == reader[x]
    IN  /\ reader[x] # None /\ job.relays = <<>> /\ ~job.merged
        /\ rows' = MergeRows(Winners(job.found))
        /\ reader' = [reader EXCEPT ![x].merged = TRUE]
        /\ UNCHANGED <<worldVars, flipVars, badgeVars, lastRead>>

\* reconcile_now records how the read went after its rows are in.
RecordRead(x) ==
    /\ reader[x] # None /\ reader[x].merged
    /\ lastRead' = IF reader[x].answered > 0 \/ AuthorityRelays = <<>> THEN "Completed" ELSE "Failed"
    /\ reader' = [reader EXCEPT ![x] = None]
    /\ UNCHANGED <<worldVars, flipVars, badgeVars, rows>>

\* status_of, what the operator is told.
StatusOf ==
    CASE rows # {} -> "AuthorizationObserved"
      [] lastRead = "NotYet" -> "Checking"
      [] lastRead = "Completed" -> "NotObserved"
      [] OTHER -> "RelayError"

Enrolment ==
    \E x \in Readers :
        \/ StartRead(x)
        \/ \E a \in BOOLEAN : ReadRelay(x, a)
        \/ Merge(x)
        \/ RecordRead(x)

-----------------------------------------------------------------------------
(* Issuers, holders and relays.                                            *)

Tick ==
    /\ now < MaxTime
    /\ now' = now + 1
    /\ UNCHANGED <<revoked, authority, enrolled, flipVars, badgeVars, enrolVars>>

\* An issuer's revocation reaches a relay, well-formed or not.
Revoke(r, e) ==
    /\ e \notin revoked[r]
    /\ revoked' = [revoked EXCEPT ![r] = @ \union {e}]
    /\ UNCHANGED <<now, authority, enrolled, flipVars, badgeVars, enrolVars>>

SameAddress(e, f) == e.issuer = f.issuer /\ e.authentic = f.authentic

\* An addressable event replaces the older one of its author and tag.
PublishAuthority(r, e) ==
    /\ \A f \in authority[r] : SameAddress(e, f) => Newer(e, f)
    /\ authority' = [authority EXCEPT ![r] = {f \in @ : ~SameAddress(e, f)} \union {e}]
    /\ UNCHANGED <<now, revoked, enrolled, flipVars, badgeVars, enrolVars>>

PublishEnrolment(r, e) ==
    /\ e \notin enrolled[r]
    /\ enrolled' = [enrolled EXCEPT ![r] = @ \union {e}]
    /\ UNCHANGED <<now, revoked, authority, flipVars, badgeVars, enrolVars>>

World ==
    \/ Tick
    \/ \E r \in Relays :
        \/ \E e \in Revocations : Revoke(r, e)
        \/ \E e \in Announced : PublishAuthority(r, e)
        \/ \E e \in Enrolments : PublishEnrolment(r, e)

Init ==
    /\ now = 0
    /\ revoked = [r \in Relays |-> {}]
    /\ authority = [r \in Relays |-> {}]
    /\ enrolled = [r \in Relays |-> {}]
    /\ installed = {[doc |-> a, at |-> 0] : a \in First}
    /\ install = [i \in Installers |-> None]
    /\ entries = [f \in {} |-> None]
    /\ work = [w \in Workers |-> None]
    /\ answers = [w \in Workers |-> None]
    /\ spends = [f \in DOMAIN Federations |-> <<>>]
    /\ check = [c \in Checkers |-> None]
    /\ verdicts = [c \in Checkers |-> None]
    /\ rows = {}
    /\ reader = [x \in Readers |-> None]
    /\ lastRead = "NotYet"

Next == World \/ Flip \/ PeerBadge \/ Enrolment

Spec == Init /\ [][Next]_vars

-----------------------------------------------------------------------------
(* Properties.                                                             *)

\* Believed(mg, a): some badge of mg that the request carries, from an accepted
\* attester, was in force when the verification began, is high enough, and had
\* not been revoked everywhere before it began.
Believed(mg, a) ==
    \E i \in DOMAIN a.req.material :
        /\ a.req.material[i].mg = mg
        /\ \E b \in Range(a.req.material[i].badges) :
            /\ \E k \in DOMAIN Policies : Policies[k].attester = b.issuer
            /\ b.subject = mg /\ b.level >= MinLevel
            /\ b.from <= a.began /\ a.began < b.until
            /\ b.digest \notin a.before

\* The pipeline accepts only a federation every seat of which is bound, for that
\* very federation, to an MG identity, of which enough are believed; however its
\* reads, the operator's installs and the issuers' revocations interleave.
AcceptedIsVouched ==
    \A w \in Workers :
        answers[w] # None /\ answers[w].code = "Accepted" =>
            LET a == answers[w]
                f == Federations[a.req.invite]
                bound == {b \in Range(f.bindings) : b.signed /\ b.federation = a.req.invite}
                trusted == {mg \in {b.mg : b \in bound} : Believed(mg, a)}
            IN  /\ a.req.endorsement.federation = a.req.invite
                /\ \A p \in f.peers : \E b \in bound : b.peer = p.peer
                /\ IF Policies[a.policy].all THEN trusted = {b.mg : b \in bound}
                   ELSE Cardinality(trusted) >= f.threshold
                /\ a.req.endorsement.badge.digest \notin a.before

\* try_spend: however requests for several federations crowd the table, no
\* federation gets more than twice its allowance less one in any window, and the
\* table never outgrows its ceiling.
AllowanceHolds ==
    /\ Cardinality(DOMAIN entries) <= MaxTracked
    /\ \A f \in DOMAIN spends : \A i \in DOMAIN spends[f] :
        Cardinality({j \in DOMAIN spends[f] :
            spends[f][i] <= spends[f][j] /\ spends[f][j] < spends[f][i] + Window}) <= 2 * PerWindow - 1

\* A badge the PeerBadge verifier passes had, when the call began, no revocation
\* on any relay the authority used has signed as a location (in development, on
\* any of the profile's relays), and that authority is pinned or at least as new
\* as every authentic one the profile's relays held.
PassedIsCurrent ==
    \A c \in Checkers :
        verdicts[c] # None /\ verdicts[c].ok =>
            LET v == verdicts[c]
            IN  /\ v.held \intersect Range(IF Development THEN AuthorityRelays ELSE v.doc.relays) = {}
                /\ \/ v.doc \in Pinned
                   \/ \E e \in Announced : /\ e.doc = v.doc /\ e.authentic /\ e.valid
                                          /\ v.current # None => ~Newer(v.current, e)

VerificationIsSound == AcceptedIsVouched /\ AllowanceHolds /\ PassedIsCurrent

\* merge: an authorization once retained is only ever replaced by a later one,
\* though relays answer different reads with older copies; and from then on the
\* operator is told it was observed, whatever later reads fail.
EnrolmentAdvances ==
    /\ \A row \in rows : \E new \in rows' : new.digest = row.digest /\ new.issued >= row.issued
    /\ \A row, other \in rows' : row.digest = other.digest => row = other
    /\ StatusOf = "AuthorizationObserved" => StatusOf' = "AuthorizationObserved"

EnrolmentStep == [][EnrolmentAdvances]_vars

\* The types of what verifications hold and say.
TypeOK ==
    /\ now \in 0..MaxTime
    /\ \A f \in DOMAIN entries : entries[f].spent \in 1..PerWindow /\ entries[f].started \in 0..now
    /\ \A w \in Workers : work[w] # None =>
            work[w].pc \in {"gate", "gate_lookup", "preview", "authorities", "lookup"}
    /\ lastRead \in {"NotYet", "Completed", "Failed"}
=============================================================================
