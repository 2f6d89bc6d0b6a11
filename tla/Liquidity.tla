------------------------------ MODULE Liquidity ------------------------------
(***************************************************************************)
(* The Federation Ambassador's liquidity request to a FLIP provider        *)
(* (fa-client/src/liquidity.rs), the rows it keeps (fa-client/src/db.rs)   *)
(* and its cache of Manifold Guardian trust documents                      *)
(* (fa-client/src/mg_trust.rs).                                            *)
(*                                                                         *)
(* One federation and one Manifold Guardian.  The operation rows, the      *)
(* cached document and its refresh marker are durable; a driver run is     *)
(* lost at every step.  run_guard allows one run at a time.  A submitted   *)
(* copy of a request stays in the network until the provider decides it,   *)
(* whether or not the run that sent it still waits.  The providers are     *)
(* modelled from what the Ambassador sees of them; their admission code is *)
(* FlipAdmission.                                                          *)
(***************************************************************************)
EXTENDS Integers, FiniteSets, Sequences

CONSTANTS
  Providers,      \* FLIP identities
  Faulty,         \* providers whose answers need not be what they hold
  Gateways,       \* gateway API URLs
  Wants,          \* sets of sources an intent may ask for
  Fleets,         \* how often guardians may be moved
  Skews,          \* provider clock minus local clock
  Validity,       \* FA_LIQUIDITY_REQUEST_VALIDITY
  Grace,          \* FA_LIQUIDITY_EXPIRY_GRACE
  MaxAge,         \* MG_TRUST_MATERIAL_MAX_AGE_SECS
  Ahead,          \* REFRESH_AHEAD_SECS
  Acquirers,      \* who asks the MG: "run", and "worker" for maintain
  Issued, Badges, \* issue times and badge verdicts of trust documents
  Prefetched,     \* what the cache holds when the federation has formed
  MaxOps,         \* bound: requests minted
  MaxCopies,      \* bound: submissions
  MaxTime,        \* bound: the clock
  MaxLosses,      \* bound: providers losing or releasing an allocation
  MaxRestores,    \* bound: device losses
  None,
  Rejected,       \* a provider's rejection
  Refused,        \* its rejection over credentials or policy
  NotFound        \* its answer for a request it does not know

VARIABLES
  now,            \* local clock
  skew,           \* each provider's clock error
  minted,         \* the commitments, in the order they were made
  ops,            \* id -> StoredLiquidityOperation, without its commitment
  run,            \* the driver run
  net,            \* submitted copies no provider has decided
  copies,         \* submissions so far
  alloc,          \* provider -> the allocation it holds
  registered,     \* gateways the guardians have in their LNv2 view
  fleet,          \* version of the federation's seats
  transfer,       \* an open guardian transfer
  saved,          \* the request named by the published backup, 0 for none
  doc,            \* cached trust document
  mark,           \* the refused document that must be refreshed
  fetch,          \* what each acquisition has in hand
  losses, restores,
  overtaken,      \* ghost: requests rejected while another copy was undecided
  stale           \* ghost: a restore did not bring back the live request

vars == <<now, skew, minted, ops, run, net, copies, alloc, registered, fleet,
          transfer, saved, doc, mark, fetch, losses, restores, overtaken, stale>>

rows   == <<minted, ops>>
trust  == <<doc, mark, fetch>>
wire   == <<net, copies, alloc, losses>>
device == <<fleet, transfer, saved, restores, stale>>

Sources == {"gateway", "stability"}
Ids     == 1..MaxOps

\* AllocationStatus: the request it is bound to, one item per source, the
\* amount of the items and the gateway of the completion evidence.
Statuses == [op : Ids, item : UNION {[S -> {"open", "done"}] : S \in SUBSET Sources},
             amount : 0..2, api : Gateways \cup {None}]

\* A trust document: when the MG signed it, and whether its holder's badge
\* passes admission.
Docs == [at : Issued, holder : Badges]

Commitments == [prov : Providers, exp : 0..(MaxTime + Validity), fleet : Fleets,
                want : SUBSET Sources]

Rows == [resp : Statuses \cup {None, Rejected},
         stat : [at : Int, st : Statuses] \cup {None},
         seen : Gateways \cup {None}, expired : BOOLEAN]

Idle == [pc |-> "idle", op |-> 0, prov |-> None, want |-> {}, exp |-> 0,
         doc |-> None, copy |-> 0, ans |-> None]

-----------------------------------------------------------------------------
(* Reading an operation row *)

AllocationStatus(i) ==
  IF ops[i].stat # None THEN ops[i].stat.st
  ELSE IF ops[i].resp \in Statuses THEN ops[i].resp ELSE None

IsRejected(i) == ops[i].expired \/ ops[i].resp = Rejected

Phase(i) ==
  IF ops[i].resp = Rejected \/ (ops[i].resp = None /\ ops[i].expired) THEN "rejected"
  ELSE IF ops[i].resp # None \/ ops[i].stat # None THEN "accepted"
  ELSE "prepared"

CompletedGatewayApi(st) ==
  IF st # None /\ "gateway" \in DOMAIN st.item /\ st.item["gateway"] = "done"
  THEN st.api ELSE None

\* seen counts only while the evidence still names it.
ViewVerified(i) ==
  /\ ops[i].seen # None
  /\ ops[i].seen = CompletedGatewayApi(AllocationStatus(i))

IsComplete(i) ==
  LET st == AllocationStatus(i)
  IN /\ st # None
     /\ DOMAIN st.item # {}
     /\ \A s \in DOMAIN st.item : st.item[s] = "done"
     /\ ("gateway" \notin minted[i].want \/ ViewVerified(i))

Stored == {i \in Ids : ops[i] # None}

\* find_live_liquidity_operation: the rows whose phase is not Rejected.
Live == {i \in Stored : Phase(i) # "rejected"}

\* replacement_liquidity_blocker
Blocker == {i \in Live : ~IsComplete(i)}

\* The rows a backup carries; a document with two is refused.
ForBackup == {i \in Stored : ~(IsRejected(i) \/ IsComplete(i))}

\* validate: at least one source is asked for.
ValidIntent(want) == want # {}

\* formed_liquidity_context: the seats the federation's consensus names now.
FormedContext == fleet

MatchesCommitment(i) == minted[i].fleet = FormedContext

\* The request still names what the status reports: the exact operation, one
\* item per requested source, amounts inside the bounds (here 1..1), and
\* gateway evidence exactly on a completed gateway item.
VerifyAllocationStatus(i, st) ==
  /\ st.op = i
  /\ DOMAIN st.item = minted[i].want
  /\ st.amount = 1
  /\ (st.api # None) <=> ("gateway" \in DOMAIN st.item /\ st.item["gateway"] = "done")

VerifyProviderFreshness(at) ==
  at - now \in (-Validity)..Validity

IsPastExpiryGrace(i) == minted[i].exp + Grace < now
IsPastExpiry(i) == minted[i].exp <= now

-----------------------------------------------------------------------------
(* The trust document *)

\* verify_for_mg_age
FreshDoc(d) == d.at <= now /\ now - d.at <= MaxAge

Cached == IF doc # None /\ FreshDoc(doc) THEN doc ELSE None

\* refresh_delay is zero: less than Ahead remains of the reader's window.
Due(d) == d.at + (MaxAge - Ahead) + 1 <= now

RefreshRequired(d) == mark = d

\* A shortcut around the network: valid, not due, not refused.
Shortcut == Cached # None /\ ~Due(Cached) /\ ~RefreshRequired(Cached)

\* cache_mg_trust_material: a strictly newer valid document wins, and only a
\* document other than the refused one clears the marker.
WinnerLast(d) == d
Winner(d) == IF doc # None /\ doc.at > d.at /\ FreshDoc(doc) THEN doc ELSE d

CacheDoc(d) ==
  /\ doc' = Winner(d)
  /\ mark' = IF Winner(d) = d /\ mark # d THEN None ELSE mark

Init ==
  /\ now = 1 /\ skew \in [Providers -> Skews]
  /\ minted = <<>> /\ ops = [i \in Ids |-> None]
  /\ run = Idle /\ net = {} /\ copies = 0
  /\ alloc = [p \in Providers |-> None]
  /\ registered = {} /\ fleet = 0 /\ transfer = FALSE
  /\ saved = 0 /\ doc = Prefetched /\ mark = None
  /\ fetch = [w \in Acquirers |-> None]
  /\ losses = 0 /\ restores = 0 /\ overtaken = {} /\ stale = FALSE

\* A unit of the clock is an hour; a status call is cut off after a minute, so
\* its answer is used in the unit it was given in.
Tick ==
  /\ now < MaxTime /\ run.pc # "told"
  /\ now' = now + 1
  /\ UNCHANGED <<skew, rows, run, wire, registered, device, trust, overtaken>>

\* A refresh_call answered: the MG sends a document it signed now or earlier,
\* and the caller verifies its age.
FetchReply(w) ==
  /\ fetch[w] = None
  /\ w = "run" => run.pc = "gather" /\ run.doc = None
  /\ ~Shortcut
  /\ \E d \in Docs : FreshDoc(d) /\ fetch' = [fetch EXCEPT ![w] = d]
  /\ UNCHANGED <<now, skew, rows, run, wire, registered, device, doc, mark, overtaken>>

\* The worker of maintain, and the compatibility fetch of a shopping entry:
\* they only write the cache.
WorkerCaches ==
  /\ "worker" \in Acquirers /\ fetch["worker"] # None
  /\ CacheDoc(fetch["worker"])
  /\ fetch' = [fetch EXCEPT !["worker"] = None]
  /\ UNCHANGED <<now, skew, rows, run, wire, registered, device, overtaken>>

-----------------------------------------------------------------------------
(* A run *)

\* Every error return, the driver's deadline, a cancelled future and the death
\* of the process: the run and what it held are gone.
GiveUp ==
  /\ run.pc # "idle"
  /\ run' = Idle
  /\ fetch' = [fetch EXCEPT !["run"] = None]
  /\ UNCHANGED <<now, skew, rows, wire, registered, device, doc, mark, overtaken>>

\* start_liquidity up to the trust collection: no transfer is open, no live
\* request exists, the provider passed a fresh admission.
StartLiquidity(p, want) ==
  /\ run.pc = "idle" /\ Len(minted) < MaxOps
  /\ ValidIntent(want)
  /\ ~transfer
  /\ Live = {}
  /\ run' = [Idle EXCEPT !.pc = "gather", !.prov = p, !.want = want, !.exp = now + Validity]
  /\ UNCHANGED <<now, skew, rows, wire, registered, device, trust, overtaken>>

\* acquire: the cached document when it is good, otherwise one fetch and the
\* cached document as the fallback.
AcquireCached ==
  /\ run.pc = "gather" /\ run.doc = None /\ fetch["run"] = None
  /\ Cached # None
  /\ run' = [run EXCEPT !.doc = Cached]
  /\ UNCHANGED <<now, skew, rows, wire, registered, device, trust, overtaken>>

AcquireFetched ==
  /\ run.pc = "gather" /\ run.doc = None /\ fetch["run"] # None
  /\ CacheDoc(fetch["run"])
  /\ run' = [run EXCEPT !.doc = Winner(fetch["run"])]
  /\ fetch' = [fetch EXCEPT !["run"] = None]
  /\ UNCHANGED <<now, skew, rows, wire, registered, device, overtaken>>

\* collect_mg_trust with a badge that every authority definitively rejected:
\* the document is removed if it is still the cached one.
RejectedBadge ==
  /\ run.pc = "gather" /\ run.doc # None /\ ~run.doc.holder
  /\ doc' = IF doc = run.doc THEN None ELSE doc
  /\ run' = Idle
  /\ UNCHANGED <<now, skew, rows, wire, registered, device, mark, fetch, overtaken>>

\* The proofs are in hand: a start persists its commitment, a replay keeps it.
Persist ==
  /\ run.pc = "gather" /\ run.doc # None /\ run.doc.holder /\ FreshDoc(run.doc)
  /\ IF run.op # 0
       THEN /\ run' = [run EXCEPT !.pc = "submit"]
            /\ UNCHANGED rows
       ELSE LET i == Len(minted) + 1
            IN /\ minted' = Append(minted, [prov |-> run.prov, exp |-> run.exp,
                                            fleet |-> FormedContext, want |-> run.want])
               /\ ops' = [ops EXCEPT ![i] = [resp |-> None, stat |-> None,
                                             seen |-> None, expired |-> FALSE]]
               /\ run' = [run EXCEPT !.pc = "submit", !.op = i]
  /\ UNCHANGED <<now, skew, wire, registered, device, trust, overtaken>>

\* submit_prepared_liquidity up to the provider's answer.
Submit ==
  /\ run.pc = "submit" /\ copies < MaxCopies
  /\ MatchesCommitment(run.op)
  /\ copies' = copies + 1
  /\ net' = net \cup {[op |-> run.op, n |-> copies + 1]}
  /\ run' = [run EXCEPT !.pc = "wait", !.copy = copies + 1]
  /\ UNCHANGED <<now, skew, rows, alloc, losses, registered, device, trust, overtaken>>

\* An authenticated rejection over credentials or policy marks the submitted
\* document, if it is still the cached one.
MarkRefused ==
  /\ run.pc = "answered" /\ run.ans = Refused
  /\ mark' = IF doc = run.doc THEN run.doc ELSE mark
  /\ run' = [run EXCEPT !.ans = Rejected]
  /\ UNCHANGED <<now, skew, rows, wire, registered, device, doc, fetch, overtaken>>

\* store_liquidity_response: a rejection never replaces durable acceptance.
ResponseFits(i, ans) ==
  /\ ops[i].resp \in {None, ans}
  /\ ans = Rejected => ops[i].stat = None

StoreResponse ==
  /\ run.pc = "answered" /\ run.ans # Refused
  /\ run.ans # Rejected => VerifyAllocationStatus(run.op, run.ans)
  /\ ResponseFits(run.op, run.ans)
  /\ ops' = [ops EXCEPT ![run.op].resp = run.ans]
  /\ run' = [run EXCEPT !.pc = "attach", !.ans = None]
  /\ UNCHANGED <<now, skew, minted, wire, registered, device, trust, overtaken>>

\* resume_liquidity: the row is loaded and matched with the consensus; gateway
\* evidence it already has is attached before the provider is asked.
ResumeLiquidity(i) ==
  /\ run.pc = "idle" /\ i \in Stored
  /\ ~IsRejected(i)
  /\ MatchesCommitment(i)
  /\ run' = [Idle EXCEPT !.pc = "resume", !.op = i, !.prov = minted[i].prov]
  /\ UNCHANGED <<now, skew, rows, wire, registered, device, trust, overtaken>>

\* attach_completed_gateway: nothing to attach, or attached already.
NothingToAttach ==
  LET api == CompletedGatewayApi(AllocationStatus(run.op))
  IN api = None \/ ops[run.op].seen = api

AttachDone ==
  /\ run.pc \in {"attach", "resume"}
  /\ NothingToAttach
  /\ run' = IF run.pc = "resume" /\ ~IsComplete(run.op)
            THEN [run EXCEPT !.pc = "query"] ELSE Idle
  /\ UNCHANGED <<now, skew, rows, wire, registered, device, trust, overtaken>>

\* register_gateway_pinned returned: a threshold stored the URL and a fresh
\* LNv2 view has it.
RegisterGateway ==
  /\ run.pc \in {"attach", "resume"} /\ run.ans = None
  /\ ~NothingToAttach
  /\ LET api == CompletedGatewayApi(AllocationStatus(run.op))
     IN /\ registered' = registered \cup {api}
        /\ run' = [run EXCEPT !.ans = api]
  /\ UNCHANGED <<now, skew, rows, wire, device, trust, overtaken>>

\* mark_liquidity_gateway_view_verified: refused when the evidence changed.
MarkVerified ==
  /\ run.pc \in {"attach", "resume"} /\ run.ans # None
  /\ CompletedGatewayApi(AllocationStatus(run.op)) = run.ans
  /\ ops' = [ops EXCEPT ![run.op].seen = run.ans]
  /\ run' = [run EXCEPT !.ans = None]
  /\ UNCHANGED <<now, skew, minted, wire, registered, device, trust, overtaken>>

\* store_liquidity_status: never an older status, never two at one time, and
\* the verified gateway is dropped when the evidence no longer names it.
StatusFits(i, s) ==
  ops[i].stat # None =>
    /\ ops[i].stat.at <= s.at
    /\ ops[i].stat.at = s.at => ops[i].stat = s

StoreStatus ==
  /\ run.pc = "told" /\ run.ans # NotFound
  /\ VerifyAllocationStatus(run.op, run.ans.st)
  /\ VerifyProviderFreshness(run.ans.at)
  /\ StatusFits(run.op, run.ans)
  /\ ops' = [ops EXCEPT ![run.op].stat = run.ans,
               ![run.op].seen = IF @ = CompletedGatewayApi(run.ans.st) THEN @ ELSE None]
  /\ run' = [run EXCEPT !.pc = "attach", !.ans = None]
  /\ UNCHANGED <<now, skew, minted, wire, registered, device, trust, overtaken>>

NoEvidence(i) == ops[i].resp = None /\ ops[i].stat = None

\* NotFound without evidence, past the grace: the request is terminal.
ExpireWith(past(_)) ==
  /\ run.pc = "told" /\ run.ans = NotFound
  /\ NoEvidence(run.op) /\ past(run.op)
  /\ ops' = [ops EXCEPT ![run.op].expired = TRUE]
  /\ run' = Idle
  /\ UNCHANGED <<now, skew, minted, wire, registered, device, trust, overtaken>>

ExpireUngraced == ExpireWith(IsPastExpiry)
Expire == ExpireWith(IsPastExpiryGrace)

\* NotFound without evidence, before that: the exact request is sent again.
Replay ==
  /\ run.pc = "told" /\ run.ans = NotFound
  /\ NoEvidence(run.op) /\ ~IsPastExpiryGrace(run.op)
  /\ run' = [run EXCEPT !.pc = "gather", !.ans = None]
  /\ UNCHANGED <<now, skew, rows, wire, registered, device, trust, overtaken>>

-----------------------------------------------------------------------------
(* The provider, as the Ambassador meets it *)

ProviderNow(p) == now + skew[p]

Holds(p, i) == alloc[p] # None /\ alloc[p].op = i

\* What a provider reports of request i: what it holds, or anything at all.
Reported(p, i) ==
  {st \in Statuses : \/ p \in Faulty
                     \/ Holds(p, i) /\ st = alloc[p]}

\* The answer reaches the run that still waits for this copy.
Answer(c, ans) ==
  run' = IF run.pc = "wait" /\ run.copy = c.n
         THEN [run EXCEPT !.pc = "answered", !.ans = ans] ELSE run

Accept(c) ==
  LET p == minted[c.op].prov
      fresh == [op |-> c.op, item |-> [s \in minted[c.op].want |-> "open"],
                amount |-> 1, api |-> None]
  IN /\ net' = net \ {c}
     /\ \/ alloc[p] = None /\ minted[c.op].exp > ProviderNow(p)
        \/ Holds(p, c.op)
     /\ alloc' = [alloc EXCEPT ![p] = IF @ = None THEN fresh ELSE @]
     /\ \E st \in Statuses :
          /\ p \in Faulty \/ st = alloc'[p]
          /\ Answer(c, st)
     /\ UNCHANGED <<now, skew, rows, copies, losses, registered, device, trust, overtaken>>

Reject(c) ==
  /\ ~Holds(minted[c.op].prov, c.op)
  /\ net' = net \ {c}
  /\ \E code \in {Rejected, Refused} : Answer(c, code)
  /\ overtaken' = IF \E d \in net' : d.op = c.op THEN overtaken \cup {c.op} ELSE overtaken
  /\ UNCHANGED <<now, skew, rows, copies, alloc, losses, registered, device, trust>>

GetAllocationStatus ==
  /\ run.pc = "query"
  /\ \/ \E st \in Reported(run.prov, run.op) :
          run' = [run EXCEPT !.pc = "told",
                    !.ans = [at |-> ProviderNow(run.prov), st |-> st]]
     \/ /\ ~Holds(run.prov, run.op)
        /\ run' = [run EXCEPT !.pc = "told", !.ans = NotFound]
  /\ UNCHANGED <<now, skew, rows, wire, registered, device, trust, overtaken>>

CompleteItem(p, s) ==
  /\ alloc[p] # None /\ s \in DOMAIN alloc[p].item /\ alloc[p].item[s] = "open"
  /\ \E g \in Gateways :
       alloc' = [alloc EXCEPT ![p].item[s] = "done",
                              ![p].api = IF s = "gateway" THEN g ELSE @]
  /\ UNCHANGED <<now, skew, rows, run, net, copies, losses, registered, device, trust, overtaken>>

\* An operator release, or a provider restored to before the acceptance.
LoseAllocation(p) ==
  /\ alloc[p] # None /\ losses < MaxLosses
  /\ alloc' = [alloc EXCEPT ![p] = None]
  /\ losses' = losses + 1
  /\ UNCHANGED <<now, skew, rows, run, net, copies, registered, device, trust, overtaken>>

-----------------------------------------------------------------------------
(* Guardian transfer, backup and restore *)

\* start_guardian_transfer_locked holds run_guard and refuses while a request
\* is unfinished.
BeginTransfer ==
  /\ run.pc = "idle" /\ ~transfer /\ fleet + 1 \in Fleets
  /\ Blocker = {}
  /\ transfer' = TRUE
  /\ UNCHANGED <<now, skew, rows, run, wire, registered, fleet, saved, restores, stale,
                 trust, overtaken>>

FinishTransfer ==
  /\ transfer
  /\ transfer' = FALSE /\ fleet' = fleet + 1
  /\ UNCHANGED <<now, skew, rows, run, wire, registered, saved, restores, stale,
                 trust, overtaken>>

\* backup_payload read by the coordinator and delivered.
PublishBackup ==
  /\ Cardinality(ForBackup) <= 1
  /\ saved' = IF ForBackup = {} THEN 0 ELSE CHOOSE i \in ForBackup : TRUE
  /\ UNCHANGED <<now, skew, rows, run, wire, registered, fleet, transfer, restores, stale,
                 trust, overtaken>>

\* The device is lost; a new one restores the backup and reconcile_formed_
\* federation inserts the saved request without any evidence.
Restore ==
  /\ restores < MaxRestores /\ ~transfer
  /\ restores' = restores + 1
  /\ stale' = (stale \/ (IF saved = 0 THEN {} ELSE {saved}) # Live)
  /\ ops' = [i \in Ids |-> IF i = saved
               THEN [resp |-> None, stat |-> None, seen |-> None, expired |-> FALSE]
               ELSE None]
  /\ run' = Idle /\ doc' = None /\ mark' = None
  /\ fetch' = [w \in DOMAIN fetch |-> None]
  /\ UNCHANGED <<now, skew, minted, wire, registered, fleet, transfer, saved, overtaken>>

Next ==
  \/ Tick \/ GiveUp \/ WorkerCaches
  \/ \E w \in DOMAIN fetch : FetchReply(w)
  \/ \E p \in Providers, want \in Wants : StartLiquidity(p, want)
  \/ AcquireCached \/ AcquireFetched \/ RejectedBadge \/ Persist \/ Submit
  \/ MarkRefused \/ StoreResponse
  \/ \E i \in Ids : ResumeLiquidity(i)
  \/ AttachDone \/ RegisterGateway \/ MarkVerified
  \/ StoreStatus \/ Expire \/ Replay
  \/ \E c \in net : Accept(c) \/ Reject(c)
  \/ GetAllocationStatus
  \/ \E p \in Providers : LoseAllocation(p) \/ \E s \in Sources : CompleteItem(p, s)
  \/ BeginTransfer \/ FinishTransfer \/ PublishBackup \/ Restore

Spec == Init /\ [][Next]_vars

-----------------------------------------------------------------------------
TypeOK ==
  /\ now \in 1..MaxTime
  /\ minted \in Seq(Commitments) /\ Len(minted) <= MaxOps
  /\ ops \in [Ids -> Rows \cup {None}]
  /\ \A i \in Stored : i <= Len(minted)
  /\ \A c \in net : c.op \in 1..Len(minted) /\ c.n \in 1..copies
  /\ doc \in Docs \cup {None} /\ mark \in Docs \cup {None}
  /\ saved \in 0..MaxOps /\ fleet \in Fleets

\* A request the Ambassador wrote off as expired is held by no provider and
\* never will be, whatever copies are still in the network: NotFound past the
\* grace is final (resume_liquidity, is_past_expiry_grace).
ExpiredIsFinal ==
  \A i \in Stored : ops[i].expired =>
    /\ \A p \in Providers : ~Holds(p, i)
    /\ \A c \in net : c.op = i => ProviderNow(minted[i].prov) >= minted[i].exp

\* Two providers hold allocations for the federation only when a rejected
\* request had another copy undecided, or a restore used a stale backup:
\* ensure_no_live_liquidity_operation otherwise keeps one request alive.
OneProvider ==
  (overtaken = {} /\ ~stale) =>
    \A p, q \in Providers : alloc[p] # None /\ alloc[q] # None => p = q

\* One request at most is live.
OneLive == Cardinality(Live) <= 1

\* An unfinished request names the federation's present seats, so resume can
\* always match it: start refuses an open transfer and a transfer refuses an
\* unfinished request.
UnfinishedMatches ==
  ~stale => \A i \in Blocker : MatchesCommitment(i) /\ ~transfer

\* A gateway reported as verified was registered with the guardians.
VerifiedWasRegistered ==
  \A i \in Stored : ops[i].seen # None => ops[i].seen \in registered

\* Acceptance evidence is never traded for a rejection, and a verified gateway
\* is dropped only with the evidence that named it.
EvidenceStays ==
  \A i \in Stored :
    restores' = restores =>
      /\ ops'[i] # None
      /\ Phase(i) = "accepted" => Phase(i)' = "accepted"
      /\ Phase(i) = "rejected" => Phase(i)' = "rejected"
      /\ (ViewVerified(i) /\ AllocationStatus(i)' = AllocationStatus(i))
           => ViewVerified(i)'

\* The cache never gives up a document that is still valid for an older one,
\* and a refused document stays marked until another replaces it.
TrustOnlyNewer ==
  restores' = restores =>
    /\ (doc # None /\ FreshDoc(doc) /\ doc' # None) => doc'.at >= doc.at
    /\ (mark # None /\ doc = mark /\ doc' = doc) => mark' = mark

LiquidityIsSound ==
  ExpiredIsFinal /\ OneProvider /\ OneLive /\ UnfinishedMatches /\ VerifiedWasRegistered

StepsAreSound == EvidenceStays /\ TrustOnlyNewer
=============================================================================
