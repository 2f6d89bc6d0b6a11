----------------------------- MODULE Selection -----------------------------
(***************************************************************************)
(* How a Federation Ambassador finds the services it will pay: Manifold    *)
(* Guardians (fa-client/src/discovery.rs, selection.rs) and liquidity      *)
(* providers (fa-client/src/liquidity.rs).                                 *)
(*                                                                         *)
(* One query: the registry's events are admitted statically, reduced to    *)
(* the newest per author and filtered; a ranked walk verifies badges and   *)
(* probes live availability; the outcome is sealed into an approval.       *)
(* Badge verdicts, live answers, the shuffle of the candidates and the     *)
(* deadline are chosen at every step.                                      *)
(***************************************************************************)
EXTENDS Integers, FiniteSets, Sequences, SequencesExt

CONSTANTS
  Queries,     \* pairs of a job and the events the registry returns for it
  Lives,       \* live availability answers
  Now,         \* the clock when the query starts
  MaxAge,      \* MG_ADVERTISEMENT_MAX_AGE
  Limit,       \* MG_ADVERTISEMENTS_CANDIDATE_LIMIT
  MaxAuths,    \* MG_ADVERTISEMENT_MAX_HOLDER_AUTHORIZATIONS
  MaxTotal,    \* u64::MAX
  Validity,    \* MG_SELECTION_PREVIEW_VALIDITY
  MaxTime,     \* bound: the clock
  Budgets,     \* limits a user may approve
  None

VARIABLES
  job, pool,
  pc,
  clock,
  found,       \* discovery: candidates, rejections
  cohorts,     \* DKG versions not walked yet
  walk,        \* the walk of one cohort
  cur,         \* the verified candidate being probed
  best,        \* the best complete cohort so far
  complete,    \* ghost: every complete cohort
  spilled,     \* a complete cohort whose estimate overflowed
  preview,     \* what the caller received
  approval,    \* the sealed approval
  used,        \* the seats an approval was spent on
  todo, late, listed, judged   \* provider discovery

vars == <<job, pool, pc, clock, found, cohorts, walk, cur, best, complete,
          spilled, preview, approval, used, todo, late, listed, judged>>

selecting == <<found, cohorts, walk, cur, best, complete, spilled>>
choosing  == <<preview, approval, used>>
providing == <<todo, late, listed, judged>>

-----------------------------------------------------------------------------
(* Static admission *)

\* The freshness policy on the signed validity window.
Fresh(e) ==
  IF e.expires <= Now THEN "expired"
  ELSE IF e.issued > Now THEN "future"
  ELSE IF Now - e.issued > MaxAge THEN "stale" ELSE None

\* Role, event signature, document proof and author binding are one verdict.
\* Freshness filters v2 events before the newest is taken, legacy ones after.
StaticallyAdmit(e) ==
  IF e.static # None THEN e.static
  ELSE IF e.v2 THEN Fresh(e) ELSE None

\* NIP-01 replacement order.
Newer(e, f) == e.at > f.at \/ (e.at = f.at /\ e.id < f.id)

Rejection(e, why) == [author |-> e.author, why |-> why]

\* statically_admit_newest_per_author: events of one format in the order they
\* came.  The deadline passed after the first `left` checks.
AdmitNewestPerAuthor(evs, left) ==
  LET Admit(acc, i) ==
        LET e == evs[i]
        IN IF i > left
             THEN [acc EXCEPT !.rej = Append(@, Rejection(e, "deadline"))]
           ELSE IF StaticallyAdmit(e) # None
             THEN [acc EXCEPT !.rej = Append(@, Rejection(e, StaticallyAdmit(e)))]
           ELSE IF e.author \notin DOMAIN acc.kept
             THEN [acc EXCEPT !.kept = [a \in DOMAIN @ \cup {e.author} |->
                                          IF a = e.author THEN e ELSE @[a]]]
           ELSE [acc EXCEPT
                   !.kept = [@ EXCEPT ![e.author] = IF Newer(e, @) THEN e ELSE @],
                   !.rej = Append(@, Rejection(e, "superseded"))]
  IN FoldLeft(Admit, [kept |-> <<>>, rej |-> <<>>], [i \in 1..Len(evs) |-> i])

\* A parseable service key and an iroh endpoint.
DialingLocator(e) ==
  IF e.key = None THEN "service key" ELSE IF ~e.dial THEN "no endpoint" ELSE None

\* admit_eligible_payload
EligiblePayload(j, e) ==
  IF Fresh(e) # None THEN Fresh(e)
  ELSE IF j.size \notin e.sizes THEN "size"
  ELSE IF e.ver \notin j.versions THEN "version"
  ELSE IF e.price = None THEN "plan"
  ELSE DialingLocator(e)

\* admit_eligible_advertisement: an advertisement without an envelope can
\* never be verified.
Eligible(j, e) ==
  IF EligiblePayload(j, e) # None THEN EligiblePayload(j, e)
  ELSE IF e.auths = <<>> THEN "no authorization" ELSE None

ClaimedIssuer(e) == e.auths[1].issuer

Bounded(evs) == SubSeq(evs, 1, IF Len(evs) > Limit THEN Limit ELSE Len(evs))

InOrder(S) == SetToSortSeq(S, LAMBDA a, b : a < b)

\* discover_mg_candidates_with: the deadline passed after `cut` checks, one
\* per legacy event, per v2 event and per chosen author.
Discovered(j, evs, cut) ==
  LET old     == Bounded(SelectSeq(evs, LAMBDA e : ~e.v2))
      new     == Bounded(SelectSeq(evs, LAMBDA e : e.v2))
      legacy  == AdmitNewestPerAuthor(old, cut)
      v2      == AdmitNewestPerAuthor(new, cut - Len(old))
      both    == DOMAIN legacy.kept \cap DOMAIN v2.kept
      chosen  == [i \in 1..Cardinality(DOMAIN v2.kept) |-> v2.kept[InOrder(DOMAIN v2.kept)[i]]]
                 \o [i \in 1..Cardinality(DOMAIN legacy.kept \ both) |->
                       legacy.kept[InOrder(DOMAIN legacy.kept \ both)[i]]]
      why     == [i \in DOMAIN chosen |->
                    IF i > cut - Len(old) - Len(new) THEN "deadline"
                    ELSE Eligible(j, chosen[i])]
  IN [cand |-> {chosen[i] : i \in {k \in DOMAIN chosen : why[k] = None}},
      rej  |-> legacy.rej \o v2.rej
               \o [i \in 1..Cardinality(both) |->
                     [author |-> InOrder(both)[i], why |-> "superseded"]]
               \o SelectSeq([i \in DOMAIN chosen |-> Rejection(chosen[i], why[i])],
                            LAMBDA r : r.why # None)]

\* More checks than any run makes: the deadline never struck.
InTime(evs) == 2 * Len(evs)

Seen(d) == Cardinality(d.cand) + Len(d.rej)

-----------------------------------------------------------------------------
(* The walk *)

\* verify_bound_badge, where `good` are the envelopes the verifier accepts:
\* the first that names the author and the claimed issuer seats it.
Examined(c) == 1..(IF Len(c.auths) > MaxAuths THEN MaxAuths ELSE Len(c.auths))
Bound(c, good) ==
  {i \in Examined(c) \cap good : c.auths[i].subject = c.author
                                 /\ c.auths[i].issuer = ClaimedIssuer(c)}

VerifyBoundBadge(c, good) ==
  IF Bound(c, good) # {}
  THEN c.auths[CHOOSE i \in Bound(c, good) : \A k \in Bound(c, good) : i <= k].holder
  ELSE None

\* match_requested_availability: the one predicate of walk and quote.
MatchRequestedAvailability(live, dkg) ==
  /\ live.accepting
  /\ job.size \in live.sizes
  /\ live.ver = dkg /\ live.ver \in job.versions
  /\ live.plan

\* probe_reached_candidate, with its budget running out as an answer; without
\* a connector the advertised claims seat the candidate.
ProbePasses(live, dkg) ==
  \/ ~job.live
  \/ /\ live # None
     /\ MatchRequestedAvailability(live, dkg)
     /\ job.kind = "transfer" => live.transfers

NoWalk == [dkg |-> 0, left |-> <<>>, turn |-> 0, seats |-> <<>>, keys |-> {},
           holders |-> {}, rej |-> <<>>]

Issuers(left) == {i \in DOMAIN left : left[i] # {}}

\* The next bucket with a candidate, in key order, after bucket t.
NextTurn(t, left) ==
  IF Issuers(left) = {} THEN 0
  ELSE LET later == {i \in Issuers(left) : i > t}
           among == IF later # {} THEN later ELSE Issuers(left)
       IN CHOOSE i \in among : \A k \in among : i <= k

\* A bucket keeps its turn until it seats a candidate or runs out.
KeepTurn(t, left) == IF left[t] # {} THEN t ELSE NextTurn(t, left)

Buckets(C) ==
  [i \in {ClaimedIssuer(c) : c \in C} |-> {c \in C : ClaimedIssuer(c) = i}]

\* select_mg_seats starts: retained service keys and holders are occupied.
StartWalk(dkg, C) ==
  [NoWalk EXCEPT !.dkg = dkg, !.left = Buckets(C), !.turn = NextTurn(0, Buckets(C)),
                 !.keys = job.keys, !.holders = job.holders]

Cheapest(C) == {c \in C : \A d \in C : c.price <= d.price}

Full == Len(walk.seats) = job.need

Total(seats) == FoldLeft(LAMBDA t, s : t + s.price, 0, seats)

-----------------------------------------------------------------------------
Init ==
  /\ \E q \in Queries : job = q.job /\ pool = q.pool
  /\ pc = "ask" /\ clock = Now
  /\ found = [cand |-> {}, rej |-> <<>>] /\ cohorts = {} /\ walk = NoWalk /\ cur = None
  /\ best = None /\ complete = {} /\ spilled = FALSE
  /\ preview = None /\ approval = None /\ used = None
  /\ todo = <<>> /\ late = FALSE /\ listed = {} /\ judged = None

\* The candidates a job walks, and in which cohorts.
Wanted(j, c) ==
  /\ c.author \notin j.excluded
  /\ j.kind = "transfer" => c.ver = j.dkg /\ c.api # 0

CohortsOf(j, C) == IF j.kind = "form" THEN {c.ver : c \in C} ELSE {j.dkg}
Cohort(j, C, v) == IF j.kind = "form" THEN {c \in C : c.ver = v} ELSE C

\* The registry answered.  A bare discovery reports what the deadline cut off;
\* in a preview the enclosing timer wins.
Discover ==
  /\ pc = "ask" /\ job.kind # "provider"
  /\ \E cut \in 0..InTime(pool) :
       LET d == Discovered(job, pool, cut)
           C == {c \in d.cand : Wanted(job, c)}
       IN /\ job.kind # "discover" => cut = InTime(pool)
          /\ found' = [d EXCEPT !.cand = C]
          /\ cohorts' = CohortsOf(job, C)
  /\ pc' = IF job.kind = "discover" THEN "listed" ELSE "cohort"
  /\ UNCHANGED <<job, pool, clock, walk, cur, best, complete, spilled, choosing, providing>>

\* The absolute deadline: no result is returned.
Deadline ==
  /\ pc \in {"ask", "cohort", "walk", "probe"} /\ job.kind \notin {"discover", "provider"}
  /\ pc' = "timeout"
  /\ UNCHANGED <<job, pool, clock, selecting, choosing, providing>>

\* The newest version's cohort first.
NextCohort ==
  /\ pc = "cohort" /\ cohorts # {}
  /\ LET v == CHOOSE v \in cohorts : \A w \in cohorts : w <= v
     IN /\ walk' = StartWalk(v, Cohort(job, found.cand, v))
        /\ cohorts' = cohorts \ {v}
  /\ pc' = "walk"
  /\ UNCHANGED <<job, pool, clock, found, cur, best, complete, spilled, choosing, providing>>

Drop(c, why) ==
  LET left == [walk.left EXCEPT ![walk.turn] = @ \ {c}]
  IN walk' = [walk EXCEPT !.left = left, !.turn = KeepTurn(walk.turn, left),
                          !.rej = Append(@, Rejection(c, why))]

\* A candidate is reached: its badge is verified, then the duplicates refused.
Reach ==
  /\ pc = "walk" /\ ~Full /\ walk.turn # 0
  /\ \E c \in Cheapest(walk.left[walk.turn]), good \in SUBSET (1..MaxAuths) :
       LET holder == VerifyBoundBadge(c, good)
       IN /\ good \subseteq Examined(c)
          /\ IF holder = None THEN Drop(c, "badge") /\ UNCHANGED <<pc, cur>>
             ELSE IF c.key \in walk.keys THEN Drop(c, "service key taken") /\ UNCHANGED <<pc, cur>>
             ELSE IF holder \in walk.holders THEN Drop(c, "holder taken") /\ UNCHANGED <<pc, cur>>
             ELSE /\ cur' = [c |-> c, holder |-> holder]
                  /\ pc' = "probe"
                  /\ UNCHANGED walk
  /\ UNCHANGED <<job, pool, clock, found, cohorts, best, complete, spilled, choosing, providing>>

\* The probe answered, failed or ran out of its budget.
Probe ==
  /\ pc = "probe"
  /\ \E live \in Lives \cup {None} :
       IF ProbePasses(live, walk.dkg)
       THEN LET left == [walk.left EXCEPT ![walk.turn] = @ \ {cur.c}]
            IN walk' = [walk EXCEPT
                 !.left = left, !.turn = NextTurn(walk.turn, left),
                 !.keys = @ \cup {cur.c.key}, !.holders = @ \cup {cur.holder},
                 !.seats = Append(@, [author |-> cur.c.author, issuer |-> ClaimedIssuer(cur.c),
                                      holder |-> cur.holder, key |-> cur.c.key,
                                      price |-> cur.c.price,
                                      ver |-> IF job.live THEN live.ver ELSE cur.c.ver])]
       ELSE Drop(cur.c, "probe")
  /\ cur' = None /\ pc' = "walk"
  /\ UNCHANGED <<job, pool, clock, found, cohorts, best, complete, spilled, choosing, providing>>

\* A complete cohort replaces the best when it is cheaper, or as cheap with a
\* greater version.
Better(total, v) ==
  best = None \/ total < best.total \/ (total = best.total /\ v > best.dkg)

EndWalk ==
  /\ pc = "walk" /\ (Full \/ walk.turn = 0)
  /\ LET total == Total(walk.seats)
         this  == [dkg |-> walk.dkg, total |-> total, seats |-> walk.seats, rej |-> walk.rej]
     IN /\ spilled' = (spilled \/ (Full /\ total > MaxTotal))
        /\ complete' = IF Full /\ total <= MaxTotal THEN complete \cup {this} ELSE complete
        /\ best' = IF Full /\ total <= MaxTotal /\ Better(total, walk.dkg) THEN this ELSE best
  /\ walk' = NoWalk /\ pc' = "cohort"
  /\ UNCHANGED <<job, pool, clock, found, cohorts, cur, choosing, providing>>

\* Every cohort is walked: the preview, or a typed error.
Conclude ==
  /\ pc = "cohort" /\ cohorts = {}
  /\ IF best = None
       THEN preview' = None /\ pc' = IF spilled THEN "overflow" ELSE "insufficient"
       ELSE /\ preview' = [seats |-> best.seats, total |-> best.total, dkg |-> best.dkg,
                           until |-> clock + Validity]
            /\ pc' = "shown"
  /\ UNCHANGED <<job, pool, clock, selecting, approval, used, providing>>

Tick ==
  /\ clock < MaxTime /\ pc \in {"cohort", "shown", "approved"}
  /\ clock' = clock + 1
  /\ UNCHANGED <<job, pool, pc, selecting, choosing, providing>>

\* approve: the limit covers the estimate; a renewed approval is never free.
Approve(max) ==
  /\ pc = "shown"
  /\ max >= preview.total
  /\ job.kind = "replace" => max # 0
  /\ approval' = [preview |-> preview, max |-> max]
  /\ pc' = "approved"
  /\ UNCHANGED <<job, pool, clock, selecting, preview, used, providing>>

\* into_seats_at: the approval is spent before it expires.
IntoSeats ==
  /\ pc = "approved" /\ approval.preview.until > clock
  /\ used' = [seats |-> approval.preview.seats, max |-> approval.max, at |-> clock]
  /\ pc' = "spent"
  /\ UNCHANGED <<job, pool, clock, selecting, preview, approval, providing>>

-----------------------------------------------------------------------------
(* Liquidity providers *)

\* discover_with: the newest statically valid event of each author, then one
\* admission at a time in key order.
DiscoverProviders ==
  /\ pc = "ask" /\ job.kind = "provider"
  /\ LET d == AdmitNewestPerAuthor(Bounded(pool), Len(pool))
     IN /\ todo' = [i \in 1..Cardinality(DOMAIN d.kept) |-> d.kept[InOrder(DOMAIN d.kept)[i]]]
        /\ found' = [found EXCEPT !.rej = d.rej]
  /\ pc' = "admit"
  /\ UNCHANGED <<job, pool, clock, cohorts, walk, cur, best, complete, spilled, choosing,
                 late, listed, judged>>

\* admit_provider up to the badge: version, validity, network and source,
\* the committed provider of a recovery, and an endpoint.
AdmitProvider(e) ==
  IF e.ver \notin job.versions THEN "version"
  ELSE IF Fresh(e) # None THEN Fresh(e)
  ELSE IF job.size \notin e.sizes THEN "source"
  ELSE IF e.author \in job.excluded THEN "not committed"
  ELSE IF ~e.dial THEN "endpoint" ELSE None

\* first_verified_badge: `says` is the verifier's verdict per envelope, and
\* the deadline passed after `cut` of them.
FirstVerifiedBadge(who, auths, says, cut) ==
  LET n    == IF Len(auths) > MaxAuths THEN MaxAuths ELSE Len(auths)
      good == {i \in 1..n : says[i] = "verified" /\ auths[i].subject = who}
      hit  == IF good = {} THEN n + 1 ELSE CHOOSE i \in good : \A k \in good : i <= k
  IN IF auths = <<>> THEN [ok |-> FALSE, definitive |-> TRUE]
     ELSE IF hit <= n /\ hit <= cut THEN [ok |-> TRUE, definitive |-> FALSE]
     ELSE IF cut < n THEN [ok |-> FALSE, definitive |-> FALSE]
     ELSE [ok |-> FALSE,
           definitive |-> /\ Len(auths) <= MaxAuths
                          /\ \A i \in 1..n : says[i] # "unavailable"]
NextProvider ==
  /\ pc = "admit" /\ todo # <<>>
  /\ todo' = Tail(todo)
  /\ LET e == Head(todo)
     IN \/ /\ late' = TRUE                       \* the deadline struck before it
           /\ found' = [found EXCEPT !.rej = Append(@, Rejection(e, "deadline"))]
           /\ UNCHANGED <<listed, judged>>
        \/ /\ ~late /\ late' = late /\ AdmitProvider(e) # None
           /\ found' = [found EXCEPT !.rej = Append(@, Rejection(e, AdmitProvider(e)))]
           /\ UNCHANGED <<listed, judged>>
        \/ /\ ~late /\ AdmitProvider(e) = None
           /\ \E says \in [1..Len(e.auths) -> {"verified", "revoked", "unavailable"}],
                 cut \in 0..Len(e.auths) :
                LET r == FirstVerifiedBadge(e.author, e.auths, says, cut)
                IN /\ judged' = [e |-> e, says |-> says, cut |-> cut, res |-> r]
                   /\ late' = (cut < Len(e.auths) /\ ~r.ok)
                   /\ listed' = IF r.ok THEN listed \cup {e} ELSE listed
                   /\ found' = IF r.ok THEN found
                               ELSE [found EXCEPT !.rej = Append(@, Rejection(e, "badge"))]
  /\ UNCHANGED <<job, pool, pc, clock, cohorts, walk, cur, best, complete, spilled, choosing>>

Next ==
  \/ Discover \/ Deadline \/ NextCohort \/ Reach \/ Probe \/ EndWalk \/ Conclude \/ Tick
  \/ \E max \in Budgets : Approve(max)
  \/ IntoSeats \/ DiscoverProviders \/ NextProvider

Spec == Init /\ [][Next]_vars

-----------------------------------------------------------------------------
TypeOK ==
  /\ pc \in {"ask", "listed", "cohort", "walk", "probe", "shown", "approved", "spent",
             "timeout", "overflow", "insufficient", "admit"}
  /\ clock \in Now..MaxTime
  /\ Len(walk.seats) <= job.need
  /\ pc = "probe" => cur # None
  /\ preview = None => approval = None
  /\ approval = None => used = None

\* Reference: an author's chosen advertisement is their newest fresh v2 one,
\* or without any their newest legacy one; nobody appears twice, and every
\* event of the registry is counted exactly once as a candidate or a
\* rejection (discover_mg_candidates_with, MgDiscovery::seen).
Reference(a) ==
  LET of(new) == {e \in ToSet(Bounded(SelectSeq(pool, LAMBDA x : x.v2 = new))) :
                    e.author = a /\ e.static = None /\ (new => Fresh(e) = None)}
      S == IF of(TRUE) # {} THEN of(TRUE) ELSE of(FALSE)
  IN {e \in S : \A f \in S : f.at < e.at \/ (f.at = e.at /\ e.id <= f.id)}

CandidatesAreNewest ==
  pc \in {"listed", "cohort"} =>
    /\ \A c \in found.cand : c \in Reference(c.author) /\ Eligible(job, c) = None
    /\ pc = "cohort" => \A e \in ToSet(pool) :
         e \in Reference(e.author) /\ Eligible(job, e) = None /\ Wanted(job, e)
           => e \in found.cand
    /\ pc = "listed" => Seen(found) = Len(Bounded(SelectSeq(pool, LAMBDA e : e.v2)))
                                      + Len(Bounded(SelectSeq(pool, LAMBDA e : ~e.v2)))

\* No author, signing key or badge holder gets two seats, nor one a retained
\* guardian already has, and no excluded guardian gets one (select_mg_seats).
SeatsAreDistinct ==
  LET s == walk.seats
  IN /\ \A i, k \in DOMAIN s : i # k =>
          s[i].author # s[k].author /\ s[i].key # s[k].key /\ s[i].holder # s[k].holder
     /\ \A i \in DOMAIN s :
          s[i].key \notin job.keys /\ s[i].holder \notin job.holders
          /\ s[i].author \notin job.excluded

\* Issuers take turns: one issuer is two seats ahead of another only when the
\* other has no candidate left.
IssuersTakeTurns ==
  pc = "walk" =>
    LET Count(i) == Cardinality({k \in DOMAIN walk.seats : walk.seats[k].issuer = i})
    IN \A i, k \in DOMAIN walk.left : Count(i) > Count(k) + 1 => walk.left[k] = {}

\* A cheaper candidate of the same issuer was seated or refused first.
CheapestFirst ==
  \A i \in DOMAIN walk.seats :
    LET s == walk.seats[i]
    IN \A c \in Cohort(job, found.cand, walk.dkg) :
         ClaimedIssuer(c) = s.issuer /\ c.price < s.price =>
           \/ \E k \in DOMAIN walk.seats : walk.seats[k].author = c.author
           \/ \E k \in DOMAIN walk.rej : walk.rej[k].author = c.author

\* What the caller is shown is the cheapest complete cohort, the newest among
\* equals; its seats are all it needs, of one DKG version where they were
\* probed, each under a badge made out to it by the issuer it claimed.
PreviewIsBest ==
  preview # None =>
    /\ \E b \in complete : b.seats = preview.seats
    /\ Len(preview.seats) = job.need
    /\ \A b \in complete : \/ preview.total < b.total
                           \/ preview.total = b.total /\ preview.dkg >= b.dkg
    /\ \A i \in DOMAIN preview.seats :
         LET s == preview.seats[i]
         IN /\ job.live => s.ver = preview.dkg
            /\ \E c \in found.cand : c.author = s.author /\
                 \E k \in DOMAIN c.auths : c.auths[k].subject = s.author
                   /\ c.auths[k].issuer = s.issuer /\ c.auths[k].holder = s.holder

\* An approval is spent only while fresh, on the seats shown, inside its limit.
SpentAsApproved ==
  used # None => /\ used.seats = preview.seats
                 /\ Total(used.seats) <= used.max
                 /\ used.at < preview.until

\* A provider is listed only from its newest event and, in a recovery, only if
\* it is the committed one; and credentials count as definitively rejected
\* only when each was examined and none was merely unavailable, which is what
\* lets the caller drop a trust document (first_verified_badge).
ProvidersAreSound ==
  /\ \A e \in listed : e.author \notin job.excluded /\
       \A f \in ToSet(Bounded(pool)) : f.author = e.author /\ f.static = None => f.at <= e.at
  /\ judged # None /\ judged.res.definitive =>
       /\ ~judged.res.ok
       /\ \A i \in DOMAIN judged.e.auths :
            i <= judged.cut /\ i <= MaxAuths /\ judged.says[i] # "unavailable"

SelectionIsExact ==
  /\ CandidatesAreNewest /\ SeatsAreDistinct /\ IssuersTakeTurns /\ CheapestFirst
  /\ PreviewIsBest /\ SpentAsApproved /\ ProvidersAreSound
=============================================================================
