---------------------------- MODULE MCAmbassador -----------------------------
(* The Federation Ambassador and its market, for TLC.  A behaviour of this  *)
(* suite is a behaviour of one component, named by "part".  Of the drivers: *)
(* acquiring the seats of a formation, buying one replacement seat, the     *)
(* lease between drivers, the key ceremony, the votes on the federation's   *)
(* metadata, or the wallet that pays for seats, for one formation or for    *)
(* two.  Of what is published, believed and bought: the selection of        *)
(* guardians and liquidity providers; the liquidity request under one of    *)
(* five sets of conditions (two providers and a restored device, clocks     *)
(* that disagree around the expiry, changing gateway evidence and guardian  *)
(* moves, a provider that answers anything, and ageing trust documents);    *)
(* the directory (the tool publishing the setup-payment policy, the MG and  *)
(* the FA admitting it, the MG's enrolment); and verification (FLIP's       *)
(* pipeline, its allowance, the PeerBadge verifier, its enrolment).         *)
EXTENDS DriverLease, Integers, Sequences, FiniteSets, TLC

CONSTANTS
    Parts,     \* the components a run checks
    Off,       \* a component that is not under check, and no value
    Guardians, \* the guardians of the federation being formed
    Rejected, Refused, NotFound   \* answers of a liquidity provider

VARIABLES
    part,  \* the component this behaviour is of
    phase, rows, auth, recorded, resv, intent, outputs, nextq, paid,
    journals, pay, freed, mg, pc, asked, term,
    stage, quote, armed, seats, nextq1, paid1, holds, pay1, mg1, pc1,
    current,
    seat, decided, fa, driver, restart,
    board, vote, pin, hand, req, record, restarts, waves,
    journal, op, balance, guard, call, absent, wArmed, refused, source,
    wRestart, credited, import, remitted, fed, open, crashes,
    job, pool, selPc, selClock, found, cohorts, walk, cur, best, complete,
    spilled, preview, approval, used, todo, late, listed, judged,
    now, skew, minted, ops, liqRun, net, copies, alloc, registered, fleet,
    transfer, saved, document, mark, fetched, losses, restores, overtaken,
    outdated,
    dirNow, backs, held, receipts, pub, query, release, row, members, epoch,
    policy, dirFa, dirDriver, up, dirStage, raised, answer, dirAuth, auths,
    refresh, seen, advert,
    verNow, revoked, authority, enrolled, installed, install, entries, work,
    answers, spends, check, verdicts, verRows, reader, lastRead

(* Advertisements and queries *)

Ad(author, issuer, holder, key, price, version) ==
    [author |-> author, v2 |-> TRUE, at |-> 2, id |-> author, static |-> Off,
     issued |-> 2, expires |-> 9, sizes |-> {7}, ver |-> version,
     price |-> price, key |-> key, dial |-> TRUE, api |-> 2,
     auths |-> <<[subject |-> author, issuer |-> issuer, holder |-> holder]>>]

Event(author, v2, at, id, static, issued, expires) ==
    [Ad(author, 1, 1, 1, 1, 1) EXCEPT !.v2 = v2, !.at = at, !.id = id,
        !.static = static, !.issued = issued, !.expires = expires]

Badge(s) == [subject |-> s, issuer |-> 1, holder |-> s]

\* Holders, keys, prices, issuers and versions that collide.
WalkPools ==
    {<<Ad(1, 1, 1, 1, 1, 1), Ad(2, 1, h2, k2, 2, 1), Ad(3, i3, 3, 3, p3, 1),
       Ad(4, 2, 4, 4, 2, v4)>> :
        h2 \in {1, 2}, k2 \in {1, 2}, i3 \in {1, 2}, p3 \in {1, 3}, v4 \in {1, 2}}
    \cup {<<Ad(1, 1, 1, 1, 1, 1), Ad(2, 1, 2, 2, 1, 1), Ad(3, 2, 3, 3, 1, 2),
            Ad(4, 2, 4, 4, p, 2), Ad(5, 1, 5, 5, 1, 2)>> : p \in {1, 2}}
    \cup {<<Ad(1, 1, 1, 1, 1, 1),
            [Ad(2, 1, 2, 2, 1, 1) EXCEPT !.auths =
                <<[subject |-> s, issuer |-> 1, holder |-> 2],
                  [subject |-> 2, issuer |-> i, holder |-> 2]>>],
            Ad(3, 2, 3, 3, 2, 1)>> : s \in {1, 2}, i \in {1, 2}}

\* Up to three events of one author, of both formats, fresh or not.
EventPools ==
    {<<Event(1, n1, a1, 1, Off, 2, 9), Event(1, n2, 2, 2, s2, i2, 9),
       Event(a3, n3, 2, 3, Off, 2, e3)>> :
        n1 \in BOOLEAN, n2 \in BOOLEAN, n3 \in BOOLEAN, a1 \in {1, 2, 3},
        s2 \in {Off, "proof"}, i2 \in {0, 2, 5}, a3 \in {1, 2}, e3 \in {3, 9}}

ProviderPools ==
    {<<[Event(1, FALSE, a1, 1, Off, 2, 9) EXCEPT !.auths = b1],
       [Event(2, FALSE, 2, 2, Off, 2, 9) EXCEPT !.auths = b2],
       [Event(1, FALSE, 2, 3, Off, 2, 9) EXCEPT !.dial = d]>> :
        a1 \in {1, 2, 3}, d \in BOOLEAN,
        b1 \in {<<>>, <<Badge(1)>>, <<Badge(2), Badge(1)>>,
                <<Badge(2), Badge(2), Badge(1)>>},
        b2 \in {<<Badge(2)>>, <<Badge(1), Badge(2)>>}}

Job(kind, need, dkg, keys, holders, excluded, live) ==
    [kind |-> kind, size |-> 7, versions |-> {1, 2}, need |-> need, dkg |-> dkg,
     keys |-> keys, holders |-> holders, excluded |-> excluded, live |-> live]

SomeQueries ==
    [job : {Job("form", 2, 0, {}, {}, {}, TRUE), Job("form", 3, 0, {}, {}, {}, FALSE),
            Job("replace", 1, 1, {2}, {3}, {4}, TRUE),
            Job("transfer", 1, 1, {1}, {}, {3}, TRUE)},
     pool : WalkPools]
    \cup [job : {Job("discover", 1, 0, {}, {}, {}, TRUE),
                 Job("form", 1, 0, {}, {}, {}, FALSE)},
          pool : EventPools]
    \cup [job : {Job("provider", 1, 0, {}, {}, {}, TRUE),
                 Job("provider", 1, 0, {}, {}, {2}, TRUE)},
          pool : ProviderPools]

LiveAnswer(accepting, version, transfers) ==
    [accepting |-> accepting, sizes |-> {7}, ver |-> version, plan |-> TRUE,
     transfers |-> transfers]

(* Setup-payment policies *)

Policy(at, id, payees, ok) ==
    [at |-> at, id |-> id, members |-> payees, ok |-> ok, real |-> TRUE]

Foreign == [Policy(3, 4, {3}, {1, 2}) EXCEPT !.real = FALSE]

SomePolicies ==
    {{}, {Policy(1, 2, {1, 2}, {1}), Policy(2, 3, {2}, {1, 2})},
     {Policy(1, 1, {1}, {1, 2}), Policy(2, 3, {2}, {1, 2}), Foreign},
     {Policy(1, 6, {1, 2}, {1, 2})}, {Policy(3, 5, {1}, {2})}}

TwoPolicies ==
    {{Policy(1, 2, {1, 2}, {1}), Policy(2, 3, {2}, {1, 2})},
     {Policy(1, 1, {1}, {1, 2}), Policy(3, 5, {1}, {2})}}

(* Badges, authorities and requests *)

Credential(digest, issuer, subject, until) ==
    [digest |-> digest, issuer |-> issuer, subject |-> subject, from |-> 0,
     until |-> until, level |-> 1, schema |-> TRUE]

Issuer(issuer, id, relays) == [issuer |-> issuer, id |-> id, relays |-> relays]

Revocation(digest, valid) == [digest |-> digest, valid |-> valid]

FirstAuthorities == {Issuer("i", 1, <<1, 2>>), Issuer("j", 1, <<1>>)}

SomeAuthorities == FirstAuthorities \cup {Issuer("i", 2, <<2>>)}

Announcement(at, id, doc, authentic) ==
    [issuer |-> "i", at |-> at, id |-> id, doc |-> doc, valid |-> TRUE,
     authentic |-> authentic]

SomeAnnounced ==
    {Announcement(1, 1, Issuer("i", 1, <<1>>), TRUE),
     Announcement(2, 1, Issuer("i", 2, <<2, 1>>), TRUE),
     Announcement(2, 2, Issuer("i", 3, <<1>>), FALSE)}

SomeEnrolments ==
    {[digest |-> 1, issued |-> t, ok |-> TRUE] : t \in 1..2}

Binding(federation, peer, host, account) ==
    [signed |-> TRUE, federation |-> federation, hash |-> 1, peer |-> peer,
     guardian |-> peer, mg |-> host, account |-> account, depositor |-> TRUE]

\* The seats of "f" belong to two MGs; those of "g" name one fee account
\* twice.
TwoFederations ==
    [f \in {"f", "g"} |->
        [federation |-> f, hash |-> 1, network |-> 1,
         peers |-> {[peer |-> p, guardian |-> p] : p \in 1..2}, threshold |-> 1,
         bindings |-> IF f = "f" THEN <<Binding(f, 1, "m", 1), Binding(f, 2, "n", 2)>>
                      ELSE <<Binding(f, 1, "m", 1), Binding(f, 2, "m", 1)>>,
         stability |-> FALSE, usable |-> TRUE, endpoints |-> TRUE]]

Material(host, digest, issuer) ==
    <<[signed |-> TRUE, mg |-> host, issued |-> 0,
       badges |-> <<Credential(digest, issuer, host, 1)>>]>>

Request(federation, material) ==
    [endorsement |-> [signed |-> TRUE, federation |-> federation, mg |-> "m",
                      badge |-> Credential("dm", "i", "m", 1)],
     invite |-> federation, claimed |-> federation, hash |-> 1, network |-> 1,
     hints |-> {}, stability |-> FALSE, material |-> material]

BothMaterials == Material("m", "dm", "i") \o Material("n", "dn", "j")

Complete == Request("f", BothMaterials)

SomeRequests ==
    {Complete, Request("f", Material("n", "dn", "j")),
     Request("g", Material("m", "dm", "i")), Request("f", BothMaterials \o BothMaterials),
     [Complete EXCEPT !.endorsement = Off], [Complete EXCEPT !.invite = Off],
     [Complete EXCEPT !.invite = "g"], [Complete EXCEPT !.hash = 2],
     [Complete EXCEPT !.stability = TRUE]}

TwoRequests == {Complete, Request("g", Off)}

\* The first attester asks for every operator, the second for a majority.
SomeAttesters == <<[attester |-> "i", all |-> TRUE], [attester |-> "j", all |-> FALSE]>>

(* Live answers of guardians *)

SomeLives == {LiveAnswer(TRUE, 1, TRUE), LiveAnswer(TRUE, 2, TRUE), LiveAnswer(FALSE, 1, TRUE),
              LiveAnswer(TRUE, 1, FALSE)}

O == INSTANCE Formation WITH Rows <- {0, 1}, MaxQuotes <- 4
U == INSTANCE SeatPurchase WITH MaxQuotes <- 4, nextq <- nextq1,
                                paid <- paid1, pay <- pay1, mg <- mg1,
                                pc <- pc1
K == INSTANCE FormationDkg WITH Seats <- Guardians, MaxInc <- 3, None <- Off,
                                run <- driver
M == INSTANCE MetaVote WITH Threshold <- 3,
                            FormTargets <- {("dir" :> 1 @@ "rate" :> 1)},
                            Updates <- {("name" :> 1), ("rate" :> 2)},
                            Moves <- {("dir" :> 2)},
                            Fields <- {"dir", "rate", "name"},
                            Values <- 0..2, MaxRestarts <- 1, MaxWaves <- 3,
                            None <- Off, fa <- record
H == INSTANCE PayerWallet WITH Groups <- [g1 |-> {"q1", "q2"}],
                               Tokens <- {"t1"}, TokenValue <- 3,
                               Fees <- {0, 1}, Floors <- {1},
                               MaxCrashes <- 1, None <- Off, armed <- wArmed,
                               restart <- wRestart
J == INSTANCE PayerWallet WITH Groups <- [g1 |-> {"q1"}, g2 |-> {"q2"}],
                               Tokens <- {"t1"}, TokenValue <- 3,
                               Fees <- {0, 1}, Floors <- {1},
                               MaxCrashes <- 0, None <- Off, armed <- wArmed,
                               restart <- wRestart
S == INSTANCE Selection WITH Queries <- SomeQueries, Lives <- SomeLives,
                             Now <- 3, MaxAge <- 2, Limit <- 5,
                             MaxAuths <- 2, MaxTotal <- 5, Validity <- 1,
                             MaxTime <- 4, Budgets <- {0, 3, 6}, None <- Off,
                             pc <- selPc, clock <- selClock
R == INSTANCE Liquidity WITH Providers <- {"p", "q"}, Faulty <- {},
                             Gateways <- {"g"}, Wants <- {{"stability"}},
                             Fleets <- {0}, Skews <- {0}, Issued <- {1},
                             Badges <- {TRUE},
                             Prefetched <- [at |-> 1, holder |-> TRUE],
                             MaxAge <- 9, Ahead <- 0, MaxOps <- 2,
                             MaxCopies <- 3, MaxTime <- 1, MaxLosses <- 0,
                             MaxRestores <- 1, Acquirers <- {"run"},
                             Validity <- 1, Grace <- 1, None <- Off,
                             stale <- outdated, fetch <- fetched,
                             doc <- document, run <- liqRun
X == INSTANCE Liquidity WITH Providers <- {"p"}, Faulty <- {},
                             Gateways <- {"g"}, Wants <- {{"stability"}},
                             Fleets <- {0}, Skews <- {-1}, Issued <- {1},
                             Badges <- {TRUE},
                             Prefetched <- [at |-> 1, holder |-> TRUE],
                             MaxAge <- 9, Ahead <- 0, MaxOps <- 1,
                             MaxCopies <- 2, MaxTime <- 4, MaxLosses <- 1,
                             MaxRestores <- 1, Acquirers <- {"run"},
                             Validity <- 1, Grace <- 1, None <- Off,
                             stale <- outdated, fetch <- fetched,
                             doc <- document, run <- liqRun
E == INSTANCE Liquidity WITH Providers <- {"p"}, Faulty <- {},
                             Gateways <- {"g", "h"}, Wants <- {{"gateway"}},
                             Fleets <- {0, 1}, Skews <- {0}, Issued <- {1},
                             Badges <- {TRUE},
                             Prefetched <- [at |-> 1, holder |-> TRUE],
                             MaxAge <- 9, Ahead <- 0, MaxOps <- 2,
                             MaxCopies <- 2, MaxTime <- 2, MaxLosses <- 0,
                             MaxRestores <- 0, Acquirers <- {"run"},
                             Validity <- 1, Grace <- 1, None <- Off,
                             stale <- outdated, fetch <- fetched,
                             doc <- document, run <- liqRun
Y == INSTANCE Liquidity WITH Providers <- {"p"}, Faulty <- {"p"},
                             Gateways <- {"g", "h"}, Wants <- {{"gateway"}},
                             Fleets <- {0}, Skews <- {0}, Issued <- {1},
                             Badges <- {TRUE},
                             Prefetched <- [at |-> 1, holder |-> TRUE],
                             MaxAge <- 9, Ahead <- 0, MaxOps <- 1,
                             MaxCopies <- 1, MaxTime <- 2, MaxLosses <- 0,
                             MaxRestores <- 0, Acquirers <- {"run"},
                             Validity <- 1, Grace <- 1, None <- Off,
                             stale <- outdated, fetch <- fetched,
                             doc <- document, run <- liqRun
D == INSTANCE Liquidity WITH Providers <- {"p"}, Faulty <- {},
                             Gateways <- {"g"}, Wants <- {{"stability"}},
                             Fleets <- {0}, Skews <- {0},
                             Issued <- {1, 2, 3}, Badges <- {TRUE, FALSE},
                             Prefetched <- Off, MaxAge <- 2, Ahead <- 1,
                             MaxOps <- 1, MaxCopies <- 1, MaxTime <- 3,
                             MaxLosses <- 0, MaxRestores <- 0,
                             Acquirers <- {"run", "worker"}, Validity <- 1,
                             Grace <- 1, None <- Off, stale <- outdated,
                             fetch <- fetched, doc <- document, run <- liqRun
P == INSTANCE Directory WITH Relays <- {1, 2}, Runs <- {"x"}, Drivers <- {},
                             Guardian <- {},
                             Policies <- {[members |-> {1}, ok |-> {1}]},
                             Releases <- {1}, Published <- {{}, {Foreign}},
                             MaxEvents <- 2, MaxTime <- 1, Skew <- 1,
                             Limit <- 2, Issues <- {}, MaxBacks <- 0,
                             None <- Off, now <- dirNow, listed <- advert,
                             fa <- dirFa, driver <- dirDriver,
                             stage <- dirStage, auth <- dirAuth
G == INSTANCE Directory WITH Relays <- {1, 2}, Runs <- {}, Drivers <- {},
                             Guardian <- {"policy"}, Policies <- {},
                             Releases <- {1, 2}, Published <- SomePolicies,
                             MaxEvents <- 6, MaxTime <- 2, Skew <- 1,
                             Limit <- 2, Issues <- {}, MaxBacks <- 0,
                             None <- Off, now <- dirNow, listed <- advert,
                             fa <- dirFa, driver <- dirDriver,
                             stage <- dirStage, auth <- dirAuth
F == INSTANCE Directory WITH Relays <- {1}, Runs <- {},
                             Drivers <- {"d", "e"}, Guardian <- {},
                             Policies <- {}, Releases <- {1, 2},
                             Published <- TwoPolicies, MaxEvents <- 5,
                             MaxTime <- 2, Skew <- 1, Limit <- 2,
                             Issues <- {}, MaxBacks <- 0, None <- Off,
                             now <- dirNow, listed <- advert, fa <- dirFa,
                             driver <- dirDriver, stage <- dirStage,
                             auth <- dirAuth
N == INSTANCE Directory WITH Relays <- {1, 2}, Runs <- {}, Drivers <- {},
                             Guardian <- {"enrolment"}, Policies <- {},
                             Releases <- {1}, Published <- {{}},
                             MaxEvents <- 1, MaxTime <- 3, Skew <- 1,
                             Limit <- 2, Issues <- {1, 2, 4}, MaxBacks <- 1,
                             None <- Off, now <- dirNow, listed <- advert,
                             fa <- dirFa, driver <- dirDriver,
                             stage <- dirStage, auth <- dirAuth
V == INSTANCE Verification WITH Requests <- SomeRequests,
                                Federations <- TwoFederations,
                                Workers <- {"w"}, Policies <- SomeAttesters,
                                Authorities <- SomeAuthorities,
                                First <- FirstAuthorities,
                                Installers <- {"k"}, Announced <- {},
                                Pinned <- {}, Roots <- {}, Badges <- {},
                                Checkers <- {}, AuthorityRelays <- <<1, 2>>,
                                Development <- FALSE, Relays <- {1, 2},
                                Revocations <- {Revocation("dm", TRUE)},
                                Enrolments <- {}, Readers <- {},
                                MinLevel <- 1, MaxBindings <- 4,
                                MaxRevocationLocations <- 2, Window <- 2,
                                PerWindow <- 2, MaxTracked <- 1, MaxAge <- 1,
                                Skew <- 0, None <- Off, MaxTime <- 1,
                                now <- verNow, rows <- verRows
W == INSTANCE Verification WITH Requests <- TwoRequests,
                                Federations <- TwoFederations,
                                Workers <- {"w"}, Policies <- SomeAttesters,
                                Authorities <- FirstAuthorities,
                                First <- FirstAuthorities, Installers <- {},
                                Announced <- {}, Pinned <- {}, Roots <- {},
                                Badges <- {}, Checkers <- {},
                                AuthorityRelays <- <<1, 2>>,
                                Development <- FALSE,
                                Relays <- {1, 2}, Revocations <- {},
                                Enrolments <- {}, Readers <- {},
                                MinLevel <- 1, MaxBindings <- 4,
                                MaxRevocationLocations <- 2, Window <- 2,
                                PerWindow <- 2, MaxTracked <- 1, MaxAge <- 1,
                                Skew <- 0, None <- Off, MaxTime <- 4,
                                now <- verNow, rows <- verRows
B == INSTANCE Verification WITH Requests <- {},
                                Federations <- TwoFederations, Workers <- {},
                                Policies <- SomeAttesters, Authorities <- {},
                                First <- {}, Installers <- {},
                                Announced <- SomeAnnounced,
                                Pinned <- {Issuer("j", 1, <<1, 2>>)},
                                Roots <- {"i", "j"},
                                Badges <- {Credential("dm", "i", "m", 2), Credential("dj", "j", "m", 2)},
                                Checkers <- {"c"},
                                AuthorityRelays <- <<1, 2>>,
                                Development <- FALSE, Relays <- {1, 2},
                                Revocations <- {Revocation("dm", TRUE), Revocation("dj", FALSE)},
                                Enrolments <- {}, Readers <- {},
                                MinLevel <- 1, MaxBindings <- 4,
                                MaxRevocationLocations <- 2, Window <- 2,
                                PerWindow <- 2, MaxTracked <- 1, MaxAge <- 1,
                                Skew <- 0, None <- Off, MaxTime <- 0,
                                now <- verNow, rows <- verRows
\* The profile's relay is not among the locations its pinned authority signs.
T == INSTANCE Verification WITH Requests <- {},
                                Federations <- TwoFederations, Workers <- {},
                                Policies <- SomeAttesters, Authorities <- {},
                                First <- {}, Installers <- {},
                                Announced <- {},
                                Pinned <- {Issuer("j", 1, <<2>>)},
                                Roots <- {"j"},
                                Badges <- {Credential("dj", "j", "m", 2)},
                                Checkers <- {"c", "d"},
                                AuthorityRelays <- <<1>>,
                                Development <- TRUE, Relays <- {1, 2},
                                Revocations <- {Revocation("dj", TRUE), Revocation("dj", FALSE)},
                                Enrolments <- {}, Readers <- {},
                                MinLevel <- 1, MaxBindings <- 4,
                                MaxRevocationLocations <- 2, Window <- 2,
                                PerWindow <- 2, MaxTracked <- 1, MaxAge <- 1,
                                Skew <- 0, None <- Off, MaxTime <- 0,
                                now <- verNow, rows <- verRows
A == INSTANCE Verification WITH Requests <- {},
                                Federations <- TwoFederations, Workers <- {},
                                Policies <- SomeAttesters, Authorities <- {},
                                First <- {}, Installers <- {},
                                Announced <- {}, Pinned <- {}, Roots <- {},
                                Badges <- {}, Checkers <- {},
                                AuthorityRelays <- <<1, 2>>,
                                Development <- FALSE,
                                Relays <- {1, 2}, Revocations <- {},
                                Enrolments <- SomeEnrolments,
                                Readers <- {"x", "y"}, MinLevel <- 1,
                                MaxBindings <- 4,
                                MaxRevocationLocations <- 2, Window <- 2,
                                PerWindow <- 2, MaxTracked <- 1, MaxAge <- 1,
                                Skew <- 0, None <- Off, MaxTime <- 0,
                                now <- verNow, rows <- verRows

formationVars == <<phase, rows, auth, recorded, resv, intent, outputs, nextq,
                   paid, journals, pay, freed, mg, pc, asked, term>>
purchaseVars == <<stage, quote, armed, seats, nextq1, paid1, holds, pay1,
                  mg1, pc1, current>>
dkgVars == <<seat, decided, fa, driver, restart>>
metaVars == <<board, vote, pin, hand, req, record, restarts, waves>>
payerVars == <<journal, op, balance, guard, call, absent, wArmed, refused,
               source, wRestart, credited, import, remitted, fed, open,
               crashes>>
selectionVars == <<job, pool, selPc, selClock, found, cohorts, walk, cur,
                   best, complete, spilled, preview, approval, used, todo,
                   late, listed, judged>>
liquidityVars == <<now, skew, minted, ops, liqRun, net, copies, alloc,
                   registered, fleet, transfer, saved, document, mark,
                   fetched, losses, restores, overtaken, outdated>>
directoryVars == <<dirNow, backs, held, receipts, pub, query, release, row,
                   members, epoch, policy, dirFa, dirDriver, up, dirStage,
                   raised, answer, dirAuth, auths, refresh, seen, advert>>
verificationVars == <<verNow, revoked, authority, enrolled, installed,
                      install, entries, work, answers, spends, check,
                      verdicts, verRows, reader, lastRead>>
allVars == <<part, vars, formationVars, purchaseVars, dkgVars, metaVars,
             payerVars, selectionVars, liquidityVars, directoryVars,
             verificationVars>>

\* A component that is not under check is switched off.
PartsInit ==
    /\ part \in Parts
    /\ Init
    /\ IF part = "formation" THEN O!Init ELSE
            /\ phase = Off /\ rows = Off /\ auth = Off /\ recorded = Off
            /\ resv = Off /\ intent = Off /\ outputs = Off /\ nextq = Off
            /\ paid = Off /\ journals = Off /\ pay = Off /\ freed = Off
            /\ mg = Off /\ pc = Off /\ asked = Off /\ term = Off
    /\ IF part = "purchase" THEN U!Init ELSE
            /\ stage = Off /\ quote = Off /\ armed = Off /\ seats = Off
            /\ nextq1 = Off /\ paid1 = Off /\ holds = Off /\ pay1 = Off
            /\ mg1 = Off /\ pc1 = Off /\ current = Off
    /\ IF part = "dkg" THEN K!Init ELSE
            /\ seat = Off /\ decided = Off /\ fa = Off /\ driver = Off
            /\ restart = Off
    /\ IF part = "meta" THEN M!Init ELSE
            /\ board = Off /\ vote = Off /\ pin = Off /\ hand = Off
            /\ req = Off /\ record = Off /\ restarts = Off /\ waves = Off
    /\ CASE part = "payer" -> H!Init
            [] part = "payers" -> J!Init
            [] OTHER ->
            /\ journal = Off /\ op = Off /\ balance = Off /\ guard = Off
            /\ call = Off /\ absent = Off /\ wArmed = Off /\ refused = Off
            /\ source = Off /\ wRestart = Off /\ credited = Off /\ import = Off
            /\ remitted = Off /\ fed = Off /\ open = Off /\ crashes = Off
    /\ IF part = "selection" THEN S!Init ELSE
            /\ job = Off /\ pool = Off /\ selPc = Off /\ selClock = Off
            /\ found = Off /\ cohorts = Off /\ walk = Off /\ cur = Off
            /\ best = Off /\ complete = Off /\ spilled = Off /\ preview = Off
            /\ approval = Off /\ used = Off /\ todo = Off /\ late = Off
            /\ listed = Off /\ judged = Off
    /\ CASE part = "requests" -> R!Init
            [] part = "expiry" -> X!Init
            [] part = "evidence" -> E!Init
            [] part = "faulty" -> Y!Init
            [] part = "trust" -> D!Init
            [] OTHER ->
            /\ now = Off /\ skew = Off /\ minted = Off /\ ops = Off
            /\ liqRun = Off /\ net = Off /\ copies = Off /\ alloc = Off
            /\ registered = Off /\ fleet = Off /\ transfer = Off /\ saved = Off
            /\ document = Off /\ mark = Off /\ fetched = Off /\ losses = Off
            /\ restores = Off /\ overtaken = Off /\ outdated = Off
    /\ CASE part = "publication" -> P!Init
            [] part = "policies" -> G!Init
            [] part = "refreshes" -> F!Init
            [] part = "enrolment" -> N!Init
            [] OTHER ->
            /\ dirNow = Off /\ backs = Off /\ held = Off /\ receipts = Off
            /\ pub = Off /\ query = Off /\ release = Off /\ row = Off
            /\ members = Off /\ epoch = Off /\ policy = Off /\ dirFa = Off
            /\ dirDriver = Off /\ up = Off /\ dirStage = Off /\ raised = Off
            /\ answer = Off /\ dirAuth = Off /\ auths = Off /\ refresh = Off
            /\ seen = Off /\ advert = Off
    /\ CASE part = "pipeline" -> V!Init
            [] part = "allowance" -> W!Init
            [] part = "badges" -> B!Init
            [] part = "development" -> T!Init
            [] part = "authorizations" -> A!Init
            [] OTHER ->
            /\ verNow = Off /\ revoked = Off /\ authority = Off /\ enrolled = Off
            /\ installed = Off /\ install = Off /\ entries = Off /\ work = Off
            /\ answers = Off /\ spends = Off /\ check = Off /\ verdicts = Off
            /\ verRows = Off /\ reader = Off /\ lastRead = Off

PartsNext ==
    \/ part = "lease" /\ Next
       /\ UNCHANGED <<part, formationVars, purchaseVars, dkgVars, metaVars,
                      payerVars, selectionVars, liquidityVars, directoryVars,
                      verificationVars>>
    \/ part = "formation" /\ O!Next
       /\ UNCHANGED <<part, vars, purchaseVars, dkgVars, metaVars, payerVars,
                      selectionVars, liquidityVars, directoryVars,
                      verificationVars>>
    \/ part = "purchase" /\ U!Next
       /\ UNCHANGED <<part, vars, formationVars, dkgVars, metaVars,
                      payerVars, selectionVars, liquidityVars, directoryVars,
                      verificationVars>>
    \/ part = "dkg" /\ K!Next
       /\ UNCHANGED <<part, vars, formationVars, purchaseVars, metaVars,
                      payerVars, selectionVars, liquidityVars, directoryVars,
                      verificationVars>>
    \/ part = "meta" /\ M!Next
       /\ UNCHANGED <<part, vars, formationVars, purchaseVars, dkgVars,
                      payerVars, selectionVars, liquidityVars, directoryVars,
                      verificationVars>>
    \/ part = "payer" /\ H!Next
       /\ UNCHANGED <<part, vars, formationVars, purchaseVars, dkgVars,
                      metaVars, selectionVars, liquidityVars, directoryVars,
                      verificationVars>>
    \/ part = "payers" /\ J!Next
       /\ UNCHANGED <<part, vars, formationVars, purchaseVars, dkgVars,
                      metaVars, selectionVars, liquidityVars, directoryVars,
                      verificationVars>>
    \/ part = "selection" /\ S!Next
       /\ UNCHANGED <<part, vars, formationVars, purchaseVars, dkgVars,
                      metaVars, payerVars, liquidityVars, directoryVars,
                      verificationVars>>
    \/ part = "requests" /\ R!Next
       /\ UNCHANGED <<part, vars, formationVars, purchaseVars, dkgVars,
                      metaVars, payerVars, selectionVars, directoryVars,
                      verificationVars>>
    \/ part = "expiry" /\ X!Next
       /\ UNCHANGED <<part, vars, formationVars, purchaseVars, dkgVars,
                      metaVars, payerVars, selectionVars, directoryVars,
                      verificationVars>>
    \/ part = "evidence" /\ E!Next
       /\ UNCHANGED <<part, vars, formationVars, purchaseVars, dkgVars,
                      metaVars, payerVars, selectionVars, directoryVars,
                      verificationVars>>
    \/ part = "faulty" /\ Y!Next
       /\ UNCHANGED <<part, vars, formationVars, purchaseVars, dkgVars,
                      metaVars, payerVars, selectionVars, directoryVars,
                      verificationVars>>
    \/ part = "trust" /\ D!Next
       /\ UNCHANGED <<part, vars, formationVars, purchaseVars, dkgVars,
                      metaVars, payerVars, selectionVars, directoryVars,
                      verificationVars>>
    \/ part = "publication" /\ P!Next
       /\ UNCHANGED <<part, vars, formationVars, purchaseVars, dkgVars,
                      metaVars, payerVars, selectionVars, liquidityVars,
                      verificationVars>>
    \/ part = "policies" /\ G!Next
       /\ UNCHANGED <<part, vars, formationVars, purchaseVars, dkgVars,
                      metaVars, payerVars, selectionVars, liquidityVars,
                      verificationVars>>
    \/ part = "refreshes" /\ F!Next
       /\ UNCHANGED <<part, vars, formationVars, purchaseVars, dkgVars,
                      metaVars, payerVars, selectionVars, liquidityVars,
                      verificationVars>>
    \/ part = "enrolment" /\ N!Next
       /\ UNCHANGED <<part, vars, formationVars, purchaseVars, dkgVars,
                      metaVars, payerVars, selectionVars, liquidityVars,
                      verificationVars>>
    \/ part = "pipeline" /\ V!Next
       /\ UNCHANGED <<part, vars, formationVars, purchaseVars, dkgVars,
                      metaVars, payerVars, selectionVars, liquidityVars,
                      directoryVars>>
    \/ part = "allowance" /\ W!Next
       /\ UNCHANGED <<part, vars, formationVars, purchaseVars, dkgVars,
                      metaVars, payerVars, selectionVars, liquidityVars,
                      directoryVars>>
    \/ part = "badges" /\ B!Next
       /\ UNCHANGED <<part, vars, formationVars, purchaseVars, dkgVars,
                      metaVars, payerVars, selectionVars, liquidityVars,
                      directoryVars>>
    \/ part = "development" /\ T!Next
       /\ UNCHANGED <<part, vars, formationVars, purchaseVars, dkgVars,
                      metaVars, payerVars, selectionVars, liquidityVars,
                      directoryVars>>
    \/ part = "authorizations" /\ A!Next
       /\ UNCHANGED <<part, vars, formationVars, purchaseVars, dkgVars,
                      metaVars, payerVars, selectionVars, liquidityVars,
                      directoryVars>>

PartsSpec == PartsInit /\ [][PartsNext]_allVars

Symmetry == Permutations(Guardians)

\* The ambassador's money can always be found again from its records: every
\* reservation that holds value is the one the record leads to, the record
\* names no reservation the wallet lacks, and value that left stays attached
\* to the exact quote it was paid for, wherever a run was cut off.  What a
\* crash leaves in the record still loads, and a seat the guardian granted,
\* even one whose answer was lost, stays with the transfer that asked for it
\* (acquire_seats and its cleanup, the purchase of a replacement seat).
MoneyIsReachable ==
    /\ part = "formation" =>
        /\ O!TypeOK /\ O!LoadsBack /\ O!HoldIsReachable /\ O!ReservedIsThere
        /\ O!ValueIsReachable
    /\ part = "purchase" =>
        U!TypeOK /\ U!HoldIsReachable /\ U!ValueIsReachable /\ U!GrantIsKept

\* The payer's wallet covers every aggregate it reserved, gives back only a
\* member that took nothing or had everything returned, and its accounting
\* adds up, across crashes, re-quoted fees, rejections and refunds
\* (reserve_locked_payments_with_reserve, record_locked_payment_terminal,
\* payment_accounting, FundingTokenJournal).
PaymentsReconcile ==
    /\ part = "payer" => H!TypeOK /\ H!HoldsAreCovered /\ H!ReleasedIsWhole /\ H!Reconciles
    /\ part = "payers" => J!TypeOK /\ J!HoldsAreCovered /\ J!ReleasedIsWhole /\ J!Reconciles

\* One formation makes one federation: its seats never run two, what the
\* ambassador saved is what they run, and a recorded ceremony is never driven
\* again, however restarts, dying children and half-installed outcomes
\* interleave (run_dkg, record_dkg_complete).  The rows of the lease and of
\* the meta votes keep their types.
OneCeremony ==
    /\ TypeOK
    /\ part = "meta" => M!TypeOK
    /\ part = "dkg" =>
        K!TypeOK /\ K!OneFederation /\ K!CompleteIsRunning /\ K!NeverRepeated

\* A late whole-object vote never discards another write: whatever the meta
\* module adopts is the object it replaces with exactly one mutation merged in
\* (submit_meta_patch, replace_seat_binding, submit_admitted_meta_target),
\* while fewer seat loops restart than two thresholds overlap.
AdoptsOneWrite == [][part = "meta" => M!AdoptsOneWrite]_allVars


\* Liquidity stays accounted for.  A request written off at its expiry is
\* never held by its provider afterwards; unless a rejection overtook another
\* copy or a restore lost the request, one provider at most holds an
\* allocation; one request at most is live; an unfinished request matches the
\* seats it was made for; and a gateway recorded as seen was registered
\* (start_liquidity, resume_liquidity, replacement_liquidity_blocker,
\* mark_liquidity_gateway_view_verified).
LiquidityIsAccounted ==
    /\ part = "requests" => R!LiquidityIsSound
    /\ part = "expiry" => X!LiquidityIsSound
    /\ part = "evidence" => E!LiquidityIsSound
    /\ part = "faulty" => Y!LiquidityIsSound
    /\ part = "trust" => D!LiquidityIsSound

\* Evidence of acceptance is never forgotten or traded for a rejection, and
\* the cached trust document is only replaced by one at least as new or
\* dropped when its badge is refused (store_liquidity_response,
\* store_liquidity_status, cache_mg_trust_material).
EvidenceIsKept ==
    [][/\ part = "requests" => R!StepsAreSound
       /\ part = "expiry" => X!StepsAreSound
       /\ part = "evidence" => E!StepsAreSound
       /\ part = "faulty" => Y!StepsAreSound
       /\ part = "trust" => D!StepsAreSound]_allVars

\* Selection is what it claims to be: the newest valid advertisement of each
\* author, issuers in turn and the cheapest first, no guardian, key or holder
\* twice, the cheapest complete cohort shown and only that approved and spent;
\* and a provider's credentials are called refused only when every one was
\* examined (discover_mg_candidates_with, select_mg_seats,
\* preview_mg_selection_with, into_seats_at, first_verified_badge).
SelectionIsExact == part = "selection" => S!SelectionIsExact

\* What is published is what is held.  A policy on a relay was first written
\* as a receipt; the policy an MG serves is the row it stored, with that row's
\* federations; the authorization it advertises is the one it retained, unless
\* the advertising loop is about to run again; and onboarding is reported
\* complete only when its last stage is durable
\* (save_receipt_and_publish_with, replace_setup_payment_policy,
\* run_advertisements, Onboarding::completed).
DirectoryIsCurrent ==
    /\ part = "publication" => P!TypeOK /\ P!PolicyIsRetained /\ P!EnrolmentIsCurrent
    /\ part = "policies" => G!TypeOK /\ G!PolicyIsRetained /\ G!EnrolmentIsCurrent
    /\ part = "refreshes" => F!TypeOK /\ F!PolicyIsRetained /\ F!EnrolmentIsCurrent
    /\ part = "enrolment" => N!TypeOK /\ N!PolicyIsRetained /\ N!EnrolmentIsCurrent

\* Nobody goes back.  Neither MG nor FA trades a policy for an older one,
\* whatever relays send, whatever a release refuses and however refreshes
\* overlap; a removed federation changes the offer epoch; a newly signed
\* policy is newer than all that any relay held; an authorization gives way
\* only to a later one or to the clock (refresh_setup_payment_policy,
\* validate_relay_high_water, replace_holder_authorization_event).
DirectoryAdvances ==
    [][/\ part = "publication" => P!StepsAreOrdered
       /\ part = "policies" => G!StepsAreOrdered
       /\ part = "refreshes" => F!StepsAreOrdered
       /\ part = "enrolment" => N!StepsAreOrdered]_allVars

\* What is believed was vouched for.  An accepted federation is bound seat by
\* seat to identities of which enough carry a badge that was in force and not
\* revoked everywhere when the verification began; no federation spends more
\* than its allowance; and a badge the PeerBadge verifier passes was revoked
\* on no relay that an authority no older than the known one has signed, or,
\* under a development profile, on none of the profile's own (run_pipeline,
\* run_revocation_stage, try_spend, verify_at, check_revocation).
VerificationIsSound ==
    /\ part = "pipeline" => V!TypeOK /\ V!VerificationIsSound
    /\ part = "allowance" => W!TypeOK /\ W!VerificationIsSound
    /\ part = "badges" => B!TypeOK /\ B!VerificationIsSound
    /\ part = "development" => T!TypeOK /\ T!VerificationIsSound
    /\ part = "authorizations" => A!TypeOK /\ A!VerificationIsSound

\* FLIP's own authorizations are only ever replaced by later ones, though
\* reads overlap and relays answer with older copies (merge, status_of).
AuthorizationsAdvance ==
    [][part = "authorizations" => A!EnrolmentAdvances]_allVars
==============================================================================
