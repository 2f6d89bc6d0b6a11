----------------------------- MODULE MCGuardian ------------------------------
(* The Manifold Guardian's side of a seat, for TLC.  A behaviour of this    *)
(* suite is a behaviour of one of its components, named by "part": seat     *)
(* admission, the claims of the ecash paid for seats, the terms of one such *)
(* payment, one seat's loop and child, the completion callbacks; or of the  *)
(* development server, its environment composer and the port reservations,  *)
(* which run the daemons on a developer's machine.  They share no state, so *)
(* one run checks them side by side.                                        *)
EXTENDS Admission, TLC

CONSTANTS
    Parts,   \* the components a run checks
    Off      \* a component that is not under check, and no value

VARIABLES
    part,  \* the component this behaviour is of
    db, disk, proc, orphan, wire, loop,
    hook, bearer, due, formed, gone, origin, plan, active, accepted, early,
    claim, backedUp, op, client, task, scanning, spent, wallet, losses, deal,
    envMgr, envSlots, envShared, envRunning, envStable, envOnboarded,
    envConn, envExec, envTemp, envComp, envSup, envNs, envGuard, envManifest,
    envSig, envBook, envSearch, envBound, envNow

MCPrices == {0, 1}

MCLimits == {1, 2}

\* Two ids no rule tells apart: concurrent calls, envelopes, or seats.
Pair == Calls

\* Two of the three claims are on one federation.
MCFed == [c \in {"c1", "c2", "c3"} |-> IF c = "c3" THEN "fedB" ELSE "fedA"]

\* Mints with and without fees, of both versions, one with a missing tier.
MCMints == {[version |-> 1, tiers |-> {1, 2, 4, 8}, inFee |-> 0, outFee |-> 0],
            [version |-> 1, tiers |-> {1, 2, 4, 8}, inFee |-> 1, outFee |-> 1],
            [version |-> 1, tiers |-> {2, 4, 16}, inFee |-> 0, outFee |-> 1],
            [version |-> 2, tiers |-> {1, 2, 4, 8, 16}, inFee |-> 1, outFee |-> 0],
            [version |-> 2, tiers |-> {1, 2, 4, 8, 16}, inFee |-> 1, outFee |-> 2]}

\* The offer that stands while another component is under check.
AnOffer == [epoch |-> 0, price |-> NoPrice, feds |-> {}, max |-> NoLimit,
            memory |-> 1, policy |-> 1, ready |-> FALSE]

\* The composer leases a node, runs a command against it and leases a
\* guardian, a gateway and a FLIP daemon.
ComposerPlan == <<[do |-> "lease", kind |-> "bitcoind"], [do |-> "run", kind |-> "none"],
                  [do |-> "lease", kind |-> "mg"], [do |-> "lease", kind |-> "gatewayd"],
                  [do |-> "lease", kind |-> "flip"]>>

S == INSTANCE Seat WITH Envelopes <- Pair, Invites <- {"i1", "i2"},
                        Callbacks <- {"c1"}, None <- Off
H == INSTANCE CompletionHooks WITH
    Seats <- Pair, None <- Off
E == INSTANCE EcashClaims WITH Claims <- {"c1", "c2", "c3"}, Fed <- MCFed,
                               MaxLosses <- 1, Mints <- MCMints,
                               Prices <- 0 .. 27, Dust <- 1, MaxNotes <- 6,
                               RepairLimit <- 20
T == INSTANCE EcashClaims WITH Claims <- {}, Fed <- <<>>, MaxLosses <- 0,
                               Mints <- MCMints, Prices <- 0 .. 27,
                               Dust <- 1, MaxNotes <- 6, RepairLimit <- 20
D == INSTANCE Environment WITH Clients <- Pair, Keys <- {"k"},
                               SharedKind <- "relay", Kinds <- {"relay"},
                               MaxSlots <- 2, MaxGen <- 2, MaxHandles <- 2,
                               Composer <- Off, Plan <- <<>>, MaxForks <- 0,
                               Low <- 1, High <- 1, Sizes <- {}, Hold <- 1,
                               MaxTime <- 0, MaxBound <- 0, NoClient <- Off,
                               mgr <- envMgr, slots <- envSlots,
                               shared <- envShared, running <- envRunning,
                               stable <- envStable,
                               onboarded <- envOnboarded, conn <- envConn,
                               exec <- envExec, temp <- envTemp,
                               comp <- envComp, sup <- envSup, ns <- envNs,
                               guard <- envGuard, manifest <- envManifest,
                               sig <- envSig, book <- envBook,
                               search <- envSearch, bound <- envBound,
                               now <- envNow
C == INSTANCE Environment WITH Clients <- {"c"}, Keys <- {},
                               SharedKind <- "relay", Kinds <- {},
                               MaxSlots <- 4, MaxGen <- 1, MaxHandles <- 4,
                               Composer <- "c", Plan <- ComposerPlan,
                               MaxForks <- 2, Low <- 1, High <- 1,
                               Sizes <- {}, Hold <- 1, MaxTime <- 0,
                               MaxBound <- 0, NoClient <- Off, mgr <- envMgr,
                               slots <- envSlots, shared <- envShared,
                               running <- envRunning, stable <- envStable,
                               onboarded <- envOnboarded, conn <- envConn,
                               exec <- envExec, temp <- envTemp,
                               comp <- envComp, sup <- envSup, ns <- envNs,
                               guard <- envGuard, manifest <- envManifest,
                               sig <- envSig, book <- envBook,
                               search <- envSearch, bound <- envBound,
                               now <- envNow
P == INSTANCE Environment WITH Clients <- {}, Keys <- {},
                               SharedKind <- "relay", Kinds <- {},
                               MaxSlots <- 0, MaxGen <- 1, MaxHandles <- 1,
                               Composer <- Off, Plan <- <<>>, MaxForks <- 0,
                               Low <- 1, High <- 4, Sizes <- {1, 2},
                               Hold <- 1, MaxTime <- 2, MaxBound <- 2,
                               NoClient <- Off, mgr <- envMgr,
                               slots <- envSlots, shared <- envShared,
                               running <- envRunning, stable <- envStable,
                               onboarded <- envOnboarded, conn <- envConn,
                               exec <- envExec, temp <- envTemp,
                               comp <- envComp, sup <- envSup, ns <- envNs,
                               guard <- envGuard, manifest <- envManifest,
                               sig <- envSig, book <- envBook,
                               search <- envSearch, bound <- envBound,
                               now <- envNow

seatVars == <<db, disk, proc, orphan, wire, loop>>
hookVars == <<hook, bearer, due, formed, gone, origin, plan, active,
              accepted, early>>
claimVars == <<claim, backedUp, op, client, task, scanning, spent, wallet,
               losses, deal>>
environmentVars == <<envMgr, envSlots, envShared, envRunning, envStable,
                     envOnboarded, envConn, envExec, envTemp, envComp,
                     envSup, envNs, envGuard, envManifest, envSig, envBook,
                     envSearch, envBound, envNow>>
allVars == <<part, vars, seatVars, hookVars, claimVars, environmentVars>>

\* A component that is not under check is switched off.
PartsInit ==
    /\ part \in Parts
    /\ Init /\ (part # "admission" => offer = AnOffer)
    /\ IF part = "seat" THEN S!Init ELSE
            /\ db = Off /\ disk = Off /\ proc = Off /\ orphan = Off
            /\ wire = Off /\ loop = Off
    /\ IF part = "hooks" THEN H!Init ELSE
            /\ hook = Off /\ bearer = Off /\ due = Off /\ formed = Off
            /\ gone = Off /\ origin = Off /\ plan = Off /\ active = Off
            /\ accepted = Off /\ early = Off
    /\ CASE part = "claims" -> E!Init
            [] part = "terms" -> T!Init
            [] OTHER ->
            /\ claim = Off /\ backedUp = Off /\ op = Off /\ client = Off
            /\ task = Off /\ scanning = Off /\ spent = Off /\ wallet = Off
            /\ losses = Off /\ deal = Off
    /\ CASE part = "leases" -> D!Init
            [] part = "composer" -> C!Init
            [] part = "ports" -> P!Init
            [] OTHER ->
            /\ envMgr = Off /\ envSlots = Off /\ envShared = Off /\ envRunning = Off
            /\ envStable = Off /\ envOnboarded = Off /\ envConn = Off /\ envExec = Off
            /\ envTemp = Off /\ envComp = Off /\ envSup = Off /\ envNs = Off
            /\ envGuard = Off /\ envManifest = Off /\ envSig = Off /\ envBook = Off
            /\ envSearch = Off /\ envBound = Off /\ envNow = Off

PartsNext ==
    \/ part = "admission" /\ Next
       /\ UNCHANGED <<part, seatVars, hookVars, claimVars, environmentVars>>
    \/ part = "seat" /\ S!Next
       /\ UNCHANGED <<part, vars, hookVars, claimVars, environmentVars>>
    \/ part = "hooks" /\ H!Next
       /\ UNCHANGED <<part, vars, seatVars, claimVars, environmentVars>>
    \/ part = "claims" /\ E!Next
       /\ UNCHANGED <<part, vars, seatVars, hookVars, environmentVars>>
    \/ part = "terms" /\ T!QuoteNext
       /\ UNCHANGED <<part, vars, seatVars, hookVars, environmentVars>>
    \/ part = "leases" /\ D!Next
       /\ UNCHANGED <<part, vars, seatVars, hookVars, claimVars>>
    \/ part = "composer" /\ C!Next
       /\ UNCHANGED <<part, vars, seatVars, hookVars, claimVars>>
    \/ part = "ports" /\ P!Next
       /\ UNCHANGED <<part, vars, seatVars, hookVars, claimVars>>

PartsSpec == PartsInit /\ [][PartsNext]_allVars

Symmetry == Permutations(Quotes) \cup Permutations(Pair)

\* A seat is supervised to the end and forms at most one federation: it never
\* has two children at work nor none without a plan to start one, a formed one stays
\* under the watchdog, a decommissioned one stops for good, no child runs a
\* ceremony that is not the recorded one or that follows a formation, and no
\* recorded ceremony is forgotten, through exits, failed spawns, unproved
\* exits, data loss and daemon restarts (the seat loop, run_dkg and
\* record_formed).
Supervised ==
    part = "seat" =>
        /\ S!TypeOK /\ S!NoOverlap /\ S!SupervisionComplete /\ S!WatchedWhileFormed
        /\ S!DecommissionedStops /\ S!OneFormation /\ S!CeremonyRetained /\ S!EnvelopeNeverParked

\* What the database says happened outside it did happen: a claim with an
\* outcome is value in the wallet, "already spent" is only concluded after a
\* restore, a verified payment is one the committed refund can return to the
\* last unit, and a callback is delivered only when the gateway accepted it
\* from a deliverable seat (await_claim, verify_locked,
\* record_completion_callback_completed).
RecordedIsTrue ==
    /\ part = "claims" => E!TypeOK /\ E!OutcomeIsHeld /\ E!SpentOnlyAfterRestore
    /\ part = "terms" => T!RefundIsExact
    /\ part = "hooks" => H!TypeOK /\ H!DeliveredWasAccepted /\ H!RowsLoad

\* The development server stops what it started and nothing it still owes:
\* leases are counted, no process runs that no slot or start answers for, a
\* shutdown waits for the exclusive starts it races (acquire_exclusive,
\* release_slot, restart_slot, shutdown).  The environment's descendants are
\* dead before its leases go, even when the composer is killed
\* (terminate_and_reap, run_lease_guard), and port reservations stay disjoint
\* (get_free_port_range).
EnvironmentIsOrderly ==
    /\ part = "leases" => /\ D!TypeOK /\ D!LeasesAreCounted /\ D!EveryProcessIsOwned
                          /\ D!ShutdownStopsAll
    /\ part = "composer" => /\ C!EveryProcessIsOwned /\ C!ShutdownStopsAll
                            /\ C!DescendantsKeepTheirLeases /\ C!CleanedIsEmpty
                            /\ C!ReadyIsServed
    /\ part = "ports" => P!ReservationsAreDisjoint
==============================================================================
