-------------------------- MODULE TelemetryTargets --------------------------
(* The registered targets of the telemetry collector (cloud-mg-telemetry):   *)
(* a Manifold Guardian registers the endpoint and the capability under which *)
(* its telemetry may be read, and renews the registration before its lease   *)
(* ends.  Every registration that changes what a poll would use raises the   *)
(* target's revision, which fences the polls that began before it.           *)
(*                                                                           *)
(* A registration reads the clock once, verifies the holder's badge over the *)
(* network and only then admits the target with the time it had read.  A     *)
(* guardian's capability is a function of its generation, so a request names *)
(* the generation only: the refusal of another capability under a known      *)
(* generation has no case here.                                              *)
EXTENDS Naturals, FiniteSets

CONSTANTS
    Mgs,          \* Manifold Guardians that may register
    Endpoints,    \* endpoints a guardian may listen on
    Lease,        \* lease_seconds
    MaxTargets,   \* MAX_TARGETS
    AuthAge,      \* how old a signed request may be
    Ahead,        \* how far ahead of the collector's clock it may be dated
    MaxAuth,      \* signed requests remembered at most
    SourceBudget, \* source_budget_per_minute, of the one source network
    Window,       \* the length of that minute
    Permits,      \* registrations verified at a time
    MaxRotations, \* bound: capability rotations of one guardian
    MaxRequests,  \* bound: registrations ever signed
    MaxTime,      \* bound: the clock
    None

VARIABLES
    now,       \* unix_seconds
    mg,        \* what each guardian would register: generation, endpoint
    request,   \* the signed requests, kept because any may arrive again
    consumed,  \* auth_events: the requests remembered
    budget,    \* the source's entry of source_budget
    verifying, \* registrations between reserve_auth and admit
    target,    \* the rows of targets
    admitted,  \* the requests admit accepted, with repetitions
    used       \* what each revision of a target has named

vars == <<now, mg, request, consumed, budget, verifying, target, admitted, used>>

\* GuardianTelemetryRegistrationRequest under its NIP-98 event; "number" makes
\* the event id.
Requests == [number : 1..MaxRequests, mg : Mgs, generation : 0..MaxRotations,
             endpoint : Endpoints, created : 0..MaxTime + Ahead + 1]

Init ==
    /\ now = 0
    /\ mg = [m \in Mgs |-> [generation |-> 0, endpoint |-> CHOOSE e \in Endpoints : TRUE]]
    /\ request = {} /\ consumed = {} /\ verifying = {}
    /\ budget = None
    /\ target = [m \in Mgs |-> None]
    /\ admitted = [n \in 1..MaxRequests |-> 0] /\ used = {}

-----------------------------------------------------------------------------
(* The guardian's side.                                                      *)

\* reenroll_telemetry
ReenrollTelemetry(m) ==
    /\ mg[m].generation < MaxRotations
    /\ mg' = [mg EXCEPT ![m].generation = @ + 1]
    /\ UNCHANGED <<now, request, consumed, budget, verifying, target, admitted, used>>

\* The guardian comes back on another endpoint.
MoveEndpoint(m) ==
    /\ \E e \in Endpoints \ {mg[m].endpoint} : mg' = [mg EXCEPT ![m].endpoint = e]
    /\ UNCHANGED <<now, request, consumed, budget, verifying, target, admitted, used>>

\* start_registration: one turn of the worker signs the current material
\* (telemetry_registration_capability, nip98_authorization), dated by its own
\* clock.
Sign(m) ==
    /\ Cardinality(request) < MaxRequests
    /\ \E created \in now..now + Ahead + 1 :
        request' = request \union
            {[number |-> Cardinality(request) + 1, mg |-> m, generation |-> mg[m].generation,
              endpoint |-> mg[m].endpoint, created |-> created]}
    /\ UNCHANGED <<now, mg, consumed, budget, verifying, target, admitted, used>>

-----------------------------------------------------------------------------
(* register_inner.                                                           *)

\* auth::verify: the age of the event
FreshEnough(r) == r.created + AuthAge >= now /\ r.created <= now + Ahead

\* enforce_source_budget
BudgetAt(time) == IF budget # None /\ budget.start + Window > time THEN budget
                  ELSE [start |-> time, count |-> 0]
WithinBudget == BudgetAt(now).count < SourceBudget
Spent == [BudgetAt(now) EXCEPT !.count = @ + 1]

\* reserve_auth: an event is remembered for longer than it would verify
Remembered == {r \in consumed : r.created + AuthAge + Ahead >= now}
ReserveAuth(r) ==
    /\ Cardinality(Remembered) < MaxAuth
    /\ r \notin Remembered

\* A refusal leaves the unit of the budget spent.
Refuse(r) ==
    /\ FreshEnough(r) /\ WithinBudget
    /\ budget' = Spent
    /\ \/ ~ReserveAuth(r)
       \/ Cardinality(verifying) >= Permits
    /\ UNCHANGED <<now, mg, request, consumed, verifying, target, admitted, used>>

\* register_inner, up to the badge verification
BeginRegistration(r) ==
    /\ FreshEnough(r) /\ WithinBudget
    /\ Cardinality(verifying) < Permits
    /\ ReserveAuth(r)
    /\ budget' = Spent
    /\ consumed' = Remembered \union {r}
    /\ verifying' = verifying \union {[request |-> r, now |-> now]}
    /\ UNCHANGED <<now, mg, request, target, admitted, used>>

\* The badge does not verify, or the request runs into the listener's timeout.
AbandonRegistration(v) ==
    /\ verifying' = verifying \ {v}
    /\ UNCHANGED <<now, mg, request, consumed, budget, target, admitted, used>>

\* admit: which requests the row refuses
Admissible(v) ==
    LET r == v.request  row == target[r.mg] IN
    IF row = None
    THEN Cardinality({m \in Mgs : target[m] # None}) < MaxTargets
    ELSE r.generation >= row.generation /\ r.created >= row.auth

\* admit: AdmissionOutcome::Updated, which a new row is as well
Updates(v) ==
    LET r == v.request  row == target[r.mg] IN
    row = None \/ r.generation > row.generation \/ r.endpoint # row.endpoint

\* admit: the row it writes
RowAfter(v) ==
    LET r == v.request  row == target[r.mg] IN
    [generation |-> r.generation, endpoint |-> r.endpoint, auth |-> r.created,
     lease |-> v.now + Lease,
     revision |-> IF row = None THEN 1
                  ELSE row.revision + (IF Updates(v) THEN 1 ELSE 0)]

\* admit, as far as the row of the target goes
Admit(v) ==
    /\ verifying' = verifying \ {v}
    /\ IF Admissible(v)
       THEN /\ target' = [target EXCEPT ![v.request.mg] = RowAfter(v)]
            /\ admitted' = [admitted EXCEPT ![v.request.number] = @ + 1]
            /\ used' = used \union {[mg |-> v.request.mg, revision |-> RowAfter(v).revision,
                                    endpoint |-> v.request.endpoint,
                                    generation |-> v.request.generation]}
       ELSE UNCHANGED <<target, admitted, used>>
    /\ UNCHANGED <<now, mg, request, consumed, budget>>

Tick ==
    /\ now < MaxTime /\ now' = now + 1
    /\ UNCHANGED <<mg, request, consumed, budget, verifying, target, admitted, used>>

\* The collector dies: what it had in memory goes with it.
LoseRegistrations ==
    /\ budget' = None /\ verifying' = {}
    /\ UNCHANGED <<now, mg, request, consumed, target, admitted, used>>

Next ==
    \/ \E m \in Mgs : ReenrollTelemetry(m) \/ MoveEndpoint(m) \/ Sign(m)
    \/ \E r \in request : Refuse(r) \/ BeginRegistration(r)
    \/ \E v \in verifying : AbandonRegistration(v) \/ Admit(v)
    \/ Tick \/ LoseRegistrations

Spec == Init /\ [][Next]_vars

-----------------------------------------------------------------------------

TypeOK ==
    /\ now \in 0..MaxTime
    /\ request \subseteq Requests /\ consumed \subseteq request
    /\ Cardinality(consumed) <= MaxAuth /\ Cardinality(verifying) <= Permits
    /\ budget # None => budget.count \in 1..SourceBudget
    /\ Cardinality({m \in Mgs : target[m] # None}) <= MaxTargets

\* A registration counts once however often its request arrives, and a target
\* never goes back to an older generation or to an older request than it holds.
\* A revision names one endpoint and one capability for good, so a poll that
\* finds its revision unchanged reads what it began with (reserve_auth, admit).
RegistrationsAreOrdered ==
    /\ \A n \in 1..MaxRequests : admitted[n] <= 1
    /\ \A m \in Mgs : target[m] # None =>
        \A r \in request : r.mg = m /\ admitted[r.number] > 0 =>
            r.generation <= target[m].generation /\ r.created <= target[m].auth
    /\ \A u, w \in used : u.mg = w.mg /\ u.revision = w.revision => u = w
=============================================================================
