----------------------------- MODULE Formation -----------------------------
(***************************************************************************)
(* How the Federation Ambassador buys the seats of a new federation        *)
(* (fa-client: formation.rs and the transactions of db.rs).  One driver    *)
(* run at a time works from the durable formation record: it obtains one   *)
(* quote per seat row, authorizes the aggregate under the sealed cap,      *)
(* reserves it in the payer wallet, arms the output boundary, funds the    *)
(* paid rows one by one, presents every quote to its Manifold Guardian and *)
(* either checkpoints the acceptance or keeps the refusal until every      *)
(* sibling is settled.  Before the boundary a formation can be abandoned;  *)
(* after it a refused row waits for an approved replacement guardian.      *)
(* A run can be cut off between any two steps (crash, timeout, error of a  *)
(* port, lost answer); the next one starts from the record again.          *)
(*                                                                         *)
(* A quote is its id; an aggregate reservation is the set of (row, quote)  *)
(* pairs its deterministic id is the digest of.  The payer wallet and the  *)
(* Manifold Guardians are external and follow the contract of FaPayments   *)
(* and CreateSeat: a guardian decides a quote once.                        *)
(***************************************************************************)
EXTENDS Naturals, FiniteSets

CONSTANTS Rows,        \* the seat rows, a set of naturals
          MaxQuotes    \* bound on the quotes issued in a behaviour

VARIABLES
  phase,      \* durable: "idle", "active" or "dkg" (seats complete, DKG may start)
  rows,       \* durable: the seat rows
  auth,       \* durable: the authorized (row, quote) pairs; {} is no authorization
  recorded,   \* durable: payment_authorization_recorded
  resv,       \* durable: payment_reservation_id; {} is none
  intent,     \* durable: payment_reservation_release_intended
  outputs,    \* durable: payment_outputs_started
  nextq,      \* the quotes issued so far
  paid,       \* the issued quotes that carry a price
  journals,   \* wallet: the live aggregate reservations
  pay,        \* wallet: the funding operation of each quote
  freed,      \* wallet: the quotes whose member reservation was released
  mg,         \* guardians: the decision on each quote
  pc,         \* the driver's next step; "off" when no run is under way
  asked,      \* the rows presented in this run whose answer is being handled
  term        \* the rows this run knows to be terminally refused or rejected

durable == <<phase, rows, auth, recorded, resv, intent, outputs>>
wallet == <<journals, pay, freed>>
guardians == <<mg, nextq, paid>>
run == <<asked, term>>
vars == <<durable, wallet, guardians, pc, run>>

Quotes == 1..MaxQuotes
NoQuote == 0

\* A row whose admission was just verified: InitialSeat, and a replacement's row.
FreshRow == [quote |-> NoQuote, accepted |-> FALSE, effect |-> NoQuote,
             stale |-> FALSE, replaces |-> NoQuote, approved |-> FALSE]

FormationPhase == {"idle", "active", "dkg"}
RowType == [quote : 0..MaxQuotes, accepted : BOOLEAN, effect : 0..MaxQuotes,
            stale : BOOLEAN, replaces : 0..MaxQuotes, approved : BOOLEAN]

Init ==
  /\ phase = "idle" /\ rows = [r \in Rows |-> FreshRow]
  /\ auth = {} /\ recorded = FALSE /\ resv = {} /\ intent = FALSE /\ outputs = FALSE
  /\ nextq = 0 /\ paid = {}
  /\ journals = {} /\ pay = [q \in Quotes |-> "none"] /\ freed = {}
  /\ mg = [q \in Quotes |-> "open"]
  /\ pc = "off" /\ asked = {} /\ term = {}

----------------------------------------------------------------------------
(* What the driver derives from the record. *)

Open(r) == ~rows[r].accepted
PaidRow(r) == rows[r].quote \in paid
FreeRow(r) == rows[r].quote # NoQuote /\ ~PaidRow(r)
Member(r) == <<r, rows[r].quote>>
Quoted == \A r \in Rows : Open(r) => rows[r].quote # NoQuote

\* payment_requirements: nothing until every open row has a quote.
Requirements ==
  IF Quoted THEN {Member(r) : r \in {x \in Rows : Open(x) /\ PaidRow(x)}} ELSE {}

\* reserved_payment_requirements: accepted rows stay members of their aggregate.
ReservedRequirements ==
  IF Quoted
  THEN Requirements \cup {Member(r) : r \in {x \in Rows : PaidRow(x) /\ Member(x) \in auth}}
  ELSE {}

RecoveryRequirements == IF resv # {} THEN ReservedRequirements ELSE Requirements

Authorized(req) == req # {} /\ req \subseteq auth

NeedsReplacement(r) == rows[r].replaces # NoQuote /\ ~rows[r].approved

Fresh(r) == rows[r].effect = NoQuote

\* validate_fresh_admission fails: the preview expired or the verifier changed.
Stale(r) == Fresh(r) /\ rows[r].stale

\* The authorized paid rows whose payment this run has to settle.
Members == {r \in Rows : Open(r) /\ PaidRow(r) /\ Member(r) \in auth}
NotStarted == {r \in Members \ term : pay[rows[r].quote] = "none"}
Started == {r \in Members \ term : pay[rows[r].quote] \in {"prepared", "settled"}}
FreeOpen == {r \in Rows \ term : Open(r) /\ FreeRow(r)}

Goto(step) == pc' = step

\* The run ends (returned error, parked action, crash): only its memory is lost.
Stop == pc' = "off" /\ asked' = {} /\ term' = {}

----------------------------------------------------------------------------
(* The consumer's calls, each taking the driver lease. *)

\* FaStore::initialize
Initialized ==
  /\ phase = "idle"
  /\ phase' = "active" /\ rows' = [r \in Rows |-> FreshRow]
  /\ auth' = {} /\ recorded' = FALSE /\ resv' = {} /\ intent' = FALSE /\ outputs' = FALSE

\* create_with_seats_and_callback: only over an idle store.
Create ==
  /\ pc = "off" /\ nextq < MaxQuotes
  /\ Initialized /\ Goto("recover")
  /\ UNCHANGED <<wallet, guardians, run>>

\* validate_formation_progress
ValidProgress ==
  \A r \in Rows : LET row == rows[r] IN
    /\ row.effect # NoQuote =>
         /\ row.effect = (IF row.quote # NoQuote THEN row.quote ELSE row.replaces)
         /\ row.effect \in paid => outputs
    /\ row.accepted => row.effect # NoQuote /\ row.quote # NoQuote /\ row.replaces = NoQuote
    /\ row.approved => row.replaces # NoQuote /\ row.effect = NoQuote
    /\ row.quote # NoQuote /\ row.replaces # NoQuote => row.approved

\* validate_payment_authorization
ValidAuthorization == \A m \in auth : rows[m[1]].quote = m[2] /\ m[2] \in paid

\* load_recovery: every call first loads and validates the whole record.
Loads == phase = "active" /\ ValidProgress /\ ValidAuthorization /\ (intent => resv # {})

Resume ==
  /\ pc = "off" /\ Loads
  /\ Goto("recover")
  /\ UNCHANGED <<durable, wallet, guardians, run>>

\* abandon_formation, refused once outputs were armed.
AbandonFormation ==
  /\ pc = "off" /\ Loads /\ ~outputs
  /\ Goto("cleanup")
  /\ UNCHANGED <<durable, wallet, guardians, run>>

\* FaStore::replace_guardians: fresh admissions for exactly the required rows.
Replaced(required) ==
  /\ outputs /\ resv = {}
  /\ rows' = [r \in Rows |->
       IF r \in required
       THEN [FreshRow EXCEPT !.replaces = rows[r].replaces, !.approved = TRUE]
       ELSE rows[r]]
  /\ auth' = {} /\ resv' = {} /\ intent' = FALSE /\ recorded' = FALSE
  /\ UNCHANGED <<phase, outputs>>

\* apply_mg_replacements: one approval covers every required row.
ApplyReplacements ==
  /\ pc = "off" /\ Loads /\ nextq < MaxQuotes
  /\ LET required == {r \in Rows : NeedsReplacement(r)} IN required # {} /\ Replaced(required)
  /\ Goto("recover")
  /\ UNCHANGED <<wallet, guardians, run>>

\* FaStore::authorize_payments
AuthorizedAs(req) ==
  /\ auth' = req /\ recorded' = TRUE
  /\ UNCHANGED <<phase, rows, resv, intent, outputs>>

\* authorize_payments: the displayed aggregate of a formation past its boundary.
AuthorizePayments ==
  /\ pc = "off" /\ Loads /\ outputs
  /\ \A r \in Rows : ~NeedsReplacement(r)
  /\ Requirements # {} /\ ~Authorized(Requirements)
  /\ AuthorizedAs(Requirements) /\ Goto("recover")
  /\ UNCHANGED <<wallet, guardians, run>>

----------------------------------------------------------------------------
(* drive_formation_inner up to the acquisition of seats. *)

\* FaStore::abandon_formation under the lease.
Wiped ==
  /\ ~outputs
  /\ phase' = "idle" /\ rows' = [r \in Rows |-> FreshRow]
  /\ auth' = {} /\ recorded' = FALSE /\ resv' = {} /\ intent' = FALSE
  /\ UNCHANGED outputs

\* FaStore::restore_provisional_replacements.
Restored ==
  /\ outputs /\ \E r \in Rows : rows[r].approved
  /\ rows' = [r \in Rows |->
       IF rows[r].approved THEN [rows[r] EXCEPT !.quote = NoQuote, !.approved = FALSE]
       ELSE rows[r]]
  /\ auth' = {} /\ resv' = {} /\ intent' = FALSE
  /\ UNCHANGED <<phase, recorded, outputs>>

\* record_payment_reservation: adopting a live reservation ends a release intent.
Adopted(id) ==
  /\ resv' = id /\ intent' = FALSE
  /\ UNCHANGED <<phase, rows, auth, recorded, outputs>>

\* The wallet probe before any freshness check.
RecoverReservation ==
  /\ pc = "recover"
  /\ LET req == RecoveryRequirements IN
     \/ /\ ~Authorized(req)
        /\ Goto("validate") /\ UNCHANGED <<durable, run>>
     \/ /\ Authorized(req) /\ resv \in {{}, req} /\ req \in journals
        /\ Adopted(req) /\ Goto("validate") /\ UNCHANGED run
     \/ /\ Authorized(req) /\ req \notin journals /\ resv = {}
        /\ Goto("validate") /\ UNCHANGED <<durable, run>>
     \/ /\ Authorized(req) /\ req \notin journals /\ resv = req /\ intent
        /\ \/ outputs /\ Restored /\ Goto("validate") /\ UNCHANGED run
           \/ ~outputs /\ Wiped /\ Stop
  /\ UNCHANGED <<wallet, guardians>>

\* validate_live_admissions, then a pending replacement parks the formation.
Validate ==
  /\ pc = "validate"
  /\ IF \E r \in Rows : Stale(r) THEN Goto("reauthorize") /\ UNCHANGED run
     ELSE IF \E r \in Rows : NeedsReplacement(r) THEN Stop
     ELSE Goto("quotes") /\ UNCHANGED run
  /\ UNCHANGED <<durable, wallet, guardians>>

\* clear_quotes_with_disposition: terminal rows wait for a replacement, others
\* are quoted again; the aggregate is invalid either way.
Cleared(S, terminal) ==
  /\ rows' = [r \in Rows |->
       IF r \notin S THEN rows[r]
       ELSE IF terminal
            THEN [rows[r] EXCEPT !.replaces = rows[r].quote, !.approved = FALSE, !.quote = NoQuote]
            ELSE [rows[r] EXCEPT !.quote = NoQuote,
                                 !.replaces = IF rows[r].approved THEN @ ELSE NoQuote]]
  /\ auth' = {} /\ resv' = {} /\ intent' = FALSE
  /\ UNCHANGED <<phase, recorded, outputs>>

\* prepare_quotes: an unauthorized paid quote of an open row is dropped.
Droppable == {r \in Rows : Open(r) /\ PaidRow(r) /\ Member(r) \notin auth}

DropQuote(r) ==
  /\ pc = "quotes" /\ r \in Droppable
  /\ Cleared({r}, FALSE) /\ Goto("quotes")
  /\ UNCHANGED <<wallet, guardians, run>>

Requesting == pc = "requote" \/ (pc = "quotes" /\ Droppable = {})

\* FaStore::store_quote: a changed membership ends the authorization.
QuoteStored(r, q) ==
  /\ ~NeedsReplacement(r) /\ rows[r].quote = NoQuote
  /\ rows' = [rows EXCEPT ![r].quote = q] /\ auth' = {}
  /\ UNCHANGED <<phase, recorded, resv, intent, outputs>>

\* request_new_quote, under the retries of request_quote_with_retry.
StoreQuoteUpTo(bound, r) ==
  /\ Requesting
  /\ Open(r) /\ nextq < bound
  /\ nextq' = nextq + 1
  /\ \E priced \in BOOLEAN : paid' = IF priced THEN paid \cup {nextq + 1} ELSE paid
  /\ QuoteStored(r, nextq + 1) /\ Goto("requote")
  /\ UNCHANGED <<mg, wallet, run>>

StoreQuote(r) == StoreQuoteUpTo(MaxQuotes, r)

\* A selected guardian without a consumed admission that cannot be reached.
QuoteUnavailable(r) ==
  /\ Requesting
  /\ Open(r) /\ rows[r].quote = NoQuote /\ Fresh(r)
  /\ Goto("reauthorize")
  /\ UNCHANGED <<durable, wallet, guardians, run>>

\* One cap authorization per approval; otherwise a fresh selection before the
\* boundary and an explicit authorization after it.
SelfAuthorize ==
  /\ Requesting
  /\ Quoted
  /\ \/ /\ Requirements = {} \/ Authorized(Requirements)
        /\ Goto("reserve") /\ UNCHANGED <<durable, run>>
     \/ /\ Requirements # {} /\ ~Authorized(Requirements) /\ ~recorded
        /\ AuthorizedAs(Requirements) /\ Goto("reserve") /\ UNCHANGED run
     \/ /\ Requirements # {} /\ ~Authorized(Requirements)   \* over the cap or not the first
        /\ IF outputs THEN Stop ELSE Goto("reauthorize") /\ UNCHANGED run
        /\ UNCHANGED durable
  /\ UNCHANGED <<wallet, guardians>>

----------------------------------------------------------------------------
(* acquire_seats. *)

\* reserve_payment_requirements: probe, then reserve in the wallet.
Reserve ==
  /\ pc = "reserve"
  /\ LET req == RecoveryRequirements IN
     \/ /\ ~Authorized(req) /\ Goto("settle") /\ UNCHANGED journals
     \/ /\ Authorized(req) /\ req \in journals /\ Goto("record") /\ UNCHANGED journals
     \/ /\ Authorized(req) /\ req \notin journals /\ resv = {}
        /\ IF \E r \in Rows : Stale(r) THEN Goto("reauthorize") /\ UNCHANGED journals
           ELSE \/ journals' = journals \cup {req} /\ Goto("record")
                \/ Goto("reauthorize") /\ UNCHANGED journals  \* insufficient funds, no journal
  /\ UNCHANGED <<durable, pay, freed, guardians, run>>

RecordReservation ==
  /\ pc = "record" /\ RecoveryRequirements \in journals
  /\ Adopted(RecoveryRequirements) /\ Goto("settle")
  /\ UNCHANGED <<wallet, guardians, run>>

\* recover_seat_payment: a rejected funding operation is terminal at once.
RecoverRejected ==
  /\ pc = "settle"
  /\ LET rejected == {r \in Members \ term : pay[rows[r].quote] = "rejected"} IN
     /\ rejected # {} /\ term' = term \cup rejected
  /\ UNCHANGED <<durable, wallet, guardians, pc, asked>>

\* CreateSeat: the guardian decides the exact quote once; replays repeat it.
PresentSeat(r) ==
  /\ r \notin asked
  /\ \/ pc \in {"settle", "fund"} /\ r \in Started
     \/ pc = "present" /\ r \in FreeOpen
  /\ asked' = asked \cup {r}
  /\ LET q == rows[r].quote IN
     IF mg[q] = "open" THEN \E d \in {"accepted", "refused"} : mg' = [mg EXCEPT ![q] = d]
     ELSE UNCHANGED mg
  /\ UNCHANGED <<durable, wallet, nextq, paid, pc, term>>

\* FaStore::record_seat_accepted requires the effect authorized for this quote.
SeatRecorded(r) ==
  /\ rows[r].effect = rows[r].quote
  /\ rows' = [rows EXCEPT ![r].accepted = TRUE]
  /\ UNCHANGED <<phase, auth, recorded, resv, intent, outputs>>

\* checkpoint_accepted_seat
CheckpointSeat(r) ==
  /\ r \in asked /\ mg[rows[r].quote] = "accepted"
  /\ SeatRecorded(r) /\ asked' = asked \ {r}
  /\ UNCHANGED <<wallet, guardians, pc, term>>

\* A refusal: settle_seat_refund for a paid quote, then the row is terminal.
SettleRefusalIf(decisions, r) ==
  /\ r \in asked /\ mg[rows[r].quote] \in decisions
  /\ pay' = IF PaidRow(r) THEN [pay EXCEPT ![rows[r].quote] = "settled"] ELSE pay
  /\ asked' = asked \ {r} /\ term' = term \cup {r}
  /\ UNCHANGED <<durable, journals, freed, guardians, pc>>

SettleRefusal(r) == SettleRefusalIf({"refused"}, r)

Settled == asked = {} /\ Started = {}
           /\ \A r \in Members \ term : pay[rows[r].quote] # "rejected"

\* Payer recheck and the connections: a fresh selection may have become invalid.
Preflight ==
  /\ pc = "settle" /\ Settled
  /\ \/ Goto("effects")
     \/ /\ NotStarted # {} \/ \E r \in Rows \ term : Fresh(r)
        /\ Goto("reauthorize")
  /\ UNCHANGED <<durable, wallet, guardians, run>>

\* record_seat_effects_authorized binds each admission to its exact quote.
Bound(S) ==
  [r \in Rows |->
     IF r \in S
     THEN [rows[r] EXCEPT !.effect = rows[r].quote, !.replaces = NoQuote, !.approved = FALSE]
     ELSE rows[r]]

AuthorizeEffectsOf(free) ==
  /\ pc = "effects"
  /\ LET first == ~outputs /\ NotStarted # {}
         wave == IF first THEN free ELSE free \cup NotStarted IN
     IF \E r \in wave : Stale(r) THEN Goto("reauthorize") /\ UNCHANGED durable
     ELSE /\ rows' = Bound(wave) /\ Goto(IF first THEN "arm" ELSE "fund")
          /\ UNCHANGED <<phase, auth, recorded, resv, intent, outputs>>
  /\ UNCHANGED <<wallet, guardians, run>>

AuthorizeEffects == AuthorizeEffectsOf(FreeOpen)

\* FaStore::record_payment_outputs_started: every authorized row and the boundary.
Armed(S) ==
  /\ auth # {} /\ resv # {}
  /\ rows' = [r \in Rows |->
       IF r \in S THEN [rows[r] EXCEPT !.effect = rows[r].quote] ELSE rows[r]]
  /\ outputs' = TRUE
  /\ UNCHANGED <<phase, auth, recorded, resv, intent>>

ArmOutputs ==
  /\ pc = "arm"
  /\ LET S == {m[1] : m \in auth} IN
     IF \E r \in S : Stale(r) THEN Goto("reauthorize") /\ UNCHANGED durable
     ELSE Armed(S) /\ Goto("fund")
  /\ UNCHANGED <<wallet, guardians, run>>

\* create_seat_payment, strictly one row after the other.
FundSeat(r) ==
  /\ pc = "fund" /\ Settled
  /\ r \in NotStarted /\ \A x \in NotStarted : r <= x
  /\ RecoveryRequirements \in journals
  /\ \/ pay' = [pay EXCEPT ![rows[r].quote] = "prepared"] /\ UNCHANGED <<pc, run>>
     \/ pay' = [pay EXCEPT ![rows[r].quote] = "rejected"] /\ Stop
  /\ UNCHANGED <<durable, journals, freed, guardians>>

StartPresentations ==
  /\ pc = "fund" /\ Settled /\ NotStarted = {}
  /\ Goto("present")
  /\ UNCHANGED <<durable, wallet, guardians, run>>

\* Every row of the run is accepted or terminal.
FinishWave ==
  /\ pc = "present" /\ asked = {} /\ FreeOpen = {}
  /\ IF term = {} THEN phase' = "dkg" /\ Stop
     ELSE /\ Goto(IF outputs THEN "release" ELSE "reauthorize")
          /\ UNCHANGED <<phase, run>>
  /\ UNCHANGED <<rows, auth, recorded, resv, intent, outputs, wallet, guardians>>

\* release_terminal_quote_reservation with the wallet's own proof.
ReleaseTerminal(r) ==
  /\ pc = "release" /\ r \in term /\ PaidRow(r) /\ rows[r].quote \notin freed
  /\ freed' = freed \cup {rows[r].quote}
  /\ UNCHANGED <<durable, journals, pay, guardians, pc, run>>

\* clear_terminal_quotes, one transaction for the whole terminal subset.
ClearTerminalWhen(released) ==
  /\ pc = "release" /\ released
  /\ Cleared(term, TRUE) /\ Stop
  /\ UNCHANGED <<wallet, guardians>>

ClearTerminal == ClearTerminalWhen(\A r \in term : PaidRow(r) => rows[r].quote \in freed)

----------------------------------------------------------------------------
(* Reauthorization and cleanup. *)

\* drive_formation on SelectionReauthorizationRequired.
Reauthorize ==
  /\ pc = "reauthorize"
  /\ IF ~outputs THEN Goto("cleanup") /\ UNCHANGED run
     ELSE IF \E r \in Rows : rows[r].approved THEN Goto("restore") /\ UNCHANGED run
     ELSE Stop
  /\ UNCHANGED <<durable, wallet, guardians>>

Committed(flag) == intent' = flag /\ UNCHANGED <<phase, rows, auth, recorded, resv, outputs>>

\* release_and_abandon_pre_output up to the wallet call.
CleanupAs(known, flag) ==
  /\ pc = "cleanup"
  /\ \/ /\ known /\ Requirements \in journals
        /\ IF resv # {} THEN Committed(flag) ELSE UNCHANGED durable
        /\ Goto("freeHold")
     \/ /\ IF known THEN Requirements \notin journals /\ (resv = Requirements => intent)
                   ELSE resv = {}
        /\ Goto("wipe") /\ UNCHANGED durable
  /\ UNCHANGED <<wallet, guardians, run>>

CleanupRecorded == CleanupAs(resv # {} /\ Authorized(Requirements), TRUE)
Cleanup == CleanupAs(Authorized(Requirements), TRUE)

\* restore_provisional_replacements_after_reauthorization up to the wallet call.
BeginRestore ==
  /\ pc = "restore"
  /\ \/ resv = {} /\ Goto("restoreRows") /\ UNCHANGED durable
     \/ /\ resv # {} /\ Authorized(ReservedRequirements) /\ resv = ReservedRequirements
        /\ resv \in journals
        /\ Committed(TRUE) /\ Goto("freeHold")
  /\ UNCHANGED <<wallet, guardians, run>>

\* release_payment_reservation: only while none of its outputs started.
FreeHold ==
  /\ pc = "freeHold"
  /\ LET id == RecoveryRequirements IN
     /\ \A m \in id : pay[m[2]] = "none"
     /\ journals' = journals \ {id}
  /\ Goto(IF outputs THEN "restoreRows" ELSE "wipe")
  /\ UNCHANGED <<durable, pay, freed, guardians, run>>

Wipe ==
  /\ pc = "wipe" /\ Wiped /\ Stop
  /\ UNCHANGED <<wallet, guardians>>

RestoreRows ==
  /\ pc = "restoreRows" /\ Restored /\ Stop
  /\ UNCHANGED <<wallet, guardians>>

----------------------------------------------------------------------------
\* A crash, a deadline, a port error or a lost answer ends the run.
CutOff ==
  /\ pc # "off" /\ Stop
  /\ UNCHANGED <<durable, wallet, guardians>>

\* The preview's validity ends or the verifier environment changes.
AdmissionExpires ==
  /\ phase = "active"
  /\ \E r \in Rows : ~rows[r].stale
  /\ rows' = [r \in Rows |-> [rows[r] EXCEPT !.stale = TRUE]]
  /\ UNCHANGED <<phase, auth, recorded, resv, intent, outputs, wallet, guardians, pc, run>>

Next ==
  \/ Create \/ Resume \/ AbandonFormation \/ ApplyReplacements \/ AuthorizePayments
  \/ RecoverReservation \/ Validate \/ SelfAuthorize
  \/ Reserve \/ RecordReservation \/ RecoverRejected \/ Preflight
  \/ AuthorizeEffects \/ ArmOutputs \/ StartPresentations \/ FinishWave \/ ClearTerminal
  \/ Reauthorize \/ Cleanup \/ BeginRestore \/ FreeHold \/ Wipe \/ RestoreRows
  \/ CutOff \/ AdmissionExpires
  \/ \E r \in Rows :
       \/ DropQuote(r) \/ StoreQuote(r) \/ QuoteUnavailable(r)
       \/ PresentSeat(r) \/ CheckpointSeat(r) \/ SettleRefusal(r)
       \/ FundSeat(r) \/ ReleaseTerminal(r)

Spec == Init /\ [][Next]_vars

----------------------------------------------------------------------------
(* Properties. *)

Steps == {"off", "recover", "validate", "quotes", "requote", "reserve", "record", "settle",
          "effects", "arm", "fund", "present", "release", "reauthorize", "cleanup",
          "restore", "freeHold", "wipe", "restoreRows"}

TypeOK ==
  /\ phase \in FormationPhase /\ rows \in [Rows -> RowType]
  /\ auth \subseteq Rows \X Quotes /\ resv \subseteq Rows \X Quotes
  /\ recorded \in BOOLEAN /\ intent \in BOOLEAN /\ outputs \in BOOLEAN
  /\ nextq \in 0..MaxQuotes /\ paid \subseteq 1..nextq
  /\ journals \subseteq SUBSET (Rows \X Quotes)
  /\ pay \in [Quotes -> {"none", "prepared", "rejected", "settled"}] /\ freed \subseteq Quotes
  /\ mg \in [Quotes -> {"open", "accepted", "refused"}]
  /\ pc \in Steps /\ asked \subseteq Rows /\ term \subseteq Rows

\* Whatever step a run was cut off at, the record it leaves passes the checks
\* load_recovery makes before it can be driven again (validate_formation_progress,
\* validate_payment_authorization, the release commitment): no order of quotes,
\* effects, replacements and clears writes a record the client then refuses to load.
LoadsBack == phase = "active" => Loads

\* A wallet reservation that still holds value for an unstarted payment can be
\* found again from the record: it is the aggregate the next run probes first.
\* Neither an abandoned formation nor a cleared or restored wave leaves one behind.
HoldIsReachable ==
  \A id \in journals :
    (\E m \in id : pay[m[2]] = "none" /\ m[2] \notin freed)
      => phase = "active" /\ Authorized(id) /\ id = RecoveryRequirements

\* The record never names a reservation the wallet does not have, unless its
\* release was committed first: the fail-closed error "durable FA reservation is
\* absent from the payment wallet", which no later run could get past, is not reached.
ReservedIsThere == resv # {} /\ ~intent => resv \in journals /\ resv = ReservedRequirements

\* Value that left the wallet, and a refund or rejection whose member is not yet
\* released, stays attached to a row bound to that exact quote past the boundary.
ValueIsReachable ==
  \A q \in Quotes :
    pay[q] = "prepared" \/ (pay[q] # "none" /\ q \notin freed)
      => outputs /\ \E r \in Rows : rows[r].quote = q /\ rows[r].effect = q

=============================================================================
