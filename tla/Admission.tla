------------------------------ MODULE Admission ------------------------------
(***************************************************************************)
(* Quote issue and seat admission of the Manifold Guardian daemon (MG).    *)
(*                                                                         *)
(* GetQuote reads the offer row in one snapshot, may wait on the payment   *)
(* wallet, and signs terms stamped with the offer epoch it read.           *)
(* CreateSeat settles a signed quote: a read snapshot decides replays and  *)
(* stale epochs, an absent current quote is decided again inside SQLite's  *)
(* single writer, and the accepted answer leaves only after the seat has   *)
(* a runtime.  A refusal writes nothing.  Any call may be dropped at an    *)
(* await and the daemon may crash between any two steps.                   *)
(***************************************************************************)
EXTENDS Integers, FiniteSets

CONSTANTS
    Quotes,        \* the quote ids the daemon can draw; a seat id is a quote id
    Calls,         \* CreateSeat requests served at the same time
    Prices,        \* prices the operator may set; 0 gives a seat away
    Federations,   \* payment federations a publication may admit
    Limits,        \* values of the operator, memory and policy seat limits
    PortBlocks,    \* seat numbers below it have a port block on the grid
    MaxEpoch,      \* bound on the number of epochs drawn
    NoPrice,       \* the operator sells nothing
    NoLimit,       \* the operator's limit is automatic
    NoFederation,  \* a free quote names no payment federation
    Idle           \* the call slot serves no request

ASSUME AdmissionAssumption ==
    /\ IsFiniteSet(Quotes)
    /\ Prices \subseteq Nat
    /\ Limits \subseteq Nat
    /\ PortBlocks \in Nat
    /\ MaxEpoch \in Nat
    /\ NoPrice \notin Nat
    /\ NoLimit \notin Nat
    /\ NoFederation \notin Federations
    /\ Idle \notin [quote : Quotes, stage : {"writer", "publish"}]

VARIABLES
    offer,     \* the offer_state row and the setup-payment membership
    row,       \* per quote: its seats row joined with the terminal tables
    seatNo,    \* seats.seat_no, meaningful where row is not "none"
    claimed,   \* quotes with an ecash_claims row
    quote,     \* GetQuote requests and the terms they signed
    call,      \* per call slot: the CreateSeat request being served
    answers,   \* per quote: the signed CreateSeat answers that left
    registry   \* seats with a live runtime in this process

vars == <<offer, row, seatNo, claimed, quote, call, answers, registry>>

Rows == {q \in Quotes : row[q] # "none"}

Active == {q \in Quotes : row[q] = "active"}

\* Mutant of NextNo: the cursor starts below zero.
NextNoFromMinusOne == Cardinality(Rows) - 1

\* COALESCE(MAX(seat_no) + 1, 0)
NextNo == IF Rows = {} THEN 0
          ELSE 1 + CHOOSE n \in {seatNo[q] : q \in Rows} :
                       \A r \in Rows : seatNo[r] <= n

Lower(a, b) == IF a <= b THEN a ELSE b

EffectiveMaxSeats(o) ==
    LET runtime == Lower(o.memory, o.policy)
    IN  IF o.max = NoLimit THEN runtime ELSE Lower(o.max, runtime)

SaturatingSub(a, b) == IF b <= a THEN a - b ELSE 0

\* available_slots: free seats under the limits that also have a port block
Slots(o) == Lower(SaturatingSub(EffectiveMaxSeats(o), Cardinality(Active)),
                  SaturatingSub(PortBlocks, NextNo))

\* A CSPRNG draw in the code: the model's draw never repeats either.
FreshEpoch(o) == [o EXCEPT !.epoch = @ + 1]

CanDraw == offer.epoch < MaxEpoch

NoQuote == [stage |-> "unasked", epoch |-> 0, price |-> 0, fed |-> NoFederation]

Init ==
    /\ \E price \in Prices \cup {NoPrice}, feds \in SUBSET Federations,
          max \in Limits \cup {NoLimit}, memory \in Limits, policy \in Limits :
          offer = [epoch |-> 0, price |-> price, feds |-> feds, max |-> max,
                   memory |-> memory, policy |-> policy, ready |-> FALSE]
    /\ row = [q \in Quotes |-> "none"]
    /\ seatNo = [q \in Quotes |-> 0]
    /\ claimed = {}
    /\ quote = [q \in Quotes |-> NoQuote]
    /\ call = [c \in Calls |-> Idle]
    /\ answers = [q \in Quotes |-> {}]
    /\ registry = {}

-----------------------------------------------------------------------------
(* GetQuote                                                                *)

\* quote_offer and the checks on the requested plan and payment federation.
\* A paid quote then waits for the wallet; a free one is signed at once.
GetQuote(q, fed) ==
    /\ quote[q].stage = "unasked"
    /\ Slots(offer) > 0
    /\ offer.ready
    /\ offer.price # NoPrice
    /\ IF offer.price = 0 THEN fed = NoFederation ELSE fed \in offer.feds
    /\ quote' = [quote EXCEPT ![q] =
           [stage |-> IF offer.price = 0 THEN "signed" ELSE "pricing",
            epoch |-> offer.epoch, price |-> offer.price, fed |-> fed]]
    /\ UNCHANGED <<offer, row, seatNo, claimed, call, answers, registry>>

\* quote_locked and validate_quote_refund answer; the terms are signed with
\* the epoch of the earlier snapshot, or the request fails.
WalletPrices(q) ==
    /\ quote[q].stage = "pricing"
    /\ \E stage \in {"signed", "failed"} :
           quote' = [quote EXCEPT ![q].stage = stage]
    /\ UNCHANGED <<offer, row, seatNo, claimed, call, answers, registry>>

-----------------------------------------------------------------------------
(* CreateSeat                                                              *)

Answer(q, a) == answers' = [answers EXCEPT ![q] = @ \cup {a}]

\* Mutant of AdmissionSnapshot: the epoch is compared before the row.
AdmissionSnapshotEpochFirst(c, q) ==
    /\ call[c] = Idle
    /\ quote[q].stage = "signed"
    /\ IF quote[q].epoch # offer.epoch
       THEN Answer(q, "refused") /\ UNCHANGED call
       ELSE /\ call' = [call EXCEPT ![c] = [quote |-> q, stage |->
                            IF row[q] = "none" THEN "writer" ELSE "publish"]]
            /\ UNCHANGED answers
    /\ UNCHANGED <<offer, row, seatNo, claimed, quote, registry>>

\* admission_snapshot: an existing row and a stale epoch are decided here.
\* In the other case the request goes on to wait for the writer.
AdmissionSnapshot(c, q) ==
    /\ call[c] = Idle
    /\ quote[q].stage = "signed"
    /\ \/ /\ row[q] = "none"
          /\ quote[q].epoch # offer.epoch
          /\ Answer(q, "refused")
          /\ UNCHANGED call
       \/ /\ row[q] # "none"
          /\ call' = [call EXCEPT ![c] = [quote |-> q, stage |-> "publish"]]
          /\ UNCHANGED answers
       \/ /\ row[q] = "none"
          /\ quote[q].epoch = offer.epoch
          /\ call' = [call EXCEPT ![c] = [quote |-> q, stage |-> "writer"]]
          /\ UNCHANGED answers
    /\ UNCHANGED <<offer, row, seatNo, claimed, quote, registry>>

AtWriter(c, q) == call[c] = [quote |-> q, stage |-> "writer"]

\* The writer boundary finds the row another call inserted meanwhile.
WriterFindsExisting(c, q) ==
    /\ AtWriter(c, q)
    /\ row[q] # "none"
    /\ call' = [call EXCEPT ![c] = [quote |-> q, stage |-> "publish"]]
    /\ UNCHANGED <<offer, row, seatNo, claimed, quote, answers, registry>>

\* The writer boundary finds an epoch drawn since the snapshot.
WriterFindsStaleEpoch(c, q) ==
    /\ AtWriter(c, q)
    /\ row[q] = "none"
    /\ quote[q].epoch # offer.epoch
    /\ Answer(q, "refused")
    /\ call' = [call EXCEPT ![c] = Idle]
    /\ UNCHANGED <<offer, row, seatNo, claimed, quote, registry>>

\* The seat, its claim evidence and the last slot's epoch draw commit as one.
WriterInserts(c, q) ==
    /\ AtWriter(c, q)
    /\ row[q] = "none"
    /\ quote[q].epoch = offer.epoch
    /\ Slots(offer) > 0
    /\ row' = [row EXCEPT ![q] = "active"]
    /\ seatNo' = [seatNo EXCEPT ![q] = NextNo]
    /\ claimed' = IF quote[q].price = 0 THEN claimed ELSE claimed \cup {q}
    /\ IF Slots(offer) = 1
       THEN CanDraw /\ offer' = FreshEpoch(offer)
       ELSE UNCHANGED offer
    /\ call' = [call EXCEPT ![c] = [quote |-> q, stage |-> "publish"]]
    /\ UNCHANGED <<quote, answers, registry>>

\* ensure_seat_runtime, then the acceptance signed before the transaction.
PublishSeat(c, q) ==
    /\ call[c] = [quote |-> q, stage |-> "publish"]
    /\ registry' = registry \cup {q}
    /\ Answer(q, "accepted")
    /\ call' = [call EXCEPT ![c] = Idle]
    /\ UNCHANGED <<offer, row, seatNo, claimed, quote>>

\* The transport drops a request that waits at an await point.
DropCall(c) ==
    /\ call[c] # Idle
    /\ call' = [call EXCEPT ![c] = Idle]
    /\ UNCHANGED <<offer, row, seatNo, claimed, quote, answers, registry>>

-----------------------------------------------------------------------------
(* Writers of the offer row                                                *)

SetOfferedPrice(price) ==
    /\ price # offer.price
    /\ CanDraw
    /\ offer' = [FreshEpoch(offer) EXCEPT !.price = price]
    /\ UNCHANGED <<row, seatNo, claimed, quote, call, answers, registry>>

\* A removed member draws a fresh epoch; additions keep quotes valid.
ReplaceSetupPaymentPolicy(feds) ==
    LET next == [offer EXCEPT !.feds = feds]
    IN  /\ feds # offer.feds
        /\ IF offer.feds \subseteq feds
           THEN offer' = next
           ELSE CanDraw /\ offer' = FreshEpoch(next)
        /\ UNCHANGED <<row, seatNo, claimed, quote, call, answers, registry>>

\* Mutant of UpdateSeatsConfig: taking the last slot away keeps the epoch.
UpdateSeatsConfigKeepsEpoch(after) ==
    /\ after # offer
    /\ IF after.max # offer.max \/ after.ready # offer.ready
       THEN CanDraw /\ offer' = FreshEpoch(after)
       ELSE offer' = after
    /\ UNCHANGED <<row, seatNo, claimed, quote, call, answers, registry>>

\* update_seats_config with its deciding reads and its rotation rule.
UpdateSeatsConfig(after) ==
    LET rotate == \/ after.max # offer.max
                  \/ after.ready # offer.ready
                  \/ Slots(offer) > 0 /\ Slots(after) = 0
    IN  /\ after # offer
        /\ IF rotate THEN CanDraw /\ offer' = FreshEpoch(after)
                     ELSE offer' = after
        /\ UNCHANGED <<row, seatNo, claimed, quote, call, answers, registry>>

\* The operator's limit may not fall below the active seats.
SetMaxSeats(max) ==
    /\ max # NoLimit => Cardinality(Active) <= max
    /\ UpdateSeatsConfig([offer EXCEPT !.max = max])

SetSeatReadiness(ready) == UpdateSeatsConfig([offer EXCEPT !.ready = ready])

\* The memory sampler and the publication write both runtime limits at once.
SetRuntimeLimits(memory, policy) ==
    UpdateSeatsConfig([offer EXCEPT !.memory = memory, !.policy = policy])

-----------------------------------------------------------------------------
(* The seat's own loop retires it; the process may crash                   *)

\* decommission_seat, or the fence of retire_for_transfer: the seat stops
\* counting as active and keeps its number.
RetireSeat(q) ==
    /\ q \in registry
    /\ row[q] = "active"
    /\ row' = [row EXCEPT ![q] = "retired"]
    /\ UNCHANGED <<offer, seatNo, claimed, quote, call, answers, registry>>

\* Fleet::open rebuilds the registry from the rows; calls are gone.
Restart ==
    /\ call' = [c \in Calls |-> Idle]
    /\ quote' = [q \in Quotes |->
           IF quote[q].stage = "pricing" THEN [quote[q] EXCEPT !.stage = "failed"]
                                         ELSE quote[q]]
    /\ registry' = Rows
    /\ UNCHANGED <<offer, row, seatNo, claimed, answers>>

Next ==
    \/ \E q \in Quotes, fed \in Federations \cup {NoFederation} : GetQuote(q, fed)
    \/ \E q \in Quotes : WalletPrices(q) \/ RetireSeat(q)
    \/ \E c \in Calls, q \in Quotes :
           \/ AdmissionSnapshot(c, q)
           \/ WriterFindsExisting(c, q)
           \/ WriterFindsStaleEpoch(c, q)
           \/ WriterInserts(c, q)
           \/ PublishSeat(c, q)
    \/ \E c \in Calls : DropCall(c)
    \/ \E price \in Prices \cup {NoPrice} : SetOfferedPrice(price)
    \/ \E feds \in SUBSET Federations : ReplaceSetupPaymentPolicy(feds)
    \/ \E max \in Limits \cup {NoLimit} : SetMaxSeats(max)
    \/ \E ready \in BOOLEAN : SetSeatReadiness(ready)
    \/ \E memory, policy \in Limits : SetRuntimeLimits(memory, policy)
    \/ Restart

Spec == Init /\ [][Next]_vars

-----------------------------------------------------------------------------
(* Properties                                                              *)

OfferType == [epoch : 0 .. MaxEpoch, price : Prices \cup {NoPrice},
              feds : SUBSET Federations, max : Limits \cup {NoLimit},
              memory : Limits, policy : Limits, ready : BOOLEAN]

QuoteType == [stage : {"unasked", "pricing", "signed", "failed"},
              epoch : 0 .. MaxEpoch, price : Prices \cup {0},
              fed : Federations \cup {NoFederation}]

CallType == {Idle} \cup [quote : Quotes, stage : {"writer", "publish"}]

\* The shape of every variable.
TypeOK ==
    /\ offer \in OfferType
    /\ row \in [Quotes -> {"none", "active", "retired"}]
    /\ seatNo \in [Quotes -> Nat]
    /\ claimed \in SUBSET Quotes
    /\ quote \in [Quotes -> QuoteType]
    /\ call \in [Calls -> CallType]
    /\ answers \in [Quotes -> SUBSET {"accepted", "refused"}]
    /\ registry \in SUBSET Quotes

\* Terms the wallet is still pricing or the daemon has signed.
Live(q) == quote[q].stage \in {"pricing", "signed"}

\* A quote stamped with the current epoch is guaranteed a slot, so the
\* assertion "current-epoch live quote must have capacity" inside the
\* admission transaction never fires, whatever happened since the quote.
CurrentQuoteHasSlot ==
    \A q \in Quotes : Live(q) /\ quote[q].epoch = offer.epoch => Slots(offer) > 0

\* CreateSeat settles a quote to one outcome: no quote is ever both accepted
\* and refused with its refund, over replays, races and crashes.
SettlementExclusive ==
    \A q \in Quotes : ~({"accepted", "refused"} \subseteq answers[q])

\* A refusal is permanent before it is sent: the refused quote has no seat
\* row and its epoch can no longer become current.
RefusalIsFinal ==
    \A q \in Quotes : "refused" \in answers[q] =>
        row[q] = "none" /\ quote[q].epoch < offer.epoch

\* A quote is settled once: what its buyer was told of it never contradicts
\* itself, and a refusal, on which the buyer takes the payment back, can no
\* longer be followed by a seat (admit_seat_at_writer_boundary, sign_refusal).
SettledOnce == SettlementExclusive /\ RefusalIsFinal

=============================================================================
