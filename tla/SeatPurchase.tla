---------------------------- MODULE SeatPurchase ----------------------------
(***************************************************************************)
(* The purchase of the destination seat of a guardian transfer (fa-client: *)
(* seat_purchase.rs).  It is the first stage of the transfer row.  A run   *)
(* refreshes a stored paid quote whose outputs never started, obtains and  *)
(* saves a quote, reserves and pays it through the payer wallet, presents  *)
(* it to the destination's Manifold Guardian and either records the bought *)
(* seat or closes the transfer.  The process-local run guard admits one    *)
(* run at a time; a run can be cut off between any two steps.              *)
(*                                                                         *)
(* A quote is its id, and also names its one-member reservation.  The      *)
(* wallet and the Manifold Guardian are external (FaPayments, CreateSeat). *)
(***************************************************************************)
EXTENDS Naturals

CONSTANT MaxQuotes    \* bound on the quotes issued in a behaviour

VARIABLES
  stage,    \* durable: "none" (no open transfer), "buying" or "moving"
  quote,    \* durable: the purchase's signed quote, 0 for none
  armed,    \* durable: outputs_started
  seats,    \* the quotes whose seat some transfer of this FA recorded
  nextq,    \* the quotes issued so far
  paid,     \* the issued quotes that carry a price
  holds,    \* wallet: the reserved quotes
  pay,      \* wallet: the funding of each quote
  mg,       \* the guardian's decision on each quote
  pc,       \* the run's next step, "off" when no run is under way
  current   \* whether this run obtained the stored quote

row == <<stage, quote, armed, seats>>
outside == <<nextq, paid, holds, pay, mg>>
vars == <<row, outside, pc, current>>

Quotes == 1..MaxQuotes

Init ==
  /\ stage = "none" /\ quote = 0 /\ armed = FALSE /\ seats = {}
  /\ nextq = 0 /\ paid = {} /\ holds = {}
  /\ pay = [q \in Quotes |-> "none"] /\ mg = [q \in Quotes |-> "open"]
  /\ pc = "off" /\ current = FALSE

Goto(step) == pc' = step /\ UNCHANGED current

\* Every write goes through write_guardian_transfer under the driver lease.
Saved(q, a) == stage = "buying" /\ quote' = q /\ armed' = a /\ UNCHANGED <<stage, seats>>

Ended == pc' = "off" /\ current' = FALSE

Closed == stage' = "none" /\ quote' = 0 /\ armed' = FALSE /\ UNCHANGED seats

----------------------------------------------------------------------------
\* start_guardian_transfer with an approval seat_purchase accepts.
Begin ==
  /\ pc = "off" /\ stage = "none" /\ nextq < MaxQuotes
  /\ stage' = "buying" /\ quote' = 0 /\ armed' = FALSE
  /\ Goto("refresh")
  /\ UNCHANGED <<seats, outside>>

Resume ==
  /\ pc = "off" /\ stage = "buying"
  /\ Goto("refresh")
  /\ UNCHANGED <<row, outside>>

\* The reservation of a paid quote that never started goes back first.
RefreshWhen(stale, released) ==
  /\ pc = "refresh"
  /\ IF stale THEN holds' = holds \ released /\ Goto("drop")
              ELSE holds' = holds /\ Goto("quote")
  /\ UNCHANGED <<row, nextq, paid, pay, mg>>

Refresh == RefreshWhen(~armed /\ quote \in paid, {quote})

DropQuote ==
  /\ pc = "drop"
  /\ Saved(0, FALSE) /\ Goto("quote")
  /\ UNCHANGED outside

\* request_new_quote; a refused selection or a price over the cap closes.
RequestQuote ==
  /\ pc = "quote"
  /\ \/ /\ quote # 0 /\ Goto("fund") /\ UNCHANGED <<row, nextq, paid>>
     \/ /\ quote = 0 /\ Closed /\ Ended /\ UNCHANGED <<nextq, paid>>
     \/ /\ quote = 0 /\ nextq < MaxQuotes
        /\ nextq' = nextq + 1
        /\ \E priced \in BOOLEAN : paid' = IF priced THEN paid \cup {nextq + 1} ELSE paid
        /\ Saved(nextq + 1, FALSE)
        /\ pc' = "fund" /\ current' = TRUE
  /\ UNCHANGED <<holds, pay, mg>>

\* fund_seat_purchase: a started payment is recovered before anything else.
RecoverPaymentIf(priced) ==
  /\ pc = "fund"
  /\ IF ~priced THEN Goto("present")
     ELSE IF armed /\ pay[quote] \in {"prepared", "refunded"} THEN Goto("present")
     ELSE IF armed /\ pay[quote] = "rejected" THEN Goto("free")
     ELSE (armed => pay[quote] = "none") /\ Goto("reserve")
  /\ UNCHANGED <<row, outside>>

RecoverPayment == RecoverPaymentIf(quote \in paid)

\* recover_payment_reservation, then reserve_payment_requirements.
Reserve ==
  /\ pc = "reserve"
  /\ \/ quote \in holds /\ UNCHANGED holds
     \/ quote \notin holds /\ ~armed /\ holds' = holds \cup {quote}
  /\ Goto("arm")
  /\ UNCHANGED <<row, nextq, paid, pay, mg>>

\* A payment that resumes unstarted needs the payer policy again.
ArmAs(a) ==
  /\ pc = "arm"
  /\ \/ ~armed /\ Saved(quote, a) /\ Goto("pay")
     \/ armed /\ Goto("pay") /\ UNCHANGED row
     \/ armed /\ Goto("disarm") /\ UNCHANGED row   \* the policy dropped the payer
  /\ UNCHANGED outside

Arm == ArmAs(TRUE)

\* Marked unstarted before the reservation is given back.
DisarmAs(a) ==
  /\ pc = "disarm"
  /\ Saved(quote, a) /\ Goto("giveBack")
  /\ UNCHANGED outside

Disarm == DisarmAs(FALSE)

\* release_payment_reservation, refused once the funding started.
GiveBack ==
  /\ pc = "giveBack" /\ pay[quote] = "none"
  /\ holds' = holds \ {quote} /\ Goto("close")
  /\ UNCHANGED <<row, nextq, paid, pay, mg>>

\* create_seat_payment makes the funding recoverable before it spends.
Pay ==
  /\ pc = "pay" /\ quote \in holds /\ pay[quote] = "none"
  /\ pay' = [pay EXCEPT ![quote] = "started"] /\ Goto("paying")
  /\ UNCHANGED <<row, nextq, paid, holds, mg>>

\* The federation accepts or rejects the funding, whether or not a run waits.
WalletSettles(q) ==
  /\ pay[q] = "started"
  /\ \E outcome \in {"prepared", "rejected"} : pay' = [pay EXCEPT ![q] = outcome]
  /\ UNCHANGED <<row, nextq, paid, holds, mg, pc, current>>

Paid ==
  /\ pc = "paying"
  /\ \/ pay[quote] = "prepared" /\ Goto("present")
     \/ pay[quote] = "rejected" /\ Ended
  /\ UNCHANGED <<row, outside>>

\* CreateSeat: the guardian decides the exact quote once.
Present ==
  /\ pc = "present"
  /\ IF mg[quote] = "open"
     THEN \E d \in {"accepted", "refused"} : mg' = [mg EXCEPT ![quote] = d]
     ELSE UNCHANGED mg
  /\ Goto("answer")
  /\ UNCHANGED <<row, nextq, paid, holds, pay>>

\* drive_guardian_transfer records the destination; a refusal is settled.
Answer ==
  /\ pc = "answer"
  /\ \/ /\ mg[quote] = "accepted"
        /\ stage' = "moving" /\ quote' = 0 /\ armed' = FALSE /\ seats' = seats \cup {quote}
        /\ Ended /\ UNCHANGED pay
     \/ /\ mg[quote] = "refused"
        /\ pay' = [pay EXCEPT ![quote] = IF quote \in paid THEN "refunded" ELSE @]
        /\ Goto("free") /\ UNCHANGED row
  /\ UNCHANGED <<nextq, paid, holds, mg>>

\* release_seat_payment_reservation with the wallet's proof.
FreeMember ==
  /\ pc = "free"
  /\ holds' = holds \ {quote} /\ Goto("close")
  /\ UNCHANGED <<row, nextq, paid, pay, mg>>

Close ==
  /\ pc = "close" /\ Closed /\ Ended
  /\ UNCHANGED outside

CutOff ==
  /\ pc # "off" /\ Ended
  /\ UNCHANGED <<row, outside>>

\* The move itself (GuardianTransfer) ends and closes the transfer.
MoveEnds ==
  /\ pc = "off" /\ stage = "moving" /\ stage' = "none"
  /\ UNCHANGED <<quote, armed, seats, outside, pc, current>>

Next ==
  \/ Begin \/ Resume \/ Refresh \/ DropQuote \/ RequestQuote \/ RecoverPayment
  \/ Reserve \/ Arm \/ Disarm \/ GiveBack \/ Pay \/ Paid \/ Present \/ Answer
  \/ FreeMember \/ Close \/ CutOff \/ MoveEnds
  \/ \E q \in Quotes : WalletSettles(q)

Spec == Init /\ [][Next]_vars

----------------------------------------------------------------------------
Steps == {"off", "refresh", "drop", "quote", "fund", "reserve", "arm", "disarm", "giveBack",
          "pay", "paying", "present", "answer", "free", "close"}

TypeOK ==
  /\ stage \in {"none", "buying", "moving"} /\ quote \in 0..nextq /\ armed \in BOOLEAN
  /\ nextq \in 0..MaxQuotes /\ seats \subseteq 1..nextq /\ paid \subseteq 1..nextq
  /\ holds \subseteq paid /\ pc \in Steps /\ current \in BOOLEAN
  /\ pay \in [Quotes -> {"none", "started", "prepared", "rejected", "refunded"}]
  /\ mg \in [Quotes -> {"open", "accepted", "refused"}]

\* A reservation in the wallet can always be found again from the transfer row
\* (the quote is saved before it is reserved and dropped after the release),
\* unless its payment bought a recorded seat.
HoldIsReachable == \A q \in holds : q \in seats \/ (stage = "buying" /\ quote = q)

\* Value the wallet committed to a quote is never forgotten: the row still
\* holds that exact quote past the output boundary, or its seat is recorded, or
\* the wallet refunded it.
ValueIsReachable ==
  \A q \in Quotes : pay[q] \in {"started", "prepared"} =>
    q \in seats \/ (stage = "buying" /\ quote = q /\ armed)

\* A seat the guardian granted, even one whose answer was lost, belongs to the
\* transfer that asked for it: no second seat is allocated for it.
GrantIsKept ==
  \A q \in Quotes : mg[q] = "accepted" => q \in seats \/ (stage = "buying" /\ quote = q)

=============================================================================
