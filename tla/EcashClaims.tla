---------------------------- MODULE EcashClaims ----------------------------
(***************************************************************************)
(* Claiming the locked payments of accepted seats.  The claim worker scans *)
(* the pending claims, opens each payment federation's client (recovering  *)
(* it from the mnemonic after a restore, however long that takes), hands   *)
(* the notes to the client's durable operation log within an attempt       *)
(* budget, and records the operation's end.  The host may stop at any      *)
(* point, and may be lost and restored from the seats' backup documents.   *)
(*                                                                         *)
(* The second half (QuoteNext) follows one payment's terms: the payer      *)
(* commits to refund outputs, the guardian quotes notes and checks the     *)
(* commitment, and the paid notes are claimed or sent back.  Amounts are   *)
(* whole numbers, fees are per note, and a note is an amount and an index. *)
(***************************************************************************)
EXTENDS Naturals, FiniteSets, SequencesExt

CONSTANTS Claims,      \* paid seats
          Fed,         \* Fed[c]: the federation that issued c's notes
          MaxLosses,   \* times the host is lost and restored
          Mints,       \* mint configurations: version 2 or 1, tiers, fee of a note in and out
          Prices,      \* prices asked
          Dust,        \* largest version 2 denomination that is not used
          MaxNotes,    \* MAX_LOCKED_PAYMENT_NOTES
          RepairLimit  \* REPAIR_LIMIT_MSATS

Feds == {Fed[c] : c \in Claims}

VARIABLES
  claim,    \* ecash_claims: "none", "pending", "success" or "already_spent"
  backedUp, \* claims whose evidence is in a confirmed seat document
  op,       \* client operation log: "none", "created", "done" or "failed"
  client,   \* per federation: "blank", "recovering", "shut" or "open"
  task,     \* the scan's future of each claim
  scanning, \* a scan is running
  spent,    \* claims whose notes the federation has seen spent, always to this mnemonic
  wallet,   \* claims whose value the local client holds
  losses,
  deal      \* one payment's terms, from the payer's commitment to its end

vars == <<claim, backedUp, op, client, task, scanning, spent, wallet, losses, deal>>

NoDeal == [step |-> "none"]

Outcomes == {"success", "already_spent"}

Init ==
  /\ claim = [c \in Claims |-> "none"]
  /\ backedUp = {}
  /\ op = [c \in Claims |-> "none"]
  /\ client = [f \in Feds |-> "open"]
  /\ task = [c \in Claims |-> "idle"]
  /\ scanning = FALSE
  /\ spent = {}
  /\ wallet = {}
  /\ losses = 0
  /\ deal = NoDeal

Task(c, t) == task' = [task EXCEPT ![c] = t]

-----------------------------------------------------------------------------
\* The seat and its claim are admitted together (Admission).
Accept(c) ==
  /\ claim[c] = "none" /\ losses = 0
  /\ claim' = [claim EXCEPT ![c] = "pending"]
  /\ UNCHANGED <<backedUp, op, client, task, scanning, spent, wallet, losses, deal>>

\* The seat's document, with the evidence, is confirmed (MgBackup).
BackUp(c) ==
  /\ claim[c] # "none" /\ c \notin backedUp
  /\ backedUp' = backedUp \union {c}
  /\ UNCHANGED <<claim, op, client, task, scanning, spent, wallet, losses, deal>>

ScanStart ==
  /\ ~scanning /\ \E c \in Claims : claim[c] = "pending"
  /\ scanning' = TRUE
  /\ task' = [c \in Claims |-> IF claim[c] = "pending" THEN "prepare" ELSE "idle"]
  /\ UNCHANGED <<claim, backedUp, op, client, spent, wallet, losses, deal>>

\* mutant: the claim is attempted while its client is still recovering
MPrepare(c) ==
  /\ task[c] = "prepare"
  /\ \/ client[Fed[c]] \in {"open", "recovering"} /\ Task(c, "handoff") /\ UNCHANGED client
     \/ client[Fed[c]] = "shut" /\ client' = [client EXCEPT ![Fed[c]] = "open"] /\ UNCHANGED task
     \/ client[Fed[c]] = "blank" /\ client' = [client EXCEPT ![Fed[c]] = "recovering"] /\ UNCHANGED task
  /\ UNCHANGED <<claim, backedUp, op, scanning, spent, wallet, losses, deal>>

\* prepare_claim: joins or opens the client and waits out its recovery.
Prepare(c) ==
  /\ task[c] = "prepare"
  /\ \/ client[Fed[c]] = "open" /\ Task(c, "handoff") /\ UNCHANGED client
     \/ client[Fed[c]] = "shut" /\ client' = [client EXCEPT ![Fed[c]] = "open"] /\ UNCHANGED task
     \/ client[Fed[c]] = "blank" /\ client' = [client EXCEPT ![Fed[c]] = "recovering"] /\ UNCHANGED task
  /\ UNCHANGED <<claim, backedUp, op, scanning, spent, wallet, losses, deal>>

\* The mnemonic's notes come back once every recovery has finished.
Recovered(f) ==
  /\ client[f] = "recovering"
  /\ client' = [client EXCEPT ![f] = "open"]
  /\ wallet' = wallet \union {c \in spent : Fed[c] = f}
  /\ UNCHANGED <<claim, backedUp, op, task, scanning, spent, losses, deal>>

PrepareFails(c) ==
  /\ task[c] = "prepare" /\ client[Fed[c]] # "recovering"
  /\ Task(c, "ended")
  /\ UNCHANGED <<claim, backedUp, op, client, scanning, spent, wallet, losses, deal>>

HandoffAs(c, entry) ==
  /\ task[c] = "handoff"
  /\ op' = [op EXCEPT ![c] = entry]
  /\ Task(c, "await")
  /\ UNCHANGED <<claim, backedUp, client, scanning, spent, wallet, losses, deal>>

\* The operation's id is a function of the notes: an operation that exists
\* is taken up again, never started a second time.
Handoff(c) == HandoffAs(c, IF op[c] = "none" THEN "created" ELSE op[c])

\* The operation's transaction is accepted, or rejected because an earlier
\* life of this mnemonic already spent the notes.
OperationEnds(c) ==
  /\ op[c] = "created" /\ client[Fed[c]] \in {"open", "recovering"}
  /\ op' = [op EXCEPT ![c] = IF c \in spent THEN "failed" ELSE "done"]
  /\ wallet' = IF c \in spent THEN wallet ELSE wallet \union {c}
  /\ spent' = spent \union {c}
  /\ UNCHANGED <<claim, backedUp, client, task, scanning, losses, deal>>

AwaitAs(c, outcome) ==
  /\ task[c] = "await" /\ op[c] \in {"done", "failed"}
  /\ Task(c, outcome)
  /\ UNCHANGED <<claim, backedUp, op, client, scanning, spent, wallet, losses, deal>>

AwaitClaim(c) == AwaitAs(c, IF op[c] = "done" THEN "success" ELSE "already_spent")

\* The attempt budget ran out, or the hand-off or the update stream failed.
\* The operation goes on in the client.
AttemptFails(c) ==
  /\ task[c] \in {"handoff", "await"}
  /\ Task(c, "ended")
  /\ UNCHANGED <<claim, backedUp, op, client, scanning, spent, wallet, losses, deal>>

RecordClaimOutcome(c) ==
  /\ task[c] \in Outcomes /\ claim[c] = "pending"
  /\ claim' = [claim EXCEPT ![c] = task[c]]
  /\ Task(c, "ended")
  /\ UNCHANGED <<backedUp, op, client, scanning, spent, wallet, losses, deal>>

AllEnded == \A c \in Claims : task[c] \in {"idle", "ended"}

ScanEndIf(ended) ==
  /\ scanning /\ ended
  /\ scanning' = FALSE
  /\ task' = [c \in Claims |-> "idle"]
  /\ UNCHANGED <<claim, backedUp, op, client, spent, wallet, losses, deal>>

\* Every claim of the scan has ended; the next scan follows a delay or a mark.
ScanEnd == ScanEndIf(AllEnded)

-----------------------------------------------------------------------------
Crash ==
  /\ client' = [f \in Feds |-> IF client[f] = "open" THEN "shut"
                               ELSE IF client[f] = "recovering" THEN "blank" ELSE client[f]]
  /\ task' = [c \in Claims |-> "idle"]
  /\ scanning' = FALSE
  /\ UNCHANGED <<claim, backedUp, op, spent, wallet, losses, deal>>

\* The new host holds the claims whose documents were confirmed, all pending,
\* and blank clients.  Transactions the lost host had sent may still land.
LoseAndRestore(landed) ==
  /\ losses < MaxLosses
  /\ losses' = losses + 1
  /\ claim' = [c \in Claims |-> IF c \in backedUp THEN "pending" ELSE "none"]
  /\ op' = [c \in Claims |-> "none"]
  /\ client' = [f \in Feds |-> "blank"]
  /\ task' = [c \in Claims |-> "idle"]
  /\ scanning' = FALSE
  /\ spent' = spent \union landed
  /\ wallet' = {}
  /\ UNCHANGED <<backedUp, deal>>

Work(c) == Prepare(c) \/ Handoff(c) \/ OperationEnds(c) \/ AwaitClaim(c) \/ RecordClaimOutcome(c)

Next ==
  \/ \E c \in Claims : Accept(c) \/ BackUp(c) \/ Work(c) \/ PrepareFails(c) \/ AttemptFails(c)
  \/ ScanStart \/ ScanEnd
  \/ \E f \in Feds : Recovered(f)
  \/ Crash
  \/ \E landed \in SUBSET {c \in Claims : op[c] = "created"} : LoseAndRestore(landed)

-----------------------------------------------------------------------------
(* The terms of a locked payment. *)

\* The denominations both sides quote and refund in.
Tiers(m) == {t \in m.tiers : m.version = 2 => t > Dust}

ByCost(a, b) == a.cost > b.cost

Amounts(coins) == [i \in DOMAIN coins |-> coins[i].amount]

Total(notes) == FoldLeft(+, 0, notes)

\* The largest coins first, as many of each as fit; too many notes refuse.
Take(got, coin) ==
  LET n == got.left \div coin.cost
  IN IF ~got.ok \/ n > MaxNotes - Len(got.picked) THEN [got EXCEPT !.ok = FALSE]
     ELSE [left |-> got.left % coin.cost, picked |-> got.picked \o [i \in 1 .. n |-> coin], ok |-> TRUE]

Greedy(coins, target) == FoldLeft(Take, [left |-> target, picked |-> <<>>, ok |-> TRUE], coins)

\* At most one note set for a price: none when the tiers cannot make it.
QuoteDenominations(price, tiers) ==
  LET got == Greedy(SetToSortSeq({[amount |-> t, cost |-> t] : t \in tiers \ {0}}, ByCost), price)
  IN IF got.ok /\ got.left = 0 THEN {Amounts(got.picked)} ELSE {}

\* What an output of each tier takes from the inputs.  Of two tiers with one
\* cost the larger stays.
RefundCoins(m) ==
  LET coins == {[amount |-> t, cost |-> t + m.outFee] : t \in Tiers(m)}
  IN SetToSortSeq({c \in coins : c.cost # 0 /\ \A d \in coins : d.cost = c.cost => d.amount <= c.amount},
                  ByCost)

\* The fewest coins of every value up to the target; ties go to the earlier
\* coin.  best[v + 1] is v's choice, empty when v takes more than max coins.
MinimumCoinRepresentation(coins, target, max) ==
  LET Extend(best, v) ==
        LET via == {i \in DOMAIN coins : coins[i].cost <= v /\ best[v - coins[i].cost + 1] # {}}
            Found(i) == <<coins[i]>> \o (CHOOSE s \in best[v - coins[i].cost + 1] : TRUE)
            first == {i \in via : \A j \in via \ {i} :
                        \/ Len(Found(i)) < Len(Found(j))
                        \/ Len(Found(i)) = Len(Found(j)) /\ i < j}
        IN Append(best, {s \in {Found(i) : i \in first} : Len(s) <= max})
  IN FoldLeft(Extend, <<{<<>>}>>, [v \in 1 .. target |-> v])[target + 1]

\* The greedy choice, its smallest coins given back one by one until the
\* remainder, within the repair limit, has a representation.
RefundDenominations(coins, target) ==
  LET got == Greedy(coins, target)
      Left(k) == got.left + Total([i \in 1 .. Len(got.picked) - k |-> got.picked[k + i].cost])
      Repair(k) == IF Left(k) > RepairLimit THEN {}
                   ELSE MinimumCoinRepresentation(coins, Left(k), MaxNotes - k)
      kept == {k \in 0 .. Len(got.picked) : Repair(k) # {}}
  IN IF coins = <<>> \/ ~got.ok \/ kept = {} THEN {}
     ELSE {SortSeq(Amounts(SubSeq(got.picked, 1, Max(kept)) \o s), >) : s \in Repair(Max(kept))}

InputFees(m, notes) == Len(notes) * m.inFee

\* prepare_refund_v1, prepare_refund_v2: outputs for the paid notes less fees.
PrepareRefund(m, paid) ==
  IF paid = <<>> \/ Total(paid) < InputFees(m, paid) THEN {}
  ELSE RefundDenominations(RefundCoins(m), Total(paid) - InputFees(m, paid))

PrepareQuoteRefund(m, price) == UNION {PrepareRefund(m, paid) : paid \in QuoteDenominations(price, Tiers(m))}

\* The guardian repeats the payer's computation for its own notes.
ValidateQuoteRefund(m, paid, refund) == refund \in PrepareQuoteRefund(m, Total(paid))

\* A note's nonce comes from its index: derive_issuance_requests.
Notes(amounts) == [i \in DOMAIN amounts |-> [amount |-> amounts[i], nonce |-> i]]

\* The signatures open every quoted note, no nonce twice.
VerifyPayment(issuance, signatures) ==
  /\ Len(signatures) = Len(issuance)
  /\ \A i \in DOMAIN issuance : signatures[i] = Notes(issuance)[i]
  /\ IsInjective([i \in DOMAIN signatures |-> signatures[i].nonce])

\* verify_locked_v1, verify_locked_v2: the refund spends exactly what was paid.
RefundBalances(m, paid, refund) ==
  Total(refund) + InputFees(m, paid) + Len(refund) * m.outFee = Total(paid)

\* The payer commits to a refund before it asks for the quote.
Commit(m, price) ==
  /\ deal = NoDeal
  /\ deal' = IF PrepareQuoteRefund(m, price) = {} THEN [step |-> "unpayable", mint |-> m, price |-> price]
             ELSE [step |-> "asked", mint |-> m, price |-> price,
                   refund |-> CHOOSE r \in PrepareQuoteRefund(m, price) : TRUE]

\* The guardian quotes its price, which may have moved.
QuoteLocked(price) ==
  /\ deal.step = "asked"
  /\ LET quotes == QuoteDenominations(price, Tiers(deal.mint))
         valid == {paid \in quotes : ValidateQuoteRefund(deal.mint, paid, deal.refund)}
     IN deal' = IF valid = {} THEN [deal EXCEPT !.step = "refused"] @@ [quoted |-> price]
                ELSE [deal EXCEPT !.step = "quoted"] @@ [quoted |-> price, issuance |-> CHOOSE q \in valid : TRUE]

\* The federation signs the notes; what arrives may be short or another note's.
Arriving(notes) ==
  {notes, Front(notes), [notes EXCEPT ![1].amount = @ + 1], [i \in DOMAIN notes |-> notes[1]]}

PayLocked(signatures) ==
  /\ deal.step = "quoted"
  /\ deal' = [deal EXCEPT !.step = "paid"] @@ [signatures |-> signatures]

VerifyLocked ==
  /\ deal.step = "paid"
  /\ deal' = [deal EXCEPT !.step =
        IF VerifyPayment(deal.issuance, deal.signatures) /\ RefundBalances(deal.mint, deal.issuance, deal.refund)
        THEN "verified" ELSE "invalid"]

\* The seat is admitted and the notes are claimed.
ClaimLocked == deal.step = "verified" /\ deal' = [deal EXCEPT !.step = "claimed"]

\* A federation takes a transaction whose notes it signed, each once, and
\* whose inputs are its outputs and all fees.
FederationTakes(m, inputs, outputs) ==
  /\ \A i, j \in DOMAIN inputs : inputs[i].nonce = inputs[j].nonce => i = j
  /\ Total(Amounts(inputs)) = Total(outputs) + Len(inputs) * m.inFee + Len(outputs) * m.outFee
  /\ \A i \in DOMAIN outputs : outputs[i] \in m.tiers

\* The seat is not admitted: the transaction built from the notes and the
\* commitment is the payer's to submit (build_refund_transaction).
RefundLocked ==
  /\ deal.step = "verified"
  /\ deal' = [deal EXCEPT !.step =
        IF FederationTakes(deal.mint, Notes(deal.issuance), deal.refund) THEN "refunded" ELSE "stuck"]

QuoteNext ==
  /\ \/ \E m \in Mints, price \in Prices : Commit(m, price)
     \/ \E price \in Prices : QuoteLocked(price)
     \/ deal.step = "quoted" /\ \E s \in Arriving(Notes(deal.issuance)) : PayLocked(s)
     \/ VerifyLocked \/ ClaimLocked \/ RefundLocked
  /\ UNCHANGED <<claim, backedUp, op, client, task, scanning, spent, wallet, losses>>

Spec == Init /\ [][Next]_vars

-----------------------------------------------------------------------------
TypeOK ==
  /\ claim \in [Claims -> {"none", "pending"} \union Outcomes]
  /\ op \in [Claims -> {"none", "created", "done", "failed"}]
  /\ client \in [Feds -> {"blank", "recovering", "shut", "open"}]
  /\ task \in [Claims -> {"idle", "prepare", "handoff", "await", "ended"} \union Outcomes]
  /\ scanning \in BOOLEAN
  /\ backedUp \subseteq Claims /\ spent \subseteq Claims /\ wallet \subseteq Claims
  /\ losses \in 0 .. MaxLosses
  /\ deal.step \in {"none", "unpayable", "asked", "refused", "quoted", "paid", "invalid",
                    "verified", "claimed", "refunded", "stuck"}

\* A claim with an outcome is value in this host's wallet: a success because
\* this client took the notes, "already spent" because an earlier life of the
\* mnemonic took them and the recovery that precedes every attempt brought
\* them back (reconcile_after_preparation, await_claim).
OutcomeIsHeld == \A c \in Claims : claim[c] \in Outcomes => c \in wallet

\* "Already spent" is only ever concluded after a restore: on a host that
\* was never lost, no retry of a claim competes with the claim's own earlier
\* attempt (handoff_locked_v1, handoff_locked_v2 take up the operation).
SpentOnlyAfterRestore ==
  \A c \in Claims : claim[c] = "already_spent" => losses > 0

\* Every value some n of the coins add up to, n up to the note limit.
SumsOf(coins) ==
  LET sums[n \in 0 .. MaxNotes] ==
        IF n = 0 THEN {0} ELSE {s + coins[i].cost : s \in sums[n - 1], i \in DOMAIN coins}
  IN UNION {sums[n] : n \in 0 .. MaxNotes}

\* A verified payment is money that can go both ways: its notes are worth the
\* quoted price, the refund committed to before the quote is one the
\* federation takes, to the last unit of every fee, and within the note limit.
\* A guardian refuses a commitment only when its price has moved, or a payment
\* only when a signature is missing or another note's, and a payer gives up
\* only when no note set of the tiers makes the price, or none makes the refund,
\* or the refund is past the repair limit
\* (refund_denominations, validate_quote_refund, verify_locked).
RefundIsExact ==
  /\ deal.step # "stuck"
  /\ deal.step \in {"verified", "claimed", "refunded"} =>
        /\ Total(deal.issuance) = deal.quoted
        /\ Len(deal.issuance) <= MaxNotes /\ Len(deal.refund) <= MaxNotes
  /\ deal.step = "refused" => deal.quoted # deal.price
  /\ deal.step = "invalid" => deal.signatures # Notes(deal.issuance)
  /\ deal.step = "unpayable" =>
        \A paid \in QuoteDenominations(deal.price, Tiers(deal.mint)) :
          paid # <<>> /\ Total(paid) >= InputFees(deal.mint, paid) =>
            LET target == Total(paid) - InputFees(deal.mint, paid)
            IN target > RepairLimit \/ target \notin SumsOf(RefundCoins(deal.mint))

=============================================================================
