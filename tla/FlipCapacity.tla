---------------------------- MODULE FlipCapacity ----------------------------
(***************************************************************************)
(* The liquidity manager's wallet budget: what may still be promised, given *)
(* an observed balance that can be older than the sends it should reflect.  *)
(* Balance reads are stamped with a tick taken before the backend is asked  *)
(* (wallet.rs: begin_balance_read); a settled send stays charged until an   *)
(* observation whose read began later is stored.  Three uncoordinated       *)
(* callers read the balance: the sync worker, the funds view and every      *)
(* operator withdrawal (funds_admin.rs).  Request acceptance (public.rs:    *)
(* plan_allocation) and withdrawals spend the budget.                       *)
(***************************************************************************)
EXTENDS Integers, FiniteSets, Folds, Functions

CONSTANTS Items,     \* allocation items that may be accepted
          Intents,   \* operator withdrawal intent ids
          Calls,     \* operator withdrawal calls
          Readers,   \* the sync worker and the callers of the funds view
          IntentOf,  \* the intent a call carries
          Amount,    \* reserved amount of an item, amount of an intent
          Funds,     \* the wallet's balance at the start
          TopUp,     \* what one deposit to the wallet adds
          FeeReserve, ExplicitCap,
          MaxTick,   \* bound: balance reads
          Null       \* SQL NULL, and no value

Spends == Items \cup Intents

VARIABLES wallet,  \* what gatewayd's wallet can really still spend
          tick,    \* wallet_observation_ticks
          obs,     \* wallet_balance_observations
          items,   \* status of an item: it reserves or it does not
          ops,     \* wallet_operations of the items and of the intents
          debited, \* sends the wallet has made
          sends,   \* submissions made for an intent
          reads    \* the balance reads and withdrawal calls in progress

vars == <<wallet, tick, obs, items, ops, debited, sends, reads>>

Reserving == {"running", "action_required"}
PendingSettlement == {"in_doubt"}

NoOp == [status |-> "none", settled |-> Null, released |-> Null]
NoRead == [pc |-> "idle", tick |-> 0, spendable |-> 0]

Sum(S) == FoldFunctionOnSet(+, 0, Amount, S)
Minus(a, b) == IF a < b THEN 0 ELSE a - b

Init ==
    /\ wallet = Funds /\ tick = 0 /\ obs = Null
    /\ items = [i \in Items |-> "none"]
    /\ ops = [s \in Spends |-> NoOp]
    /\ debited = {} /\ sends = [w \in Intents |-> 0]
    /\ reads = [r \in Readers \cup Calls |-> NoRead]

----------------------------------------------------------------------------
(* A balance read: the tick first, then the backend, then the row.           *)

AskAt(r, t) ==
    /\ tick < MaxTick
    /\ tick' = tick + 1
    /\ reads' = [reads EXCEPT ![r] = [pc |-> "asked", tick |-> t, spendable |-> 0]]
    /\ UNCHANGED <<wallet, obs, items, ops, debited, sends>>

TakeTick(r) == AskAt(r, tick + 1)

BeginBalanceRead(r) == r \in Readers /\ reads[r].pc = "idle" /\ TakeTick(r)

ReadBalance(r) ==
    /\ reads[r].pc = "asked"
    /\ reads' = [reads EXCEPT ![r].pc = "answered", ![r].spendable = wallet]
    /\ UNCHANGED <<wallet, tick, obs, items, ops, debited, sends>>

\* upsert_wallet_balance_observation: an older read never replaces a newer one.
Stored(read) ==
    IF obs # Null /\ read.tick < obs.tick THEN obs
    ELSE [spendable |-> read.spendable, tick |-> read.tick]

Observe(r) ==
    /\ reads[r].pc = "answered"
    /\ obs' = Stored(reads[r])
    /\ reads' = [reads EXCEPT ![r] = IF r \in Calls THEN [@ EXCEPT !.pc = "prepared"]
                                     ELSE NoRead]
    /\ UNCHANGED <<wallet, tick, items, ops, debited, sends>>

----------------------------------------------------------------------------
(* The capacity query, evaluated inside the transaction that spends it.      *)

ReservingItems == {i \in Items : items[i] \in Reserving}

\* stamp_released_item_operations_tx
Stamped ==
    [s \in Spends |->
        IF /\ s \in Items \ ReservingItems
           /\ ops[s].settled # Null /\ ops[s].released = Null
        THEN [ops[s] EXCEPT !.released = tick] ELSE ops[s]]

Watermark(op) == IF op.released # Null THEN op.released ELSE op.settled

\* active_wallet_withdrawal_amount_tx
Charged ==
    {s \in Spends \ ReservingItems :
        \/ Stamped[s].status \in PendingSettlement
        \/ /\ Stamped[s].settled # Null
           /\ Watermark(Stamped[s]) >= (IF obs = Null THEN 0 ELSE obs.tick)}

\* available_balance: saturating subtractions
Available(spendable) ==
    Minus(Minus(Minus(spendable, Sum(Charged)), Sum(ReservingItems)), FeeReserve)

\* plan_allocation and insert_allocation
CapacityFor(i) ==
    /\ obs # Null
    /\ Amount[i] <= Available(obs.spendable)
    /\ Amount[i] <= Minus(ExplicitCap, Sum(ReservingItems))

AcceptItem(i) ==
    /\ items[i] = "none"
    /\ CapacityFor(i)
    /\ items' = [items EXCEPT ![i] = "running"]
    /\ ops' = Stamped
    /\ UNCHANGED <<wallet, tick, obs, debited, sends, reads>>

----------------------------------------------------------------------------
(* request_withdrawal_with_wallet                                            *)

RequestWithdrawal(c) ==
    /\ reads[c].pc = "idle"
    /\ ops[IntentOf[c]].status = "none"      \* a known intent is only answered
    /\ TakeTick(c)

\* Under the write lock: the intent again, then the balance this call read
\* against what is charged now, then the operation, already in doubt.
IntentUnsettled(w) == ops[w].settled = Null

IntentFree(w) == ops[w].status = "none"

CommitWithdrawal(c) ==
    LET w == IntentOf[c] IN
    /\ reads[c].pc = "prepared"
    /\ IF IntentFree(w) /\ Amount[w] <= Available(reads[c].spendable)
       THEN /\ ops' = [Stamped EXCEPT ![w].status = "in_doubt"]
            /\ reads' = [reads EXCEPT ![c].pc = "submit"]
       ELSE reads' = [reads EXCEPT ![c] = NoRead] /\ UNCHANGED ops
    /\ UNCHANGED <<wallet, tick, obs, items, debited, sends>>

SubmitWithdrawal(c) ==
    /\ reads[c].pc = "submit"
    /\ sends' = [sends EXCEPT ![IntentOf[c]] = @ + 1]
    /\ reads' = [reads EXCEPT ![c] = NoRead]
    /\ UNCHANGED <<wallet, tick, obs, items, ops, debited>>

----------------------------------------------------------------------------
(* The life of a send.  The funding workers' own steps are FlipFunding's;    *)
(* here an item's send is in doubt from claim_funding_submission on.         *)

FundItem(i) ==
    /\ items[i] = "running" /\ ops[i].status = "none"
    /\ ops' = [ops EXCEPT ![i].status = "in_doubt"]
    /\ UNCHANGED <<wallet, tick, obs, items, debited, sends, reads>>

\* The wallet pays: from here on its balance is lower (external).
Debit(s) ==
    /\ ops[s].status = "in_doubt" /\ s \notin debited
    /\ s \in Intents => sends[s] > 0
    /\ wallet >= Amount[s]
    /\ wallet' = wallet - Amount[s] /\ debited' = debited \cup {s}
    /\ UNCHANGED <<tick, obs, items, ops, sends, reads>>

\* claim_chain_evidence or resolve_manual_review_tx settles a made send and
\* stamps the tick.
SettledAs(s, stamp) ==
    /\ ops[s].status = "in_doubt" /\ s \in debited
    /\ ops' = [ops EXCEPT ![s].status = "completed", ![s].settled = stamp]
    /\ UNCHANGED <<wallet, tick, obs, items, debited, sends, reads>>

SettleUnstamped(s) == SettledAs(s, Null)

Settle(s) == SettledAs(s, tick)

\* The send was refused before submission, or a review established that it
\* never happened: an item then waits for the operator.
FailSend(s) ==
    /\ ops[s].status = "in_doubt" /\ s \notin debited
    /\ \A c \in Calls : IntentOf[c] = s => reads[c].pc # "submit"
    /\ ops' = [ops EXCEPT ![s].status = "failed"]
    /\ items' = IF s \in Items THEN [items EXCEPT ![s] = "action_required"] ELSE items
    /\ UNCHANGED <<wallet, tick, obs, debited, sends, reads>>

\* retry_funding_step with reset_wallet_operation_tx
RetryItem(i) ==
    /\ items[i] = "action_required"
    /\ items' = [items EXCEPT ![i] = "running"]
    /\ ops' = [ops EXCEPT ![i] = NoOp]
    /\ UNCHANGED <<wallet, tick, obs, debited, sends, reads>>

CancelItem(i) ==
    /\ items[i] \in Reserving /\ ops[i].status \in {"none", "failed"}
    /\ items' = [items EXCEPT ![i] = "done"]
    /\ ops' = [ops EXCEPT ![i].status = "cancelled"]
    /\ UNCHANGED <<wallet, tick, obs, debited, sends, reads>>

\* complete_item, fail_item and abandon_gateway_item drop the reservation
CompleteItem(i) ==
    /\ items[i] \in Reserving /\ ops[i].status = "completed"
    /\ items' = [items EXCEPT ![i] = "done"]
    /\ UNCHANGED <<wallet, tick, obs, ops, debited, sends, reads>>

\* Someone pays into the wallet (external).
Deposit ==
    /\ wallet < Funds
    /\ wallet' = wallet + TopUp
    /\ UNCHANGED <<tick, obs, items, ops, debited, sends, reads>>

Crash ==
    /\ \E r \in DOMAIN reads : reads[r].pc # "idle"
    /\ reads' = [r \in DOMAIN reads |-> NoRead]
    /\ UNCHANGED <<wallet, tick, obs, items, ops, debited, sends>>

Next ==
    \/ \E r \in Readers \cup Calls : BeginBalanceRead(r) \/ ReadBalance(r) \/ Observe(r)
    \/ \E i \in Items : \/ AcceptItem(i) \/ FundItem(i) \/ RetryItem(i)
                        \/ CancelItem(i) \/ CompleteItem(i)
    \/ \E c \in Calls : RequestWithdrawal(c) \/ CommitWithdrawal(c) \/ SubmitWithdrawal(c)
    \/ \E s \in Spends : Debit(s) \/ Settle(s) \/ FailSend(s)
    \/ Deposit \/ Crash

Spec == Init /\ [][Next]_vars

----------------------------------------------------------------------------
Ticks == 0..MaxTick

\* The type invariant of the budget's rows and of the reads in progress.
TypeOK ==
    /\ wallet \in 0..(Funds + TopUp) /\ tick \in Ticks
    /\ obs \in [spendable: 0..(Funds + TopUp), tick: 1..MaxTick] \cup {Null}
    /\ items \in [Items -> {"none", "running", "action_required", "done"}]
    /\ ops \in [Spends -> [status: {"none", "in_doubt", "completed", "failed", "cancelled"},
                           settled: Ticks \cup {Null}, released: Ticks \cup {Null}]]
    /\ debited \subseteq Spends /\ sends \in [Intents -> Nat]
    /\ reads \in [Readers \cup Calls ->
                    [pc: {"idle", "asked", "answered", "prepared", "submit"},
                     tick: Ticks, spendable: 0..(Funds + TopUp)]]

\* What is owed and has not left the wallet yet.
Owed ==
    Sum({i \in ReservingItems : i \notin debited}
        \cup {w \in Intents : ops[w].status = "in_doubt" /\ w \notin debited})

\* Every accepted item and every committed withdrawal can be paid from what
\* the wallet really holds, the fee reserve kept aside, however balance
\* replies are delayed and reordered around settlements
\* (active_wallet_withdrawal_amount_tx with begin_balance_read).
WalletCoversPromises == Owed = 0 \/ Owed + FeeReserve <= wallet

\* The reservations of accepted items never exceed the operator's explicit
\* allocation cap (plan_allocation).
CapRespected == Sum(ReservingItems) <= ExplicitCap

\* However many calls carry an intent id and wherever the daemon stops, the
\* intent is submitted at most once (request_withdrawal_with_wallet's check
\* inside the insert transaction, in doubt before the send).
IntentSentOnce == \A w \in Intents : sends[w] <= 1

=============================================================================
