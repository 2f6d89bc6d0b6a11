---------------------------- MODULE FlipFunding ----------------------------
(***************************************************************************)
(* How the liquidity manager (FLIP) funds one gateway allocation item of   *)
(* one federation from the provider wallet.  Four parties write the two    *)
(* database rows involved: the gateway worker (gateway_allocation.rs with   *)
(* allocation_funding.rs), the wallet sync worker (funds_admin.rs), the     *)
(* operator's admin verbs (manual_ops.rs) and request acceptance.  The      *)
(* worker holds a snapshot of the item across every await.                  *)
(*                                                                         *)
(* The item id and the operation id are functions of the federation, so a  *)
(* federation whose allocation was released and accepted again meets its    *)
(* old wallet operation; `gen' counts the acceptances.                      *)
(***************************************************************************)
EXTENDS Integers, Sequences, FiniteSets

CONSTANTS MaxGen,   \* bound: acceptances of the federation's allocation
          MaxTxs,   \* bound: sends the wallet really broadcasts
          NoRow     \* no such database row

ASSUME FundingAssumption == MaxGen \in Nat \ {0} /\ MaxTxs \in Nat \ {0}

VARIABLES gen,      \* allocations accepted for this federation so far
          item,     \* the allocation_items row, or NoRow
          op,       \* the wallet_operations row of the item's funding, or NoRow
          worker,   \* the gateway worker's pass
          sync,     \* the wallet sync worker's pass
          admin,    \* an abandon_gateway_item call between its read and its write
          inflight, \* send requests gatewayd has received and not answered
          txs,      \* funding transactions on chain
          misjudged \* an operator declared a send unsent that was not

vars == <<gen, item, op, worker, sync, admin, inflight, txs, misjudged>>
remote == <<inflight, txs, misjudged>>

Active == {"pending", "running"}
Reserving == Active \cup {"action_required"}
Unsettled == {"pending", "broadcast", "confirmed", "in_doubt", "manual_review"}
Bogus == MaxTxs + 1          \* a txid an operator asserts that names no send
Deep == 2                    \* funding_policy.confirmations, reached

FreshStep == [connected |-> FALSE, addr |-> 0, op |-> FALSE, overdue |-> FALSE]
FreshItem == [status |-> "pending", step |-> FreshStep]
IdleWorker == [pc |-> "idle", step |-> FreshStep, read |-> "pending", txid |-> 0]
IdleSync == [pc |-> "idle", status |-> "pending", seen |-> {}]

ItemActive == item # NoRow /\ item.status \in Active

Init ==
    /\ gen = 0 /\ item = NoRow /\ op = NoRow
    /\ worker = IdleWorker /\ sync = IdleSync /\ admin = FALSE
    /\ inflight = <<>> /\ txs = <<>> /\ misjudged = FALSE

----------------------------------------------------------------------------
(* allocation_store.rs: the item writers.  Each is one UPDATE guarded on an  *)
(* active status; a row that moved on makes it a silent no-op.               *)

SetItemStatus(status) ==
    item' = IF ItemActive THEN [item EXCEPT !.status = status] ELSE item

UpdateStep(step) == item' = IF ItemActive THEN [item EXCEPT !.step = step] ELSE item

MoveWorker(pc) == worker' = [worker EXCEPT !.pc = pc]

----------------------------------------------------------------------------
(* The gateway worker, one action per stretch between awaits.                *)

LoadItem ==
    /\ worker.pc = "idle" /\ ItemActive
    /\ worker' = [IdleWorker EXCEPT !.pc = "loaded", !.step = item.step]
    /\ UNCHANGED <<gen, item, op, sync, admin, remote>>

MarkItemRunning ==
    /\ worker.pc = "loaded"
    /\ SetItemStatus("running")
    /\ MoveWorker(IF ItemActive THEN "attach" ELSE "idle")
    /\ UNCHANGED <<gen, op, sync, admin, remote>>

\* The gateway is on the wrong network, refuses the federation or returns no
\* usable deposit address: the item is handed to the operator.
AttachFails ==
    /\ worker.pc \in {"attach", "address"}
    /\ SetItemStatus("action_required") /\ MoveWorker("idle")
    /\ UNCHANGED <<gen, op, sync, admin, remote>>

ConnectGateway ==
    /\ worker.pc = "attach"
    /\ LET step == [worker.step EXCEPT !.connected = TRUE]
       IN /\ worker' = [worker EXCEPT !.pc = "address", !.step = step]
          /\ IF worker.step.connected THEN UNCHANGED item ELSE UpdateStep(step)
    /\ UNCHANGED <<gen, op, sync, admin, remote>>

DepositAddress ==
    /\ worker.pc = "address"
    /\ LET step == [worker.step EXCEPT !.addr = gen]
       IN IF worker.step.addr # 0
          THEN MoveWorker("ensure") /\ UNCHANGED item
          ELSE worker' = [worker EXCEPT !.pc = "ensure", !.step = step] /\ UpdateStep(step)
    /\ UNCHANGED <<gen, op, sync, admin, remote>>

\* ensure_wallet_operation: under the write lock, the item must still be
\* active; an operation that exists for the item id is the item's operation.
EnsureWalletOperation ==
    /\ worker.pc = "ensure"
    /\ IF ~ItemActive
       THEN MoveWorker("idle") /\ UNCHANGED op
       ELSE /\ op' = IF op # NoRow THEN op
                     ELSE [status |-> "pending", addr |-> worker.step.addr,
                           txid |-> 0, exact |-> FALSE]
            /\ worker' = [worker EXCEPT !.pc = "record", !.step.op = TRUE,
                                        !.read = op'.status]
    /\ UNCHANGED <<gen, item, sync, admin, remote>>

\* The operation id is written into the step, then the pass branches on the
\* status the operation had when it was read.
FollowOperation ==
    /\ worker.pc = "record"
    /\ LET status == CASE worker.read = "failed" -> "action_required"
                       [] worker.read = "cancelled" -> "failed"
                       [] OTHER -> item.status
       IN item' = IF ItemActive
                  THEN [item EXCEPT !.step = worker.step, !.status = status] ELSE item
    /\ MoveWorker(CASE worker.read = "pending" -> "prepare"
                    [] worker.read = "completed" -> "attribute"
                    [] OTHER -> "idle")
    /\ UNCHANGED <<gen, op, sync, admin, remote>>

\* prepare_withdrawal is refused: nothing was sent.
PrepareFails ==
    /\ worker.pc = "prepare"
    /\ op' = IF op.status \in {"pending", "in_doubt"}
             THEN [op EXCEPT !.status = "failed"] ELSE op
    /\ SetItemStatus("action_required") /\ MoveWorker("idle")
    /\ UNCHANGED <<gen, sync, admin, remote>>

\* claim_funding_submission: one transaction moves the operation to in_doubt,
\* only from pending and only while the item is active.
FenceHeld == op.status = "pending" /\ ItemActive

ClaimSubmission ==
    /\ worker.pc = "prepare"
    /\ IF FenceHeld
       THEN op' = [op EXCEPT !.status = "in_doubt"] /\ MoveWorker("send")
       ELSE op' = op /\ MoveWorker("idle")
    /\ UNCHANGED <<gen, item, sync, admin, remote>>

Send ==
    /\ worker.pc = "send"
    /\ Len(inflight) + Len(txs) < MaxTxs
    /\ inflight' = Append(inflight, [addr |-> worker.step.addr, gen |-> gen])
    /\ MoveWorker("answer")
    /\ UNCHANGED <<gen, item, op, sync, admin, txs, misjudged>>

\* mark_withdrawal_broadcast
MarkBroadcast ==
    /\ worker.pc = "answer" /\ worker.txid # 0
    /\ op' = IF op.status \in {"pending", "in_doubt", "broadcast", "confirmed"}
             THEN [op EXCEPT !.status = "broadcast",
                             !.txid = IF op.exact THEN @ ELSE worker.txid]
             ELSE op
    /\ MoveWorker("idle")
    /\ UNCHANGED <<gen, item, sync, admin, remote>>

\* mark_operation_in_doubt: gatewayd's answer was lost or was an error.
InDoubtThen(pc) ==
    /\ worker.pc = "answer"
    /\ op' = IF op.status = "pending" THEN [op EXCEPT !.status = "in_doubt"] ELSE op
    /\ MoveWorker(pc)
    /\ UNCHANGED <<gen, item, sync, admin, remote>>

MarkInDoubtAndResend == InDoubtThen("send")

MarkInDoubt == InDoubtThen("idle")

\* complete_if_gateway_funded: the gateway names the operation's transaction
\* as a deposit it claimed, at the output chain evidence recorded if any.
GatewayReportsClaim == op.txid \in DOMAIN txs /\ txs[op.txid].claimed

ReadClaim ==
    /\ worker.pc = "attribute"
    /\ MoveWorker(IF GatewayReportsClaim THEN "complete" ELSE "delay")
    /\ UNCHANGED <<gen, item, op, sync, admin, remote>>

CompleteItem ==
    /\ worker.pc = "complete"
    /\ SetItemStatus("completed") /\ MoveWorker("idle")
    /\ UNCHANGED <<gen, op, sync, admin, remote>>

\* recheck_and_note_delay, below and past the operator's threshold
NoteDelay ==
    /\ worker.pc = "delay"
    /\ \/ UNCHANGED item
       \/ UpdateStep([worker.step EXCEPT !.overdue = TRUE])
    /\ MoveWorker("idle")
    /\ UNCHANGED <<gen, op, sync, admin, remote>>

----------------------------------------------------------------------------
(* sync_chain_evidence: reads the operation, asks the observer, then claims  *)
(* under the write lock, and escalates a send nothing explains.              *)

Evidence ==
    {t \in DOMAIN txs : IF op.txid # 0 THEN t = op.txid
                        ELSE op.status \in {"pending", "in_doubt"} /\ txs[t].addr = op.addr}

SyncRead ==
    /\ sync.pc = "idle" /\ op # NoRow
    /\ op.status \in Unsettled \ {"manual_review"}
    /\ sync' = [pc |-> "claim", status |-> op.status,
                seen |-> {[tx |-> t, conf |-> txs[t].conf] : t \in Evidence}]
    /\ UNCHANGED <<gen, item, op, worker, admin, remote>>

Claimable == op.status \in {"pending", "in_doubt", "broadcast", "confirmed"}

Candidates ==
    IF Claimable
    THEN {e \in sync.seen : txs[e.tx].addr = op.addr /\ op.txid \in {0, e.tx}}
    ELSE {}

StatusAtDepth(conf) ==
    IF conf = Deep THEN "completed" ELSE IF conf > 0 THEN "confirmed" ELSE "broadcast"

ClaimEvidence ==
    /\ sync.pc = "claim" /\ Cardinality(Candidates) = 1
    /\ \E e \in Candidates : op' = [op EXCEPT !.status = StatusAtDepth(e.conf),
                                              !.txid = e.tx, !.exact = TRUE]
    /\ sync' = IdleSync
    /\ UNCHANGED <<gen, item, worker, admin, remote>>

\* No evidence, or ambiguous evidence: the operation waits.
NoEvidence ==
    /\ sync.pc = "claim" /\ Cardinality(Candidates) # 1
    /\ sync' = IdleSync
    /\ UNCHANGED <<gen, item, op, worker, admin, remote>>

\* Past the review threshold a send still in doubt goes to the operator.
Escalate ==
    /\ sync.pc = "claim" /\ Cardinality(Candidates) # 1
    /\ sync.status = "in_doubt"
    /\ op.status = "in_doubt"
    /\ op' = [op EXCEPT !.status = "manual_review"]
    /\ sync' = IdleSync
    /\ UNCHANGED <<gen, item, worker, admin, remote>>

----------------------------------------------------------------------------
(* The operator (manual_ops.rs).  Refused requests change nothing.           *)

RetrySafe == op # NoRow => op.status \in {"pending", "failed"} /\ op.txid = 0

\* The item is waiting for the operator and its wallet operation never left.
Retryable == item # NoRow /\ item.status = "action_required" /\ RetrySafe

\* reset_wallet_operation_tx, for an operation that failed
Requeued ==
    IF op = NoRow \/ op.status = "pending" THEN op
    ELSE [op EXCEPT !.status = "pending", !.txid = 0, !.exact = FALSE]

RetryFundingStep ==
    /\ Retryable
    /\ op' = Requeued
    /\ item' = [item EXCEPT !.status = "pending"]
    /\ UNCHANGED <<gen, worker, sync, admin, remote>>

CancelSafe == op # NoRow => op.status \in {"pending", "failed", "cancelled"}

CancelAllocation ==
    /\ item # NoRow /\ item.status \in Reserving /\ CancelSafe
    /\ op' = IF op = NoRow THEN op ELSE [op EXCEPT !.status = "cancelled"]
    /\ item' = [item EXCEPT !.status = "cancelled"]
    /\ UNCHANGED <<gen, worker, sync, admin, remote>>

\* A send judged not to have happened although it did, or still may.
SendMayExist == inflight \o txs # <<>> \/ worker.pc \in {"send", "answer"}

ResolveManualReview ==
    /\ op # NoRow /\ op.status = "manual_review"
    /\ \/ \E t \in DOMAIN txs :        \* chain_evidence_gap finds none
            /\ txs[t].addr = op.addr
            /\ op' = [op EXCEPT !.status = "completed", !.txid = t]
            /\ UNCHANGED misjudged
       \/ /\ op' = [op EXCEPT !.status = "failed"]
          /\ misjudged' = (misjudged \/ SendMayExist)
       \/ /\ op' = [op EXCEPT !.status = "pending", !.txid = 0, !.exact = FALSE]
          /\ misjudged' = (misjudged \/ SendMayExist)
    /\ UNCHANGED <<gen, item, worker, sync, admin, inflight, txs>>

CompleteReviewWithoutEvidence ==
    /\ op # NoRow /\ op.status = "manual_review"
    /\ \E t \in DOMAIN txs \cup {Bogus} :
         op' = [op EXCEPT !.status = "completed", !.txid = t]
    /\ UNCHANGED <<gen, item, worker, sync, admin, remote>>

\* abandon_gateway_item reads the item, then writes it in a transaction that
\* reads the operation again and is guarded on the item still reserving.
ReadForAbandon ==
    /\ ~admin /\ item # NoRow
    /\ item.status \in Reserving /\ item.step.overdue /\ item.step.op
    /\ admin' = TRUE
    /\ UNCHANGED <<gen, item, op, worker, sync, remote>>

AbandonGuard == item # NoRow /\ item.status \in Reserving /\ op.status = "completed"

AbandonGatewayItem ==
    /\ admin
    /\ item' = IF AbandonGuard THEN [item EXCEPT !.status = "failed"] ELSE item
    /\ admin' = FALSE
    /\ UNCHANGED <<gen, op, worker, sync, remote>>

\* allocation_holding_tx: nothing reserving, nothing unsettled, nothing fulfilled
AllocationIdle ==
    /\ item # NoRow
    /\ item.status \notin Reserving \cup {"completed"}
    /\ op # NoRow => op.status \notin Unsettled

ReleaseAllocation ==
    /\ AllocationIdle
    /\ item' = NoRow
    /\ UNCHANGED <<gen, op, worker, sync, admin, remote>>

\* request_liquidity accepts: no allocation stands, or another requester takes
\* over an idle one in the same transaction.
AcceptRequest ==
    /\ gen < MaxGen
    /\ item # NoRow => AllocationIdle
    /\ gen' = gen + 1 /\ item' = FreshItem
    /\ UNCHANGED <<op, worker, sync, admin, remote>>

----------------------------------------------------------------------------
(* gatewayd, the chain and the host: external.                               *)

SendLands ==
    /\ inflight # <<>>
    /\ txs' = Append(txs, [addr |-> Head(inflight).addr, gen |-> Head(inflight).gen,
                          conf |-> 0, claimed |-> FALSE])
    /\ inflight' = Tail(inflight)
    /\ worker' = IF worker.pc = "answer" /\ Len(inflight) = 1
                 THEN [worker EXCEPT !.txid = Len(txs) + 1] ELSE worker
    /\ UNCHANGED <<gen, item, op, sync, admin, misjudged>>

SendDropped ==
    /\ inflight # <<>>
    /\ inflight' = Tail(inflight)
    /\ UNCHANGED <<gen, item, op, worker, sync, admin, txs, misjudged>>

Confirm ==
    /\ \E t \in DOMAIN txs :
         \/ txs[t].conf < Deep /\ txs' = [txs EXCEPT ![t].conf = @ + 1]
         \/ txs[t].conf = Deep /\ ~txs[t].claimed /\ txs' = [txs EXCEPT ![t].claimed = TRUE]
    /\ UNCHANGED <<gen, item, op, worker, sync, admin, inflight, misjudged>>

\* The daemon stops and starts: passes and calls are lost, rows and requests
\* already at gatewayd are not (recovery.rs only takes an inventory).
Crash ==
    /\ <<worker, sync, admin>> # <<IdleWorker, IdleSync, FALSE>>
    /\ worker' = IdleWorker /\ sync' = IdleSync /\ admin' = FALSE
    /\ UNCHANGED <<gen, item, op, remote>>

Worker ==
    \/ LoadItem \/ MarkItemRunning \/ AttachFails \/ ConnectGateway
    \/ DepositAddress \/ EnsureWalletOperation \/ FollowOperation
    \/ PrepareFails \/ ClaimSubmission \/ Send \/ MarkBroadcast
    \/ MarkInDoubt \/ ReadClaim \/ CompleteItem \/ NoteDelay

Sync == SyncRead \/ ClaimEvidence \/ NoEvidence \/ Escalate

Operator ==
    \/ RetryFundingStep \/ CancelAllocation \/ ResolveManualReview
    \/ CompleteReviewWithoutEvidence \/ ReadForAbandon \/ AbandonGatewayItem
    \/ ReleaseAllocation

Environment == AcceptRequest \/ SendLands \/ SendDropped \/ Confirm \/ Crash

Next == Worker \/ Sync \/ Operator \/ Environment

Spec == Init /\ [][Next]_vars

----------------------------------------------------------------------------
ItemStatuses == Reserving \cup {"completed", "failed", "cancelled"}
OpStatuses == Unsettled \cup {"completed", "failed", "cancelled"}

\* The rows the two tables can hold, none of which is the absence of a row.
StepRow == [connected : BOOLEAN, addr : Nat, op : BOOLEAN, overdue : BOOLEAN]
ItemRow == [status : ItemStatuses, step : StepRow]
OperationRow == [status : OpStatuses, addr : Nat, txid : Nat, exact : BOOLEAN]

ASSUME RowAssumption == NoRow \notin ItemRow /\ NoRow \notin OperationRow

WalletOperation == [status: OpStatuses, addr: 1..MaxGen, txid: 0..Bogus, exact: BOOLEAN]
Steps == [connected: BOOLEAN, addr: 0..MaxGen, op: BOOLEAN, overdue: BOOLEAN]
WorkerPcs == {"idle", "loaded", "attach", "address", "ensure", "record", "prepare",
              "send", "answer", "attribute", "complete", "delay"}

\* The type invariant of the item row, the operation row, the two workers and
\* the chain.
TypeOK ==
    /\ gen \in 0..MaxGen
    /\ item \in [status: ItemStatuses, step: Steps] \cup {NoRow}
    /\ op \in WalletOperation \cup {NoRow}
    /\ worker \in [pc: WorkerPcs, step: Steps, read: OpStatuses, txid: 0..MaxTxs]
    /\ sync \in [pc: {"idle", "claim"}, status: OpStatuses, seen: SUBSET [tx: 1..MaxTxs, conf: 0..Deep]]
    /\ admin \in BOOLEAN /\ misjudged \in BOOLEAN
    /\ Len(inflight) + Len(txs) <= MaxTxs
    /\ \A t \in DOMAIN txs :
         txs[t] \in [addr: 1..MaxGen, gen: 1..MaxGen, conf: 0..Deep, claimed: BOOLEAN]

\* A federation's funding is paid at most once, whatever the two workers, lost
\* answers, restarts, retries, releases and new acceptances do, unless an
\* operator declared a send unsent that had happened or still could
\* (claim_funding_submission's in-doubt-before-send fence).
PaidOnce == Len(inflight) + Len(txs) > 1 => misjudged

\* A cancelled operation was never sent and never will be: cancellation and the
\* send fence exclude each other (cancel_safe_wallet_status against
\* claim_funding_submission), again up to an operator's misjudgement.
CancelledNeverPaid ==
    op # NoRow /\ op.status = "cancelled" /\ ~misjudged
        => inflight = <<>> /\ txs = <<>> /\ worker.pc \notin {"send", "answer"}

\* Funding leaves the wallet once and never for a cancelled operation: both of
\* the above, through every crash, retry, release and operator verdict of
\* allocation_funding.rs, funds_admin.rs and manual_ops.rs.
FundedOnce == PaidOnce /\ CancelledNeverPaid
=============================================================================
