-------------------------- MODULE FlipFundingProofs --------------------------
(***************************************************************************)
(* A federation's gateway is funded once, for any number of acceptances    *)
(* and sends.  The invariant follows the fence: from the moment the worker *)
(* moved the operation to in_doubt, and as long as a send may exist, the   *)
(* operation stays past the fence and no pass of the worker holds an older *)
(* reading of it.                                                          *)
(***************************************************************************)
EXTENDS FlipFunding, TLAPS

WorkerRow == [pc : WorkerPcs, step : StepRow, read : OpStatuses, txid : Nat]
SyncRow == [pc : {"idle", "claim"}, status : OpStatuses, seen : SUBSET [tx : Nat, conf : Nat]]
TxRow == [addr : Nat, gen : Nat, conf : Nat, claimed : BOOLEAN]
SendRow == [addr : Nat, gen : Nat]

Typed ==
  /\ gen \in Nat
  /\ item \in ItemRow \cup {NoRow}
  /\ op \in OperationRow \cup {NoRow}
  /\ worker \in WorkerRow
  /\ sync \in SyncRow
  /\ inflight \in Seq(SendRow) /\ txs \in Seq(TxRow)
  /\ misjudged \in BOOLEAN

\* Whoever works on the operation found its row, and rows are not deleted.
OperationFound ==
  /\ worker.pc \in {"record", "prepare", "send", "answer"} => op # NoRow
  /\ sync.pc = "claim" => op # NoRow

Sends == Len(inflight) + Len(txs)
Sent == Sends > 0 \/ worker.pc \in {"send", "answer"}
PastFence == {"in_doubt", "broadcast", "confirmed", "completed", "manual_review"}

\* The worker's reading of an operation that may be sent.
HoldsPending == worker.pc = "prepare" \/ (worker.pc = "record" /\ worker.read = "pending")

Fenced ==
  /\ Sent => op # NoRow /\ op.status \in PastFence /\ ~HoldsPending
  /\ worker.pc = "send" => Sends = 0
  /\ Sends <= 1

FundingInv == Typed /\ OperationFound /\ (~misjudged => Fenced)

----------------------------------------------------------------------------
(* What the writers leave of the rows.                                      *)

\* set_item_status leaves an item row (or none) behind.
LEMMA StatusStaysTyped ==
  ASSUME NEW status \in ItemStatuses, item \in ItemRow \cup {NoRow}, SetItemStatus(status)
  PROVE  item' \in ItemRow \cup {NoRow}
BY DEF SetItemStatus, ItemActive, ItemRow

\* So does update_step, which writes the step of an active item.
LEMMA StepStaysTyped ==
  ASSUME NEW step \in StepRow, item \in ItemRow \cup {NoRow}, UpdateStep(step)
  PROVE  item' \in ItemRow \cup {NoRow}
BY DEF UpdateStep, ItemActive, ItemRow

\* Both ways an operation row is rewritten keep it an operation row.
LEMMA OperationStaysTyped ==
  ASSUME NEW row \in OperationRow
  PROVE  /\ \A status \in OpStatuses : [row EXCEPT !.status = status] \in OperationRow
         /\ \A status \in OpStatuses :
              [row EXCEPT !.status = status, !.txid = 0, !.exact = FALSE] \in OperationRow
BY DEF OperationRow

\* A worker that only moves on keeps its reading of the operation.
LEMMA WorkerMoves ==
  ASSUME NEW pc \in WorkerPcs, worker \in WorkerRow, MoveWorker(pc)
  PROVE  worker' \in WorkerRow /\ worker'.pc = pc /\ worker'.read = worker.read
BY DEF MoveWorker, WorkerRow

\* The rows a pass, a sync and an acceptance start from are rows.
LEMMA Constants == /\ FreshStep \in StepRow /\ FreshItem \in ItemRow
                   /\ IdleWorker \in WorkerRow /\ IdleWorker.pc = "idle" /\ IdleWorker.step = FreshStep
                   /\ IdleSync \in SyncRow /\ IdleSync.pc = "idle"
                   /\ Bogus \in Nat
<1>1. FreshStep \in StepRow
  BY DEF FreshStep, StepRow
<1>2. FreshItem \in ItemRow
  BY <1>1 DEF FreshItem, ItemRow, ItemStatuses, Reserving, Active
<1>3. IdleWorker \in WorkerRow /\ IdleWorker.pc = "idle" /\ IdleWorker.step = FreshStep
  BY <1>1 DEF IdleWorker, WorkerRow, WorkerPcs, OpStatuses, Unsettled
<1>4. IdleSync \in SyncRow /\ IdleSync.pc = "idle"
  BY DEF IdleSync, SyncRow, OpStatuses, Unsettled
<1>5. Bogus \in Nat
  BY FundingAssumption DEF Bogus
<1> QED BY <1>1, <1>2, <1>3, <1>4, <1>5

\* Initially nothing is accepted, opened or sent.
LEMMA InitInv == Init => FundingInv
<1>1. SUFFICES ASSUME Init PROVE FundingInv
  OBVIOUS
<1>2. inflight \in Seq(SendRow) /\ txs \in Seq(TxRow) /\ Len(inflight) = 0 /\ Len(txs) = 0
  BY <1>1 DEF Init
<1>3. Typed
  BY <1>1, <1>2, Constants DEF Init, Typed
<1>4. OperationFound
  BY <1>1, Constants DEF Init, OperationFound
<1>5. Fenced
  BY <1>1, <1>2, Constants DEF Init, Fenced, Sent, Sends
<1> QED BY <1>3, <1>4, <1>5 DEF FundingInv

----------------------------------------------------------------------------
(* Steps that leave the operation and the chain alone.  A pass of the      *)
(* worker may then only come to hold "pending" by reading it.              *)

\* A step that leaves the operation and gatewayd alone keeps the fence.
LEMMA QuietKeeps ==
  ASSUME FundingInv, Typed', UNCHANGED <<op, remote>>,
         worker'.pc \in {"record", "prepare", "send", "answer"} =>
            worker' = worker \/ (HoldsPending /\ worker'.pc = "prepare"),
         sync'.pc = "claim" => op # NoRow
  PROVE  FundingInv'
<1>1. OperationFound'
  BY DEF FundingInv, OperationFound, HoldsPending
<1>2. UNCHANGED <<inflight, txs, misjudged>> /\ Sends' = Sends
  BY DEF remote, Sends
<1>3. ASSUME ~misjudged PROVE Fenced'
  <2>1. Fenced
    BY <1>3 DEF FundingInv
  <2>2. Sent' => Sent
    BY <1>2 DEF Sent
  <2>3. Sent' => ~HoldsPending'
    BY <2>1, <2>2 DEF Fenced, HoldsPending
  <2> QED BY <1>2, <2>1, <2>2, <2>3 DEF Fenced
<1> QED BY <1>1, <1>2, <1>3 DEF FundingInv

\* The worker's steps that do not write the operation keep the invariant.
LEMMA QuietWorker ==
  FundingInv /\ (LoadItem \/ MarkItemRunning \/ AttachFails \/ ConnectGateway \/ DepositAddress
                 \/ FollowOperation \/ ReadClaim \/ CompleteItem \/ NoteDelay) => FundingInv'
<1> SUFFICES ASSUME FundingInv,
                    LoadItem \/ MarkItemRunning \/ AttachFails \/ ConnectGateway \/ DepositAddress
                      \/ FollowOperation \/ ReadClaim \/ CompleteItem \/ NoteDelay
             PROVE  FundingInv'
  OBVIOUS
<1>1. /\ gen \in Nat /\ item \in ItemRow \cup {NoRow} /\ worker \in WorkerRow
      /\ worker.step \in StepRow
  BY DEF FundingInv, Typed, WorkerRow
<1>2. UNCHANGED <<gen, op, sync, remote>>
  BY DEF LoadItem, MarkItemRunning, AttachFails, ConnectGateway, DepositAddress, FollowOperation,
         ReadClaim, CompleteItem, NoteDelay
<1>3. SUFFICES /\ item' \in ItemRow \cup {NoRow} /\ worker' \in WorkerRow
               /\ worker'.pc \in {"record", "prepare", "send", "answer"} =>
                    worker' = worker \/ (HoldsPending /\ worker'.pc = "prepare")
  <2>1. Typed'
    BY <1>2, <1>3 DEF FundingInv, Typed, remote
  <2>2. sync'.pc = "claim" => op # NoRow
    BY <1>2 DEF FundingInv, OperationFound
  <2> QED BY <1>2, <1>3, <2>1, <2>2, QuietKeeps
<1>4. CASE LoadItem
  <2>1. item \in ItemRow /\ item.step \in StepRow
    BY <1>1, <1>4 DEF LoadItem, ItemActive, ItemRow
  <2>2. worker' = [IdleWorker EXCEPT !.pc = "loaded", !.step = item.step] /\ item' = item
    BY <1>4 DEF LoadItem
  <2> QED BY <1>1, <2>1, <2>2, Constants DEF WorkerRow, WorkerPcs
<1>5. CASE MarkItemRunning \/ AttachFails \/ CompleteItem
  <2>1. \E st \in ItemStatuses : SetItemStatus(st)
    BY <1>5 DEF MarkItemRunning, AttachFails, CompleteItem, ItemStatuses, Reserving, Active
  <2>2. item' \in ItemRow \cup {NoRow}
    BY <1>1, <2>1, StatusStaysTyped
  <2>3. MoveWorker("idle") \/ MoveWorker("attach")
    BY <1>5 DEF MarkItemRunning, AttachFails, CompleteItem
  <2> QED BY <1>1, <2>2, <2>3, WorkerMoves DEF WorkerPcs
<1>6. CASE ConnectGateway
  <2> DEFINE step == [worker.step EXCEPT !.connected = TRUE]
  <2>1. step \in StepRow
    BY <1>1 DEF StepRow
  <2>2. worker' = [worker EXCEPT !.pc = "address", !.step = step] /\ (item' = item \/ UpdateStep(step))
    BY <1>6 DEF ConnectGateway
  <2> HIDE DEF step
  <2>3. item' \in ItemRow \cup {NoRow}
    BY <1>1, <2>1, <2>2, StepStaysTyped
  <2>4. worker' \in WorkerRow /\ worker'.pc = "address"
    BY <1>1, <2>1, <2>2 DEF WorkerRow, WorkerPcs
  <2> QED BY <2>3, <2>4
<1>7. CASE DepositAddress
  <2> DEFINE step == [worker.step EXCEPT !.addr = gen]
  <2>1. step \in StepRow
    BY <1>1 DEF StepRow
  <2>2. \/ MoveWorker("ensure") /\ item' = item
        \/ worker' = [worker EXCEPT !.pc = "ensure", !.step = step] /\ UpdateStep(step)
    BY <1>7 DEF DepositAddress
  <2> HIDE DEF step
  <2>3. item' \in ItemRow \cup {NoRow}
    BY <1>1, <2>1, <2>2, StepStaysTyped
  <2>4. worker' \in WorkerRow /\ worker'.pc = "ensure"
    BY <1>1, <2>1, <2>2, WorkerMoves DEF WorkerRow, WorkerPcs
  <2> QED BY <2>3, <2>4
<1>8. CASE FollowOperation
  <2> DEFINE status == CASE worker.read = "failed" -> "action_required"
                         [] worker.read = "cancelled" -> "failed"
                         [] OTHER -> item.status
  <2>1. item' = IF ItemActive THEN [item EXCEPT !.step = worker.step, !.status = status] ELSE item
    BY <1>8 DEF FollowOperation
  <2>2. ItemActive => status \in ItemStatuses
    BY <1>1 DEF ItemActive, ItemRow, ItemStatuses, Reserving, Active
  <2> HIDE DEF status
  <2>3. item' \in ItemRow \cup {NoRow}
    BY <1>1, <2>1, <2>2 DEF ItemActive, ItemRow
  <2>4. \/ worker.read = "pending" /\ MoveWorker("prepare")
        \/ MoveWorker("attribute") \/ MoveWorker("idle")
    BY <1>8 DEF FollowOperation
  <2>5. worker.pc = "record"
    BY <1>8 DEF FollowOperation
  <2> QED BY <1>1, <2>3, <2>4, <2>5, WorkerMoves DEF HoldsPending, WorkerPcs
<1>9. CASE ReadClaim
  <2>1. item' = item /\ (MoveWorker("complete") \/ MoveWorker("delay"))
    BY <1>9 DEF ReadClaim
  <2> QED BY <1>1, <2>1, WorkerMoves DEF WorkerPcs
<1>10. CASE NoteDelay
  <2> DEFINE step == [worker.step EXCEPT !.overdue = TRUE]
  <2>1. step \in StepRow
    BY <1>1 DEF StepRow
  <2>2. MoveWorker("idle") /\ (item' = item \/ UpdateStep(step))
    BY <1>10 DEF NoteDelay
  <2> HIDE DEF step
  <2>3. item' \in ItemRow \cup {NoRow}
    BY <1>1, <2>1, <2>2, StepStaysTyped
  <2> QED BY <1>1, <2>2, <2>3, WorkerMoves DEF WorkerPcs
<1> QED BY <1>4, <1>5, <1>6, <1>7, <1>8, <1>9, <1>10

\* So do the sync's reads, an abandonment, a release and an acceptance.
LEMMA QuietElsewhere ==
  FundingInv /\ (SyncRead \/ NoEvidence \/ ReadForAbandon \/ AbandonGatewayItem \/ ReleaseAllocation
                 \/ AcceptRequest) => FundingInv'
<1> SUFFICES ASSUME FundingInv,
                    SyncRead \/ NoEvidence \/ ReadForAbandon \/ AbandonGatewayItem \/ ReleaseAllocation
                      \/ AcceptRequest
             PROVE  FundingInv'
  OBVIOUS
<1>1. UNCHANGED <<op, worker, remote>>
  BY DEF SyncRead, NoEvidence, ReadForAbandon, AbandonGatewayItem, ReleaseAllocation, AcceptRequest
<1>2. SUFFICES gen' \in Nat /\ item' \in ItemRow \cup {NoRow} /\ sync' \in SyncRow /\ (sync'.pc = "claim" => op # NoRow)
  <2>1. Typed'
    BY <1>1, <1>2 DEF FundingInv, Typed, remote
  <2> QED BY <1>1, <1>2, <2>1, QuietKeeps
<1>3. /\ gen \in Nat /\ item \in ItemRow \cup {NoRow} /\ sync \in SyncRow
      /\ sync.pc = "claim" => op # NoRow
  BY DEF FundingInv, Typed, OperationFound
<1>4. CASE SyncRead
  <2>1. op # NoRow /\ op.status \in OpStatuses /\ gen' = gen /\ item' = item
    BY <1>4 DEF SyncRead, OpStatuses
  <2> DEFINE seen == {[tx |-> t, conf |-> txs[t].conf] : t \in Evidence}
  <2>2. ASSUME NEW t \in Evidence PROVE t \in Nat /\ txs[t].conf \in Nat
    <3>1. t \in DOMAIN txs /\ txs \in Seq(TxRow)
      BY DEF Evidence, FundingInv, Typed
    <3>2. t \in Nat /\ txs[t] \in TxRow
      BY <3>1
    <3> QED BY <3>2 DEF TxRow
  <2>3. seen \in SUBSET [tx : Nat, conf : Nat]
    BY <2>2
  <2> HIDE DEF seen
  <2>4. sync' = [pc |-> "claim", status |-> op.status, seen |-> seen]
    BY <1>4 DEF SyncRead, seen
  <2>5. sync' \in SyncRow
    BY <2>1, <2>3, <2>4 DEF SyncRow
  <2> QED BY <1>3, <2>1, <2>5
<1>5. CASE NoEvidence
  BY <1>3, <1>5, Constants DEF NoEvidence
<1>6. CASE ReadForAbandon
  BY <1>3, <1>6 DEF ReadForAbandon
<1>7. CASE AbandonGatewayItem
  <2>1. item' \in ItemRow \cup {NoRow}
    BY <1>3, <1>7 DEF AbandonGatewayItem, AbandonGuard, ItemRow, ItemStatuses
  <2> QED BY <1>3, <1>7, <2>1 DEF AbandonGatewayItem
<1>8. CASE ReleaseAllocation
  BY <1>3, <1>8 DEF ReleaseAllocation
<1>9. CASE AcceptRequest
  BY <1>3, <1>9, Constants DEF AcceptRequest
<1> QED BY <1>4, <1>5, <1>6, <1>7, <1>8, <1>9

----------------------------------------------------------------------------
(* Steps that write the operation.  Once something may have been sent they *)
(* keep it past the fence, or the operator has misjudged.                  *)

\* A write keeps the invariant if what may be sent stays past the fence.
LEMMA WriteKeeps ==
  ASSUME FundingInv, Typed', op' # NoRow, UNCHANGED <<inflight, txs>>,
         worker'.pc \in {"record", "prepare", "send", "answer"} => worker' = worker,
         ~misjudged' => ~misjudged /\ (Sent => op'.status \in PastFence)
  PROVE  FundingInv'
<1>1. OperationFound'
  BY DEF OperationFound
<1>2. Sends' = Sends
  BY DEF Sends
<1>3. ASSUME ~misjudged' PROVE Fenced'
  <2>1. Fenced /\ (Sent => op'.status \in PastFence)
    BY <1>3 DEF FundingInv
  <2>2. Sent' => Sent
    BY <1>2 DEF Sent
  <2>3. Sent' => ~HoldsPending'
    BY <2>1, <2>2 DEF Fenced, HoldsPending
  <2> QED BY <1>2, <2>1, <2>2, <2>3 DEF Fenced
<1> QED BY <1>1, <1>3 DEF FundingInv

\* sync_chain_evidence moves an operation forward or to manual_review.
LEMMA SyncWrites == FundingInv /\ (ClaimEvidence \/ Escalate) => FundingInv'
<1> SUFFICES ASSUME FundingInv, ClaimEvidence \/ Escalate PROVE FundingInv'
  OBVIOUS
<1>1. /\ UNCHANGED <<gen, item, worker, remote>> /\ sync' = IdleSync
      /\ sync.pc = "claim"
  BY DEF ClaimEvidence, Escalate
<1>2. op \in OperationRow
  BY <1>1 DEF FundingInv, Typed, OperationFound
<1>3. op' \in OperationRow /\ op'.status \in PastFence
  <2>1. CASE Escalate
    BY <1>2, <2>1 DEF Escalate, OperationRow, OpStatuses, Unsettled, PastFence
  <2>2. CASE ClaimEvidence
    <3>1. PICK e \in Candidates : op' = [op EXCEPT !.status = StatusAtDepth(e.conf), !.txid = e.tx, !.exact = TRUE]
      BY <2>2 DEF ClaimEvidence
    <3>2. e.tx \in Nat
      <4>1. sync.seen \subseteq [tx : Nat, conf : Nat]
        BY DEF FundingInv, Typed, SyncRow
      <4>2. e \in sync.seen
        BY DEF Candidates
      <4> QED BY <4>1, <4>2
    <3>3. StatusAtDepth(e.conf) \in {"completed", "confirmed", "broadcast"}
      BY DEF StatusAtDepth
    <3> QED BY <1>2, <3>1, <3>2, <3>3 DEF OperationRow, OpStatuses, Unsettled, PastFence
  <2> QED BY <2>1, <2>2
<1>4. Typed'
  BY <1>1, <1>3, Constants DEF FundingInv, Typed, remote
<1>5. op' # NoRow
  BY <1>3, RowAssumption
<1> QED BY <1>1, <1>3, <1>4, <1>5, WriteKeeps DEF remote

\* The operator reopens an operation where nothing was sent, or misjudges.
LEMMA OperatorWrites ==
  FundingInv /\ (RetryFundingStep \/ CancelAllocation \/ ResolveManualReview
                 \/ CompleteReviewWithoutEvidence) => FundingInv'
<1> SUFFICES ASSUME FundingInv,
                    RetryFundingStep \/ CancelAllocation \/ ResolveManualReview
                      \/ CompleteReviewWithoutEvidence
             PROVE  FundingInv'
  OBVIOUS
<1>1. UNCHANGED <<gen, worker, sync, inflight, txs>>
  BY DEF RetryFundingStep, CancelAllocation, ResolveManualReview, CompleteReviewWithoutEvidence, remote
<1>2. item \in ItemRow \cup {NoRow} /\ op \in OperationRow \cup {NoRow} /\ misjudged \in BOOLEAN
  BY DEF FundingInv, Typed
<1>3. ~misjudged /\ Sent => op # NoRow /\ op.status \in PastFence
  BY DEF FundingInv, Fenced
<1>4. CASE RetryFundingStep \/ CancelAllocation
  <2>1. item' \in ItemRow /\ UNCHANGED remote
    BY <1>2, <1>4 DEF RetryFundingStep, Retryable, CancelAllocation, ItemRow, ItemStatuses, Reserving, Active
  <2>2. CASE op = NoRow
    <3>1. op' = op
      BY <1>4, <2>2 DEF RetryFundingStep, Requeued, CancelAllocation
    <3>2. Typed'
      BY <1>1, <2>1, <3>1 DEF FundingInv, Typed, remote
    <3>3. sync'.pc = "claim" => op # NoRow
      BY <1>1 DEF FundingInv, OperationFound
    <3> QED BY <1>1, <2>1, <3>1, <3>2, <3>3, QuietKeeps
  <2>3. CASE op # NoRow
    <3>1. op' \in OperationRow
      <4>1. op \in OperationRow
        BY <1>2, <2>3
      <4>2. \/ op' = op
            \/ op' = [op EXCEPT !.status = "pending", !.txid = 0, !.exact = FALSE]
            \/ op' = [op EXCEPT !.status = "cancelled"]
        BY <1>4, <2>3 DEF RetryFundingStep, Requeued, CancelAllocation
      <4> QED BY <4>1, <4>2, OperationStaysTyped DEF OpStatuses, Unsettled
    <3>2. op.status \in {"pending", "failed", "cancelled"}
      BY <1>4, <2>3 DEF RetryFundingStep, Retryable, RetrySafe, CancelAllocation, CancelSafe
    <3>3. ~misjudged => ~Sent
      BY <1>3, <3>2 DEF PastFence
    <3>4. Typed'
      BY <1>1, <2>1, <3>1 DEF FundingInv, Typed, remote
    <3>5. op' # NoRow /\ misjudged' = misjudged
      BY <2>1, <3>1, RowAssumption DEF remote
    <3> QED BY <1>1, <3>3, <3>4, <3>5, WriteKeeps
  <2> QED BY <2>2, <2>3
<1>5. CASE CompleteReviewWithoutEvidence
  <2>1. op \in OperationRow /\ UNCHANGED <<item, misjudged>>
    BY <1>2, <1>5 DEF CompleteReviewWithoutEvidence, remote
  <2>2. PICK t \in DOMAIN txs \cup {Bogus} : op' = [op EXCEPT !.status = "completed", !.txid = t]
    BY <1>5 DEF CompleteReviewWithoutEvidence
  <2>3. t \in Nat
    BY Constants DEF FundingInv, Typed
  <2>4. op' \in OperationRow /\ op'.status \in PastFence
    BY <2>1, <2>2, <2>3 DEF OperationRow, OpStatuses, PastFence
  <2>5. Typed' /\ op' # NoRow
    BY <1>1, <2>1, <2>4, RowAssumption DEF FundingInv, Typed
  <2> QED BY <1>1, <2>1, <2>4, <2>5, WriteKeeps
<1>6. CASE ResolveManualReview
  <2>1. op \in OperationRow /\ UNCHANGED item
    BY <1>2, <1>6 DEF ResolveManualReview
  <2>2. CASE \E t \in DOMAIN txs : op' = [op EXCEPT !.status = "completed", !.txid = t] /\ UNCHANGED misjudged
    <3>1. PICK t \in DOMAIN txs : op' = [op EXCEPT !.status = "completed", !.txid = t] /\ UNCHANGED misjudged
      BY <2>2
    <3>2. t \in Nat
      BY DEF FundingInv, Typed
    <3>3. op' \in OperationRow /\ op'.status \in PastFence
      BY <2>1, <3>1, <3>2 DEF OperationRow, OpStatuses, PastFence
    <3>4. Typed' /\ op' # NoRow
      BY <1>1, <2>1, <3>1, <3>3, RowAssumption DEF FundingInv, Typed
    <3> QED BY <1>1, <3>1, <3>3, <3>4, WriteKeeps
  <2>3. CASE /\ \/ op' = [op EXCEPT !.status = "failed"]
                \/ op' = [op EXCEPT !.status = "pending", !.txid = 0, !.exact = FALSE]
             /\ misjudged' = (misjudged \/ SendMayExist)
    <3>1. op' \in OperationRow
      BY <2>1, <2>3, OperationStaysTyped DEF OpStatuses, Unsettled
    <3>2. misjudged' \in BOOLEAN /\ (misjudged => misjudged') /\ (SendMayExist => misjudged')
      BY <1>2, <2>3, Zenon
    <3>3. Sent => SendMayExist
      <4>1. inflight \o txs \in Seq(SendRow \cup TxRow) /\ Len(inflight \o txs) = Len(inflight) + Len(txs)
        BY DEF FundingInv, Typed
      <4>2. Sends > 0 => inflight \o txs # <<>>
        BY <4>1 DEF Sends
      <4> QED BY <4>2 DEF Sent, SendMayExist
    <3>4. Typed' /\ op' # NoRow
      BY <1>1, <2>1, <3>1, <3>2, RowAssumption DEF FundingInv, Typed
    <3> QED BY <1>1, <3>2, <3>3, <3>4, WriteKeeps
  <2> QED BY <1>6, <2>2, <2>3 DEF ResolveManualReview
<1> QED BY <1>4, <1>5, <1>6

\* A failed preparation, an answer and a lost answer keep the invariant.
LEMMA WorkerWrites ==
  FundingInv /\ (PrepareFails \/ MarkBroadcast \/ MarkInDoubt) => FundingInv'
<1> SUFFICES ASSUME FundingInv, PrepareFails \/ MarkBroadcast \/ MarkInDoubt PROVE FundingInv'
  OBVIOUS
<1>1. /\ UNCHANGED <<gen, sync, remote>> /\ MoveWorker("idle")
      /\ worker.pc \in {"prepare", "answer"}
  BY DEF PrepareFails, MarkBroadcast, MarkInDoubt, InDoubtThen
<1>2. worker' \in WorkerRow /\ worker'.pc = "idle"
  BY <1>1, WorkerMoves DEF FundingInv, Typed, WorkerPcs
<1>3. op \in OperationRow /\ worker \in WorkerRow
  BY <1>1 DEF FundingInv, Typed, OperationFound
<1>4. item' \in ItemRow \cup {NoRow}
  <2>1. CASE PrepareFails
    BY <2>1, StatusStaysTyped DEF PrepareFails, FundingInv, Typed, ItemStatuses, Reserving
  <2>2. CASE MarkBroadcast \/ MarkInDoubt
    BY <2>2 DEF MarkBroadcast, MarkInDoubt, InDoubtThen, FundingInv, Typed
  <2> QED BY <2>1, <2>2
<1>5. op' \in OperationRow /\ (op'.status = op.status \/ op'.status \in PastFence \/ worker.pc = "prepare")
  <2>1. CASE PrepareFails
    BY <1>3, <2>1 DEF PrepareFails, OperationRow, OpStatuses
  <2>2. CASE MarkBroadcast
    BY <1>3, <2>2 DEF MarkBroadcast, OperationRow, WorkerRow, OpStatuses, Unsettled, PastFence
  <2>3. CASE MarkInDoubt
    BY <1>3, <2>3 DEF MarkInDoubt, InDoubtThen, OperationRow, OpStatuses, Unsettled, PastFence
  <2> QED BY <2>1, <2>2, <2>3
<1>6. ~misjudged => (Sent => op'.status \in PastFence)
  BY <1>5 DEF FundingInv, Fenced, HoldsPending
<1>7. Typed' /\ op' # NoRow
  BY <1>1, <1>2, <1>4, <1>5, RowAssumption DEF FundingInv, Typed, remote
<1> QED BY <1>1, <1>2, <1>6, <1>7, WriteKeeps DEF remote

\* A pass reads the operation, or opens it where there is none.
LEMMA EnsureKeeps == FundingInv /\ EnsureWalletOperation => FundingInv'
<1> SUFFICES ASSUME FundingInv, EnsureWalletOperation PROVE FundingInv'
  OBVIOUS
<1>1. /\ UNCHANGED <<gen, item, sync, remote>> /\ worker.pc = "ensure"
      /\ worker \in WorkerRow /\ worker.step \in StepRow /\ op \in OperationRow \cup {NoRow}
  BY DEF EnsureWalletOperation, FundingInv, Typed, WorkerRow
<1>2. CASE ~ItemActive
  <2>1. MoveWorker("idle") /\ op' = op
    BY <1>2 DEF EnsureWalletOperation
  <2>2. worker' \in WorkerRow /\ worker'.pc = "idle"
    BY <1>1, <2>1, WorkerMoves DEF WorkerPcs
  <2>3. Typed' /\ (sync'.pc = "claim" => op # NoRow)
    BY <1>1, <2>1, <2>2 DEF FundingInv, Typed, OperationFound, remote
  <2> QED BY <1>1, <2>1, <2>2, <2>3, QuietKeeps
<1>3. CASE ItemActive
  <2>1. /\ op' = IF op # NoRow THEN op
                 ELSE [status |-> "pending", addr |-> worker.step.addr, txid |-> 0, exact |-> FALSE]
        /\ worker' = [worker EXCEPT !.pc = "record", !.step.op = TRUE, !.read = op'.status]
    BY <1>3 DEF EnsureWalletOperation
  <2>2. op' \in OperationRow
    BY <1>1, <2>1 DEF OperationRow, StepRow, OpStatuses, Unsettled
  <2>3. op' # NoRow /\ op'.status \in OpStatuses
    BY <2>2, RowAssumption DEF OperationRow
  <2>4. worker' \in WorkerRow /\ worker'.pc = "record" /\ worker'.read = op'.status
    BY <1>1, <2>1, <2>3 DEF WorkerRow, WorkerPcs, StepRow
  <2>5. Typed'
    BY <1>1, <2>2, <2>4 DEF FundingInv, Typed, remote
  <2>6. OperationFound'
    BY <2>3 DEF OperationFound
  <2>7. misjudged' = misjudged /\ Sends' = Sends
    BY <1>1 DEF remote, Sends
  <2>8. ASSUME ~misjudged PROVE Fenced'
    <3>1. Fenced /\ (Sent' => Sent)
      BY <2>4, <2>7, <2>8 DEF FundingInv, Sent
    <3>2. Sent => op' = op
      BY <2>1, <3>1 DEF Fenced
    <3>3. Sent' => op'.status \in PastFence /\ ~HoldsPending'
      BY <2>4, <3>1, <3>2 DEF Fenced, HoldsPending, PastFence
    <3> QED BY <2>3, <2>4, <2>7, <3>1, <3>3 DEF Fenced
  <2> QED BY <2>5, <2>6, <2>7, <2>8 DEF FundingInv
<1> QED BY <1>2, <1>3

\* The fence: in_doubt is written in the transaction that lets the send go.
LEMMA ClaimKeeps == FundingInv /\ ClaimSubmission => FundingInv'
<1> SUFFICES ASSUME FundingInv, ClaimSubmission PROVE FundingInv'
  OBVIOUS
<1>1. /\ UNCHANGED <<gen, item, sync, remote>> /\ worker.pc = "prepare"
      /\ worker \in WorkerRow /\ op \in OperationRow
  BY DEF ClaimSubmission, FundingInv, Typed, OperationFound
<1>2. ~misjudged => ~Sent
  BY <1>1 DEF FundingInv, Fenced, HoldsPending
<1>3. PICK pc \in {"send", "idle"} : /\ MoveWorker(pc)
                                     /\ op' = IF pc = "send" THEN [op EXCEPT !.status = "in_doubt"] ELSE op
  BY DEF ClaimSubmission
<1>4. op' \in OperationRow /\ (pc = "send" => op'.status \in PastFence)
  BY <1>1, <1>3 DEF OperationRow, OpStatuses, Unsettled, PastFence
<1>5. worker' \in WorkerRow /\ worker'.pc = pc
  BY <1>1, <1>3, WorkerMoves DEF WorkerPcs
<1>6. Typed' /\ op' # NoRow
  BY <1>1, <1>4, <1>5, RowAssumption DEF FundingInv, Typed, remote
<1>7. OperationFound'
  BY <1>6 DEF OperationFound
<1>8. misjudged' = misjudged /\ Sends' = Sends
  BY <1>1 DEF remote, Sends
<1>9. ASSUME ~misjudged PROVE Fenced'
  <2>1. inflight \in Seq(SendRow) /\ txs \in Seq(TxRow)
    BY DEF FundingInv, Typed
  <2>2. Sends = 0
    BY <1>2, <1>9, <2>1 DEF Sent, Sends
  <2> QED BY <1>4, <1>5, <1>6, <1>8, <2>2 DEF Fenced, Sent, HoldsPending
<1> QED BY <1>6, <1>7, <1>8, <1>9 DEF FundingInv

\* The send behind the fence is the first one.
LEMMA SendKeeps == FundingInv /\ Send => FundingInv'
<1> SUFFICES ASSUME FundingInv, Send PROVE FundingInv'
  OBVIOUS
<1>1. /\ UNCHANGED <<gen, item, op, sync, txs, misjudged>> /\ worker.pc = "send" /\ MoveWorker("answer")
      /\ worker \in WorkerRow /\ worker.step \in StepRow /\ gen \in Nat /\ inflight \in Seq(SendRow) /\ txs \in Seq(TxRow)
  BY DEF Send, FundingInv, Typed, WorkerRow
<1> DEFINE s == [addr |-> worker.step.addr, gen |-> gen]
<1>2. s \in SendRow /\ inflight' = Append(inflight, s)
  BY <1>1 DEF Send, SendRow, StepRow
<1> HIDE DEF s
<1>3. inflight' \in Seq(SendRow) /\ Len(inflight') = Len(inflight) + 1
  BY <1>1, <1>2
<1>4. worker' \in WorkerRow /\ worker'.pc = "answer"
  BY <1>1, WorkerMoves DEF WorkerPcs
<1>5. Typed'
  BY <1>1, <1>3, <1>4 DEF FundingInv, Typed
<1>6. OperationFound'
  BY <1>1 DEF FundingInv, OperationFound
<1>7. ASSUME ~misjudged PROVE Fenced'
  <2>1. Fenced /\ Sent /\ Sends = 0
    BY <1>1, <1>7 DEF FundingInv, Fenced, Sent
  <2>2. Sends' = 1
    BY <1>1, <1>3, <2>1 DEF Sends
  <2> QED BY <1>1, <1>4, <2>1, <2>2 DEF Fenced, HoldsPending
<1> QED BY <1>1, <1>5, <1>6, <1>7 DEF FundingInv

----------------------------------------------------------------------------
(* Gatewayd, the chain and the host.                                        *)

\* A send that lands, is dropped or confirms is still the one send.
LEMMA RemoteKeeps == FundingInv /\ (SendLands \/ SendDropped \/ Confirm) => FundingInv'
<1> SUFFICES ASSUME FundingInv, SendLands \/ SendDropped \/ Confirm PROVE FundingInv'
  OBVIOUS
<1>1. UNCHANGED <<gen, item, op, sync, misjudged>>
  BY DEF SendLands, SendDropped, Confirm
<1>2. inflight \in Seq(SendRow) /\ txs \in Seq(TxRow) /\ worker \in WorkerRow
  BY DEF FundingInv, Typed
<1>3. inflight' \in Seq(SendRow) /\ txs' \in Seq(TxRow) /\ Sends' <= Sends /\ (Sends' > 0 => Sends > 0)
  <2>1. CASE SendLands
    <3>1. inflight # <<>> /\ Head(inflight) \in SendRow /\ inflight' = Tail(inflight)
      BY <1>2, <2>1 DEF SendLands
    <3>2. inflight' \in Seq(SendRow) /\ Len(inflight') = Len(inflight) - 1 /\ Len(inflight) > 0
      BY <1>2, <3>1
    <3> DEFINE t == [addr |-> Head(inflight).addr, gen |-> Head(inflight).gen, conf |-> 0, claimed |-> FALSE]
    <3>3. t \in TxRow /\ txs' = Append(txs, t)
      BY <2>1, <3>1 DEF SendLands, SendRow, TxRow
    <3> HIDE DEF t
    <3>4. txs' \in Seq(TxRow) /\ Len(txs') = Len(txs) + 1
      BY <1>2, <3>3
    <3> QED BY <1>2, <3>2, <3>4 DEF Sends
  <2>2. CASE SendDropped
    <3>1. inflight # <<>> /\ inflight' = Tail(inflight) /\ txs' = txs
      BY <2>2 DEF SendDropped
    <3>2. inflight' \in Seq(SendRow) /\ Len(inflight') = Len(inflight) - 1 /\ Len(inflight) > 0
      BY <1>2, <3>1
    <3> QED BY <1>2, <3>1, <3>2 DEF Sends
  <2>3. CASE Confirm
    <3>1. inflight' = inflight
      BY <2>3 DEF Confirm
    <3>2. PICK t \in DOMAIN txs : \/ txs' = [txs EXCEPT ![t].conf = @ + 1]
                                  \/ txs' = [txs EXCEPT ![t].claimed = TRUE]
      BY <2>3 DEF Confirm
    <3>3. txs[t] \in TxRow
      BY <1>2
    <3>4. \E r \in TxRow : txs' = [txs EXCEPT ![t] = r]
      <4>1. [txs[t] EXCEPT !.conf = txs[t].conf + 1] \in TxRow
        BY <3>3 DEF TxRow
      <4>2. [txs[t] EXCEPT !.claimed = TRUE] \in TxRow
        BY <3>3 DEF TxRow
      <4> QED BY <3>2, <4>1, <4>2
    <3>5. txs' \in Seq(TxRow) /\ Len(txs') = Len(txs)
      BY <1>2, <3>4
    <3> QED BY <1>2, <3>1, <3>5 DEF Sends
  <2> QED BY <2>1, <2>2, <2>3
<1>4. worker' \in WorkerRow /\ worker'.pc = worker.pc /\ worker'.read = worker.read
  <2>1. CASE SendLands
    <3>1. Len(txs) + 1 \in Nat
      BY <1>2
    <3> QED BY <1>2, <2>1, <3>1 DEF SendLands, WorkerRow
  <2>2. CASE SendDropped \/ Confirm
    BY <1>2, <2>2 DEF SendDropped, Confirm
  <2> QED BY <2>1, <2>2
<1>5. Typed'
  BY <1>1, <1>3, <1>4 DEF FundingInv, Typed
<1>6. OperationFound'
  BY <1>1, <1>4 DEF FundingInv, OperationFound
<1>7. ASSUME ~misjudged PROVE Fenced'
  <2>1. Fenced /\ (Sent' => Sent)
    BY <1>3, <1>4, <1>7 DEF FundingInv, Sent
  <2>2. Sends \in Nat /\ Sends' \in Nat
    BY <1>2, <1>3 DEF Sends
  <2>3. Sends' <= 1 /\ (worker'.pc = "send" => Sends' = 0)
    BY <1>3, <1>4, <2>1, <2>2 DEF Fenced
  <2> QED BY <1>1, <1>4, <2>1, <2>3 DEF Fenced, HoldsPending
<1> QED BY <1>1, <1>5, <1>6, <1>7 DEF FundingInv

\* A restart forgets the readings and nothing else.
LEMMA CrashKeeps == FundingInv /\ Crash => FundingInv'
<1> SUFFICES ASSUME FundingInv, Crash PROVE FundingInv'
  OBVIOUS
<1>1. UNCHANGED <<gen, item, op, remote>> /\ worker' = IdleWorker /\ sync' = IdleSync
  BY DEF Crash
<1>2. Typed'
  BY <1>1, Constants DEF FundingInv, Typed, remote
<1> QED BY <1>1, <1>2, Constants, QuietKeeps

\* Every step keeps the invariant.
LEMMA NextKeeps == FundingInv /\ [Next]_vars => FundingInv'
<1>1. SUFFICES ASSUME FundingInv, [Next]_vars PROVE FundingInv'
  OBVIOUS
<1>2. CASE UNCHANGED vars
  BY <1>1, <1>2 DEF vars, FundingInv, Typed, OperationFound, Fenced, Sent, Sends, HoldsPending
<1>3. CASE Next
  BY <1>1, <1>3, QuietWorker, QuietElsewhere, SyncWrites, OperatorWrites, WorkerWrites, EnsureKeeps, ClaimKeeps,
     SendKeeps, RemoteKeeps, CrashKeeps DEF Next, Worker, Sync, Operator, Environment
<1> QED BY <1>1, <1>2, <1>3

\* The gateway allocation of a federation is funded once and never after its
\* cancellation, unless an operator declares a send unsent that was not: the
\* in-doubt-before-send fence of claim_funding_submission holds through every
\* interleaving of the workers, the operator's verbs, lost answers and
\* restarts, for any number of acceptances.
THEOREM FundingIsFenced == Spec => []FundedOnce
<1>1. FundingInv => FundedOnce
  <2>1. SUFFICES ASSUME FundingInv PROVE FundedOnce
    OBVIOUS
  <2>2. inflight \in Seq(SendRow) /\ txs \in Seq(TxRow)
    BY <2>1 DEF FundingInv, Typed
  <2>3. PaidOnce
    BY <2>1, <2>2 DEF FundingInv, Fenced, Sends, PaidOnce
  <2>4. CancelledNeverPaid
    <3>1. SUFFICES ASSUME op # NoRow, op.status = "cancelled", ~misjudged
                   PROVE  inflight = <<>> /\ txs = <<>> /\ worker.pc \notin {"send", "answer"}
      BY DEF CancelledNeverPaid
    <3>2. ~Sent
      BY <2>1, <3>1 DEF FundingInv, Fenced, PastFence
    <3> QED BY <2>2, <3>2 DEF Sent, Sends
  <2> QED BY <2>3, <2>4 DEF FundedOnce
<1> QED BY <1>1, InitInv, NextKeeps, PTL DEF Spec
==============================================================================
