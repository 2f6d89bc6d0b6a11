--------------------------- MODULE StabilityDeposit ---------------------------
(***************************************************************************)
(* How the liquidity manager turns one settled funding send into a provider *)
(* deposit in the target federation's stability pool.  The stability worker *)
(* (stability_allocation.rs) carries a snapshot of the item's step across   *)
(* every await on the target client; an operator may bind or abandon        *)
(* (target_recovery.rs), cancel or retry (manual_ops.rs) meanwhile, and the *)
(* daemon may stop between any two steps.  The send itself is FlipFunding;  *)
(* here it is the status of the item's wallet operation.                    *)
(*                                                                         *)
(* Rows written before deposit ids were caller-owned may say `submitting'   *)
(* with no id while the target client already holds the deposits in Legacy. *)
(***************************************************************************)
EXTENDS Naturals, FiniteSets

CONSTANTS Legacy,          \* deposit ids an earlier version may have left
          Binders,         \* concurrent bind_target_deposit calls
          TargetMayChange, \* the reopened target client may have another config
          MaxStops         \* bound: passes cut short

VARIABLES status,   \* allocation_items.status
          step,     \* allocation_items.step_json
          op,       \* status of the item's stability_pool_funding operation
          worker,   \* the stability worker's pass
          binds,    \* bind calls between their read and their write
          target,   \* the target federation and FLIP's client of it (external)
          made,     \* deposit ids FLIP generated, in order
          stops     \* passes cut short so far

vars == <<status, step, op, worker, binds, target, made, stops>>
env == <<target, made>>

Active == {"pending", "running"}
None == 0
Rank == [none |-> 0, submitting |-> 0, initiated |-> 1, tx_accepted |-> 2, success |-> 3]
Finished == {"success", "rejected"}

FreshStep == [peg |-> "none", dep |-> "none", id |-> None, corrupt |-> FALSE]
IdleWorker == [pc |-> "idle", step |-> FreshStep]
IdleBind == [id |-> None, step |-> FreshStep]
ItemActive == status \in Active

\* A new item, or a row left by a version that recorded no deposit id.
Init ==
    /\ op \in {"none", "completed"}
    /\ status = IF op = "none" THEN "pending" ELSE "running"
    /\ \E held \in [Legacy -> {"initiated"} \cup Finished], corrupt \in BOOLEAN :
          IF op = "none"
          THEN /\ step = FreshStep
               /\ target = [usable |-> TRUE, peg |-> "unseen", spendable |-> FALSE,
                            log |-> [i \in {} |-> "initiated"], provided |-> FALSE]
          ELSE /\ step = [peg |-> "claimed", dep |-> "submitting", id |-> None,
                          corrupt |-> corrupt]
               /\ target = [usable |-> TRUE, peg |-> "claimed",
                            spendable |-> \A i \in Legacy : held[i] = "rejected",
                            log |-> held,
                            provided |-> \E i \in Legacy : held[i] = "success"]
    /\ worker = IdleWorker /\ binds = [b \in Binders |-> IdleBind]
    /\ made = {} /\ stops = 0

-------------------------------------------------------------------------------
(* allocation_store.rs: every item writer is one UPDATE guarded on an active  *)
(* status; compare_and_set_item_step also on the step it replaces.            *)

WriteStep(s) == step' = IF ItemActive THEN s ELSE step
SetItemStatus(st) == status' = IF ItemActive THEN st ELSE status
StepUnchanged(expected) == ItemActive /\ step = expected

\* advance_sp_deposit_status: one deposit never moves backwards.
AdvanceDepositStatus(s, id, dep) ==
    IF s.id = id /\ Rank[dep] < Rank[s.dep] THEN s
    ELSE [s EXCEPT !.id = id, !.dep = dep]

BeginSubmission(s, id) == [s EXCEPT !.dep = "submitting", !.id = id]

\* submitting_submission refuses an incomplete tuple.
Rehydrates(s) == ~s.corrupt /\ (s.dep = "submitting" => s.id # None)

-------------------------------------------------------------------------------
(* The worker's pass over the item.                                           *)

Goto(pc, s) == worker' = [pc |-> pc, step |-> s]
Done == worker' = IdleWorker
FailItem == SetItemStatus("failed") /\ Done /\ UNCHANGED step
RequireAction == SetItemStatus("action_required") /\ Done /\ UNCHANGED step

\* The pass loads its list of active items; this item's turn comes later.
LoadItems ==
    /\ worker.pc = "idle" /\ ItemActive
    /\ Goto("turn", step)
    /\ UNCHANGED <<status, step, op, binds, env, stops>>

\* process_stability_pool_item up to the first target call.
TakeTurn ==
    /\ worker.pc = "turn"
    /\ \/ ~Rehydrates(worker.step) /\ RequireAction
       \/ /\ Rehydrates(worker.step) /\ ItemActive
          /\ status' = "running" /\ Goto("check", worker.step) /\ UNCHANGED step
       \/ /\ Rehydrates(worker.step) /\ ~ItemActive
          /\ Done /\ UNCHANGED <<status, step>>
    /\ UNCHANGED <<op, binds, env, stops>>

\* check_target, asked every pass, then the peg-in address.
CheckTarget ==
    /\ worker.pc = "check"
    /\ \/ ~target.usable /\ FailItem
       \/ /\ target.usable
          /\ LET s == IF worker.step.peg = "none"
                      THEN [worker.step EXCEPT !.peg = "waiting"] ELSE worker.step
             IN  WriteStep(s) /\ Goto("fund", s)
          /\ UNCHANGED status
    /\ UNCHANGED <<op, binds, env, stops>>

AfterSend(s) == IF s.peg = "claimed" THEN "deposit" ELSE "peg"

\* The wallet refuses the send before anything left it: mark_operation_failed,
\* and the item waits for an operator.
SendRefused == op = "pending" /\ op' = "failed" /\ RequireAction

\* ensure_wallet_operation, then what its status asks for.
FundOrFollow ==
    /\ worker.pc = "fund"
    /\ \/ /\ op = "none" /\ ItemActive /\ op' = "pending"
          /\ UNCHANGED <<status, step, worker>>
       \/ op = "none" /\ ~ItemActive /\ Done /\ UNCHANGED <<status, step, op>>
       \/ /\ op = "pending" /\ op' = IF ItemActive THEN "sent" ELSE op
          /\ Done /\ UNCHANGED <<status, step>>
       \/ SendRefused
       \/ op = "sent" /\ Done /\ UNCHANGED <<status, step, op>>
       \/ op = "failed" /\ RequireAction /\ UNCHANGED op
       \/ op = "cancelled" /\ FailItem /\ UNCHANGED op
       \/ /\ op = "completed" /\ UNCHANGED <<status, step, op>>
          /\ Goto(AfterSend(worker.step), worker.step)
    /\ UNCHANGED <<binds, env, stops>>

\* advance_after_withdrawal_completed: observe_peg_in.
ObservePegIn ==
    /\ worker.pc = "peg"
    /\ LET seen(p) == [worker.step EXCEPT !.peg = p]
       IN  \/ target.peg = "unseen" /\ WriteStep(seen("waiting")) /\ Done /\ UNCHANGED status
           \/ target.peg = "confirmed" /\ WriteStep(seen("confirmed")) /\ Done /\ UNCHANGED status
           \/ /\ target.peg = "claimed" /\ WriteStep(seen("claimed"))
              /\ Goto("deposit", seen("claimed")) /\ UNCHANGED status
           \/ target.peg = "failed" /\ RequireAction
    /\ UNCHANGED <<op, binds, env, stops>>

Submitting(s) == s.dep = "submitting"

\* advance_stability_deposit_with down to the balance read.
ReadBalance ==
    /\ worker.pc = "deposit"
    /\ LET s == worker.step
       IN  \/ Submitting(s) /\ Goto("fence", s) /\ UNCHANGED status
           \/ ~Submitting(s) /\ s.id # None /\ Goto("observe", s) /\ UNCHANGED status
           \/ /\ ~Submitting(s) /\ s.id = None
              /\ IF target.spendable THEN Goto("begin", s) /\ UNCHANGED status
                 ELSE SetItemStatus("action_required") /\ Done
    /\ UNCHANGED <<step, op, binds, env, stops>>

\* StabilityDepositSubmission::generate: an id no operation has.
Generated == CHOOSE id \in 1..(Cardinality(made \cup Legacy) + 1) : id \notin made \cup Legacy

\* A fresh caller-owned id is committed before the deposit is made with it.
Begin ==
    /\ worker.pc = "begin"
    /\ LET id == Generated
           s == BeginSubmission(worker.step, id)
       IN  /\ made' = made \cup {id}
           /\ \/ StepUnchanged(worker.step) /\ step' = s /\ Goto("fence", s)
              \/ ~StepUnchanged(worker.step) /\ Done /\ UNCHANGED step
    /\ UNCHANGED <<status, op, binds, target, stops>>

\* The step is re-asserted immediately before the irreversible call.
Fence ==
    /\ worker.pc = "fence"
    /\ IF StepUnchanged(worker.step) THEN Goto("submit", worker.step) ELSE Done
    /\ UNCHANGED <<status, step, op, binds, env, stops>>

\* submit_deposit_to_provide: a known id returns its receipt; a new one spends
\* the e-cash; a client that cannot pay answers an error.
Submit(id) ==
    IF id \in DOMAIN target.log
    THEN UNCHANGED target /\ Goto("landed", worker.step)
    ELSE IF target.spendable
    THEN /\ target' = [target EXCEPT !.spendable = FALSE,
                          !.log = [i \in DOMAIN target.log \cup {id} |->
                                      IF i = id THEN "initiated" ELSE target.log[i]]]
         /\ Goto("landed", worker.step)
    ELSE UNCHANGED target /\ Done

SubmitDeposit ==
    /\ worker.pc = "submit" /\ Submit(worker.step.id)
    /\ UNCHANGED <<status, step, op, binds, made, stops>>

RecordInitiated ==
    /\ worker.pc = "landed"
    /\ WriteStep(AdvanceDepositStatus(worker.step, worker.step.id, "initiated"))
    /\ Done
    /\ UNCHANGED <<status, op, binds, env, stops>>

\* What the update stream says of a deposit: its state, or an earlier one when
\* the cached outcome was lost and the stream is replayed from the start.
Seen(id) ==
    CASE target.log[id] = "initiated" -> {"initiated"}
      [] target.log[id] = "tx_accepted" -> {"initiated", "tx_accepted"}
      [] target.log[id] = "success" -> {"initiated", "tx_accepted", "success"}
      [] target.log[id] = "rejected" -> {"initiated", "tx_accepted", "rejected"}

\* observe_stability_deposit.
ObserveWith(seen, successes) ==
    LET s == worker.step
        next == AdvanceDepositStatus(s, s.id, seen)
    IN  \/ seen \in {"initiated", "tx_accepted"} \ successes /\ WriteStep(next) /\ Done /\ UNCHANGED status
        \/ seen \in successes /\ WriteStep(next) /\ Goto("report", next) /\ UNCHANGED status
        \/ seen = "rejected" /\ RequireAction

ObserveAs(seen) == ObserveWith(seen, {"success"})

ObserveDeposit ==
    /\ worker.pc = "observe"
    /\ \E seen \in Seen(worker.step.id) : ObserveAs(seen)
    /\ UNCHANGED <<op, binds, env, stops>>

\* The provider account must also report the amount as provided.
ProviderReport ==
    /\ worker.pc = "report"
    /\ WriteStep(worker.step) /\ Done
    /\ IF target.provided THEN SetItemStatus("completed") ELSE UNCHANGED status
    /\ UNCHANGED <<op, binds, env, stops>>

\* A spent budget, a dependency error, or the daemon going down.
PassCutShort ==
    /\ worker.pc # "idle" /\ stops < MaxStops
    /\ stops' = stops + 1 /\ Done
    /\ UNCHANGED <<status, step, op, binds, env>>

-------------------------------------------------------------------------------
(* The operator.                                                              *)

\* bind_target_deposit: the item is read and the deposit looked up ...
BindLookup(b, id) ==
    /\ binds[b] = IdleBind
    /\ status = "action_required" /\ ~step.corrupt /\ step.id = None
    /\ id \in DOMAIN target.log
    /\ binds' = [binds EXCEPT ![b] = [id |-> id, step |-> step]]
    /\ UNCHANGED <<status, step, op, worker, env, stops>>

\* ... and bind_and_resume writes the step that was read, if the item is still
\* waiting for an operator.
BindAndResume(b) ==
    /\ binds[b] # IdleBind
    /\ IF status = "action_required"
       THEN /\ status' = "running"
            /\ step' = AdvanceDepositStatus(binds[b].step, binds[b].id, "initiated")
       ELSE UNCHANGED <<status, step>>
    /\ binds' = [binds EXCEPT ![b] = IdleBind]
    /\ UNCHANGED <<op, worker, env, stops>>

\* resolve_manual_review_tx: what an operator concludes about a send that stayed
\* in doubt.  The item is left alone.
ResolveManualReview(outcome) ==
    /\ op = "sent" /\ op' = outcome
    /\ UNCHANGED <<status, step, worker, binds, env, stops>>

AbandonTargetClientValue ==
    /\ status = "action_required" /\ (step.corrupt \/ step.peg = "claimed")
    /\ status' = "failed"
    /\ UNCHANGED <<step, op, worker, binds, env, stops>>

CancelAllocation ==
    /\ status \in Active \cup {"action_required"}
    /\ op \in {"none", "pending", "failed", "cancelled"}
    /\ status' = "failed" /\ op' = IF op = "none" THEN op ELSE "cancelled"
    /\ UNCHANGED <<step, worker, binds, env, stops>>

RetryFundingStep ==
    /\ status = "action_required" /\ op \in {"none", "pending", "failed"}
    /\ status' = "pending" /\ op' = IF op = "none" THEN op ELSE "pending"
    /\ UNCHANGED <<step, worker, binds, env, stops>>

-------------------------------------------------------------------------------
(* The wallet and the target federation.                                      *)

\* claim_chain_evidence finds the output of the send, confirmed often enough.
SendSettles ==
    /\ op = "sent" /\ op' = "completed"
    /\ UNCHANGED <<status, step, worker, binds, env, stops>>

PegInAdvances ==
    /\ op = "completed"
    /\ \/ target.peg = "unseen" /\ target' = [target EXCEPT !.peg = "confirmed"]
       \/ /\ target.peg = "confirmed"
          /\ \E enough \in BOOLEAN :
                target' = [target EXCEPT !.peg = "claimed", !.spendable = enough]
       \/ target.peg = "confirmed" /\ target' = [target EXCEPT !.peg = "failed"]
    /\ UNCHANGED <<status, step, op, worker, binds, made, stops>>

DepositAdvances(id) ==
    /\ id \in DOMAIN target.log
    /\ \/ target.log[id] = "initiated" /\ target' = [target EXCEPT !.log[id] = "tx_accepted"]
       \/ target.log[id] = "tx_accepted" /\ target' = [target EXCEPT !.log[id] = "success"]
       \/ /\ target.log[id] \in {"initiated", "tx_accepted"}
          /\ \E refunded \in BOOLEAN :
                target' = [target EXCEPT !.log[id] = "rejected",
                                         !.spendable = refunded \/ target.spendable]
       \/ /\ target.log[id] = "success" /\ ~target.provided
          /\ target' = [target EXCEPT !.provided = TRUE]
    /\ UNCHANGED <<status, step, op, worker, binds, made, stops>>

\* A reopened client promotes the config the federation published meanwhile.
TargetChanges ==
    /\ TargetMayChange /\ target.usable
    /\ target' = [target EXCEPT !.usable = FALSE]
    /\ UNCHANGED <<status, step, op, worker, binds, made, stops>>

Worker ==
    \/ LoadItems \/ TakeTurn \/ CheckTarget \/ FundOrFollow \/ ObservePegIn \/ ReadBalance
    \/ Begin \/ Fence \/ SubmitDeposit \/ RecordInitiated \/ ObserveDeposit \/ ProviderReport

Operator ==
    \/ \E b \in Binders : BindAndResume(b) \/ \E id \in DOMAIN target.log : BindLookup(b, id)
    \/ \E outcome \in {"completed", "failed", "pending"} : ResolveManualReview(outcome)
    \/ AbandonTargetClientValue \/ CancelAllocation \/ RetryFundingStep

Remote ==
    \/ SendSettles \/ PegInAdvances \/ TargetChanges
    \/ \E id \in DOMAIN target.log : DepositAdvances(id)

Next == Worker \/ PassCutShort \/ Operator \/ Remote

Spec == Init /\ [][Next]_vars

-------------------------------------------------------------------------------
Ids == 1..(Cardinality(made \cup Legacy) + 1)
PegInStatus == {"none", "waiting", "confirmed", "claimed"}
Steps == [peg : PegInStatus, dep : DOMAIN Rank,
          id : Ids \cup {None}, corrupt : BOOLEAN]

\* The persisted step is one the code can write: a deposit status has an id
\* except in a legacy row, and a deposit follows a claimed peg-in.
TypeOK ==
    /\ status \in Active \cup {"action_required", "completed", "failed"}
    /\ step \in Steps /\ worker.step \in Steps
    /\ op \in {"none", "pending", "sent", "completed", "failed", "cancelled"}
    /\ \A b \in Binders : binds[b].id \in Ids \cup {None} /\ binds[b].step \in Steps
    /\ step.id # None => step.peg = "claimed" /\ op = "completed" /\ ~step.corrupt

\* Every deposit the target client made for FLIP is the one the item names:
\* the id is committed before the call and never regenerated, so one item puts
\* the provider's value into the pool at most once, through any number of
\* cut-short passes, lost replies and rejections.
OneRecordedDeposit == \A id \in DOMAIN target.log \cap made : step.id = id

\* An item completes only when the deposit it names succeeded and the provider
\* account reports it, never on a sibling's deposit.
CompletedIsProvided ==
    status = "completed" => step.id \in DOMAIN target.log /\ target.log[step.id] = "success"
                            /\ target.provided
===============================================================================
