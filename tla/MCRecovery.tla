----------------------------- MODULE MCRecovery ------------------------------
(* What survives the loss of a host, for TLC.  A behaviour of this suite is *)
(* a behaviour of one of its components, named by "part": the transfer of a *)
(* guardian between seats, the relay backup of the seats, the relay backup  *)
(* of the Federation Ambassador on two relays or over time; and, for what   *)
(* must happen in the end, a move of a guardian, the completion callbacks   *)
(* and the push outbox.                                                     *)
EXTENDS GuardianTransfer, TLC

CONSTANTS
    Parts,   \* the components a run checks
    Off,     \* a component that is not under check, and no value
    Pair     \* two seats no rule tells apart

VARIABLES
    part,  \* the component this behaviour is of
    stage, row, dir, rec, doc, slice, worker, inst, losses, best,
    faChanges, faNow, faLosses, faStops, faSeals, faFormed, faOps, faState,
    faConfirmed, faCompleted, faMode, faDesired, faJob, faRelay, faFlight,
    faBase, faReused,
    hook, bearer, due, formed, gone, origin, plan, active, accepted, early,
    pxNow, pxHook, pxMarker, pxReg, pxRow, pxUsed, pxTask, pxPc, pxCrashes,
    pxReplays, pxAccepted, pxRefused

B == INSTANCE MgBackup WITH Seats <- Pair, SliceCount <- 2, MaxLosses <- 1,
                            None <- Off
F == INSTANCE FaBackup WITH Relays <- <<"a", "b">>, Required <- 2,
                            Refresh <- 2, MaxChanges <- 2, MaxTime <- 0,
                            MaxLosses <- 1, MaxStops <- 0, MaxSeals <- 2,
                            changes <- faChanges, now <- faNow,
                            losses <- faLosses, stops <- faStops,
                            seals <- faSeals, formed <- faFormed,
                            ops <- faOps, state <- faState,
                            confirmed <- faConfirmed,
                            completed <- faCompleted, mode <- faMode,
                            desired <- faDesired, job <- faJob,
                            relay <- faRelay, flight <- faFlight,
                            base <- faBase, reused <- faReused
R == INSTANCE FaBackup WITH Relays <- <<"a">>, Required <- 1, Refresh <- 1,
                            MaxChanges <- 1, MaxTime <- 2, MaxLosses <- 1,
                            MaxStops <- 1, MaxSeals <- 3,
                            changes <- faChanges, now <- faNow,
                            losses <- faLosses, stops <- faStops,
                            seals <- faSeals, formed <- faFormed,
                            ops <- faOps, state <- faState,
                            confirmed <- faConfirmed,
                            completed <- faCompleted, mode <- faMode,
                            desired <- faDesired, job <- faJob,
                            relay <- faRelay, flight <- faFlight,
                            base <- faBase, reused <- faReused
H == INSTANCE CompletionHooks WITH
    Seats <- {"s"}
O == INSTANCE PushOutbox WITH Hooks <- {"h"}, Keys <- {}, NoKey <- None,
                              Tokens <- {"t"}, NoToken <- None,
                              Expires <- [h |-> 5], Never <- None,
                              HookLifetime <- 1, MaxUses <- 2,
                              Deadline <- 2, Lease <- 2,
                              ProviderTimeout <- 1, Backoff <- <<1, 1>>,
                              MaxAttempts <- 2, Concurrency <- 1,
                              Backlog <- 1, Markers <- 0, Margin <- 1,
                              Retention <- 1, MaxTime <- 5, MaxRows <- 1,
                              MaxReplays <- 1, MaxCrashes <- 1, now <- pxNow,
                              hook <- pxHook, marker <- pxMarker,
                              reg <- pxReg, row <- pxRow, used <- pxUsed,
                              task <- pxTask, pc <- pxPc,
                              crashes <- pxCrashes, replays <- pxReplays,
                              accepted <- pxAccepted, refused <- pxRefused

backupVars == <<stage, row, dir, rec, doc, slice, worker, inst, losses,
                best>>
ambassadorVars == <<faChanges, faNow, faLosses, faStops, faSeals, faFormed,
                    faOps, faState, faConfirmed, faCompleted, faMode,
                    faDesired, faJob, faRelay, faFlight, faBase, faReused>>
hookVars == <<hook, bearer, due, formed, gone, origin, plan, active,
              accepted, early>>
outboxVars == <<pxNow, pxHook, pxMarker, pxReg, pxRow, pxUsed, pxTask, pxPc,
                pxCrashes, pxReplays, pxAccepted, pxRefused>>
allVars == <<part, vars, backupVars, ambassadorVars, hookVars, outboxVars>>

\* A component that is not under check is switched off, or stands where it
\* starts.
PartsInit ==
    /\ part \in Parts
    /\ Init /\ (part \notin {"transfer", "move"} => enabled)
    /\ IF part = "backup" THEN B!Init ELSE
            /\ stage = Off /\ row = Off /\ dir = Off /\ rec = Off
            /\ doc = Off /\ slice = Off /\ worker = Off /\ inst = Off
            /\ losses = Off /\ best = Off
    /\ CASE part = "ambassador" -> F!Init
            [] part = "refresh" -> R!Init
            [] OTHER ->
            /\ faChanges = Off /\ faNow = Off /\ faLosses = Off /\ faStops = Off
            /\ faSeals = Off /\ faFormed = Off /\ faOps = Off /\ faState = Off
            /\ faConfirmed = Off /\ faCompleted = Off /\ faMode = Off /\ faDesired = Off
            /\ faJob = Off /\ faRelay = Off /\ faFlight = Off /\ faBase = Off
            /\ faReused = Off
    /\ H!Init /\ (part # "hooks" => origin)
    /\ O!Init

\* The faults need not end for a transfer to be safe; they do for it to finish.
PartsNext ==
    \/ part \in {"transfer", "move"} /\ Next /\ (part = "transfer" => UNCHANGED calm)
       /\ UNCHANGED <<part, backupVars, ambassadorVars, hookVars, outboxVars>>
    \/ part = "backup" /\ B!Next
       /\ UNCHANGED <<part, vars, ambassadorVars, hookVars, outboxVars>>
    \/ part = "ambassador" /\ F!Next
       /\ UNCHANGED <<part, vars, backupVars, hookVars, outboxVars>>
    \/ part = "refresh" /\ R!Next
       /\ UNCHANGED <<part, vars, backupVars, hookVars, outboxVars>>
    \/ part = "hooks" /\ H!Next
       /\ UNCHANGED <<part, vars, backupVars, ambassadorVars, outboxVars>>
    \/ part = "outbox" /\ O!Next
       /\ UNCHANGED <<part, vars, backupVars, ambassadorVars, hookVars>>

PartsSpec == PartsInit /\ [][PartsNext]_allVars

Symmetry == Permutations(Pair)

\* A step of one part, for the fairness of its steps.
Transfer(A) ==
    part = "move" /\ A
    /\ UNCHANGED <<part, backupVars, ambassadorVars, hookVars, outboxVars>>
Hooks(A) ==
    part = "hooks" /\ A
    /\ UNCHANGED <<part, vars, backupVars, ambassadorVars, outboxVars>>
Outbox(A) ==
    part = "outbox" /\ A
    /\ UNCHANGED <<part, vars, backupVars, ambassadorVars, hookVars>>

\* The loops, workers and drivers of a transfer retry with a bounded delay.
\* Nothing is assumed of the policy, of faults, of decommissions or of when a
\* transfer starts.
TransferFairness ==
    /\ WF_allVars(Transfer(SendPullSeat)) /\ WF_allVars(Transfer(SeePulled))
    /\ WF_allVars(Transfer(PublishMovedBinding)) /\ WF_allVars(Transfer(RecordRebind))
    /\ WF_allVars(Transfer(SendRemoveSeat)) /\ WF_allVars(Transfer(CompleteTransfer))
    /\ WF_allVars(Transfer(SessionBoundary))
    /\ \A s \in Seats :
        /\ WF_allVars(Transfer(SeatStep(s)))
        /\ WF_allVars(Transfer(AskSessionEnd(s))) /\ WF_allVars(Transfer(ExportGuardian(s)))
        /\ WF_allVars(Transfer(PublishBackup(s))) /\ WF_allVars(Transfer(RecordBackup(s)))

\* The callback worker's interval and its tasks never stop.  Past some point
\* the daemon stays up with a usable gateway origin, and the gateway does not
\* answer for ever with conditions that call for a retry.
HookFairness ==
    /\ <>[][\A o \in BOOLEAN : ~Hooks(H!Restart(o))]_allVars
    /\ <>[]origin
    /\ WF_allVars(Hooks(H!Scan)) /\ WF_allVars(Hooks(H!Work("s")))
    /\ WF_allVars(Hooks(H!BackoffEnds("s")))
    /\ SF_allVars(Hooks(\E answer \in H!Answers \ {"retryable"} :
                            H!Invoke("s", answer, answer = "delivered")))

\* The outbox worker and its deliveries run while the process does, the
\* supervisor starts a stopped gateway again, and time passes.
OutboxFairness ==
    /\ WF_allVars(Outbox(O!Worker)) /\ WF_allVars(Outbox(O!Deliveries))
    /\ WF_allVars(Outbox(O!Connect)) /\ WF_allVars(Outbox(O!Tick))

LiveSpec == PartsSpec /\ TransferFairness /\ HookFairness /\ OutboxFairness

\* What was confirmed on the relays is what a restored host has: a host past
\* its identity stage holds every seat ever confirmed, no further back in its
\* life, with the guardian's files; a confirmed archive stays whole; and an
\* interrupted restore can be run again (reconcile_seat, recover_from_events,
\* install).
ConfirmedSurvives ==
    part = "backup" =>
        /\ B!TypeOK /\ B!NothingConfirmedIsLost
        /\ B!ConfirmedArchiveOpens /\ B!InterruptedIsRetryable

\* The ambassador's backups supersede each other: a relay recorded as
\* confirmed serves that document or a later one, a generation names one
\* document, so that a restore prefers what a device published over what it
\* came from, and a lookup is called empty only when the relays it may leave
\* out could hold what is missing (backup_payload, deliver,
\* reconcile_formed_federation, restore_from_relays).
BackupsSupersede ==
    /\ part = "ambassador" => /\ F!TypeOK /\ F!ConfirmedIsServed
                              /\ F!OneDocumentPerGeneration /\ F!EmptyIsTrue
    /\ part = "refresh" => /\ R!TypeOK /\ R!ConfirmedIsServed
                           /\ R!OneDocumentPerGeneration /\ R!EmptyIsTrue

\* "A failure partway leaves at worst confirmed slices under an old document"
\* (format.rs): a publication cut off by the loss of the host does not stop
\* the seats that were confirmed from being restored.
ConfirmedIsRestorable == part = "backup" => B!ConfirmedIsRestorable

\* The callback of a formed seat is delivered or definitively refused, unless
\* the seat is decommissioned or moved first (completion callback worker).
CallbackSettles == H!CallbackSettles

\* An invocation the gateway accepted is settled, through crashes, a provider
\* that never answers and late answers (delivery outbox).
AcceptedIsResolved == O!AcceptedIsResolved
==============================================================================
