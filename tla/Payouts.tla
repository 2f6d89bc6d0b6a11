------------------------------- MODULE Payouts -------------------------------
(***************************************************************************)
(* Operator payouts of the Manifold Guardian (mg fedimint payout_worker.rs, *)
(* payout_store.rs, payout_native.rs, drain_status.rs).  A sweep names a    *)
(* request id of its caller.  The job row (request, wallet scope,           *)
(* destination) is in SQLite before the native payment starts; the payment  *)
(* carries request and destination in the wallet's own operation log, a     *)
(* second database; the link from job to operation follows.  Calls run      *)
(* concurrently and may be cut off, and the daemon may die, between any     *)
(* two of these steps.                                                      *)
(***************************************************************************)
EXTENDS Integers, FiniteSets, Sequences

CONSTANTS Requests, Destinations,
          Scopes,        \* wallet scopes: payment federations, guardian seats
          Guardians,     \* the scopes that belong to a seat
          Callers,       \* admin calls in flight
          Queried,       \* scopes an operator asks the drain state of
          MaxOps,        \* native payments over a run
          MaxClaims,     \* incoming operations over a run
          None           \* a model value: absent

VARIABLES jobs,          \* payout_jobs: the row of each request
          setting,       \* payout_settings.destination
          live,          \* guardian scopes whose seat still has a federation
          ops,           \* native payments, in the wallets' operation logs
          balance,       \* ecash of each scope
          claims,        \* incoming operations of each scope still active
          lock,          \* holder of each scope's start fence
          call,          \* the admin calls
          query,         \* one drain query
          budget         \* incoming operations left

vars == <<jobs, setting, live, ops, balance, claims, lock, call, query, budget>>

Idle == [pc |-> "idle", req |-> None, scope |-> None, dest |-> None, op |-> None]
NoQuery == [pc |-> "idle", scope |-> None, seen |-> None, quiet |-> FALSE, result |-> None]
OpIds == 1..MaxOps

OutgoingOperation == [req : Requests, dest : Destinations, scope : Scopes,
                      active : BOOLEAN, state : {"none", "ok", "failed"}]
JobType == [scope : Scopes, dest : Destinations, op : OpIds \cup {None}]

\* The absent value is no row, no operation, no terms, no caller and no answer.
ASSUME ConstantsAssumption ==
    /\ MaxOps \in Nat /\ Queried \subseteq Scopes
    /\ None \notin Destinations \cup Callers \cup OpIds
    /\ None \notin JobType /\ None \notin OutgoingOperation
    /\ None \notin Scopes \X Destinations
    /\ None \notin {"unknown", "pending", "sweepable", "drained"}

\* Native payments of a scope, and those whose state machines still run.
Outgoing(s) == {o \in OpIds : ops[o] # None /\ ops[o].scope = s}
Active(s) == {o \in Outgoing(s) : ops[o].active}

Init == /\ jobs = [r \in Requests |-> None]
        /\ setting = None
        /\ live = Guardians
        /\ ops = [o \in OpIds |-> None]
        /\ balance = [s \in Scopes |-> 1]
        /\ claims = [s \in Scopes |-> FALSE]
        /\ lock = [s \in Scopes |-> None]
        /\ call = [c \in Callers |-> Idle]
        /\ query = NoQuery
        /\ budget = MaxClaims

-----------------------------------------------------------------------------
(* Sweeps: sweep_payment_fees, sweep_guardian_fees, resume_guardian_sweep. *)

\* A call ends: its answer, its error, or its caller is gone. Dropping the
\* guard frees the fence.
Ended(c) == /\ call' = [call EXCEPT ![c] = Idle]
            /\ lock' = [s \in Scopes |-> IF lock[s] = c THEN None ELSE lock[s]]

\* start_job up to the row: a stored job is resumed in its own scope, whether
\* or not its seat is still there; a new one needs a live seat and snapshots
\* the destination.
Sweep(c, r, s) ==
    /\ call[c] = Idle
    /\ IF jobs[r] # None
       THEN /\ jobs[r].scope = s /\ jobs[r].op = None
            /\ call' = [call EXCEPT ![c] = [pc |-> "lock", req |-> r, scope |-> s,
                                            dest |-> jobs[r].dest, op |-> None]]
       ELSE /\ s \in Guardians => s \in live
            /\ setting # None
            /\ call' = [call EXCEPT ![c] = [pc |-> "create", req |-> r, scope |-> s,
                                            dest |-> setting, op |-> None]]
    /\ UNCHANGED <<jobs, setting, live, ops, balance, claims, lock, query, budget>>

\* payout_store::create: the first insert wins, and a loser with other inputs
\* is refused.
SameInputs(row, k) == row.scope = k.scope /\ row.dest = k.dest

Create(c) ==
    LET k == call[c]
        row == IF jobs[k.req] = None
               THEN [scope |-> k.scope, dest |-> k.dest, op |-> None]
               ELSE jobs[k.req]
    IN /\ k.pc = "create"
       /\ jobs' = [jobs EXCEPT ![k.req] = row]
       /\ IF SameInputs(row, k) /\ row.op = None
          THEN call' = [call EXCEPT ![c].pc = "lock"] /\ UNCHANGED lock
          ELSE Ended(c)
       /\ UNCHANGED <<setting, live, ops, balance, claims, query, budget>>

\* start_exclusion, and payout_exclusion inside it: one start per scope.
TakeLockIf(c, free(_)) ==
    /\ call[c].pc = "lock" /\ free(call[c].scope)
    /\ lock' = [lock EXCEPT ![call[c].scope] = c]
    /\ call' = [call EXCEPT ![c].pc = "find"]
    /\ UNCHANGED <<jobs, setting, live, ops, balance, claims, query, budget>>

Unlocked(s) == lock[s] = None
AlwaysFree(s) == TRUE
TakeLockAnyway(c) == TakeLockIf(c, AlwaysFree)
TakeLock(c) == TakeLockIf(c, Unlocked)

\* payout_for_request: the one payment of this scope with the request's mark;
\* a mark with another destination, or a second mark, is an error.
Marked(s, r) == {o \in Outgoing(s) : ops[o].req = r}
Found(s, r, d) ==
    LET m == Marked(s, r)
    IN IF m = {} THEN "none"
       ELSE IF Cardinality(m) = 1 /\ \A o \in m : ops[o].dest = d THEN "one"
       ELSE "error"

\* start_or_recover: an earlier start of the request is found, not repeated.
Recover(c) ==
    LET k == call[c] IN
    /\ k.pc = "find"
    /\ CASE Found(k.scope, k.req, k.dest) = "one" ->
              call' = [call EXCEPT ![c] = [k EXCEPT !.pc = "commit",
                            !.op = CHOOSE o \in Marked(k.scope, k.req) : TRUE]]
              /\ UNCHANGED lock
         [] Found(k.scope, k.req, k.dest) = "none" ->
              call' = [call EXCEPT ![c].pc = "start"] /\ UNCHANGED lock
         [] OTHER -> Ended(c)
    /\ UNCHANGED <<jobs, setting, live, ops, balance, claims, query, budget>>

\* start_payout: the balance goes into one native operation that is durable
\* when the call returns; the Lightning rail is the client's choice.
StartNative(c) ==
    LET k == call[c] IN
    /\ k.pc = "start" /\ balance[k.scope] > 0
    /\ \E o \in OpIds :
         /\ ops[o] = None /\ \A p \in 1..(o - 1) : ops[p] # None
         /\ ops' = [ops EXCEPT ![o] = [req |-> k.req, dest |-> k.dest, scope |-> k.scope,
                                       active |-> TRUE, state |-> "none"]]
         /\ call' = [call EXCEPT ![c] = [k EXCEPT !.pc = "commit", !.op = o]]
    /\ balance' = [balance EXCEPT ![k.scope] = 0]
    /\ UNCHANGED <<jobs, setting, live, claims, lock, query, budget>>

NothingToSweep(c) ==
    /\ call[c].pc = "start" /\ balance[call[c].scope] = 0
    /\ Ended(c)
    /\ UNCHANGED <<jobs, setting, live, ops, balance, claims, query, budget>>

\* payout_store::commit: set once, and the row must then hold this operation.
Committed(r, o) == [jobs EXCEPT ![r].op = IF @ = None THEN o ELSE @]

Commit(c) ==
    /\ call[c].pc = "commit"
    /\ jobs' = Committed(call[c].req, call[c].op)
    /\ Ended(c)
    /\ UNCHANGED <<setting, live, ops, balance, claims, query, budget>>

\* An error, a dropped connection, a lost response: at any await.
CutOff(c) ==
    /\ call[c] # Idle
    /\ Ended(c)
    /\ UNCHANGED <<jobs, setting, live, ops, balance, claims, query, budget>>

-----------------------------------------------------------------------------
(* PayoutStatus and AwaitPayout: reconcile, never start. *)

StatusRead(c, r) ==
    /\ call[c] = Idle
    /\ jobs[r] # None /\ jobs[r].op = None
    /\ call' = [call EXCEPT ![c] = [pc |-> "lookup", req |-> r, scope |-> jobs[r].scope,
                                    dest |-> jobs[r].dest, op |-> None]]
    /\ UNCHANGED <<jobs, setting, live, ops, balance, claims, lock, query, budget>>

StatusFind(c) ==
    LET k == call[c] IN
    /\ k.pc = "lookup"
    /\ call' = [call EXCEPT ![c] =
          IF Found(k.scope, k.req, k.dest) = "one"
          THEN [k EXCEPT !.pc = "commit", !.op = CHOOSE o \in Marked(k.scope, k.req) : TRUE]
          ELSE Idle]
    /\ UNCHANGED <<jobs, setting, live, ops, balance, claims, lock, query, budget>>

\* SetPayoutDestination, and a seat that leaves its federation.
SetDestination(d) ==
    /\ setting # d /\ setting' = d
    /\ UNCHANGED <<jobs, live, ops, balance, claims, lock, call, query, budget>>

SeatGone(s) ==
    /\ s \in live /\ live' = live \ {s}
    /\ UNCHANGED <<jobs, setting, ops, balance, claims, lock, call, query, budget>>

\* The daemon dies: both databases keep what they acknowledged.
Crash ==
    /\ call' = [c \in Callers |-> Idle]
    /\ lock' = [s \in Scopes |-> None]
    /\ query' = NoQuery
    /\ UNCHANGED <<jobs, setting, live, ops, balance, claims, budget>>

-----------------------------------------------------------------------------
(* The Fedimint clients: rail outcome, its best-effort cache, state machines. *)

\* The Lightning rail decides; the outcome may or may not be cached.
RailEnds(o) ==
    /\ ops[o] # None /\ ops[o].active /\ ops[o].state = "none"
    /\ \E out \in {"ok", "failed"} : ops' = [ops EXCEPT ![o].state = out]
    /\ UNCHANGED <<jobs, setting, live, balance, claims, lock, call, query, budget>>

\* The last state machine ends: a refund is ecash again. An operation can end
\* without a cached outcome.
OpSettles(o) ==
    /\ ops[o] # None /\ ops[o].active
    /\ ops' = [ops EXCEPT ![o].active = FALSE]
    /\ \E refund \in BOOLEAN :
         /\ refund => ops[o].state # "ok"
         /\ ops[o].state = "failed" => refund
         /\ balance' = [balance EXCEPT ![ops[o].scope] = IF refund THEN 1 ELSE @]
    /\ UNCHANGED <<jobs, setting, live, claims, lock, call, query, budget>>

\* Accepted payments and collected fees arrive as operations of their own.
ClaimStarts(s) ==
    /\ ~ claims[s] /\ budget > 0
    /\ claims' = [claims EXCEPT ![s] = TRUE]
    /\ budget' = budget - 1
    /\ UNCHANGED <<jobs, setting, live, ops, balance, lock, call, query>>

ClaimSettles(s) ==
    /\ claims[s]
    /\ claims' = [claims EXCEPT ![s] = FALSE]
    /\ \E got \in BOOLEAN : balance' = [balance EXCEPT ![s] = IF got THEN 1 ELSE @]
    /\ UNCHANGED <<jobs, setting, live, ops, lock, call, query, budget>>

-----------------------------------------------------------------------------
(* The drain query: two observations of three reads each must agree. *)

Drained(s) == balance[s] = 0 /\ Active(s) = {} /\ ~ claims[s]
ActiveNow(s) == <<Active(s), claims[s]>>
\* outgoing_operations: the cached state, read against the active set that
\* was taken before it.
RailState(o, active) ==
    IF ops[o].state # "none" THEN ops[o].state
    ELSE IF o \in active THEN "pending" ELSE "unknown"
OutgoingNow(s, active) ==
    {[op |-> o, state |-> RailState(o, active), active |-> o \in active] : o \in Outgoing(s)}

QueryStep(pc, next, add) ==
    /\ query.pc = pc
    /\ query' = [query EXCEPT !.pc = next, !.seen = add,
                              !.quiet = @ \/ Drained(query.scope)]
    /\ UNCHANGED <<jobs, setting, live, ops, balance, claims, lock, call, budget>>

DrainQuery(s) ==
    /\ query.pc = "idle"
    /\ query' = [pc |-> "balance", scope |-> s, seen |-> <<ActiveNow(s)>>,
                 quiet |-> Drained(s), result |-> None]
    /\ UNCHANGED <<jobs, setting, live, ops, balance, claims, lock, call, budget>>

ReadBalance == QueryStep("balance", "outgoing", Append(query.seen, balance[query.scope]))
ReadOutgoing ==
    QueryStep("outgoing", "again", Append(query.seen, OutgoingNow(query.scope, query.seen[1][1])))
AgainActive == QueryStep("again", "again balance", Append(query.seen, ActiveNow(query.scope)))
AgainBalance ==
    QueryStep("again balance", "again outgoing", Append(query.seen, balance[query.scope]))

\* validated_status and WalletDrainStatus::new.
Consistent(seen) == <<seen[1], seen[2], seen[3]>> = <<seen[4], seen[5], seen[6]>>
AnyTwo(seen) == TRUE
ConclusionIf(seen, agrees(_)) ==
    IF ~ agrees(seen) \/ \E o \in seen[3] : o.state = "unknown" THEN "unknown"
    ELSE IF seen[1] # <<{}, FALSE>> THEN "pending"
    ELSE IF seen[2] > 0 THEN "sweepable"
    ELSE "drained"
ConclusionUnvalidated(seen) == ConclusionIf(seen, AnyTwo)
Conclusion(seen) == ConclusionIf(seen, Consistent)

QueryAnswered ==
    /\ query.pc = "again outgoing"
    /\ LET seen == Append(query.seen, OutgoingNow(query.scope, query.seen[4][1]))
       IN query' = [query EXCEPT !.pc = "done", !.seen = None, !.result = Conclusion(seen),
                                 !.quiet = @ \/ Drained(query.scope)]
    /\ UNCHANGED <<jobs, setting, live, ops, balance, claims, lock, call, budget>>

QueryReported ==
    /\ query.pc = "done" /\ query' = NoQuery
    /\ UNCHANGED <<jobs, setting, live, ops, balance, claims, lock, call, budget>>

-----------------------------------------------------------------------------
CallStep(c) ==
    \/ Create(c) \/ TakeLock(c) \/ Recover(c) \/ StartNative(c) \/ NothingToSweep(c)
    \/ StatusFind(c) \/ Commit(c)

Next ==
    \/ \E c \in Callers :
         \/ \E r \in Requests : \/ StatusRead(c, r)
                                \/ \E s \in Scopes : Sweep(c, r, s)
         \/ CallStep(c) \/ CutOff(c)
    \/ \E d \in Destinations \cup {None} : SetDestination(d)
    \/ \E s \in Guardians : SeatGone(s)
    \/ \E o \in OpIds : RailEnds(o) \/ OpSettles(o)
    \/ \E s \in Scopes : ClaimStarts(s) \/ ClaimSettles(s)
    \/ \E s \in Queried : DrainQuery(s)
    \/ ReadBalance \/ ReadOutgoing \/ AgainActive \/ AgainBalance
    \/ QueryAnswered \/ QueryReported
    \/ Crash

Spec == Init /\ [][Next]_vars

-----------------------------------------------------------------------------
\* Rows, operations, fences and calls keep their shape; the holder of a fence
\* is past start_exclusion in that scope and has not returned.
TypeOK ==
    /\ \A r \in Requests : jobs[r] = None \/ jobs[r] \in JobType
    /\ setting \in Destinations \cup {None} /\ live \subseteq Guardians
    /\ \A o \in OpIds : ops[o] = None
         \/ ops[o] \in OutgoingOperation
    /\ balance \in [Scopes -> 0..1] /\ claims \in [Scopes -> BOOLEAN]
    /\ \A s \in Scopes : lock[s] # None =>
         /\ call[lock[s]].scope = s
         /\ call[lock[s]].pc \in {"find", "start", "commit"}

\* What the money did, as PayOnce tells it: a stored job is a promise, a
\* native operation with the request's mark is its payment, and the row that
\* names an operation is the link to it.
Promised == [r \in Requests |->
    IF jobs[r] = None THEN None ELSE <<jobs[r].scope, jobs[r].dest>>]
PaymentsMade == [r \in Requests |->
    {<<o, <<ops[o].scope, ops[o].dest>>>> :
        o \in {p \in OpIds : ops[p] # None /\ ops[p].req = r}}]
Linked == [r \in Requests |-> IF jobs[r] = None THEN None ELSE jobs[r].op]

Once == INSTANCE PayOnce WITH Terms <- Scopes \X Destinations, Payments <- OpIds,
                              promised <- Promised, payments <- PaymentsMade,
                              linked <- Linked

\* CLAIM-manifold-guardian-payout-request-idempotent: payouts implement
\* PayOnce.  No request is ever paid by two native operations, in whichever
\* scopes; money only leaves for a stored job, from its wallet and to the
\* destination it was created with, whatever the setting has become; and a row
\* that names an operation names that payment for good, however calls race,
\* are cut off and are retried.
ImplementsPayOnce == Once!Spec

\* "Drained" means the wallet really was: at some moment of the query no ecash
\* was left and nothing was in flight (wallet_drain_status reads active
\* operations, balance and history one after the other, while payouts and
\* claims go on).
DrainedWasTrue == query.result = "drained" => query.quiet

=============================================================================
