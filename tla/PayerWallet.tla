---------------------------- MODULE PayerWallet ----------------------------
(***************************************************************************)
(* The payer's wallet of the development Federation Ambassador (fa-cli:    *)
(* payer.rs, wallet.rs, funding_token_journal.rs and the FaPayments        *)
(* adapter of main.rs).  An aggregate of quotes is journalled with one     *)
(* debit per member before anything is spent; a member is then funded by a *)
(* transaction whose operation id is a digest of its quote, marked Started *)
(* in the journal, and either pays its guardian, is rejected and has its   *)
(* inputs given back piece by piece, or is refunded by a transaction the   *)
(* guardian signed.  Only the two last make a member Terminal, and only a  *)
(* Terminal member can be Released.  The journal and the federation        *)
(* client's database commit separately, and a call can be cut off between  *)
(* any two of its steps.                                                   *)
(*                                                                         *)
(* One payment federation; every quote has price 1 and a fee quoted anew   *)
(* at submission; a transaction spends either exact notes or the whole     *)
(* balance and gets the rest back as change; an automatic refund is free.  *)
(* fa-client is the caller: it arms an aggregate durably before it funds a *)
(* member and gives the whole back only unarmed (Formation, SeatPurchase). *)
(***************************************************************************)
EXTENDS Naturals, FiniteSets, FiniteSetsExt

CONSTANTS Groups,     \* the quotes of each aggregate reservation, by its id
          Tokens,     \* funding token files, each worth TokenValue
          TokenValue,
          Fees,       \* the fees the federation may quote
          Floors,     \* the balance floors a caller may ask for
          MaxCrashes, \* bound on the crashes of a behaviour
          None        \* no row, no file

VARIABLES
  journal,   \* durable: the aggregate reservations
  op,        \* durable: the federation client's operation of each quote
  balance,   \* the spendable ecash of the federation client
  guard,     \* the reservation whose call holds spend_guard, or "free"
  call,      \* what the caller of each reservation is doing, and with which quote
  absent,    \* the quotes each caller found unstarted and has not paid since
  armed,     \* durable, of fa-client: outputs of the aggregate may exist
  refused,   \* the accepted payments whose guardian refused the seat
  source,    \* the --funding-token-file, or None
  restart,   \* the .fi-cli-in-progress journal beside it, or None
  credited,  \* the tokens the federation reissued to this wallet
  import,    \* the step of the running import
  remitted,  \* ecash that left as a guardian-fee remittance
  fed,       \* the federation's client database
  open,      \* the client is in the wallet's map
  crashes

money == <<journal, op, balance>>
calls == <<guard, call, absent>>
files == <<source, restart, credited, import>>
client == <<fed, open>>
vars == <<money, calls, armed, refused, files, remitted, client, crashes>>

Reservations == DOMAIN Groups
Quotes == UNION {Groups[r] : r \in Reservations}
Free == "free"
Price == 1

Unfunded == [st |-> "none", paid |-> 0, change |-> 0, due |-> 0]
Idle == [at |-> "idle", q |-> None]

Init ==
  /\ journal = [r \in Reservations |-> None]
  /\ op = [q \in Quotes |-> Unfunded] /\ balance = 0
  /\ guard = Free /\ call = [r \in Reservations |-> Idle]
  /\ absent = [r \in Reservations |-> {}]
  /\ armed = [r \in Reservations |-> FALSE] /\ refused = {}
  /\ source = None /\ restart = None /\ credited = {} /\ import = "off"
  /\ remitted = 0 /\ fed = "none" /\ open = FALSE /\ crashes = 0

----------------------------------------------------------------------------
(* What the journal rows say. *)

Journalled(r) == journal[r] # None
State(r, q) == journal[r].members[q].state
Debit(r, q) == journal[r].members[q].debit
HeldMembers(r) ==
  IF Journalled(r) THEN {q \in Groups[r] : State(r, q) = "Held"} ELSE {}

\* locked_payment_hold_summary
HeldOf(r) == MapThenSumSet(LAMBDA q : Debit(r, q), HeldMembers(r))
Held == MapThenSumSet(HeldOf, Reservations)
Reserve ==
  Max({0} \cup {journal[r].reserve : r \in {x \in Reservations : HeldMembers(x) # {}}})

Put(r, q, st) == journal' = [journal EXCEPT ![r].members[q].state = st]
At(r, step) == call[r].at = step
Does(r, step, q) == call' = [call EXCEPT ![r] = [at |-> step, q |-> q]]
Done(r) == call' = [call EXCEPT ![r] = Idle]
Ready(r) == open /\ At(r, "idle")

----------------------------------------------------------------------------
(* The aggregate. *)

\* locked_payment_net_debit: what paying one quote costs now.
NetDebit(fee) == Price + fee

\* plan_locked_payments: the row that would be journalled.
Planned(r, fee, floor) ==
  [reserve |-> floor,
   members |-> [q \in Groups[r] |-> [debit |-> NetDebit(fee[q]), state |-> "Held"]]]

\* exact_wallet_preflights: each quote checked alone, and their sum.
PlannedDebit(r, fee) == MapThenSumSet(LAMBDA q : NetDebit(fee[q]), Groups[r])

\* reserve_locked_payments_with_reserve: planned and compared under the guard.
\* An id that is journalled already is validated and handed out again.
ReserveLockedPayments(r) ==
  /\ Ready(r) /\ guard = Free /\ ~Journalled(r) /\ ~armed[r]
  /\ \E fee \in [Groups[r] -> Fees], floor \in Floors :
       /\ balance >= Held + PlannedDebit(r, fee) + Max({Reserve, floor})
       /\ journal' = [journal EXCEPT ![r] = Planned(r, fee, floor)]
  /\ UNCHANGED <<op, balance, calls, armed, refused, files, remitted, client, crashes>>

\* fa-client arms the aggregate before it starts an output.
Arm(r) ==
  /\ Ready(r) /\ Journalled(r) /\ HeldMembers(r) = Groups[r] /\ ~armed[r]
  /\ armed' = [armed EXCEPT ![r] = TRUE] /\ absent' = [absent EXCEPT ![r] = {}]
  /\ UNCHANGED <<money, guard, call, refused, files, remitted, client, crashes>>

\* A single purchase that recovered as unstarted is marked unstarted again.
Disarm(r) ==
  /\ Ready(r) /\ armed[r] /\ Cardinality(Groups[r]) = 1 /\ absent[r] = Groups[r]
  /\ armed' = [armed EXCEPT ![r] = FALSE]
  /\ UNCHANGED <<money, calls, refused, files, remitted, client, crashes>>

\* release_locked_payment_reservation: all held, or all released before.
ReleaseReservation(r) ==
  /\ Ready(r) /\ guard = Free /\ ~armed[r]
  /\ Journalled(r) /\ HeldMembers(r) = Groups[r]
  /\ journal' = [journal EXCEPT ![r].members =
                   [q \in Groups[r] |-> [@[q] EXCEPT !.state = "Released"]]]
  /\ UNCHANGED <<op, balance, calls, armed, refused, files, remitted, client, crashes>>

----------------------------------------------------------------------------
(* Funding one member. *)

\* maximum_reserved_payment_net_debit
Protected(r, q) == Held - Debit(r, q) + Reserve

\* submit_locked_v2: finalize_reserved_transaction commits the transaction
\* together with its operation.
Created(cost, notes) == [st |-> "created", paid |-> cost, change |-> notes - cost, due |-> 0]

\* submit_locked_v1/v2 up to the client's commit: an operation with the quote's
\* id is adopted, otherwise the current cost is compared and paid.
SubmitLocked(r, q) ==
  /\ Ready(r) /\ guard = Free /\ armed[r] /\ q \in HeldMembers(r)
  /\ IF op[q].st # "none" THEN UNCHANGED <<op, balance>>
     ELSE \E fee \in Fees : \E notes \in {NetDebit(fee), balance} :
            /\ balance >= Protected(r, q) + NetDebit(fee)
            /\ op' = [op EXCEPT ![q] = Created(NetDebit(fee), notes)]
            /\ balance' = balance - notes
  /\ guard' = r /\ Does(r, "submitted", q) /\ absent' = [absent EXCEPT ![r] = {}]
  /\ UNCHANGED <<journal, armed, refused, files, remitted, client, crashes>>

\* start_reserved_locked_payment
Started(r, q) ==
  /\ State(r, q) # "Released"
  /\ IF State(r, q) = "Held" THEN Put(r, q, "Started") ELSE UNCHANGED journal

\* The journal follows; the guard is dropped before the answer is awaited.
StartReserved(r) ==
  /\ At(r, "submitted")
  /\ Started(r, call[r].q)
  /\ guard' = Free /\ Does(r, "waiting", call[r].q)
  /\ UNCHANGED <<op, balance, absent, armed, refused, files, remitted, client, crashes>>

\* recover_accepted_locked_payment: accepted, and the change is spendable.
Paid(q) == op[q].st \in {"accepted", "refunded"} /\ op[q].change = 0

\* The shares are collected, or the rejection is reported as an error.
AnswerPayment(r) ==
  /\ At(r, "waiting")
  /\ Paid(call[r].q) \/ op[call[r].q].st = "rejected"
  /\ Done(r)
  /\ UNCHANGED <<money, guard, absent, armed, refused, files, remitted, client, crashes>>

----------------------------------------------------------------------------
(* Recovery, which never creates a transaction. *)

\* recover_terminal_locked_payment answers from the journal alone.
RecoverTerminal(r, q) ==
  /\ Ready(r) /\ Journalled(r) /\ q \in Groups[r]
  /\ State(r, q) \in {"Terminal", "Released"}
  /\ Does(r, "proof", q)
  /\ UNCHANGED <<money, guard, absent, armed, refused, files, remitted, client, crashes>>

\* recover_locked_v1/v2 without an operation of this quote: Absent.
RecoverAbsent(r, q) ==
  /\ Ready(r) /\ Journalled(r) /\ armed[r] /\ q \in Groups[r]
  /\ State(r, q) \in {"Held", "Started"} /\ op[q].st = "none"
  /\ absent' = [absent EXCEPT ![r] = @ \cup {q}]
  /\ UNCHANGED <<money, guard, call, armed, refused, files, remitted, client, crashes>>

\* With one, the journal catches up first.
RecoverStarted(r, q) ==
  /\ Ready(r) /\ Journalled(r) /\ guard = Free /\ q \in Groups[r]
  /\ State(r, q) \in {"Held", "Started"} /\ op[q].st # "none"
  /\ Started(r, q) /\ Does(r, "watching", q)
  /\ UNCHANGED <<op, balance, guard, absent, armed, refused, files, remitted, client, crashes>>

\* prepare_seat_payment: created with the reservation, or only recovered.
PrepareSeatPayment(r, q) ==
  SubmitLocked(r, q) \/ RecoverTerminal(r, q) \/ RecoverAbsent(r, q) \/ RecoverStarted(r, q)

RecoverFunded(r) ==
  /\ At(r, "watching") /\ Paid(call[r].q) /\ Done(r)
  /\ UNCHANGED <<money, guard, absent, armed, refused, files, remitted, client, crashes>>

\* record_locked_payment_terminal, outside the guard.
RecordTerminal(r) ==
  LET q == call[r].q IN
  /\ State(r, q) \in {"Started", "Terminal", "Released"}
  /\ IF State(r, q) = "Started" THEN Put(r, q, "Terminal") ELSE UNCHANGED journal
  /\ Does(r, "proof", q)
  /\ UNCHANGED <<op, balance, guard, absent, armed, refused, files, remitted, client, crashes>>

\* recover_rejected_locked_payment: await_rejected_input_refunds follows the
\* operation's refund transactions until they cover every original input.
InputsReturned(q) == op[q].due = 0

\* Mutant: the rejection alone counts as terminal.
RecoverRejectedEarly(r) ==
  At(r, "watching") /\ op[call[r].q].st = "rejected" /\ RecordTerminal(r)

RecoverRejected(r) ==
  /\ At(r, "watching") /\ op[call[r].q].st = "rejected" /\ InputsReturned(call[r].q)
  /\ RecordTerminal(r)

\* receive_v2_notes: what reissuing the notes of a refund still credits.
Reissued(q) == IF op[q].st = "accepted" THEN op[q].paid ELSE 0

\* submit_refund_v1/v2: an exact resubmission is accepted again and the notes'
\* reissue resumes, so a repeated settlement credits nothing more.
SubmitRefund(r, q) ==
  /\ Ready(r) /\ q \in Groups[r] \cap refused
  /\ op' = [op EXCEPT ![q].st = "refunded"]
  /\ balance' = balance + Reissued(q)
  /\ Does(r, "refunded", q)
  /\ UNCHANGED <<journal, guard, absent, armed, refused, files, remitted, client, crashes>>

SettleRefund(r) == At(r, "refunded") /\ RecordTerminal(r)

\* settle_seat_refund: the refund first, the journal when it is reissued.
SettleSeatRefund(r) == (\E q \in Groups[r] : SubmitRefund(r, q)) \/ SettleRefund(r)

\* release_locked_payment_member, with the proof the two paths above return.
ReleaseMember(r) ==
  /\ At(r, "proof") /\ guard = Free
  /\ State(r, call[r].q) \in {"Terminal", "Released"}
  /\ Put(r, call[r].q, "Released") /\ Done(r)
  /\ UNCHANGED <<op, balance, guard, absent, armed, refused, files, remitted, client, crashes>>

----------------------------------------------------------------------------
(* The rest of the wallet. *)

\* deposit_to_btc_balance, refused while anything is held.
Remit ==
  /\ open /\ guard = Free /\ Held = 0 /\ Reserve = 0 /\ balance > 0 /\ remitted = 0
  /\ remitted' = 1 /\ balance' = balance - 1
  /\ UNCHANGED <<journal, op, calls, armed, refused, files, client, crashes>>

\* FundingTokenJournal::prepare moves the source aside, or resumes the journal;
\* both at once are refused.
PrepareImport ==
  /\ open /\ import = "off"
  /\ (source = None) # (restart = None)
  /\ restart' = IF restart = None THEN source ELSE restart
  /\ source' = None /\ import' = "prepared"
  /\ UNCHANGED <<money, calls, armed, refused, credited, remitted, client, crashes>>

\* Wallet::receive / receive_v2: notes that were reissued before resume that
\* operation.
Receive ==
  /\ import = "prepared"
  /\ balance' = IF restart \in credited THEN balance ELSE balance + TokenValue
  /\ credited' = credited \cup {restart} /\ import' = "received"
  /\ UNCHANGED <<journal, op, calls, armed, refused, source, restart, remitted, client, crashes>>

\* FundingTokenJournal::complete
Complete ==
  /\ import = "received"
  /\ restart' = None /\ import' = "off"
  /\ UNCHANGED <<money, calls, armed, refused, source, credited, remitted, client, crashes>>

\* join_inner creates the client database before the configuration is fetched;
\* open_federation_inner opens only an initialized one.
JoinBegin ==
  /\ ~open /\ fed = "none"
  /\ fed' = "empty"
  /\ UNCHANGED <<money, calls, armed, refused, files, remitted, open, crashes>>

Join ==
  /\ ~open /\ fed = "empty"
  /\ fed' = "joined" /\ open' = TRUE
  /\ UNCHANGED <<money, calls, armed, refused, files, remitted, crashes>>

OpenFederation ==
  /\ ~open /\ fed = "joined"
  /\ open' = TRUE
  /\ UNCHANGED <<money, calls, armed, refused, files, remitted, fed, crashes>>

----------------------------------------------------------------------------
(* The federation, the guardians and the operator. *)

\* The transaction enters consensus, or is refused and its inputs are due back.
Decide(q) ==
  /\ op[q].st = "created"
  /\ \/ op' = [op EXCEPT ![q].st = "accepted"]
     \/ op' = [op EXCEPT ![q] = [@ EXCEPT !.st = "rejected", !.change = 0,
                                          !.due = @ + op[q].paid + op[q].change]]
  /\ UNCHANGED <<journal, balance, calls, armed, refused, files, remitted, client, crashes>>

\* Change of an accepted transaction, or some inputs of a rejected one, become
\* spendable.
Return(q) ==
  /\ open
  /\ \/ /\ op[q].st = "accepted" /\ op[q].change > 0
        /\ op' = [op EXCEPT ![q].change = 0] /\ balance' = balance + op[q].change
     \/ \E n \in 1..op[q].due :
          op' = [op EXCEPT ![q].due = @ - n] /\ balance' = balance + n
  /\ UNCHANGED <<journal, calls, armed, refused, files, remitted, client, crashes>>

\* A guardian that got the payment refuses the seat and signs the refund.
RefuseSeat(q) ==
  /\ Paid(q) /\ q \notin refused
  /\ refused' = refused \cup {q}
  /\ UNCHANGED <<money, calls, armed, files, remitted, client, crashes>>

\* The operator names a token file.
PlaceToken(t) ==
  /\ source = None /\ t \notin credited /\ restart # t
  /\ source' = t
  /\ UNCHANGED <<money, calls, armed, refused, restart, credited, import, remitted, client, crashes>>

\* A call is cut off: timeout, cancellation, error of the federation's api.
Cut(r) ==
  /\ ~At(r, "idle") /\ Done(r)
  /\ guard' = IF guard = r THEN Free ELSE guard
  /\ UNCHANGED <<money, absent, armed, refused, files, remitted, client, crashes>>

Crash ==
  /\ crashes < MaxCrashes /\ crashes' = crashes + 1
  /\ guard' = Free /\ call' = [r \in Reservations |-> Idle]
  /\ absent' = [r \in Reservations |-> {}] /\ import' = "off" /\ open' = FALSE
  /\ UNCHANGED <<money, armed, refused, source, restart, credited, remitted, fed>>

Next ==
  \/ \E r \in Reservations :
       \/ ReserveLockedPayments(r) \/ Arm(r) \/ Disarm(r) \/ ReleaseReservation(r)
       \/ StartReserved(r) \/ AnswerPayment(r) \/ RecoverFunded(r) \/ RecoverRejected(r)
       \/ SettleSeatRefund(r) \/ ReleaseMember(r) \/ Cut(r)
       \/ \E q \in Groups[r] : PrepareSeatPayment(r, q)
  \/ Remit \/ PrepareImport \/ Receive \/ Complete \/ JoinBegin \/ Join \/ OpenFederation
  \/ \E q \in Quotes : Decide(q) \/ Return(q) \/ RefuseSeat(q)
  \/ \E t \in Tokens : PlaceToken(t)
  \/ Crash

Spec == Init /\ [][Next]_vars

----------------------------------------------------------------------------
(* Properties. *)

MemberType == [debit : Nat, state : {"Held", "Started", "Terminal", "Released"}]

\* The journal rows, operations and files have the shapes the code stores.
TypeOK ==
  /\ \A r \in Reservations : Journalled(r) =>
       journal[r].reserve \in Nat /\ journal[r].members \in [Groups[r] -> MemberType]
  /\ \A q \in Quotes :
       /\ op[q].st \in {"none", "created", "accepted", "rejected", "refunded"}
       /\ op[q].paid \in Nat /\ op[q].change \in Nat /\ op[q].due \in Nat
  /\ balance \in Nat /\ guard \in Reservations \cup {Free}
  /\ source \in Tokens \cup {None} /\ restart \in Tokens \cup {None}
  /\ credited \subseteq Tokens /\ import \in {"off", "prepared", "received"}
  /\ fed \in {"none", "empty", "joined"} /\ open \in BOOLEAN

Unstarted(r) == {q \in HeldMembers(r) : op[q].st = "none"}
Coming == MapThenSumSet(LAMBDA q : op[q].change + op[q].due, Quotes)

\* Every member still held can be paid at the debit it was promised, and the
\* floor of its aggregate stays: other payments, remittances and re-quoted fees
\* never eat a hold (maximum_reserved_payment_net_debit, deposit_to_btc_balance).
HoldsAreCovered ==
  LET rs == {r \in Reservations : Unstarted(r) # {}} IN
    balance + Coming >=
      MapThenSumSet(LAMBDA r : MapThenSumSet(LAMBDA q : Debit(r, q), Unstarted(r)), rs)
      + Max({0} \cup {journal[r].reserve : r \in rs})

\* A member given back, or about to be, took nothing or had everything returned:
\* no funding operation, every input of a rejected one spendable again, or the
\* signed refund reissued (record_locked_payment_terminal).
ReleasedIsWhole ==
  \A r \in Reservations : \A q \in Groups[r] :
    Journalled(r) /\ State(r, q) \in {"Terminal", "Released"} =>
      \/ op[q].st = "none" \/ op[q].st = "refunded"
      \/ op[q].st = "rejected" /\ op[q].due = 0

\* payment_accounting over the operation log: what came in less what the setup
\* payments put out and cost is what the wallet has, and no bearer token is lost
\* on the way in (FundingTokenJournal).
Received == TokenValue * Cardinality(credited)
            + MapThenSumSet(LAMBDA q : IF op[q].st = "refunded" THEN op[q].paid ELSE 0, Quotes)
Reconciles ==
  /\ balance + Coming + remitted
       + MapThenSumSet(LAMBDA q : IF op[q].st \in {"created", "accepted", "refunded"}
                                  THEN op[q].paid ELSE 0, Quotes) = Received
  /\ import = "received" => restart \in credited
=============================================================================
