# Manifold in TLA+

This directory holds a verification development for the Manifold repository:
TLA+ modules translated from its Rust code, TLC runs that check them on small
instances, and proofs that TLAPS checks.  Definitions follow the code, not its
documents; `PROJECT.json` names the lines each stands for (a helper's lines are
within those of the definitions that use it).

## The system and its parts

Manifold forms and keeps Fedimint federations out of guardians that are rented.

- A **Manifold Guardian (MG)** hosts `fedimintd` seats.  It sells them under an
  offer (price, epoch, capacity), runs their key ceremony, supervises the
  children, claims the ecash it was paid, pays it out to its operator, backs
  every seat up to Nostr relays and can hand a guardian to another MG.
- A **Federation Ambassador (FA)**, the `fa-client` library with the `fa-cli`
  front end, picks MGs from their advertisements, pays for seats, drives the
  ceremony, publishes federation metadata, asks for liquidity and moves
  guardians.
- **FLIP**, the liquidity manager daemon, funds gateways and stability pools of
  federations it has verified.
- The **push gateway** turns a hook invocation (such as "the ceremony is
  complete") into a notification.
- The **telemetry collector** archives the journals and metrics of MGs.
- **defe** starts and stops all of these for development and tests.

| Part | Module | State and actions |
|---|---|---|
| MG seat admission | `Admission`, proofs in `AdmissionProofs` | offer row, seat rows, registry, the calls in flight; one action per step of `get_quote` and `create_seat`, per operator command, per policy change |
| MG seat loop | `Seat` | durable rows, the data directory, the child and its events, the loop's program counter |
| MG completion callbacks | `CompletionHooks` | callback rows, a delivery pass, answers in flight |
| MG claims and payment terms | `EcashClaims` | claim rows and the client's log over restores; separately the denominations, fees and refund of one locked payment |
| MG wallet clients | `WalletClients` | prefixes, partitions, open and recovering clients |
| MG payouts | `Payouts`, which implements `PayOnce`; proofs in `PayoutsProofs` | job rows, native operations, fences, a drain query |
| MG backup and restore | `MgBackup` | seats, relay slices and documents, onboarding |
| Guardian transfer | `GuardianTransfer`, proofs in `GuardianTransferProofs` | both hosts, the FA's record, relays, consensus sessions |
| FA formation | `Formation` | seat rows, authorization, reservation, wallet, guardians' decisions |
| FA ceremony | `FormationDkg` | seats' incarnations, the FA's driver |
| Metadata votes | `MetaVote` | adopted object, votes, pins, the FA's waves |
| FA seat purchase | `SeatPurchase` | the open transfer's purchase record, quote, hold |
| FA driver lease | `DriverLease`, proofs in `DriverLeaseProofs` | the lease row, drivers and their transactions |
| FA wallet | `PayerWallet` | reservation journal, client operations, token files |
| FA backup | `FaBackup` | generations, confirmations, relays, deliveries |
| FA liquidity | `Liquidity` | requests, copies in the network, providers, trust documents |
| FA selection | `Selection` | discovery, cohort walk, preview, approval |
| Policy and directory | `Directory` | publisher runs, relay queries, retained policy, authorization, advertising loop |
| Verification | `Verification` | authorities, budget, pipeline, badge verifier, enrolment |
| FLIP funding | `FlipFunding`, proofs in `FlipFundingProofs` | item and wallet operation, gateway worker, sync, operator, chain |
| FLIP capacity | `FlipCapacity` | observations and ticks, items, operations, balance reads |
| FLIP stability | `StabilityDeposit` | deposit step, target client, binds |
| FLIP admission | `FlipAdmission` | the setup row, its writers, requests |
| FLIP restore | `FlipGenerations`, `FlipBackup` | generations and directory entries; the barrier, staging, restore mode |
| FLIP advertisement | `FlipAdvertisement` | row, relay records, the writer |
| FLIP client pool | `TargetClients` | clients, opens, locks, evictions |
| Push delivery | `PushOutbox` | hooks, markers, outbox rows, deliveries, the worker |
| Push registration | `PushAdmission` | registrations, owners, hooks, ceilings; the signed-request door |
| Rolling journal | `RollingJournal` | directory and file contents, durable and not, the reader |
| Collector | `TelemetryTargets`, `TelemetryJournal`, `TelemetryMetrics` | target rows, archive and ledger, polls, snapshots, exposition, metrics policy |
| defe | `Environment` | slots, leases, processes, composer, namespaces, port book |

Components interact where one module's environment is another's promise.  The
transfer (`GuardianTransfer`) composes two hosts, their backups, the FA and the
federation's sessions; `FormationDkg` and `MetaVote` compose the FA with
several seats; `Directory` composes publisher, relays, guardian and FA;
`Liquidity` composes FA and providers; `PushOutbox` ends what `CompletionHooks`
starts.

## How the runs are built

Each `MC` module is a suite: a variable `part` names the component a behaviour
belongs to, the other components' variables are the model value `Off`, and each
property speaks of its own part.  A suite explores every part from its initial
states in one run, so the state spaces add up and do not multiply.  A suite
EXTENDS the module it has theorems about (`MCGuardian` `Admission`, `MCWallet`
`Payouts`, `MCAmbassador` `DriverLease`, `MCFlip` `FlipFunding`, `MCRecovery`
`GuardianTransfer`), so that run and theorem speak of the same definition, and
takes the other components with INSTANCE.  The suites
check deadlock nowhere: bounds on clocks, crashes and calls end every behaviour,
and several components (a completed payout, a decommissioned seat) may stop.
Symmetry is used for sets of interchangeable quotes, callers, guardians, seats
and tokens in runs without temporal properties other than action properties.

### `guardian` (MCGuardian, Guardian.cfg)

The Manifold Guardian's rows agree with its processes and its money: no current quote lacks a slot, a quote settles once, a seat is supervised to its end, a recorded claim, refund or delivery is true; and the development server stops what it started.
Parts `admission` (3 quotes, 2 calls, one federation, 2 port blocks, offer epochs up
to 2), `seat` (one seat, 2 envelopes and 2 invites), `hooks` (2 seats), `claims`
(3 claims and one restore), `terms` (prices 0..27, dust 1, at most 6 notes, repair
limit 20), and for defe `leases` (2 clients, 2 slots), `composer` (one composer, 2 forks)
and `ports` (a book of 4 ports).  `TypeOK`, `CurrentQuoteHasSlot` and `SettledOnce` are
admission's own and also proved: a quote of the current epoch finds a seat number, and a
lost race or a dropped call never leaves a quote both accepted and refused.  `Supervised`
follows one seat through exits, failed spawns, unproved exits and restarts.
It says that no two children of a seat are at work at once; a child whose `wait` failed
was killed without proof of its exit and may still be dying when its successor starts
(`handle_child_exit`).  `RecordedIsTrue` compares rows with what happened outside the
database.

Checks `TypeOK`, `CurrentQuoteHasSlot`, `SettledOnce`, `Supervised`, `RecordedIsTrue`, `EnvironmentIsOrderly`.

### `recovery` (MCRecovery, Recovery.cfg)

A guardian moves whole and once, what was confirmed on relays is what a restored host has, and the ambassador's backups supersede each other.
Parts `transfer` (3 seats, one host restore), `backup` (2 seats of 2 slices, one
host loss), `ambassador` (2 relays, 2 changes, one device loss, 2 seals) and `refresh`
(one relay, one stop, 3 seals).  `OneGuardian` is the strongest statement about a move:
no two instances of a guardian ever sign different histories, although both hosts
can be restored from older backups and every step can be retried.  It is proved for any
number of hosts and restores.

Checks `OneGuardian`, `ConfirmedSurvives`, `BackupsSupersede`.

### `wallet` (MCWallet, Wallet.cfg)

Payouts implement the abstract specification PayOnce, a drained wallet really was drained at some moment of the query, and no wallet client is handed out half made.
Parts `requests` (2 requests, 2 destinations, 2 callers, one scope), `scopes` (one
request whose calls run in 2 scopes), `drain` (a drain query among a payout and a claim)
and `clients` (one federation, 2 prefixes, one restart).  `ImplementsPayOnce` is a
refinement: with `promised`, `payments` and `linked` of `PayOnce` read off the job
rows and the client's operations, every step is a step of `PayOnce` or a stutter.  It is proved for all constants, and so is
`DrainedWasTrue`.

Checks `DrainedWasTrue`, `ClientsAreSound`, `ImplementsPayOnce`.

### `ambassador` (MCAmbassador, Ambassador.cfg)

The ambassador finds its money again from its records wherever it was cut off, one formation makes one federation, the driver lease fences its drivers, and meta votes adopt one write.
Parts `formation` (3 guardians, 4 quotes), `purchase` (the seat bought for a move),
`payer` (2 quotes in one group, with a crash) and `payers` (two groups), `dkg` (3
incarnations of a child), `lease` (2 drivers, clock 3) and `meta` (3 guardians,
threshold 3, one restart).  Symmetry is over the guardians only.  `LeaseFences` is also
proved.

Checks `MoneyIsReachable`, `PaymentsReconcile`, `OneCeremony`, `LeaseFences`, `AdoptsOneWrite`.

### `flip` (MCFlip, Flip.cfg)

FLIP pays nothing twice and nothing cancelled, every accepted item is covered by the wallet, and no setup or admission commits on a configuration that changed under it.
Parts `funding` (one item, 2 generations, 2 chain transactions), `capacity` (3 items, 2
balance readers, 2 ticks, 5 units of funds, reserve 1, cap 3), `withdrawals` (2 intents, 3 calls),
`stability` (one deposit and its funding send, one binder, 3 stops), `admission` (2 requests, one editor) and
`setup` (2 editors, one secret call, one restart).  `FundedOnce` is also proved.

Checks `FundedOnce`, `SentOnce`, `AcceptedIsCovered`, `NoStaleCommit`.

### `flip_daemon` (MCFlip, FlipDaemon.cfg)

A swap or a backup of FLIP that is not itself cut off mixes no two states, its advertisement is what the operator last asked for, and its pool never hands out a closing client.
Parts `generations` (2 callers, 2 handlers, one archive, 2 faults), `backup` (2 workers, 2
backups), `mode` (uploads with up to 5 stops), `advertisement` (2 relays, 2 calls, one
restart), `readvertisement` (one relay, 3 calls, one restart) and `clients` (2 federations,
room for one open client, 3 calls).  The clock of the advertisement runs to 4: a restart sets the gate two
seconds ahead, and events are sent on both sides of it.

`NoTornState` has two strengths.  Wherever a rename failed or the process died, what was
served and what was accepted is still somewhere on the disk.  That a generation serves
*one* state, and serves what was accepted, is stated only while no process has ended among
the renames of a swap, which the ghost `cut` records: nothing on the disk says how far a swap came, so the next
start completes and serves whatever directory it finds, with entries missing or of two
states.  A rename that fails while the live state is moved aside is such an end, too, unless
it is the first one, although `commit_live_restore` then reports "failed to move live
state aside; data dir is unchanged" (`backup.rs:1095-1096`).

Checks `NoTornState`, `AdvertisedAsTold`, `PoolIsSound`.

### `push` (MCServices, Push.cfg)

The push gateway handles an invocation once, its registrations and owners agree within their caps, and a settled row is final.
Parts `outbox` (one row, 2 attempts, 2 replays, one crash, clock 5), `keys` (2 rows with reused
keys), `legacy` (a hook without expiry, whose markers live as long as a new hook would),
`registrations` (2 recipients of 2 installations, 3 tokens, room for 5 rows and 2 active ones),
`recipients` (3 recipients, 3 tokens), `hooks` (3 hooks, room for 2 rows)
and `door` (signed requests over a forwarding chain and rate windows).  Every ceiling is
below what the callers could reach without it.

The source a request is charged to is its caller's address under one assumption: the trusted
proxies append to one of the headers `Forwarded` and `X-Forwarded-For` and strip the other.
The code reads `X-Forwarded-For` only when no address parses in `Forwarded`
(`rate_limits.rs:247-271`), so behind a proxy that appends to `X-Forwarded-For` and passes
`Forwarded` on, a caller names its own source.  `SPEC-abuse-limits.md:100-101` expects
proxies to strip or overwrite both.

Checks `HandledOnce`, `RegistrationsAgree`, `TerminalIsFinal`.

### `live` (MCRecovery, Live.cfg)

Under the fairness of the loops that retry on timers an open move completes, a formed seat's callback settles, and an accepted event is resolved.
The three liveness properties of the project, on the modules `GuardianTransfer`,
`CompletionHooks` and `PushOutbox`: `MoveCompletes` (2 seats), `CallbackSettles` (one seat) and `AcceptedIsResolved`
(one row, one crash, one replay, clock 5).

Checks `MoveCompletes`, `CallbackSettles`, `AcceptedIsResolved`.

### `collector` (MCServices, Collector.cfg)

Telemetry is lost only where a loss is reported, the exposition holds what the clock it was read at allows, and what a poll commits belongs to the registration it asked.
Parts `rolling` (2 files of 2 records, 3 records of which one may be longer than a batch, one
power loss, one wipe), `rotation` (2 files of one record, one power loss, one failed directory
operation), `targets` (one MG, 2 endpoints, one rotation of its key), `places` (2 MGs for one place, clocks
that run ahead), `archive` (2 registrations, 2 incarnations, quota 3), `gaps` (4 records that
the source may drop or skip), `metrics` (2 MGs under one cap), `restarts` (one MG, one
stop), `leases` (2 MGs that renew and lapse unpolled) and `policy` (snapshots of up to 5 lines, room for 4 samples).

A batch carries one gap flag.  It is raised when the read had to start again, and then the loss lies before the
batch, and when a record is longer than a batch, and then the loss lies behind it
(`read_batch_anchored`); the archive keeps the flag with the frame.  The exposition is
compared with the leases that run when it is rendered or served.  `admit` reads the clock
before it is queued for the writer, so a late registration can extend or shorten a lease
under a revision a cached body already has; the ghost `late` names those targets, and
`ExpositionIsCurrent` leaves them out.  `PollsAreFenced` compares a commit with the history
of the registration since the poll connected (the ghost `since`), not with the row it is
guarded on.

Checks `ArchiveIsFaithful`, `ExpositionIsCurrent`, `PollsAreFenced`.

### `market` (MCAmbassador, Market.cfg)

What is advertised, selected, verified and asked of providers is current and vouched for, and neither policies, evidence nor authorizations go back.
Parts `requests`, `expiry`, `evidence`, `faulty` and `trust` of `Liquidity` (two providers;
each part opens one family of faults), `selection`, `publication`, `policies`, `refreshes` and
`enrolment` of `Directory`, and `pipeline`, `allowance`, `badges`, `development` and `authorizations` of
`Verification`.  In a development profile the revocations are read from the profile's own
relays, whatever locations the authority signed (`check_revocation`); `development` checks
that what is believed is current there.  The suite shares `MCAmbassador` with the run `ambassador`.

Checks `LiquidityIsAccounted`, `SelectionIsExact`, `DirectoryIsCurrent`, `VerificationIsSound`, `EvidenceIsKept`, `DirectoryAdvances`, `AuthorizationsAdvance`.

### `recovery_stray` (MCRecovery, RecoveryStray.cfg)

A host lost between the slices of a publication and its document leaves a fleet that cannot be restored, although its earlier document was confirmed.
The part `backup` of `recovery` with the one property a comment states.

Violated: `ConfirmedIsRestorable`.

### `flip_withdrawal` (MCFlip, FlipWithdrawal.cfg)

A withdrawal is admitted against a balance that is older than the observation its pending sends are subtracted from.
The part `withdrawals` of `flip` with the one property a comment states.

Violated: `WithdrawalsCovered`.

### Bounds

Bounds are constants of the modules named `Max...`, or the sizes of the sets
above.  They are chosen so that every action and every disjunct fires, and so
that each listed hazard has room to happen: two actors wherever a race is at
stake, one crash or host loss more than the property needs to be at risk, a
clock that passes every deadline at least once, a cap that is reached and
exceeded by one.  The mutants of `PROJECT.json` (one per property, each a
plausible slip such as a dropped guard, a swapped order or a missing reset) are
all found within the same bounds.

### Fairness

Only the run `live` assumes fairness.  It is weak fairness of the steps that a
running loop takes by itself and retries on a timer: the FA's driver of a move
(`run_guardian_transfer`), the seats' own loops, the session boundary of the
federation and the backup worker in `GuardianTransfer`; the callback worker's
scan, its attempts and the end of a back-off in `CompletionHooks`; the outbox
worker, the deliveries it spawned, the connection and the clock in
`PushOutbox`.  The one strong fairness is of the gateway: an attempt that is
made again and again is at some point answered with something other than a
retryable failure.  Of the environment it is assumed that it becomes calm: no
crash, host loss or restore from some point on (`calm`), no restart and a
configured origin from some point on for the callbacks.  Faults and operators
get no fairness.

## What is proved

Five modules hold theorems.  Each extends one component, so that a theorem and
a run name the same property: the run shows it on a small instance, the theorem
for every value of the constants.

| Theorem | States | Inductive invariant |
|---|---|---|
| `AdmissionProofs` `AdmissionTypeCorrect`, `CurrentEpochQuoteHasCapacity`, `QuoteSettlesOnce` | `TypeOK`, `CurrentQuoteHasSlot`, `SettledOnce` | `AdmissionInv` (theorem `AdmissionInvariant`) |
| `PayoutsProofs` `PayoutsImplementPayOnce`, `PayoutTypes` | `ImplementsPayOnce`, `TypeOK` | `PayInv` |
| `PayoutsProofs` `DrainedIsTrue` | `DrainedWasTrue` | `PayInv` and `DrainInv` |
| `DriverLeaseProofs` `LeaseIsFence` | `LeaseFences`, an action property | `LeaseInv` |
| `FlipFundingProofs` `FundingIsFenced` | `FundedOnce` | `FundingInv` |
| `GuardianTransferProofs` `GuardianIsOne` | `OneGuardian` | `TransferInv` |

The assumptions are the named ASSUMEs of the components: limits, prices, clocks
and bounds are naturals, and the values that stand for "nothing" are not among
the values they are told apart from.  `Admission` also assumes that the set of
quotes is finite, `GuardianTransfer` that the source is one of the seats.  The
bounds of the models (`MaxEpoch`, `MaxOps`, `MaxGen`, `MaxRestores`...) are
constants like the others: the theorems hold whatever they are.

**Admission.**  `CurrentQuoteHasSlot` is what `create_seat` asserts when it
draws a seat number.  It is not inductive by itself.  The strengthening relates
the registry and the rows (a published seat has a row), the epoch of every
outstanding quote and call (never above the offer's, and one that a call
carries was read from a signed quote), the slot count (every change that can
lower the free slots draws a fresh epoch in the same transaction, so the quotes
of the current epoch were issued under the present capacity), and the answers
(an accepted answer has a row, a refused one an epoch that has passed).

**Payouts implement PayOnce.**  `PayOnce` speaks of what was promised, paid and
linked; why each happens once is in the calls.  `PayInv` says that the holder
of a start fence is the call that looks for a payment or starts it, that a call
past its row has the row's terms, that two calls of one request therefore share
one wallet and one fence, and that "found no earlier payment" still holds when
the payment starts.  The refinement has one lemma per visible step (a row is a
promise, a start is a payment, a commit is a link) and one for all the others,
which `PayOnce` does not see.

**The drain query** reads active operations, balance and history, twice, one
after the other, while payouts and claims go on.  `DrainInv` says how far the
second observation got without meeting a quiet moment: as long as none was met,
either the balance is back or an operation has been recorded that the first
history did not have, and then the two observations differ.

**Driver lease.**  `LeaseInv` says what an open transaction may rely on while
nothing wrote the lease key since its snapshot, and that an owner, drawn once,
never holds the lease again after another driver took it.  From this every
single step is shown to fence, which is the action property.

**Gateway funding.**  `FundingInv` follows the fence of
`claim_funding_submission`: as long as a send may exist, in flight, on chain or
in the worker's hands, the operation is past `pending` and no pass of the worker
holds an older reading of it.  The operator can break this by declaring a send
unsent that may exist; the ghost `misjudged` records exactly that verdict, and
both the property and the invariant are stated under its absence.

**Guardian transfer.**  `TransferInv` says of each seat that its backup never
promises less than its rows (a fence the relay serves is in the rows, one that
was confirmed is on the relay, a guardian that left has its fence there), that a
fenced seat runs and signs nothing, and that a seat has anything of the guardian
only after its source handed it over.  Of the FA's moves it says that every seat
they left behind has handed over, and that a removal is asked for only of such
a seat and after the directory names its successor.  Two hosts that could both
sign would form a chain of hand-overs whose earlier member is fenced.

Each proof that a step preserves an invariant has one step or lemma per action,
and under it one per conjunct the action can disturb.

### What is only model-checked

- Liveness under fairness (`MoveCompletes`, `CallbackSettles`,
  `AcceptedIsResolved`), which is out of the prover's reach.
- What recursive definitions and folds compute for every input: the
  denomination search in `RecordedIsTrue`, the journals behind
  `ArchiveIsFaithful`, the sorting in `SelectionIsExact`.
- Statements about several components or several instances of one
  (`Supervised`, `ClientsAreSound`, `MoneyIsReachable`, `NoTornState`...).  They
  are conjunctions over instances whose constants are fixed in the suite; a
  theorem would be about each component by itself.
- The remaining safety properties (`AdoptsOneWrite`, `OneCeremony`,
  `AcceptedIsCovered`, `TerminalIsFinal`, `DirectoryAdvances`,
  `AuthorizationsAdvance`...).  Nothing in them is beyond the prover; the runs
  check them and no inductive invariant has been written for them yet.

## Two disagreements between code and comments

- `recovery_stray`: one archive slice that no document claims makes
  `recover_from_events` refuse the whole fleet, although the comment on
  publication says that a failure part-way leaves "at worst confirmed slices
  under an old document".  A host lost between slices and document can
  therefore not be restored from its earlier, confirmed document.
- `flip_withdrawal`: `request_withdrawal` compares with a balance it read
  itself but subtracts the sends that are pending against the stored, possibly
  later observation, so a send that settled in between is subtracted from
  neither.

## Observations

Met while modelling, each stated from the code and left to its maintainers.

MG
- A policy join that is aborted between its prefix reservation and its map entry
  leaves a second prefix behind; the next start fails with "duplicate client
  scope mapping" (`setup_payment_policy.rs`, `lib.rs` `load_prefixes`).
- An archive that is published but not yet recorded is sealed afresh on the
  retry and written to the same coordinates (`backup_worker.rs`, `seal_blob`), so
  a host lost during the retry leaves slices of two seals, which do not open
  together.  `MgBackup` models the seals; what was recorded as confirmed is never
  sent again and keeps opening (`ConfirmedArchiveOpens`).
- `record_completion_callback_attempt_started` does not test for a transferred
  seat; the row is skipped earlier and the case is harmless.
- One claim whose recovery does not end delays the whole claim scan.
- `refund_denominations` may refuse a representable refund beyond its repair
  limit, or when the greedy choice has used up the note capacity.
- The onboarding flag `completed` stays down when the request is dropped between
  `configure_initial_offer` and the notification; the stored stage is right.

FA
- The doc comment of `select_mg_seats` ranks by price, slots and id; the code
  sorts by price over a shuffled pool.
- A stored setup policy whose content a new release refuses makes
  `refresh_setup_payment_policy` fail until it is replaced, where the MG waits
  for a newer event.
- `write_guardian_transfer` checks the driver's lease and does not extend it,
  where its comment says "Renew this owner and apply one guardian-transfer change
  in the same transaction" (`db.rs`); the fence is the same, the expiry is not.
- A stateless rejection of a replayed copy can be stored while an earlier copy is
  undecided and later accepted; a restore from an older backup can lead to a
  second request.  `Liquidity` records both in ghost variables (`overtaken`,
  `stale`) and states its single-holder property under their absence.
- A seat rebound on a restored device before its first backup keeps the base's
  generation for different content; a restore takes the best of the relays that
  answered.  `FaBackup` records the first in `reused`.

FLIP
- An operator may declare a send unsent that did happen; `FlipFunding` marks the
  wrong verdict in `misjudged` and states its single-payment property without it.
- `bind_and_resume` guards its update on the status alone and writes the step it
  read before it looked the operation up, so the later of two binds that overlap
  replaces the id the earlier one recorded (`target_recovery.rs`).
- `install` clears the last restore error whenever a generation serves again,
  also after a restore that was rolled back (`daemon.rs`), where its doc says
  "retained until one succeeds".
- The entry a restore set aside stays when the process dies before its cleanup.
- A swap that ends among its renames is served as it lies by the next start, and a failure
  to move aside after the first entry is reported as "data dir is unchanged" (`cut`, above).
- An advertisement publication that is cut off before its row leaves relays with
  an event the row does not know (`severed`).
- The pool of target clients may exceed its ceiling by the clients that workers
  hold and by the opens under way: `make_room` may return having closed nothing.

Push, telemetry, defe
- The cache of handled signed requests is in memory and starts empty.
  `PushAdmission` bounds the time between a request's clock check and its entry
  in the cache by `MaxStall`.
- A parsed `Forwarded` header hides `X-Forwarded-For` (above).
- In-progress rows are reset at start whatever is left of their lease; delivery is
  at least once, and a late answer is fenced by its claim.
- `rotate` whose directory sync fails leaves an empty segment beyond
  `max_files`; `remove_oldest` failing after the unlink makes appends fail until
  the journal is reopened.
- A projection within the output limit can exceed it when the collector adds its
  identity labels.
- A SIGKILLed composer lets the server stop while descendants are still dying; a
  restart after the port hold expired may find its ports taken.

## Abstractions

General: SQLite writes succeed or the daemon dies; a daemon's death kills its
children; messages, keys, ids and payloads are model values; signatures and
encryption are verdicts; a lost, late or repeated call is a step of the
environment.

- `Admission`: wallet prices are read per federation; a call is its program
  counter and quote.
- `Seat`: one seat; a child reports through a queue the loop drains in order; a `wait` that
  fails finds its child running and kills it.
- `EcashClaims`: a federation rejects only spent notes; in the terms part a fee
  is per note, amounts are small whole numbers, and sums never reach 2^64.
- `WalletClients`: a reservation is one transaction; only policy joins abort.
- `Payouts`: a balance is zero or one sweep; the two start fences are one lock.
- `MgBackup`: one identity; staging and rename of a seat directory are one step.
- `GuardianTransfer`: one guardian; the purchase precedes it; plan and
  publication of a backup are one step; a running guardian signs every session.
- `Formation`: one driver at a time, as `run_guard` enforces; `CutOff` is a
  crash, a timeout or a lost answer.
- `MetaVote`: one FA, three guardians, threshold three, one move, fewer restarts than
  thresholds overlap.
- `FormationDkg`: a federation is the tuple of the children that made it.
- `PayerWallet`: one payment federation, price one, the call discipline of
  `fa-client`.
- `FaBackup`: one device at a time; one unanswered event per relay.
- `Liquidity`: one federation and driver; the clock counts validity periods.
- `Selection`: the shuffle and the sort are "any cheapest next"; badge verdicts
  and live answers are inputs.
- `Directory`: one publisher run at a time; relays keep the newest event of an
  address and end a query honestly or not at all.
- `Verification`: a lookup returns what its relay holds or fails; the budget is
  not restarted.
- `StabilityDeposit`: between its submission and its settlement a send is `sent`, be it in
  doubt, broadcast, confirmed or under review.
- `FlipFunding`: one item; amounts are equal.  `FlipCapacity`: fees are part of
  the amount.  `FlipAdmission`: a configuration is five fields.
- `FlipGenerations`: an entry's content is its era.  `FlipBackup`: the lock is
  first come first served, as tokio's.
- `TargetClients`: a client is the number of its open; an open fails or succeeds, its task
  does not panic.
- `PushOutbox`: one installation; rate limits only refuse.  `PushAdmission`: an
  operation is one transaction; one line of each forwarding header, one window length.
- `RollingJournal`: a record is short or longer than a batch.  `TelemetryJournal`: a
  guardian's journal appends, drops and skips records as an environment, as `RollingJournal`
  allows; a frame is one unit of quota; reports are not modelled.  `TelemetryMetrics`: a
  snapshot is its size and revision; in the policy part one gauge, one counter and one
  histogram with its last bucket stand for the inventory.
- `Environment`: ports are small integers; a command is opaque; one composer.

## Not modelled

The RPC transport and wire formats, cryptography, the operators' interfaces and
command-line output, parsing and validation of configuration, the host readiness
probe, guardian-fee arithmetic, the FCM provider, the database migrations, the
development monitor and the end-to-end runners.  They either hold no state of
their own, are read once at start, or are programs outside this repository.
Within modelled components, validation of request bodies, size limits of single
messages and the text of errors are verdicts.
