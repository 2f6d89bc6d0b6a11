------------------------------ MODULE MgBackup ------------------------------
(***************************************************************************)
(* Backup of a Manifold Guardian's seats to its relay, and restore onto a  *)
(* new host from the mnemonic alone.  The backup worker reconciles what    *)
(* the relay serves with each seat's durable state; a publication is the   *)
(* guardian archive's slices, one event each, and then the seat's          *)
(* document.  Restore recovers the whole fleet or nothing, stages seat     *)
(* directories, and adopts the identity with the seats in one transaction. *)
(***************************************************************************)
EXTENDS Naturals, FiniteSets

CONSTANTS Seats,      \* seats this mnemonic ever sells
          SliceCount, \* slices one sealed archive is cut into
          MaxLosses,  \* times the host is lost with everything on it
          None        \* model value: no such row, document or seat

VARIABLES
  stage,  \* onboarding stage of the current host
  row,    \* seats table: what the database says of each seat
  dir,    \* the seat's data directory: "none", "partial" or "whole"
  rec,    \* seat_backup_publications: the last confirmed document
  doc,    \* relay: the event at the seat's document coordinate
  slice,  \* relay: the seal each archive slice coordinate carries (0: no event)
  worker, \* the backup worker's current publication
  inst,   \* the restore in progress
  losses, \* hosts lost so far
  best    \* history: the last document ever recorded as confirmed

vars == <<stage, row, dir, rec, doc, slice, worker, inst, losses, best>>
hostVars == <<stage, row, dir, rec>>
relayVars == <<doc, slice>>

Slices == 1 .. SliceCount
Seals == 1 .. SliceCount + 1
Endings == {"no", "decommissioned", "removed"}
SeatRow == [formed: BOOLEAN, ended: Endings]
Document == [guardian: BOOLEAN, ended: Endings]

Idle == [pc |-> "idle", seat |-> None, doc |-> None, arch |-> FALSE, seal |-> 0, next |-> 1]
NoInstall == [pc |-> "idle", fleet |-> None, todo |-> {}]

Init ==
  /\ stage = "identity"
  /\ row = [s \in Seats |-> None]
  /\ dir = [s \in Seats |-> "none"]
  /\ rec = [s \in Seats |-> None]
  /\ doc = [s \in Seats |-> None]
  /\ slice = [s \in Seats |-> [i \in Slices |-> 0]]
  /\ worker = Idle
  /\ inst = NoInstall
  /\ losses = 0
  /\ best = [s \in Seats |-> None]

-----------------------------------------------------------------------------
(* Onboarding.  The worker and the seats start once it is complete. *)

\* A fresh mnemonic is only chosen where nothing was ever backed up.
OnboardAsNew ==
  /\ stage = "identity" /\ inst.pc = "idle" /\ losses = 0
  /\ stage' = "holder"
  /\ UNCHANGED <<row, dir, rec, relayVars, worker, inst, losses, best>>

AnswerHolderAuthorization ==
  /\ stage = "holder"
  /\ stage' = "offer"
  /\ UNCHANGED <<row, dir, rec, relayVars, worker, inst, losses, best>>

AnswerInitialOffer ==
  /\ stage = "offer"
  /\ stage' = "complete"
  /\ UNCHANGED <<row, dir, rec, relayVars, worker, inst, losses, best>>

-----------------------------------------------------------------------------
(* What changes a seat's durable state while the host serves. *)

Lifecycle(s, r, d) ==
  /\ stage = "complete"
  /\ row' = [row EXCEPT ![s] = r]
  /\ dir' = [dir EXCEPT ![s] = d]
  /\ UNCHANGED <<stage, rec, relayVars, worker, inst, losses, best>>

CreateSeat(s) ==
  /\ row[s] = None /\ doc[s] = None /\ slice[s][1] = 0
  /\ Lifecycle(s, [formed |-> FALSE, ended |-> "no"], "none")

Form(s) ==
  /\ row[s] # None /\ row[s] = [formed |-> FALSE, ended |-> "no"]
  /\ Lifecycle(s, [row[s] EXCEPT !.formed = TRUE], "whole")

Decommission(s) ==
  /\ row[s] # None /\ row[s].ended = "no"
  /\ Lifecycle(s, [row[s] EXCEPT !.ended = "decommissioned"], dir[s])

RemoveSeat(s) ==
  /\ row[s] # None /\ row[s] = [formed |-> TRUE, ended |-> "no"]
  /\ Lifecycle(s, [row[s] EXCEPT !.ended = "removed"], "none")

-----------------------------------------------------------------------------
(* The backup worker. *)

\* The document a seat's durable state calls for; `confirmed` is whether the
\* archive is already confirmed on the relay.
PlannedDocument(s, confirmed) ==
  [guardian |-> row[s].ended # "removed" /\ (confirmed \/ row[s].formed),
   ended |-> row[s].ended]

NeedsArchive(s, confirmed) == row[s].ended # "removed" /\ ~confirmed /\ row[s].formed

ConfirmedArchive(s) == rec[s] # None /\ rec[s].guardian

FreshSeal(s) == CHOOSE n \in Seals : \A i \in Slices : slice[s][i] # n

PublishIf(s, confirmed, due) ==
  /\ stage = "complete" /\ worker.pc = "idle" /\ row[s] # None
  /\ NeedsArchive(s, confirmed) => dir[s] = "whole"
  /\ due
  /\ worker' = [pc |-> "publish", seat |-> s, doc |-> PlannedDocument(s, confirmed),
                arch |-> NeedsArchive(s, confirmed), seal |-> FreshSeal(s), next |-> 1]
  /\ UNCHANGED <<hostVars, relayVars, inst, losses, best>>

PublishPlan(s, confirmed) ==
  PublishIf(s, confirmed, row[s] # None /\ (NeedsArchive(s, confirmed)
                                            \/ rec[s] # PlannedDocument(s, confirmed)))

\* One seat of a scan; unchanged seats publish nothing, and a formed seat
\* whose archive cannot be read is left to the next scan.
ReconcileSeat(s) == PublishPlan(s, ConfirmedArchive(s))

SliceUpTo(last) ==
  /\ worker.pc = "publish" /\ worker.arch /\ worker.next <= last
  /\ slice' = [slice EXCEPT ![worker.seat][worker.next] = worker.seal]
  /\ worker' = [worker EXCEPT !.next = @ + 1]
  /\ UNCHANGED <<hostVars, doc, inst, losses, best>>

\* The slices go up in order, each confirmed by reading it back.
PublishSlice == SliceUpTo(SliceCount)

PublishDocument ==
  /\ worker.pc = "publish"
  /\ worker.arch => worker.next > SliceCount
  /\ doc' = [doc EXCEPT ![worker.seat] = worker.doc]
  /\ worker' = [worker EXCEPT !.pc = "confirm"]
  /\ UNCHANGED <<hostVars, slice, inst, losses, best>>

Recorded(d) ==
  /\ rec' = [rec EXCEPT ![worker.seat] = d]
  /\ best' = [best EXCEPT ![worker.seat] = d]

\* mutant: confirms the state as it is now, not the document that was sent
MRecordPublication ==
  /\ worker.pc = "confirm"
  /\ Recorded([worker.doc EXCEPT !.ended = row[worker.seat].ended])
  /\ worker' = Idle
  /\ UNCHANGED <<stage, row, dir, relayVars, inst, losses>>

\* The plan is assembled again: facts that changed while the relay was
\* answering leave the publication unconfirmed.
RecordPublication ==
  /\ worker.pc = "confirm"
  /\ IF PlannedDocument(worker.seat, worker.doc.guardian) = worker.doc
     THEN Recorded(worker.doc) ELSE UNCHANGED <<rec, best>>
  /\ worker' = Idle
  /\ UNCHANGED <<stage, row, dir, relayVars, inst, losses>>

\* A publish error, a timeout, an unconfirmed read-back, or the daemon
\* stopping: whatever the relay took stays there.
PublicationCut ==
  /\ worker.pc # "idle"
  /\ worker' = Idle
  /\ UNCHANGED <<hostVars, relayVars, inst, losses, best>>

-----------------------------------------------------------------------------
(* Losing the host, and restoring from the relay. *)

HostLost ==
  /\ losses < MaxLosses /\ stage # "identity"
  /\ losses' = losses + 1
  /\ stage' = "identity"
  /\ row' = [s \in Seats |-> None]
  /\ dir' = [s \in Seats |-> "none"]
  /\ rec' = [s \in Seats |-> None]
  /\ worker' = Idle
  /\ inst' = NoInstall
  /\ UNCHANGED <<relayVars, best>>

\* The slices of one seat up to the first gap reassemble to one seal.
Opens(s) == slice[s][1] # 0 /\ \A i \in Slices : slice[s][i] = slice[s][1]

\* A slice no document accounts for refuses the restore; a removed source's
\* document retires its own slices.
Claimed(s) == \/ doc[s] # None /\ (doc[s].guardian \/ doc[s].ended = "removed")
              \/ \A i \in Slices : slice[s][i] = 0

\* The fleet the relay's events describe, or None where any of them is
\* unreadable or unaccounted for.
RecoverFromEvents ==
  IF \A s \in Seats : /\ Claimed(s)
                      /\ (doc[s] # None /\ doc[s].guardian) => Opens(s)
  THEN [s \in Seats |-> IF doc[s] = None THEN None
                        ELSE [formed |-> doc[s].guardian \/ doc[s].ended = "removed",
                              ended |-> doc[s].ended]]
  ELSE None

Hosted(fleet) == {s \in Seats : fleet[s] # None /\ fleet[s].formed /\ fleet[s].ended # "removed"}

\* Every destination is checked before any is written: an existing directory
\* is adopted only where it is whole, and only for a seat with a guardian.
DestinationsFree(fleet) ==
  \A s \in Seats : \/ dir[s] = "none"
                   \/ dir[s] = "whole" /\ s \in Hosted(fleet)

RestoreStart ==
  /\ stage = "identity" /\ inst.pc = "idle"
  /\ RecoverFromEvents # None
  /\ DestinationsFree(RecoverFromEvents)
  /\ inst' = [pc |-> "write", fleet |-> RecoverFromEvents,
              todo |-> {s \in Hosted(RecoverFromEvents) : dir[s] = "none"}]
  /\ UNCHANGED <<hostVars, relayVars, worker, losses, best>>

\* Written under the staging root, which the next attempt wipes, then renamed.
WriteSeatDir(s) ==
  /\ inst.pc = "write" /\ s \in inst.todo
  /\ dir' = [dir EXCEPT ![s] = "whole"]
  /\ inst' = [inst EXCEPT !.todo = @ \ {s}]
  /\ UNCHANGED <<stage, row, rec, relayVars, worker, losses, best>>

\* Seats, claims, identity and stage in one transaction.  No publication
\* record is seeded, so the first scan publishes every seat again.
InstallRestoredFleet ==
  /\ inst.pc = "write" /\ inst.todo = {}
  /\ row' = inst.fleet
  /\ stage' = "holder"
  /\ inst' = NoInstall
  /\ UNCHANGED <<dir, rec, relayVars, worker, losses, best>>

RestoreCut ==
  /\ inst.pc = "write"
  /\ inst' = NoInstall
  /\ UNCHANGED <<hostVars, relayVars, worker, losses, best>>

-----------------------------------------------------------------------------
Seat(s) == CreateSeat(s) \/ Form(s) \/ Decommission(s) \/ RemoveSeat(s)

Onboarding == OnboardAsNew \/ AnswerHolderAuthorization \/ AnswerInitialOffer

Publication == PublishSlice \/ PublishDocument \/ RecordPublication

Restore == RestoreStart \/ InstallRestoredFleet \/ RestoreCut \/ \E s \in Seats : WriteSeatDir(s)

Next ==
  \/ Onboarding
  \/ \E s \in Seats : Seat(s) \/ ReconcileSeat(s)
  \/ Publication
  \/ PublicationCut
  \/ HostLost
  \/ Restore

Spec == Init /\ [][Next]_vars

-----------------------------------------------------------------------------
TypeOK ==
  /\ stage \in {"identity", "holder", "offer", "complete"}
  /\ row \in [Seats -> SeatRow \union {None}]
  /\ dir \in [Seats -> {"none", "partial", "whole"}]
  /\ rec \in [Seats -> Document \union {None}]
  /\ doc \in [Seats -> Document \union {None}]
  /\ slice \in [Seats -> [Slices -> Seals \union {0}]]
  /\ worker \in [pc: {"idle", "publish", "confirm"}, seat: Seats \union {None},
                 doc: Document \union {None}, arch: BOOLEAN,
                 seal: Seals \union {0}, next: 1 .. SliceCount + 1]
  /\ inst.pc \in {"idle", "write"} /\ inst.todo \subseteq Seats
  /\ losses \in 0 .. MaxLosses
  /\ best \in [Seats -> Document \union {None}]

\* A confirmed archive stays whole on the relay for as long as this host
\* counts on it (reconcile_seat never sends a confirmed archive again), so
\* skipping its files on later scans is safe.
ConfirmedArchiveOpens ==
  \A s \in Seats : ConfirmedArchive(s) => Opens(s) /\ doc[s] # None

Rank(e) == CASE e = "no" -> 0 [] e = "decommissioned" -> 1 [] e = "removed" -> 2

\* A partial answer is an error, never a smaller fleet: a host that is past
\* the identity stage, restored or not, holds every seat that was ever
\* confirmed, no further back in its life than confirmed, and with its
\* guardian's files where an archive was confirmed.
NothingConfirmedIsLost ==
  stage # "identity" =>
    \A s \in Seats : best[s] # None =>
      /\ row[s] # None
      /\ Rank(row[s].ended) >= Rank(best[s].ended)
      /\ best[s].guardian /\ row[s].ended # "removed" => row[s].formed /\ dir[s] = "whole"

\* An interrupted restore can be run again without filesystem surgery: what it
\* left in the seat directories is what the next attempt adopts (install).
InterruptedIsRetryable ==
  stage = "identity" /\ inst.pc = "idle" /\ RecoverFromEvents # None
    => DestinationsFree(RecoverFromEvents)

\* A publication interrupted by the loss of the host does not stop the
\* seats that were confirmed from being restored.
ConfirmedIsRestorable ==
  stage = "identity" /\ (\E s \in Seats : best[s] # None) => RecoverFromEvents # None
=============================================================================
