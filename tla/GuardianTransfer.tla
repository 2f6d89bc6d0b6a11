-------------------------- MODULE GuardianTransfer --------------------------
(***************************************************************************)
(* One federation guardian moving between the seats of several Manifold    *)
(* Guardians (one seat per MG here): the FA's transfer driver              *)
(* (fa-client/src/transfer.rs), the destination's pull and import          *)
(* (transfer_worker.rs, seat/import.rs), the source's stop, fence and      *)
(* hand-over (seat/transfer.rs), the durable rows (db/transfers.rs), the   *)
(* backup worker and its relay (backup_worker.rs, backup.rs), and the      *)
(* whole-host restore from that relay (restore.rs).                        *)
(*                                                                         *)
(* Every daemon may die at any step; PullSeat, TransferSeat and RemoveSeat *)
(* requests may be delayed, repeated or lost.  Assumed, as the repository  *)
(* assumes: the FA opens one move at a time and never grants a seat to two *)
(* destinations, a restore sees the latest document the relay stored, and  *)
(* its operator has retired the old host for good.  Every running guardian *)
(* is taken to sign in every session it is part of.                        *)
(***************************************************************************)
EXTENDS Naturals, FiniteSets

CONSTANTS Seats,        \* seats, each on its own MG
          Source,       \* the seat the guardian was formed on
          None,         \* no value
          Retirable,    \* bound: seats an operator or FA may decommission
          MaxRestores   \* bound: whole-host losses followed by a restore

ASSUME TransferAssumption ==
    /\ Source \in Seats
    /\ None \notin Seats
    /\ Retirable \subseteq Seats
    /\ MaxRestores \in Nat

VARIABLES db,        \* durable rows of each seat
          disk,      \* seat data directories that hold the guardian
          child,     \* each seat's fedimintd
          pc,        \* the command a seat loop is inside of
          relay,     \* the recovery document the relay serves for each seat
          publishing,\* document a backup worker published and has not recorded
          material,  \* destinations whose worker holds the source's answer
          exported,  \* history: sources that have handed the guardian over
          signers,   \* seats whose guardian signed in the current session
          fa,        \* the FA's durable record of its open transfer
          granted,   \* the source a signed grant names for each destination
          removals,  \* sources the FA sent RemoveSeat to
          named,     \* the seat the federation's consensus directory names
          enabled,   \* the policy's guardian_transfer_v2 flag
          restores,  \* number of restores so far
          gambled,   \* history: a host was lost after RemoveSeat was sent
          calm       \* environment: no crash, loss or restore from here on

vars == <<db, disk, child, pc, relay, publishing, material, exported, signers,
          fa, granted, removals, named, enabled, restores, gambled, calm>>
mgVars == <<relay, publishing, restores, gambled, calm>>
faVars == <<fa, granted, removals, named, enabled>>

GuardianTransferPhase == {"none", "pulling", "binding", "removing"}

\* A grant the FA signed names the source its destination may pull from.
SeatTransferGrants == [Seats -> Seats \cup {None}]

Running == {"up", "leaving"}
Fences == {"none", "stopped", "removed"}
Docs == [guardian : BOOLEAN, imported : BOOLEAN, out : Fences, decom : BOOLEAN]
Rows == [formed : BOOLEAN, in : {"none", "waiting", "imported"}, out : Fences,
         decom : BOOLEAN, confirmed : Docs \cup {None}]

(***************************************************************************)
(* seat_publication_plan: a removed source keeps its fence and drops its   *)
(* archive and its import provenance; a waiting destination publishes      *)
(* nothing of its move.                                                    *)
(***************************************************************************)
Document(row) ==
    [guardian |-> row.formed /\ row.out # "removed",
     imported |-> row.in = "imported" /\ row.out # "removed",
     out |-> row.out, decom |-> row.decom]

\* install_restored_fleet: the rows a document restores.
RestoredRow(doc) ==
    [formed |-> doc.guardian \/ doc.out # "none",
     in |-> IF doc.imported THEN "imported" ELSE "none",
     out |-> doc.out, decom |-> doc.decom, confirmed |-> None]

\* is_retired: decommissioned, or stopped for a transfer.
Retired(row) == row.decom \/ row.out # "none"

\* The status GetStatus reports for a seat, as far as the FA tells it apart.
Status(s) ==
    CASE db[s].decom -> "Decommissioned"
      [] ~db[s].decom /\ db[s].out # "none" -> "Transferred"
      [] ~Retired(db[s]) /\ db[s].in = "waiting" -> "AwaitingTransfer"
      [] ~Retired(db[s]) /\ db[s].in # "waiting" /\ db[s].formed /\ s \in disk -> "Running"
      [] ~Retired(db[s]) /\ db[s].in # "waiting" /\ db[s].formed /\ s \notin disk -> "DataLoss"
      [] OTHER -> "New"

NewRow == [formed |-> FALSE, in |-> "none", out |-> "none", decom |-> FALSE, confirmed |-> None]
FormedRow == [NewRow EXCEPT !.formed = TRUE]
NoTransfer == [phase |-> "none", src |-> None, dst |-> None]

\* The guardian runs on Source, and every seat's first backup is confirmed.
Init ==
    LET row(s) == IF s = Source THEN FormedRow ELSE NewRow IN
    /\ db = [s \in Seats |-> [row(s) EXCEPT !.confirmed = Document(row(s))]]
    /\ relay = [s \in Seats |-> Document(row(s))]
    /\ disk = {Source}
    /\ child = [s \in Seats |-> IF s = Source THEN "up" ELSE "none"]
    /\ pc = [s \in Seats |-> "idle"]
    /\ publishing = [s \in Seats |-> None]
    /\ material = {}
    /\ exported = {}
    /\ signers = {Source}
    /\ fa = [NoTransfer EXCEPT !.src = Source]
    /\ granted = [s \in Seats |-> None]
    /\ removals = {}
    /\ named = Source
    /\ enabled \in BOOLEAN
    /\ restores = 0
    /\ gambled = FALSE
    /\ calm = FALSE

-----------------------------------------------------------------------------
(* The FA.  fa.src is the seat its seat list names, fa.phase its durable   *)
(* StoredTransferPhase ("none" when no transfer is open).                  *)

\* has_custody: an MG that hosts or hosted the guardian is no destination.
HasCustody(s) == s = fa.src \/ s = Source \/ granted[s] # None

\* start_guardian_transfer_locked, with its seat purchase done.
StartTransfer(d) ==
    /\ fa.phase = "none"
    /\ enabled
    /\ ~HasCustody(d)
    /\ fa' = [fa EXCEPT !.phase = "pulling", !.dst = d]
    /\ UNCHANGED <<db, disk, child, pc, material, exported, signers, granted, removals, named, enabled, mgVars>>

\* read_pulled_guardian on a New destination: sign_grant and send PullSeat.
SendPullSeat ==
    /\ fa.phase # "none"
    /\ Status(fa.dst) = "New"
    /\ granted' = [granted EXCEPT ![fa.dst] = fa.src]
    /\ UNCHANGED <<db, disk, child, pc, material, exported, signers, fa, removals, named, enabled, mgVars>>

\* check_pulled_guardian answers Running in Pulling: the move is now Binding.
SeePulled ==
    /\ fa.phase = "pulling"
    /\ Status(fa.dst) = "Running"
    /\ fa' = [fa EXCEPT !.phase = "binding"]
    /\ UNCHANGED <<db, disk, child, pc, material, exported, signers, granted, removals, named, enabled, mgVars>>

\* publish_moved_binding, after the check every drive repeats: the guardians'
\* votes put the destination into the consensus directory.
PublishMovedBinding ==
    /\ fa.phase = "binding"
    /\ Status(fa.dst) = "Running"
    /\ named' = fa.dst
    /\ UNCHANGED <<db, disk, child, pc, material, exported, signers, fa, granted, removals, enabled, mgVars>>

\* The readback (or adopt_transferred_seat of a later run) records the move.
Rebind(readback) ==
    /\ fa.phase = "binding"
    /\ readback
    /\ fa' = [fa EXCEPT !.phase = "removing"]
    /\ UNCHANGED <<db, disk, child, pc, material, exported, signers, granted, removals, named, enabled, mgVars>>

RecordRebind == Rebind(named = fa.dst)

\* remove_source_seat, only right after the destination says it runs.
SendRemove(checked) ==
    /\ fa.phase = "removing"
    /\ checked
    /\ removals' = removals \cup {fa.src}
    /\ UNCHANGED <<db, disk, child, pc, material, exported, signers, fa, granted, named, enabled, mgVars>>

SendRemoveSeat == SendRemove(Status(fa.dst) = "Running")

\* RemoveSeat answered: the transfer closes and the seat list names dst.
Complete(seat) ==
    /\ fa.phase = "removing"
    /\ fa.src \in removals
    /\ db[fa.src].out = "removed"
    /\ fa' = [NoTransfer EXCEPT !.src = seat]
    /\ UNCHANGED <<db, disk, child, pc, material, exported, signers, granted, removals, named, enabled, mgVars>>

CompleteTransfer == Complete(fa.dst)

\* The MGs admit a policy that turns the flag on or off.
SetPolicy ==
    /\ enabled' = ~enabled
    /\ UNCHANGED <<db, disk, child, pc, material, exported, signers, fa, granted, removals, named, mgVars>>

-----------------------------------------------------------------------------
(* The destination.                                                        *)

\* pull_seat and admit_transfer: a replay changes nothing.
AdmitTransfer(d) ==
    /\ granted[d] # None
    /\ pc[d] = "idle"
    /\ enabled
    /\ ~Retired(db[d])
    /\ db[d].in = "none" /\ ~db[d].formed
    /\ db' = [db EXCEPT ![d].in = "waiting"]
    /\ UNCHANGED <<disk, child, pc, material, exported, signers, faVars, mgVars>>

\* Jobs::pulls: the transfer worker polls for this seat.
Pulls(d) == ~Retired(db[d]) /\ db[d].in = "waiting"

\* install_transfer up to the rename of the staged archive (or the adoption
\* of the one a crash left behind).
Install(d, files) ==
    /\ d \in material
    /\ pc[d] = "idle"
    /\ Pulls(d)
    /\ disk' = disk \cup files
    /\ pc' = [pc EXCEPT ![d] = "placed"]
    /\ UNCHANGED <<db, child, material, exported, signers, faVars, mgVars>>

InstallMaterial(d) == Install(d, {d})

(***************************************************************************)
(* accept_transfer and the spawn that follows: one transaction records the *)
(* import and the formed row.  A failed spawn is left to the respawn.      *)
(***************************************************************************)
AcceptTransfer(d) ==
    /\ pc[d] = "placed"
    /\ db' = [db EXCEPT ![d].in = "imported", ![d].formed = TRUE]
    /\ pc' = [pc EXCEPT ![d] = "idle"]
    /\ material' = material \ {d}
    /\ \/ child' = [child EXCEPT ![d] = "up"] /\ signers' = signers \cup {d}
       \/ UNCHANGED <<child, signers>>
    /\ UNCHANGED <<disk, exported, faVars, mgVars>>

-----------------------------------------------------------------------------
(* The source.                                                             *)

\* fleet.transfer_seat and check_source_grant for destination d.
Answers(d, always) ==
    LET s == granted[d] IN
    /\ Pulls(d) /\ s # None
    /\ pc[s] = "idle"
    /\ ~db[s].decom /\ db[s].formed
    /\ enabled \/ db[s].out \in always

SourceAnswers(d) == Answers(d, {"stopped", "removed"})

\* transfer_out without a fence: preflight, then ask the configured child to
\* stop after its session.
AskSessionEnd(d) ==
    LET s == granted[d] IN
    /\ SourceAnswers(d)
    /\ db[s].out = "none"
    /\ s \in disk
    /\ child[s] = "up"
    /\ child' = [child EXCEPT ![s] = "leaving"]
    /\ UNCHANGED <<db, disk, pc, material, exported, signers, faVars, mgVars>>

\* transfer_out of a stopped source, with the gate on its backup.
HandOver(d, gate) ==
    LET s == granted[d] IN
    /\ SourceAnswers(d)
    /\ db[s].out = "stopped"
    /\ gate
    /\ s \in disk
    /\ material' = material \cup {d}
    /\ exported' = exported \cup {s}
    /\ UNCHANGED <<db, disk, child, pc, signers, faVars, mgVars>>

\* The relay must have confirmed a document that records the stop.
ExportGuardian(d) ==
    HandOver(d, LET c == db[granted[d]].confirmed IN c # None /\ c.out = "stopped")

\* The answer is lost, or its attempt fails before the install.
LoseAnswer(d) ==
    /\ ~calm
    /\ d \in material
    /\ pc[d] = "idle"
    /\ material' = material \ {d}
    /\ UNCHANGED <<db, disk, child, pc, exported, signers, faVars, mgVars>>

\* retire_for_transfer's conditions.
MayRetire(row) == row.formed /\ ~row.decom /\ row.in # "waiting"

(***************************************************************************)
(* commit_session_boundary_exit: only the exit code of a stop between      *)
(* sessions writes the fence; every other exit is an ordinary one.         *)
(***************************************************************************)
CommitExit(s, exits) ==
    /\ pc[s] = "idle"
    /\ child[s] \in exits
    /\ child' = [child EXCEPT ![s] = "none"]
    /\ db' = IF MayRetire(db[s]) /\ db[s].out = "none" THEN [db EXCEPT ![s].out = "stopped"] ELSE db
    /\ UNCHANGED <<disk, pc, material, exported, signers, faVars, mgVars>>

CommitBoundaryExit(s) == CommitExit(s, {"boundary"})

\* An exit without that code, or whose code was lost to the end of the
\* control stream: the respawn policy takes over.
ObserveExit(s) ==
    /\ pc[s] = "idle"
    /\ child[s] = "crashed" \/ (child[s] = "boundary" /\ ~calm)
    /\ child' = [child EXCEPT ![s] = "none"]
    /\ UNCHANGED <<db, disk, pc, material, exported, signers, faVars, mgVars>>

\* remove_transferred up to the synced deletion of the data directory; a
\* directory an interrupted removal already deleted is no error.
Delete(s, present) ==
    /\ present
    /\ s \in removals
    /\ pc[s] = "idle"
    /\ ~db[s].decom
    /\ db[s].out = "stopped"
    /\ disk' = disk \ {s}
    /\ pc' = [pc EXCEPT ![s] = "deleted"]
    /\ UNCHANGED <<db, child, material, exported, signers, faVars, mgVars>>

DeletePresent(s) == Delete(s, s \in disk)

DeleteMaterial(s) == Delete(s, TRUE)

\* record_transfer_removal: the tombstone, and no accepted keys any more.
RecordRemoval(s) ==
    /\ pc[s] = "deleted"
    /\ db' = [db EXCEPT ![s].out = "removed", ![s].in = "none"]
    /\ pc' = [pc EXCEPT ![s] = "idle"]
    /\ UNCHANGED <<disk, child, material, exported, signers, faVars, mgVars>>

-----------------------------------------------------------------------------
(* Any seat: its child, its daemon, its backup, its operator.              *)

\* Boot and respawn: SeatLoop::run starts no child on a decommissioned, a
\* waiting or an outgoing seat, and a formed seat needs its directory.
MayRunUnfenced(row) == row.formed /\ ~row.decom /\ row.in # "waiting"

MayRun(row) == row.formed /\ ~Retired(row) /\ row.in # "waiting"

SpawnGuardian(s) ==
    /\ pc[s] = "idle"
    /\ child[s] = "none"
    /\ MayRun(db[s])
    /\ s \in disk
    /\ child' = [child EXCEPT ![s] = "up"]
    /\ signers' = signers \cup {s}
    /\ UNCHANGED <<db, disk, pc, material, exported, faVars, mgVars>>

\* A crash, a kill by the watchdog, a panic.
ChildCrashes(s) ==
    /\ ~calm
    /\ child[s] \in Running
    /\ child' = [child EXCEPT ![s] = "crashed"]
    /\ UNCHANGED <<db, disk, pc, material, exported, signers, faVars, mgVars>>

\* The federation finishes a session: a guardian asked to leave exits with
\* the boundary code, every other running one takes part in the next.
SessionEnds ==
    /\ child' = [s \in Seats |-> IF child[s] = "leaving" THEN "boundary" ELSE child[s]]
    /\ signers' = {s \in Seats : child[s] = "up"}
    /\ UNCHANGED <<db, disk, pc, material, exported, faVars, mgVars>>

\* The daemon dies and takes its child and everything volatile with it.
DaemonDies(s) ==
    /\ ~calm
    /\ child' = [child EXCEPT ![s] = "none"]
    /\ pc' = [pc EXCEPT ![s] = "idle"]
    /\ material' = material \ {s}
    /\ publishing' = [publishing EXCEPT ![s] = None]
    /\ UNCHANGED <<db, disk, exported, signers, faVars, relay, restores, gambled, calm>>

\* decommission: the mark is committed, then the child is stopped.
Decommission(s) ==
    /\ s \in Retirable
    /\ pc[s] = "idle"
    /\ ~db[s].decom
    /\ db' = [db EXCEPT ![s].decom = TRUE]
    /\ pc' = [pc EXCEPT ![s] = "decom"]
    /\ UNCHANGED <<disk, child, material, exported, signers, faVars, mgVars>>

DecommissionStop(s) ==
    /\ pc[s] = "decom"
    /\ child' = [child EXCEPT ![s] = "none"]
    /\ pc' = [pc EXCEPT ![s] = "idle"]
    /\ UNCHANGED <<db, disk, material, exported, signers, faVars, mgVars>>

(***************************************************************************)
(* reconcile_seat: assemble the document and publish it, then (the await   *)
(* ends here) assemble it again and record it only if it did not change.   *)
(***************************************************************************)
PublishBackup(s) ==
    /\ publishing[s] = None
    /\ Document(db[s]) # db[s].confirmed
    /\ Document(db[s]).guardian => s \in disk \/ (db[s].confirmed # None /\ db[s].confirmed.guardian)
    /\ relay' = [relay EXCEPT ![s] = Document(db[s])]
    /\ publishing' = [publishing EXCEPT ![s] = Document(db[s])]
    /\ UNCHANGED <<db, disk, child, pc, material, exported, signers, faVars, restores, gambled, calm>>

Record(s, unchanged) ==
    /\ publishing[s] # None
    /\ db' = IF unchanged THEN [db EXCEPT ![s].confirmed = publishing[s]] ELSE db
    /\ publishing' = [publishing EXCEPT ![s] = None]
    /\ UNCHANGED <<disk, child, pc, material, exported, signers, faVars, relay, restores, gambled, calm>>

RecordBackup(s) == Record(s, Document(db[s]) = publishing[s])

(***************************************************************************)
(* The host is lost and its mnemonic restored on a fresh one: rows and     *)
(* directories come from the relay's documents (restore.rs install).       *)
(***************************************************************************)
Restore(s) ==
    /\ ~calm
    /\ restores < MaxRestores
    /\ restores' = restores + 1
    /\ db' = [db EXCEPT ![s] = RestoredRow(relay[s])]
    /\ disk' = IF relay[s].guardian THEN disk \cup {s} ELSE disk \ {s}
    /\ child' = [child EXCEPT ![s] = "none"]
    /\ pc' = [pc EXCEPT ![s] = "idle"]
    /\ material' = material \ {s}
    /\ publishing' = [publishing EXCEPT ![s] = None]
    /\ gambled' = (gambled \/ (s \in disk /\ ~relay[s].guardian /\ disk \ {s} \subseteq removals))
    /\ UNCHANGED <<relay, exported, signers, faVars, calm>>

\* Crashes and losses stop, if they ever do.
FaultsEnd ==
    /\ ~calm
    /\ calm' = TRUE
    /\ UNCHANGED <<db, disk, child, pc, relay, publishing, material, exported, signers, faVars, restores, gambled>>

FaNext ==
    \/ \E d \in Seats : StartTransfer(d)
    \/ SendPullSeat
    \/ SeePulled
    \/ PublishMovedBinding
    \/ RecordRebind
    \/ SendRemoveSeat
    \/ CompleteTransfer
    \/ SetPolicy

SeatNext(s) ==
    \/ AdmitTransfer(s)
    \/ InstallMaterial(s)
    \/ AcceptTransfer(s)
    \/ AskSessionEnd(s)
    \/ ExportGuardian(s)
    \/ LoseAnswer(s)
    \/ CommitBoundaryExit(s)
    \/ ObserveExit(s)
    \/ DeleteMaterial(s)
    \/ RecordRemoval(s)
    \/ SpawnGuardian(s)
    \/ ChildCrashes(s)
    \/ DaemonDies(s)
    \/ Decommission(s)
    \/ DecommissionStop(s)
    \/ PublishBackup(s)
    \/ RecordBackup(s)
    \/ Restore(s)

Next == FaNext \/ SessionEnds \/ FaultsEnd \/ \E s \in Seats : SeatNext(s)

Spec == Init /\ [][Next]_vars

(***************************************************************************)
(* Weak fairness for each step of the move: every loop, worker and driver  *)
(* retries with a bounded delay.  None for the policy, for faults, for     *)
(* decommissions or for the start of a transfer.                           *)
(***************************************************************************)
SessionBoundary == SessionEnds /\ \E s \in Seats : child[s] = "leaving"

SeatStep(s) ==
    \/ AdmitTransfer(s) \/ InstallMaterial(s) \/ AcceptTransfer(s)
    \/ CommitBoundaryExit(s) \/ ObserveExit(s) \/ SpawnGuardian(s)
    \/ DeleteMaterial(s) \/ RecordRemoval(s) \/ DecommissionStop(s)

-----------------------------------------------------------------------------
TypeOK ==
    /\ db \in [Seats -> Rows]
    /\ disk \subseteq Seats
    /\ child \in [Seats -> Running \cup {"none", "boundary", "crashed"}]
    /\ pc \in [Seats -> {"idle", "placed", "deleted", "decom"}]
    /\ relay \in [Seats -> Docs]
    /\ publishing \in [Seats -> Docs \cup {None}]
    /\ material \subseteq Seats /\ exported \subseteq Seats /\ signers \subseteq Seats
    /\ fa \in [phase : GuardianTransferPhase, src : Seats, dst : Seats \cup {None}]
    /\ granted \in SeatTransferGrants
    /\ removals \subseteq Seats
    /\ named \in Seats
    /\ enabled \in BOOLEAN /\ gambled \in BOOLEAN
    /\ restores \in 0..MaxRestores

\* At most one host runs the guardian at any time (SPEC-guardian-transfer,
\* Invariants): the source's child has exited before another host's starts,
\* across crashes, late requests and restores.
SingleHost == \A s, t \in Seats : child[s] \in Running /\ child[t] \in Running => s = t

\* The moved key never signs in a session another host signed in: a source
\* leaves only at a session boundary (commit_session_boundary_exit).
NoFork == \A s, t \in signers : s = t

\* Both together: the guardian's key never acts for two hosts in one session.
NeverForked == SingleHost /\ NoFork

\* A source that handed the guardian over keeps its fence for good: in its own
\* rows, whatever crash or restore follows, and in the document the relay
\* serves (the AwaitingBackup gate of transfer_out).
ExportIsFinal == \A s \in exported : db[s].out # "none" /\ relay[s].out # "none"

\* An accepted import always has its files (accept_transfer commits after the
\* rename), until the guardian is deleted on the FA's request.
AcceptedHasFiles == \A s \in Seats : db[s].in = "imported" /\ s \notin removals => s \in disk

\* The FA never has the last copy deleted: as long as no host is lost after
\* RemoveSeat left the FA, some seat directory holds the guardian.
GuardianHeld == gambled \/ disk # {}

\* The seat the consensus directory names was never deleted: RemoveSeat
\* follows the readback of the new binding.
NamedNotRemoved == db[named].out # "removed"

\* The guardian is never lost to its own move: some seat holds it, the seat
\* that accepted it has its files, and the seat the federation's directory
\* names was not deleted, whichever of three hosts crash, are restored from
\* their backup or decommissioned, and however requests are repeated.
GuardianKept == GuardianHeld /\ AcceptedHasFiles /\ NamedNotRemoved

\* A guardian moves whole and once: no two of its instances sign different
\* histories, a copy that left is final, and until the move completes one seat
\* keeps everything the guardian needs, through restores of either host, policy
\* changes and retries of every step (the guardian transfer of mg/core).
OneGuardian == TypeOK /\ NeverForked /\ ExportIsFinal /\ GuardianKept

\* From any state the faults left, with transfers on, an open move completes
\* unless a seat is decommissioned or the last copy was lost after RemoveSeat
\* was sent (run_guardian_transfer).
MoveCompletes ==
    (<>[]enabled) =>
        ((calm /\ fa.phase # "none") ~> (fa.phase = "none" \/ gambled \/ \E s \in Seats : db[s].decom))
=============================================================================
