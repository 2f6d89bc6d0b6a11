-------------------------------- MODULE Seat --------------------------------
(***************************************************************************)
(* One guardian seat of a Manifold Guardian (mg/core/src/seat.rs): the     *)
(* single task SeatLoop that owns the seat's fedimintd child, the durable  *)
(* rows it writes (formed_seats, dkg_inputs, completion_callbacks,         *)
(* decommissioned_seats), the final data directory the child installs, and *)
(* daemon death at any point.  The seat takes part in no guardian transfer *)
(* (transfer_phase is None); moves are the subject of GuardianTransfer.    *)
(*                                                                         *)
(* The loop is sequential, but the child runs beside it: its events wait   *)
(* in the control socket (wire), and it may install its configuration or   *)
(* exit between any two steps of the loop.  A handler is therefore cut     *)
(* into steps exactly where it awaits a commit, the child or its exit.     *)
(***************************************************************************)
EXTENDS Naturals, Sequences, SequencesExt

CONSTANTS Envelopes,   \* validated guardian-code sets a ceremony can run on
          Invites,     \* invite codes of the federations ceremonies produce
          Callbacks,   \* completion callbacks an FA can choose
          None         \* no value

VARIABLES db,      \* durable rows: formed, inputs, callback, decommissioned
          disk,    \* the invite of the final data directory, or None
          proc,    \* the child the process slot owns: its stage and envelope
          orphan,  \* a child whose exit was never proved
          wire,    \* events the child sent that the loop has not read
          loop     \* the seat loop: pc, slot, respawn, watch, health

vars == <<db, disk, proc, orphan, wire, loop>>

Ceremony == {"params", "dkg"}
NoChild == [st |-> "none", env |-> None]
Child(st) == [st |-> st, env |-> None]

(***************************************************************************)
(* What the loop may do next.  "off" is a daemon that is not running,      *)
(* "send" and "await" are the two halves of run_validated_dkg, "restart"   *)
(* and "decom" are handlers past their commit and before stop_child,       *)
(* "done" is a loop that returned on a decommissioned seat.                *)
(***************************************************************************)
Pcs == {"off", "idle", "send", "await", "restart", "decom", "done"}
Slots == {"empty", "parked", "acked", "configured", "retired", "unproven"}
Live == {"parked", "acked", "configured", "retired"}

LoopOff == [pc |-> "off", slot |-> "empty", respawn |-> FALSE, watch |-> FALSE, health |-> FALSE]

Init ==
    /\ db = [formed |-> None, inputs |-> None, callback |-> None, decom |-> FALSE]
    /\ disk = None
    /\ proc = NoChild
    /\ orphan = NoChild
    /\ wire = << >>
    /\ loop = LoopOff

-----------------------------------------------------------------------------
(* Facts the handlers read.                                                *)

\* watchdog_eligible: a formed seat whose final directory exists.
Eligible(formed) == formed # None /\ disk # None

\* The guards shared by start_dkg and restart_dkg.
CeremonyAllowed == ~db.decom /\ db.formed = None /\ disk = None

\* install_completion_callback: the first choice, also the choice of none,
\* is kept.
FirstCallback(c) ==
    CASE db.callback # None -> db.callback
      [] db.callback = None /\ c # None -> c
      [] OTHER -> "not_configured"

-----------------------------------------------------------------------------
(* Stopping the child.                                                     *)

\* stop_child when the exit is proved: the slot is empty and the control
\* socket, with whatever it still buffered, is gone.
StopProved ==
    /\ loop.slot # "unproven"
    /\ wire' = << >>
    /\ UNCHANGED orphan

\* stop_child when killing a live child fails: exit stays unproved for the
\* lifetime of this daemon, and so it does when it already was.
StopUnproved ==
    /\ \/ loop.slot = "unproven" /\ UNCHANGED orphan
       \/ loop.slot \in Live /\ proc.st # "exited" /\ orphan' = proc
    /\ proc' = NoChild
    /\ wire' = << >>

\* The loop after a failed stop, in slot state `slot`.
RetireAs(slot, respawn) ==
    \/ /\ StopProved
       /\ proc' = NoChild
       /\ loop' = [loop EXCEPT !.pc = "idle", !.slot = "empty", !.respawn = TRUE]
    \/ /\ StopUnproved
       /\ loop' = [loop EXCEPT !.pc = "idle", !.slot = slot, !.respawn = respawn]

\* retire_failed_ceremony: stop, then respawn after backoff; an unproved
\* exit schedules nothing.
RetireFailedCeremony == RetireAs("unproven", FALSE)

-----------------------------------------------------------------------------
(* Starting the child.                                                     *)

\* spawn_child_inner with a child that says Hello: the formed row becomes
\* `formed`, and a child that needs params gets the recorded envelope when
\* `replays` holds.
SpawnAs(formed, replays) ==
    /\ proc' = Child(IF disk # None THEN "configured" ELSE "parked")
    /\ db' = [db EXCEPT !.formed = formed]
    /\ loop' = [loop EXCEPT
         !.slot = IF disk # None THEN "configured" ELSE "parked",
         !.pc = IF disk = None /\ replays /\ db.inputs # None THEN "send" ELSE "idle",
         !.watch = @ \/ disk # None,
         !.respawn = FALSE]

\* handle_child_state: AlreadyConfigured records the invite (record_formed)
\* and schedules the watchdog; NeedsParams replays the recorded envelope
\* unless the seat is formed, in which case the child stays parked.
SpawnChild == SpawnAs(IF db.formed = None THEN disk ELSE db.formed, db.formed = None)

\* spawn_child when the child does not start or never says Hello: it is
\* stopped and a respawn is scheduled, or its stop fails too.
SpawnFails ==
    /\ UNCHANGED db
    /\ proc' = NoChild
    /\ \/ /\ UNCHANGED orphan
          /\ loop' = [loop EXCEPT !.slot = "empty", !.pc = "idle", !.respawn = TRUE]
       \/ /\ orphan' = Child("parked")
          /\ loop' = [loop EXCEPT !.slot = "unproven", !.pc = "idle", !.respawn = FALSE]

\* Seat::start and the head of SeatLoop::run: spawn, then schedule the
\* watchdog; a decommissioned seat gets no loop.
Boot ==
    /\ loop.pc = "off"
    /\ UNCHANGED <<disk, wire>>
    /\ \/ /\ db.decom
          /\ loop' = [loop EXCEPT !.pc = "done"]
          /\ UNCHANGED <<db, proc, orphan>>
       \/ ~db.decom /\ SpawnChild /\ UNCHANGED orphan

BootFails ==
    /\ loop.pc = "off" /\ ~db.decom
    /\ UNCHANGED <<disk, wire, db>>
    /\ proc' = NoChild
    /\ \/ /\ UNCHANGED orphan
          /\ loop' = [loop EXCEPT !.pc = "idle", !.respawn = TRUE, !.watch = Eligible(db.formed)]
       \/ /\ orphan' = Child("parked")
          /\ loop' = [loop EXCEPT !.pc = "idle", !.slot = "unproven",
                                  !.watch = Eligible(db.formed)]

\* The respawn timer: spawn_child demands a proved empty slot.
Respawn ==
    /\ loop.pc = "idle" /\ loop.respawn /\ loop.slot = "empty"
    /\ SpawnChild
    /\ UNCHANGED <<disk, wire, orphan>>

RespawnFails ==
    /\ loop.pc = "idle" /\ loop.respawn /\ loop.slot = "empty"
    /\ SpawnFails
    /\ UNCHANGED <<disk, wire>>

-----------------------------------------------------------------------------
(* What the loop reads from the child.                                     *)

\* handle_persisted_invite: record_formed, mirror, mark_configured and
\* schedule the watchdog.
HandlePersistedInvite(i) ==
    /\ wire # << >> /\ Head(wire) = [kind |-> "persisted", invite |-> i]
    /\ loop.pc = "idle" /\ loop.slot \in Live
    /\ db' = IF db.formed = None THEN [db EXCEPT !.formed = i] ELSE db
    /\ loop' = [loop EXCEPT !.slot = IF @ \in {"parked", "acked"} THEN "configured" ELSE @,
                            !.watch = disk # None]
    /\ wire' = Tail(wire)
    /\ UNCHANGED <<disk, proc, orphan>>

Reads(kind) ==
    wire # << >> /\ Head(wire).kind = kind

\* DkgStarted, also as the acknowledgement run_validated_dkg waits for.
HandleDkgStarted ==
    /\ Reads("started")
    /\ loop.pc \in {"idle", "await"} /\ loop.slot \in Live
    /\ loop' = [loop EXCEPT !.slot = IF @ = "parked" THEN "acked" ELSE @, !.pc = "idle"]
    /\ wire' = Tail(wire)
    /\ UNCHANGED <<db, disk, proc, orphan>>

\* ControlChannelRetired: only the process remains to be observed.
HandleChannelRetired ==
    /\ Reads("channelRetired")
    /\ loop.pc = "idle" /\ loop.slot \in Live
    /\ loop' = [loop EXCEPT !.slot = IF @ = "configured" THEN "retired" ELSE @]
    /\ wire' = Tail(wire)
    /\ UNCHANGED <<db, disk, proc, orphan>>

\* ParamsRejected, DkgFailed or a closed control stream.
HandleCeremonyFailed ==
    /\ loop.pc = "idle" /\ loop.slot \in Live \ {"retired"}
    /\ Reads("failed") \/ (wire = << >> /\ proc.st = "exited")
    /\ RetireFailedCeremony
    /\ UNCHANGED <<db, disk>>

Persisted == {e.invite : e \in {wire[k] : k \in DOMAIN wire}} \ {None}

\* A variant that leaves a formed seat down.
HandleChildExitNoRespawn ==
    /\ loop.pc = "idle" /\ loop.slot \in Live /\ proc.st = "exited"
    /\ loop' = [loop EXCEPT !.slot = "empty"]
    /\ proc' = NoChild
    /\ wire' = << >>
    /\ UNCHANGED <<db, disk, orphan>>

\* The control channel is closed, or its last event waits to be read.
ChannelEnds == loop.slot = "retired" \/ (wire # << >> /\ Last(wire).kind = "channelRetired")

\* handle_child_exit: drain the buffered events, then respawn.  The wait may
\* also fail on a child that runs.  The drain then lasts until its channel
\* ends, and the child, dropped, is killed without proof that it is gone.
HandleChildExit ==
    /\ loop.pc = "idle" /\ loop.slot \in Live
    /\ \/ proc.st = "exited" /\ UNCHANGED orphan
       \/ proc.st # "exited" /\ ChannelEnds /\ orphan' = Child("killed")
    /\ db' = IF db.formed = None /\ Persisted # {}
             THEN [db EXCEPT !.formed = CHOOSE i \in Persisted : TRUE] ELSE db
    /\ loop' = [loop EXCEPT !.slot = "empty", !.respawn = TRUE,
                            !.watch = IF Persisted # {} THEN disk # None ELSE @]
    /\ proc' = NoChild
    /\ wire' = << >>
    /\ UNCHANGED disk

-----------------------------------------------------------------------------
(* The watchdog.                                                           *)

\* watchdog_tick on a seat that is no longer eligible, or one probe.
WatchdogTick(healthy) ==
    /\ loop.pc = "idle" /\ loop.watch
    /\ loop' = [loop EXCEPT !.watch = Eligible(db.formed),
                            !.health = Eligible(db.formed) /\ healthy]
    /\ healthy => "configured" \in {proc.st, orphan.st}
    /\ UNCHANGED <<db, disk, proc, orphan, wire>>

\* restart_if_unresponsive once every probe failed for the policy's limit.
WatchdogRestart ==
    /\ loop.pc = "idle" /\ loop.watch /\ Eligible(db.formed)
    /\ loop.slot \in {"configured", "retired"}
    /\ UNCHANGED <<db, disk>>
    /\ \/ /\ StopProved
          /\ proc' = NoChild
          /\ loop' = [loop EXCEPT !.health = FALSE, !.slot = "empty", !.respawn = TRUE]
       \/ /\ StopUnproved
          /\ loop' = [loop EXCEPT !.health = FALSE, !.slot = "unproven"]

-----------------------------------------------------------------------------
(* Commands of the FA and of the operator.                                 *)

\* start_dkg up to its commit: the envelope and the first callback choice.
StartDkg(e, c) ==
    /\ loop.pc = "idle" /\ CeremonyAllowed
    /\ loop.slot = "parked"
    /\ db' = [db EXCEPT !.inputs = e, !.callback = FirstCallback(c)]
    /\ loop' = [loop EXCEPT !.pc = "send"]
    /\ UNCHANGED <<disk, proc, orphan, wire>>

\* run_validated_dkg sends the recorded envelope to the parked child.
RunValidatedDkg ==
    /\ loop.pc = "send"
    /\ proc' = IF proc.st = "parked" THEN [st |-> "params", env |-> db.inputs] ELSE proc
    /\ loop' = [loop EXCEPT !.pc = "await"]
    /\ UNCHANGED <<db, disk, orphan, wire>>

\* await_dkg_started ends in an error or in DKG_START_TIMEOUT.
AwaitDkgFails ==
    /\ loop.pc = "await"
    /\ RetireFailedCeremony
    /\ UNCHANGED <<db, disk>>

\* restart_dkg up to its commit: the envelope is replaced, the callback kept.
RestartDkg(e) ==
    /\ loop.pc = "idle" /\ CeremonyAllowed
    /\ db' = [db EXCEPT !.inputs = e, !.callback = FirstCallback(None)]
    /\ loop' = [loop EXCEPT !.pc = "restart"]
    /\ UNCHANGED <<disk, proc, orphan, wire>>

\* restart_dkg after its commit: stop the old child and spawn its successor.
RestartStop ==
    /\ loop.pc = "restart"
    /\ UNCHANGED disk
    /\ \/ StopProved /\ SpawnChild
       \/ loop.slot # "unproven" /\ wire' = << >> /\ SpawnFails
       \/ /\ StopUnproved
          /\ loop' = [loop EXCEPT !.pc = "idle", !.slot = "unproven", !.respawn = FALSE]
          /\ UNCHANGED db

\* decommission: the terminal row and the callback's end, in one commit.
Decommission ==
    /\ loop.pc = "idle"
    /\ db' = [db EXCEPT !.decom = TRUE, !.callback = IF @ \in Callbacks THEN "terminal" ELSE @]
    /\ loop' = [loop EXCEPT !.pc = "decom"]
    /\ UNCHANGED <<disk, proc, orphan, wire>>

DecommissionStop ==
    /\ loop.pc = "decom"
    /\ UNCHANGED <<db, disk>>
    /\ \/ /\ StopProved
          /\ proc' = NoChild
          /\ loop' = [loop EXCEPT !.pc = "done", !.slot = "empty", !.respawn = FALSE]
       \/ /\ StopUnproved
          /\ loop' = [loop EXCEPT !.pc = "done", !.slot = "unproven", !.respawn = FALSE]

\* The daemon stops or dies; the parent-death signal takes its children.
DaemonExit ==
    /\ loop.pc # "off"
    /\ loop' = LoopOff
    /\ proc' = NoChild
    /\ orphan' = NoChild
    /\ wire' = << >>
    /\ UNCHANGED <<db, disk>>

-----------------------------------------------------------------------------
(* The child, as the loop uses it.                                         *)

Sends(kind, invite) == wire' = Append(wire, [kind |-> kind, invite |-> invite])

ChildStartsDkg ==
    /\ proc.st = "params"
    /\ proc' = [proc EXCEPT !.st = "dkg"]
    /\ Sends("started", None)
    /\ UNCHANGED <<db, disk, orphan, loop>>

ChildFailsDkg ==
    /\ proc.st \in Ceremony
    /\ proc' = Child("failed")
    /\ Sends("failed", None)
    /\ UNCHANGED <<db, disk, orphan, loop>>

\* The atomic rename of the complete staging directory, then ConfigPersisted.
ChildPersists(i) ==
    /\ proc.st = "dkg" /\ disk = None
    /\ disk' = i
    /\ proc' = Child("configured")
    /\ Sends("persisted", i)
    /\ UNCHANGED <<db, orphan, loop>>

ChildRetiresChannel ==
    /\ proc.st = "configured" /\ loop.slot # "retired"
    /\ ~\E k \in DOMAIN wire : wire[k].kind = "channelRetired"
    /\ Sends("channelRetired", None)
    /\ UNCHANGED <<db, disk, proc, orphan, loop>>

ChildExits ==
    /\ proc.st \notin {"none", "exited"}
    /\ proc' = Child("exited")
    /\ UNCHANGED <<db, disk, orphan, wire, loop>>

\* A child whose stop failed may still finish its ceremony, or exit.
OrphanPersists(i) ==
    /\ orphan.st = "dkg" /\ disk = None
    /\ disk' = i
    /\ orphan' = Child("configured")
    /\ UNCHANGED <<db, proc, wire, loop>>

OrphanExits ==
    /\ orphan.st # "none"
    /\ orphan' = NoChild
    /\ UNCHANGED <<db, disk, proc, wire, loop>>

\* The final directory disappears from under the daemon (DataLoss).
DataLost ==
    /\ disk # None
    /\ disk' = None
    /\ UNCHANGED <<db, proc, orphan, wire, loop>>

-----------------------------------------------------------------------------
\* SeatLoop::run: one observation, deadline or command at a time.
Run ==
    \/ Boot \/ BootFails \/ Respawn \/ RespawnFails
    \/ \E i \in Invites : HandlePersistedInvite(i)
    \/ HandleDkgStarted \/ HandleChannelRetired \/ HandleCeremonyFailed \/ HandleChildExit
    \/ \E h \in BOOLEAN : WatchdogTick(h)
    \/ WatchdogRestart
    \/ \E e \in Envelopes, c \in Callbacks \cup {None} : StartDkg(e, c)
    \/ RunValidatedDkg \/ AwaitDkgFails
    \/ \E e \in Envelopes : RestartDkg(e)
    \/ RestartStop \/ Decommission \/ DecommissionStop \/ DaemonExit

Processes ==
    \/ ChildStartsDkg \/ ChildFailsDkg \/ ChildRetiresChannel \/ ChildExits
    \/ \E i \in Invites : ChildPersists(i) \/ OrphanPersists(i)
    \/ OrphanExits \/ DataLost

Next == Run \/ Processes

Spec == Init /\ [][Next]_vars

-----------------------------------------------------------------------------
(* Properties.                                                             *)

\* The rows, the child, its events and the loop have the shapes seat.rs
\* gives them.
TypeOK ==
    /\ db \in [formed : Invites \cup {None}, inputs : Envelopes \cup {None},
               callback : Callbacks \cup {None, "not_configured", "terminal"}, decom : BOOLEAN]
    /\ disk \in Invites \cup {None}
    /\ {proc, orphan} \subseteq
         [st : {"none", "parked", "params", "dkg", "failed", "configured", "exited", "killed"},
          env : Envelopes \cup {None}]
    /\ wire \in Seq([kind : {"started", "failed", "persisted", "channelRetired"},
                     invite : Invites \cup {None}])
    /\ loop \in [pc : Pcs, slot : Slots, respawn : BOOLEAN, watch : BOOLEAN, health : BOOLEAN]

\* One seat never has two children at work: while an earlier child may still
\* run because its stop failed, the loop owns no other (spawn_child_inner's
\* empty-slot demand).  A child that was killed after a failed wait does
\* nothing more, but may still be dying when its successor starts.
NoOverlap == orphan.st \notin {"none", "killed"} => proc.st = "none"

\* The seat is never left without a child and without a plan to start one,
\* and a respawn is only ever due on a slot that is proved empty.
SupervisionComplete == loop.pc = "idle" => (loop.respawn <=> loop.slot = "empty")

\* No child runs a ceremony the database does not hold: its envelope is the
\* recorded one, except between restart_dkg's commit and the stop after it.
CeremonyRetained ==
    proc.st \in Ceremony => (proc.env = db.inputs \/ loop.pc = "restart")

\* A seat forms once: after record_formed neither the child nor one whose
\* exit is unproved runs a ceremony, and the directory is the recorded one
\* or gone, whatever crashes, restarts and data loss came between.
OneFormation ==
    db.formed # None =>
        /\ disk \in {db.formed, None}
        /\ {proc.st, orphan.st} \cap Ceremony = {}
        /\ loop.pc \notin {"send", "restart"}
        /\ Persisted \subseteq {db.formed}

\* A recorded envelope is never left waiting: an unformed child that sits
\* parked in an idle loop belongs to a seat that recorded none, so every
\* accepted StartDkg or RestartDkg is replayed after any exit or crash.
EnvelopeNeverParked ==
    loop.pc = "idle" /\ loop.slot = "parked" /\ CeremonyAllowed /\ proc.st = "parked"
        => db.inputs = None

\* A formed seat whose directory exists is always under the watchdog: no
\* path through exit, respawn, failed spawn or daemon start drops it.
WatchedWhileFormed == loop.pc = "idle" /\ Eligible(db.formed) => loop.watch

\* Decommission is terminal for the child as well: once the loop is past
\* stop_child, and after every later daemon start, the seat owns no child.
DecommissionedStops ==
    db.decom => /\ loop.pc \in {"decom", "done", "off"}
                /\ loop.pc # "decom" => proc.st = "none"

=============================================================================
