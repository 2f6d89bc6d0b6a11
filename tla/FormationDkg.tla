----------------------------- MODULE FormationDkg -----------------------------
(***************************************************************************)
(* The key ceremony of a formation, as the ambassador drives it over all    *)
(* the seats it acquired (fa-client formation.rs run_dkg, restart_dkg,      *)
(* resume_after_dkg) and as each seat answers (mg core seat.rs).  A seat is *)
(* here what Seat shows it to be: new, in a ceremony, or running a          *)
(* federation for ever.  The ceremony itself is Fedimint's: it decides once *)
(* for one incarnation of every child, and every child then installs the    *)
(* outcome on its own.                                                      *)
(***************************************************************************)
EXTENDS Integers, FiniteSets

CONSTANTS Seats,       \* the acquired seats
          MaxInc,      \* how many children one seat goes through
          None         \* a model value: no federation

VARIABLES seat,        \* status, child incarnation and federation of each seat
          decided,     \* the ceremony outcome the children agreed on last
          fa,          \* the ambassador's durable formation record
          run,         \* its driver: pc and the seats answered so far
          restart      \* RestartDkg requests on their way

vars == <<seat, decided, fa, run, restart>>

\* A federation is named by the incarnations of the children that made it.
Federations == [Seats -> 1..MaxInc]
Idle == [pc |-> "idle", seen |-> {}, invite |-> None]
\* What a run has read so far dies with it.
At(pc) == [Idle EXCEPT !.pc = pc]

Init == /\ seat = [s \in Seats |-> [st |-> "new", inc |-> 1, fed |-> None, up |-> TRUE]]
        /\ decided = None
        /\ fa = [codes |-> {}, complete |-> FALSE, invite |-> None, formed |-> FALSE]
        /\ run = Idle
        /\ restart = {}

-----------------------------------------------------------------------------
(* The driver. *)

\* resume: a formation past its key ceremony is never sent back to it.
ResumesAt(complete) == IF complete THEN "poll" ELSE "codes"

Resume ==
    /\ run = Idle /\ ~ fa.formed
    /\ run' = At(ResumesAt(fa.complete))
    /\ UNCHANGED <<seat, decided, fa, restart>>

\* get_dkg_code_with_retry and record_guardian_code: the code of a seat is
\* deterministic; a seat past it answers for a code that is already recorded.
CollectCode(s) ==
    /\ run.pc = "codes" /\ s \notin fa.codes
    /\ seat[s].st = "new"
    /\ fa' = [fa EXCEPT !.codes = @ \cup {s}]
    /\ UNCHANGED <<seat, decided, run, restart>>

CodesDone ==
    /\ run.pc = "codes" /\ fa.codes = Seats
    /\ run' = At("start")
    /\ UNCHANGED <<seat, decided, fa, restart>>

\* StartDkg to every seat with every code; one already in its ceremony or
\* running counts as started. The answer may be lost after the seat acted.
StartDkg(s) ==
    /\ run.pc = "start" /\ s \notin run.seen
    /\ seat' = [seat EXCEPT ![s].st = IF @ = "new" THEN "dkg" ELSE @]
    /\ run' = [run EXCEPT !.seen = @ \cup {s}]
    /\ UNCHANGED <<decided, fa, restart>>

StartsDone ==
    /\ run.pc = "start" /\ run.seen = Seats
    /\ run' = At("poll")
    /\ UNCHANGED <<seat, decided, fa, restart>>

\* poll_until_running: one round must find every seat running and healthy.
Polled ==
    /\ run.pc = "poll"
    /\ \A s \in Seats : seat[s].st = "running" /\ seat[s].up
    /\ run' = At("invite")
    /\ UNCHANGED <<seat, decided, fa, restart>>

\* fetch_agreed_invite and combine_seat_invites: one federation, or an error.
AgreedWith(of) == of # None /\ \A s \in Seats : seat[s].fed = of

FetchInvite(s) ==
    /\ run.pc = "invite"
    /\ run' = IF AgreedWith(seat[s].fed)
              THEN [run EXCEPT !.pc = IF fa.complete THEN "check" ELSE "record",
                               !.invite = seat[s].fed]
              ELSE Idle
    /\ UNCHANGED <<seat, decided, fa, restart>>

\* record_dkg_complete: saved before publication.
RecordCompleteAt(pcs) ==
    /\ run.pc \in pcs
    /\ fa' = [fa EXCEPT !.complete = TRUE, !.invite = run.invite]
    /\ run' = [run EXCEPT !.pc = "publish"]
    /\ UNCHANGED <<seat, decided, restart>>

RecordComplete == RecordCompleteAt({"record"})

\* resume_after_dkg: the federation is the one that was recorded, or an error.
CheckStored ==
    /\ run.pc = "check"
    /\ run' = IF run.invite = fa.invite THEN [run EXCEPT !.pc = "publish"] ELSE Idle
    /\ UNCHANGED <<seat, decided, fa, restart>>

\* publish_seat_bindings ends in the formed record (see MetaVote).
Publish ==
    /\ run.pc = "publish"
    /\ fa' = [fa EXCEPT !.formed = TRUE]
    /\ run' = Idle
    /\ UNCHANGED <<seat, decided, restart>>

\* restart_dkg: the user asks, every status is checked, then the wave goes out.
UnfinishedStatuses == {"new", "dkg"}
AskRestart ==
    /\ run = Idle /\ ~ fa.complete /\ ~ fa.formed /\ fa.codes = Seats
    /\ \A s \in Seats : seat[s].st \in UnfinishedStatuses
    /\ run' = At("wave")
    /\ UNCHANGED <<seat, decided, fa, restart>>

SendRestarts ==
    /\ run.pc = "wave"
    /\ restart' = Seats
    /\ run' = Idle
    /\ UNCHANGED <<seat, decided, fa>>

\* A deadline, an error, a cancelled call or a crash ends a run anywhere.
CutOff ==
    /\ run # Idle
    /\ run' = Idle
    /\ UNCHANGED <<seat, decided, fa, restart>>

-----------------------------------------------------------------------------
(* The seats. *)

\* A new child runs the recorded inputs again, in its own incarnation.
Replaced(s, st) ==
    /\ seat[s].inc < MaxInc
    /\ seat' = [seat EXCEPT ![s].inc = @ + 1, ![s].st = st]

\* restart_dkg of one seat: refused once its federation is on disk.
RestartDkgIf(s, allowed) ==
    /\ s \in restart
    /\ IF allowed THEN Replaced(s, "dkg") ELSE UNCHANGED seat
    /\ restart' = restart \ {s}
    /\ UNCHANGED <<decided, fa, run>>
RestartDkg(s) == RestartDkgIf(s, seat[s].fed = None)

\* A child that dies during its ceremony is respawned with the same inputs.
ChildDies(s) ==
    /\ seat[s].st = "dkg"
    /\ Replaced(s, "dkg")
    /\ UNCHANGED <<decided, fa, run, restart>>

\* Fedimint's ceremony: every child takes part or nothing is decided.
Decide ==
    /\ \A s \in Seats : seat[s].st = "dkg"
    /\ decided' = [s \in Seats |-> seat[s].inc]
    /\ UNCHANGED <<seat, fa, run, restart>>

\* A child that took part installs the outcome; the seat is formed for ever.
InstallIf(s, fed) ==
    /\ decided # None /\ seat[s].st = "dkg" /\ seat[s].inc = fed[s]
    /\ seat' = [seat EXCEPT ![s].st = "running", ![s].fed = fed]
    /\ UNCHANGED <<decided, fa, run, restart>>

InstallStaged(s) == InstallIf(s, [t \in Seats |-> seat[t].inc])
Install(s) == InstallIf(s, decided)

\* Health comes and goes without touching the federation.
Flap(s) ==
    /\ seat[s].st = "running"
    /\ seat' = [seat EXCEPT ![s].up = ~ @]
    /\ UNCHANGED <<decided, fa, run, restart>>

Next == \/ Resume \/ CodesDone \/ StartsDone \/ Polled
        \/ RecordComplete \/ CheckStored \/ Publish \/ AskRestart \/ SendRestarts \/ CutOff
        \/ Decide
        \/ \E s \in Seats : \/ CollectCode(s) \/ StartDkg(s) \/ FetchInvite(s)
                            \/ RestartDkg(s) \/ ChildDies(s) \/ Install(s) \/ Flap(s)

Spec == Init /\ [][Next]_vars

-----------------------------------------------------------------------------
(* Properties. *)

\* Every variable holds a value of its shape.
TypeOK ==
    /\ seat \in [Seats -> [st : {"new", "dkg", "running"}, inc : 1..MaxInc,
                           fed : Federations \cup {None}, up : BOOLEAN]]
    /\ decided \in Federations \cup {None}
    /\ fa \in [codes : SUBSET Seats, complete : BOOLEAN,
               invite : Federations \cup {None}, formed : BOOLEAN]
    /\ run.pc \in {"idle", "codes", "start", "poll", "invite", "record", "check",
                   "publish", "wave"}
    /\ restart \subseteq Seats

\* Seats of one formation never run two federations, however restarts, dying
\* children and a half-installed outcome interleave (start_dkg and restart_dkg
\* refuse a seat whose final configuration exists).
OneFederation ==
    \A s, t \in Seats : seat[s].fed # None /\ seat[t].fed # None => seat[s].fed = seat[t].fed

\* What the ambassador saved as the formed federation is what every seat runs
\* (fetch_agreed_invite before record_dkg_complete).
CompleteIsRunning ==
    fa.complete => fa.invite # None /\ \A s \in Seats : seat[s].fed = fa.invite

\* A recorded ceremony is never driven again: no run collects codes, starts or
\* restarts one (record_dkg_complete: an interrupted run never repeats it).
NeverRepeated == fa.complete => run.pc \notin {"codes", "start", "wave"}

=============================================================================
