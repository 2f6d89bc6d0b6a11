-------------------------- MODULE FlipAdvertisement --------------------------
(***************************************************************************)
(* FLIP's provider advertisement: publication, withdrawal, readiness.      *)
(*                                                                         *)
(* The row holds the publication status, the stored signed document (its   *)
(* issue second) and the durable withdrawal intent.  Publications and      *)
(* withdrawals commit their intent first, then queue for one writer lock   *)
(* that is held through all relay I/O; every attempt waits for a wall      *)
(* clock second newer than the last.  A caller may be cancelled at any     *)
(* await and the daemon may be restarted.  A relay keeps the newest event  *)
(* of the coordinate and may apply an event whose sender saw an error.     *)
(***************************************************************************)
EXTENDS Naturals, FiniteSets

CONSTANTS Relays, Callers, MaxClock, MaxCalls, MaxRestarts, NoOne

VARIABLES
  row,      \* [status, issued, withdrawn] : the provider_advertisements row
  rows,     \* relay_publications: a status per relay, or "none"
  relay,    \* [ts, live] : the newest event each relay holds
  ready,    \* what judge_readiness answers
  clock,    \* wall clock seconds
  last,     \* AdvertisementWriter::last_attempt
  gate,     \* AdvertisementWriter::first_write_at
  lock,     \* who holds the writer
  ops,      \* the calls in progress
  calls, restarts,
  intent,   \* history: the last intent an operator committed
  severed   \* history: relays whose event was applied but never recorded

vars == <<row, rows, relay, ready, clock, last, gate, lock, ops, calls, restarts,
          intent, severed>>

Statuses == {"not_ready", "stale", "published", "failed", "withdrawn"}
Done == [pc |-> "idle", kind |-> "none", auto |-> FALSE, ts |-> 0, todo |-> {},
         cur |-> NoOne, ok |-> TRUE, failed |-> FALSE]

\* A process that started two seconds ago, and has published nothing yet.
Init ==
  /\ row = [status |-> "not_ready", issued |-> 0, withdrawn |-> FALSE]
  /\ rows = [r \in Relays |-> "none"]
  /\ relay = [r \in Relays |-> [ts |-> 0, live |-> FALSE]]
  /\ ready = TRUE
  /\ clock = 1
  /\ last = 0 /\ gate = 0
  /\ lock = NoOne
  /\ ops = [c \in Callers |-> Done]
  /\ calls = 0 /\ restarts = 0
  /\ intent = "none"
  /\ severed = {}

(***************************************************************************)
(* Rows.                                                                   *)
(***************************************************************************)
PersistKeeping(status, keep) ==
  row' = [row EXCEPT !.status = IF keep /\ status # "withdrawn" THEN @ ELSE status,
                     !.withdrawn = keep \/ status = "withdrawn"]

\* A status write that forgets a withdrawal committed meanwhile.
PersistForgetting(status) == PersistKeeping(status, FALSE)

\* persist_publication_status: a standing withdrawal keeps its status and
\* its timestamp through every other status.
Persist(status) == PersistKeeping(status, row.withdrawn)

\* persist_not_ready: the status alone.
PersistNotReady == row' = [row EXCEPT !.status = "not_ready"]

Return(c) ==
  /\ ops' = [ops EXCEPT ![c] = Done]
  /\ lock' = IF lock = c THEN NoOne ELSE lock

\* The end of a publication or a withdrawal that did not fail, also of one a
\* newer intent superseded.  The withdrawal of an unready deployment returns to
\* reconcile_after_config_change, which has yet to record the unreadiness.
End(c) ==
  IF ops[c].auto
    THEN ops' = [ops EXCEPT ![c].pc = "unwind"] /\ lock' = NoOne
    ELSE Return(c)

Enter(c, op) ==
  /\ ops[c].pc = "idle" /\ calls < MaxCalls
  /\ calls' = calls + 1
  /\ ops' = [ops EXCEPT ![c] = op]

(***************************************************************************)
(* Entry points.                                                           *)
(***************************************************************************)
\* republish with force: while ready, the operator's intent is committed
\* before queueing for the writer.
RepublishForced(c) ==
  /\ Enter(c, [Done EXCEPT !.pc = "queued", !.kind = "publish"])
  /\ row' = IF ready THEN [row EXCEPT !.withdrawn = FALSE] ELSE row
  /\ intent' = IF ready THEN "publish" ELSE intent
  /\ UNCHANGED <<rows, relay, ready, clock, last, gate, lock, restarts, severed>>

\* withdraw by the operator: the intent is committed first.
Withdraw(c) ==
  /\ Enter(c, [Done EXCEPT !.pc = "queued", !.kind = "withdraw"])
  /\ Persist("withdrawn")
  /\ intent' = "withdraw"
  /\ UNCHANGED <<rows, relay, ready, clock, last, gate, lock, restarts, severed>>

\* reconcile_after_config_change, run by the publisher task on every interval
\* and by the config verbs: a ready deployment republishes, any other one
\* withdraws.
Reconcile(c) ==
  /\ Enter(c, IF ready THEN [Done EXCEPT !.pc = "queued", !.kind = "publish"]
                       ELSE [Done EXCEPT !.pc = "unready", !.kind = "withdraw", !.auto = TRUE])
  /\ UNCHANGED <<row, rows, relay, ready, clock, last, gate, lock, restarts, intent, severed>>

\* The withdrawal of an unready deployment commits like the operator's.
WithdrawUnready(c) ==
  /\ ops[c].pc = "unready"
  /\ ops' = [ops EXCEPT ![c].pc = "queued"]
  /\ Persist("withdrawn")
  /\ UNCHANGED <<rows, relay, ready, clock, last, gate, lock, calls, restarts, intent, severed>>

\* refresh_relays of an unready deployment only records it.
RefreshUnready ==
  /\ ~ready /\ row.status # "not_ready"
  /\ PersistNotReady
  /\ UNCHANGED <<rows, relay, ready, clock, last, gate, lock, ops, calls, restarts, intent, severed>>

(***************************************************************************)
(* The writer.                                                             *)
(***************************************************************************)
LockWhen(c, free) ==
  /\ ops[c].pc = "queued" /\ free
  /\ lock' = c
  /\ ops' = [ops EXCEPT ![c].pc = "locked"]
  /\ UNCHANGED <<row, rows, relay, ready, clock, last, gate, calls, restarts, intent, severed>>

\* The writer is admitted one caller at a time.
Lock(c) == LockWhen(c, lock = NoOne)

\* An unready deployment, or a standing withdrawal, ends a publication; a
\* newer forced republish ends a withdrawal.
Superseded(c) == row.withdrawn # (ops[c].kind = "withdraw")

\* What a caller does once it holds the writer, before it asks for a second.
Begin(c) ==
  /\ ops[c].pc = "locked"
  /\ \/ /\ ops[c].kind = "publish" /\ ~ready
        /\ PersistNotReady /\ Return(c)
     \/ /\ ops[c].kind = "publish" => ready
        /\ Superseded(c)
        /\ End(c) /\ UNCHANGED row
     \/ /\ ops[c].kind = "publish" => ready
        /\ ~Superseded(c)
        /\ ops' = [ops EXCEPT ![c].pc = IF ops[c].kind = "withdraw" /\ row.issued = 0
                                          THEN "relays" ELSE "pacing",
                              ![c].todo = IF ops[c].kind = "withdraw"
                                            THEN {r \in Relays : rows[r] # "none"} ELSE Relays]
        /\ UNCHANGED <<row, lock>>
  /\ UNCHANGED <<rows, relay, ready, clock, last, gate, calls, restarts, intent, severed>>

PaceAfter(c, newer) ==
  /\ ops[c].pc = "pacing" /\ clock >= gate /\ newer
  /\ last' = clock
  /\ ops' = [ops EXCEPT ![c].ts = clock,
                        ![c].pc = IF ops[c].kind = "publish" THEN "signed" ELSE "relays"]
  /\ UNCHANGED <<row, rows, relay, ready, clock, gate, lock, calls, restarts, intent, severed>>

\* next_timestamp: a wall clock second strictly newer than the last attempt,
\* after the startup gate.
Pace(c) == PaceAfter(c, clock > last)

\* The clock stalls through the whole wait.
PaceTimesOut(c) ==
  /\ ops[c].pc = "pacing" /\ ~(clock >= gate /\ clock > last)
  /\ IF ops[c].kind = "withdraw" THEN Persist("failed") ELSE UNCHANGED row
  /\ Return(c)
  /\ UNCHANGED <<rows, relay, ready, clock, last, gate, calls, restarts, intent, severed>>

\* The write transaction of a publication: intent and readiness are read
\* again under the database writer, then the signed document is stored.
Store(c) ==
  /\ ops[c].pc = "signed"
  /\ \/ row.withdrawn /\ Return(c) /\ UNCHANGED row
     \/ ~row.withdrawn /\ ~ready /\ PersistNotReady /\ Return(c)
     \/ /\ ~row.withdrawn /\ ready
        /\ row' = [row EXCEPT !.status = "stale", !.issued = ops[c].ts]
        /\ ops' = [ops EXCEPT ![c].pc = "relays"]
        /\ UNCHANGED lock
  /\ UNCHANGED <<rows, relay, ready, clock, last, gate, calls, restarts, intent, severed>>

\* Before every relay the intent is read again, and readiness too by a
\* publication.
NextRelay(c) ==
  /\ ops[c].pc = "relays" /\ ops[c].todo # {}
  /\ \/ Superseded(c) /\ End(c) /\ UNCHANGED row
     \/ ~Superseded(c) /\ ops[c].kind = "publish" /\ ~ready /\ PersistNotReady /\ Return(c)
     \/ /\ ~Superseded(c) /\ (ops[c].kind = "publish" => ready)
        /\ \E r \in ops[c].todo :
             ops' = [ops EXCEPT ![c].pc = "sending", ![c].cur = r]
        /\ UNCHANGED <<row, lock>>
  /\ UNCHANGED <<rows, relay, ready, clock, last, gate, calls, restarts, intent, severed>>

\* The relay keeps the newest event of the coordinate.
Applied(c) ==
  LET r == ops[c].cur
  IN  IF ops[c].ts > relay[r].ts
        THEN [relay EXCEPT ![r] = [ts |-> ops[c].ts, live |-> ops[c].kind = "publish"]]
        ELSE relay

\* An accepted event; an error, after which it may have been applied.
RelayAnswers(c) ==
  /\ ops[c].pc = "sending"
  /\ \E ok \in BOOLEAN, applied \in BOOLEAN :
       /\ ok => applied
       /\ relay' = IF applied THEN Applied(c) ELSE relay
       /\ ops' = [ops EXCEPT ![c].pc = "record", ![c].ok = ok]
  /\ UNCHANGED <<row, rows, ready, clock, last, gate, lock, calls, restarts, intent, severed>>

RecordAs(c, status) ==
  /\ ops[c].pc = "record"
  /\ rows' = [rows EXCEPT ![ops[c].cur] = status]
  /\ ops' = [ops EXCEPT ![c].pc = "relays", ![c].todo = @ \ {ops[c].cur},
                        ![c].failed = @ \/ ~ops[c].ok]
  /\ severed' = severed \ {ops[c].cur}
  /\ UNCHANGED <<row, relay, ready, clock, last, gate, lock, calls, restarts, intent>>

\* upsert_relay_state with what the relay answered.
Record(c) ==
  RecordAs(c, IF ~ops[c].ok THEN "failed"
              ELSE IF ops[c].kind = "withdraw" THEN "disconnected" ELSE "published")

FinishAs(c, outcome) ==
  /\ ops[c].pc = "relays" /\ ops[c].todo = {}
  /\ End(c)
  /\ IF ops[c].kind = "publish" THEN Persist(outcome) ELSE UNCHANGED row
  /\ UNCHANGED <<rows, relay, ready, clock, last, gate, calls, restarts, intent, severed>>

\* The end of the loop: the status of a publication, or the end of the call.
Finish(c) == FinishAs(c, IF ops[c].failed THEN "failed" ELSE "published")

\* After its withdrawal an unready deployment is recorded as such.
Unwind(c) ==
  /\ ops[c].pc = "unwind"
  /\ PersistNotReady
  /\ Return(c)
  /\ UNCHANGED <<rows, relay, ready, clock, last, gate, calls, restarts, intent, severed>>

(***************************************************************************)
(* Cancellation, restart and the world.                                    *)
(***************************************************************************)
\* What a caller that goes away leaves of the event it was sending.
Dropped(c) ==
  \/ /\ ops[c].pc \notin {"sending", "record"}
     /\ UNCHANGED <<relay, severed>>
  \/ /\ ops[c].pc = "record"
     /\ severed' = IF ops[c].kind = "publish" THEN severed \cup {ops[c].cur} ELSE severed
     /\ UNCHANGED relay
  \/ /\ ops[c].pc = "sending"
     /\ \/ UNCHANGED <<relay, severed>>
        \/ /\ relay' = Applied(c)
           /\ severed' = IF ops[c].kind = "publish" THEN severed \cup {ops[c].cur} ELSE severed

Cancel(c) ==
  /\ ops[c].pc # "idle"
  /\ Dropped(c)
  /\ Return(c)
  /\ UNCHANGED <<row, rows, ready, clock, last, gate, calls, restarts, intent>>

\* AdvertisementWriter::new: the history is forgotten; the startup second and
\* the two-second gate stand in for it.
Restart ==
  /\ restarts < MaxRestarts
  /\ restarts' = restarts + 1
  /\ IF lock = NoOne THEN UNCHANGED <<relay, severed>> ELSE Dropped(lock)
  /\ ops' = [c \in Callers |-> Done]
  /\ lock' = NoOne
  /\ last' = clock + 1
  /\ gate' = clock + 2
  /\ UNCHANGED <<row, rows, ready, clock, calls, intent>>

ReadinessChanges ==
  /\ ready' = ~ready
  /\ UNCHANGED <<row, rows, relay, clock, last, gate, lock, ops, calls, restarts, intent, severed>>

Tick ==
  /\ clock < MaxClock
  /\ clock' = clock + 1
  /\ UNCHANGED <<row, rows, relay, ready, last, gate, lock, ops, calls, restarts, intent, severed>>

Next ==
  \/ \E c \in Callers :
       \/ RepublishForced(c) \/ Withdraw(c) \/ Reconcile(c) \/ WithdrawUnready(c)
       \/ Lock(c) \/ Begin(c) \/ Pace(c) \/ PaceTimesOut(c) \/ Store(c)
       \/ NextRelay(c) \/ RelayAnswers(c) \/ Record(c) \/ Finish(c) \/ Unwind(c)
       \/ Cancel(c)
  \/ RefreshUnready \/ Restart \/ ReadinessChanges \/ Tick

Spec == Init /\ [][Next]_vars

(***************************************************************************)
(* Properties.                                                             *)
(***************************************************************************)
\* Every variable has its type, and one caller at most is past the lock.
TypeOK ==
  /\ row \in [status : Statuses, issued : 0 .. MaxClock, withdrawn : BOOLEAN]
  /\ \A r \in Relays :
       /\ rows[r] \in {"none", "published", "failed", "disconnected"}
       /\ relay[r] \in [ts : 0 .. MaxClock, live : BOOLEAN]
  /\ lock \in Callers \cup {NoOne}
  /\ \A c \in Callers :
       (lock = c) <=> ops[c].pc \in {"locked", "pacing", "signed", "relays", "sending", "record"}

\* Every event is sent with a second newer than anything the relay may hold,
\* across callers, cancellations and restarts, so that a withdrawal always
\* supersedes the publication before it (AdvertisementWriter).
EventsMoveForward ==
  \A c \in Callers :
    ops[c].pc = "sending" /\ ops[c].ts # 0 => relay[ops[c].cur].ts < ops[c].ts

\* A publication reported as published is what every relay serves
\* (republish, persist_publication_status).
PublishedIsServed ==
  row.status = "published" =>
    \A r \in Relays : relay[r] = [ts |-> row.issued, live |-> TRUE]

InFlight(r) ==
  \E c \in Callers : ops[c].pc \in {"sending", "record"} /\ ops[c].cur = r

\* A relay recorded as disconnected serves no live advertisement, unless a
\* publication to it was cut off before its answer was recorded (withdraw,
\* upsert_relay_state).
DisconnectedIsGone ==
  \A r \in Relays :
    rows[r] = "disconnected" /\ ~InFlight(r) /\ r \notin severed => ~relay[r].live

\* A withdrawal stands until the operator asks for a republish: no publication,
\* queued or in flight, forced or not, undoes one committed meanwhile.
WithdrawalStands == intent = "withdraw" => row.withdrawn
==============================================================================
