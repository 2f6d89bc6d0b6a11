------------------------------ MODULE FaBackup ------------------------------
(***************************************************************************)
(* The Federation Ambassador's backup on Nostr relays (fa-client:          *)
(* backup_worker.rs, backup.rs, db.rs).  A coordinator prepares a sealed   *)
(* event of the formed federation's facts and one worker per relay         *)
(* publishes it, reads it back and records the confirmation.  A device     *)
(* that was lost is replaced by one with the same root and an empty        *)
(* database, which looks for the newest backup before anything else runs.  *)
(*                                                                         *)
(* A fact is the number of the change that set it, so that equal contents  *)
(* are equal facts: the invite, the seats and the live liquidity request   *)
(* are what the semantic hash covers.  One device runs at a time.          *)
(***************************************************************************)
EXTENDS Naturals, Sequences, FiniteSets, FiniteSetsExt, SequencesExt

CONSTANTS Relays,      \* the profile's relays, in the order they are asked
          Required,    \* fa_backup_empty_read_quorum
          Refresh,     \* BACKUP_REFRESH_INTERVAL_SECS
          MaxChanges,  \* bound: facts that change
          MaxTime,     \* bound: the clock
          MaxLosses,   \* bound: devices lost
          MaxStops,    \* bound: the process stops and starts again
          MaxSeals,    \* bound: events sealed
          None

VARIABLES
  changes, now, losses, stops, seals,
  formed,     \* FormedFederationKey
  ops,        \* LiquidityOperationKey: per request none, live or done
  state,      \* BackupGenerationKey
  confirmed,  \* BackupRelayConfirmationKey, per relay
  completed,  \* RecoveryCompletedKey
  mode,       \* "recovering" holds the run guard
  desired,    \* the event the workers are to deliver
  job,        \* per relay: the event its worker delivers and the step it is at
  relay,      \* per relay: the event it keeps
  flight,     \* per relay: events sent whose answer never came
  base,       \* ghost: the document this device was restored from
  reused      \* ghost: a generation may name two documents, see below

database == <<formed, ops, state, confirmed, completed>>
memory == <<mode, desired, job>>
vars == <<changes, now, losses, stops, seals, database, memory, relay, flight, base, reused>>

Urls == ToSet(Relays)
Facts == 0..MaxChanges
NoOps == [o \in 1..MaxChanges |-> "none"]
Live == {o \in DOMAIN ops : ops[o] = "live"}

Init ==
  /\ changes = 0 /\ now = 0 /\ losses = 0 /\ stops = 0 /\ seals = 0
  /\ formed = None /\ ops = NoOps /\ state = None /\ completed = FALSE
  /\ confirmed = [r \in Urls |-> None]
  /\ mode = "open" /\ desired = None /\ job = [r \in Urls |-> None]
  /\ relay = [r \in Urls |-> None] /\ flight = [r \in Urls |-> {}]
  /\ base = None /\ reused = FALSE

Changed == changes < MaxChanges /\ changes' = changes + 1

Tick ==
  /\ now < MaxTime /\ now' = now + 1
  /\ UNCHANGED <<changes, losses, stops, seals, database, memory, relay, flight, base, reused>>

----------------------------------------------------------------------------
(* What changes the facts.                                                  *)

\* record_formed_federation
RecordFormed ==
  /\ mode = "open" /\ formed = None
  /\ Changed
  /\ formed' = [gen |-> IF state = None THEN 1 ELSE state.gen,
                facts |-> [invite |-> changes', seats |-> changes', liquidity |-> 0],
                eligible |-> TRUE]
  /\ UNCHANGED <<now, losses, stops, seals, ops, state, confirmed, completed, memory, relay,
                 flight, base, reused>>

\* reconcile_formed: the invite may dial other endpoints than the saved one,
\* and the request a backup carried becomes an operation again.
ReconcileTo(moved, gen) ==
  /\ mode = "open" /\ formed # None
  /\ IF moved THEN Changed ELSE UNCHANGED changes
  /\ formed' = [formed EXCEPT !.eligible = TRUE, !.gen = gen,
                              !.facts.invite = IF moved THEN changes' ELSE @]
  /\ ops' = [o \in DOMAIN ops |-> IF o = formed.facts.liquidity /\ ops[o] = "none"
                                  THEN "live" ELSE ops[o]]
  /\ UNCHANGED <<now, losses, stops, seals, state, confirmed, completed, memory, relay, flight,
                 base, reused>>

ReconcileKeepingGeneration(moved) == ReconcileTo(moved, formed.gen)

Reconcile(moved) ==
  ReconcileTo(moved, IF moved /\ state = None THEN formed.gen + 1 ELSE formed.gen)

StartLiquidity ==
  /\ mode = "open" /\ formed # None /\ formed.eligible /\ Live = {}
  /\ Changed
  /\ ops' = [ops EXCEPT ![changes'] = "live"]
  /\ UNCHANGED <<now, losses, stops, seals, formed, state, confirmed, completed, memory, relay,
                 flight, base, reused>>

FinishLiquidity ==
  /\ mode = "open" /\ Live # {}
  /\ ops' = [o \in DOMAIN ops |-> IF o \in Live THEN "done" ELSE ops[o]]
  /\ UNCHANGED <<changes, now, losses, stops, seals, formed, state, confirmed, completed, memory,
                 relay, flight, base, reused>>

\* rebind_federation_seat.  On a restored device that prepared no backup yet,
\* the new seats take the generation of the document it came from.
RebindSeat ==
  /\ mode = "open" /\ formed # None /\ formed.eligible /\ Live = {}
  /\ Changed
  /\ formed' = [formed EXCEPT !.facts.seats = changes']
  /\ reused' = (reused \/ (state = None /\ base # None /\ formed.gen = base.gen))
  /\ UNCHANGED <<now, losses, stops, seals, ops, state, confirmed, completed, memory, relay,
                 flight, base>>

----------------------------------------------------------------------------
(* spawn_workers: the coordinator.                                          *)

CurrentFacts == [formed.facts EXCEPT !.liquidity = IF Live = {} THEN 0 ELSE Max(Live)]

\* backup_payload: unchanged facts keep their generation.
Generation(facts) ==
  IF state # None
  THEN IF state.facts = facts THEN state.gen ELSE state.gen + 1
  ELSE IF formed.facts = facts THEN formed.gen ELSE formed.gen + 1

\* ... and their timestamp until the next refresh boundary; changed facts get a
\* later one than the last.
CreatedAt(facts) ==
  IF state = None THEN now
  ELSE IF state.facts = facts
       THEN state.created + (IF now > state.created
                             THEN ((now - state.created) \div Refresh) * Refresh ELSE 0)
       ELSE Max({now, state.created + 1})

BackupPayload ==
  LET f == CurrentFacts IN [gen |-> Generation(f), facts |-> f, created |-> CreatedAt(f)]

\* The document is sealed under a fresh nonce: no two events are equal.
Seal(doc) == [doc |-> doc, seal |-> seals + 1]

Coordinate ==
  /\ formed # None /\ formed.eligible
  /\ state' = BackupPayload
  /\ IF desired # None /\ desired.doc = BackupPayload
     THEN UNCHANGED <<desired, seals>>
     ELSE /\ seals < MaxSeals /\ seals' = seals + 1
          /\ desired' = Seal(BackupPayload)
  /\ UNCHANGED <<changes, now, losses, stops, formed, ops, confirmed, completed, mode, job, relay,
                 flight, base, reused>>

----------------------------------------------------------------------------
(* relay_worker and deliver.                                                *)

SameDocument(c, e) == c.gen = e.doc.gen /\ c.facts = e.doc.facts

ConfirmationIsFresh(r) ==
  /\ confirmed[r] # None /\ SameDocument(confirmed[r], desired)
  /\ (now > confirmed[r].at => now - confirmed[r].at < Refresh)

StartDelivery(r) ==
  /\ job[r] = None /\ desired # None /\ ~ConfirmationIsFresh(r)
  /\ job' = [job EXCEPT ![r] = [event |-> desired, at |-> "publish"]]
  /\ UNCHANGED <<changes, now, losses, stops, seals, database, mode, desired, relay, flight, base,
                 reused>>

\* A relay keeps the newest event of an address; of two with one timestamp, the
\* one with the lower id.
Kept(r, e) ==
  IF relay[r] = None THEN {e}
  ELSE CASE e.doc.created > relay[r].doc.created -> {e}
         [] e.doc.created = relay[r].doc.created -> {e, relay[r]}
         [] OTHER -> {relay[r]}

Publish(r) ==
  /\ job[r] # None /\ job[r].at = "publish"
  /\ \E kept \in Kept(r, job[r].event) : relay' = [relay EXCEPT ![r] = kept]
  /\ job' = [job EXCEPT ![r].at = "read"]
  /\ UNCHANGED <<changes, now, losses, stops, seals, database, mode, desired, flight, base, reused>>

\* The answer does not come; the event may still arrive, or never.
PublishLost(r) ==
  /\ job[r] # None /\ job[r].at = "publish" /\ flight[r] = {}
  /\ flight' = [flight EXCEPT ![r] = {job[r].event}]
  /\ job' = [job EXCEPT ![r] = None]
  /\ UNCHANGED <<changes, now, losses, stops, seals, database, mode, desired, relay, base, reused>>

Arrive(r, e) ==
  /\ flight' = [flight EXCEPT ![r] = @ \ {e}]
  /\ \E kept \in Kept(r, e) \cup {relay[r]} : relay' = [relay EXCEPT ![r] = kept]
  /\ UNCHANGED <<changes, now, losses, stops, seals, database, memory, base, reused>>

\* Only the exact event counts; a failed read is a failed delivery.
ReadBack(r) ==
  /\ job[r] # None /\ job[r].at = "read"
  /\ \/ relay[r] = job[r].event /\ job' = [job EXCEPT ![r].at = "confirm"]
     \/ job' = [job EXCEPT ![r] = None]
  /\ UNCHANGED <<changes, now, losses, stops, seals, database, mode, desired, relay, flight, base,
                 reused>>

\* record_backup_confirmation: a newer one stands.
Stands(c, e) == c.gen > e.doc.gen \/ (c.gen = e.doc.gen /\ c.at > now)

RecordConfirmation(r) ==
  /\ job[r] # None /\ job[r].at = "confirm"
  /\ LET e == job[r].event IN
     confirmed' = IF confirmed[r] # None /\ Stands(confirmed[r], e) THEN confirmed
                  ELSE [confirmed EXCEPT ![r] = [gen |-> e.doc.gen, facts |-> e.doc.facts, at |-> now]]
  /\ job' = [job EXCEPT ![r] = None]
  /\ UNCHANGED <<changes, now, losses, stops, seals, formed, ops, state, completed, mode, desired,
                 relay, flight, base, reused>>

----------------------------------------------------------------------------
(* spawn_recovery.                                                          *)

\* What a lost device had sent has arrived, or never will, by the time its
\* successor looks.
Settled == \A r \in Urls : flight[r] = {}

\* The lookup runs once, before anything else does.
Looking == mode = "recovering" /\ ~completed /\ Settled

Held(answered) == {relay[r] : r \in answered} \ {None}

\* restore_from_relays: the highest generation, of equals the first relay's.
Best(answered) ==
  LET top == Max({e.doc.gen : e \in Held(answered)})
      at == Min({i \in DOMAIN Relays : /\ Relays[i] \in answered /\ relay[Relays[i]] # None
                                       /\ relay[Relays[i]].doc.gen = top})
  IN  relay[Relays[at]].doc

\* A document with a higher generation is out of sight.
Outran(gen) == \E e \in Held(Urls) : e.doc.gen > gen

\* restore_backup_payload_with_completion
Restore(answered) ==
  /\ Looking /\ Held(answered) # {}
  /\ LET doc == Best(answered) IN
     /\ formed' = [gen |-> doc.gen, facts |-> doc.facts, eligible |-> FALSE]
     /\ base' = doc
     /\ reused' = (reused \/ Outran(doc.gen))
  /\ completed' = TRUE /\ mode' = "open"
  /\ UNCHANGED <<changes, now, losses, stops, seals, ops, state, confirmed, desired, job, relay,
                 flight>>

\* no_backup_or_unavailable: nothing was found and enough relays said so.
NoBackupAfter(answered, reads) ==
  /\ Looking /\ Held(answered) = {}
  /\ Required > 0 /\ Cardinality(reads) >= Required
  /\ completed' = TRUE /\ mode' = "open"
  /\ reused' = (reused \/ Outran(0))
  /\ UNCHANGED <<changes, now, losses, stops, seals, formed, ops, state, confirmed, desired, job,
                 relay, flight, base>>

NoBackup(answered) == NoBackupAfter(answered, answered)

----------------------------------------------------------------------------
(* The process and the device.                                              *)

\* What a reopened client finds: open_with_manifold_profile_and_recovery.
Stop ==
  /\ stops < MaxStops /\ stops' = stops + 1
  /\ desired' = None /\ job' = [r \in Urls |-> None]
  /\ UNCHANGED <<changes, now, losses, seals, database, mode, relay, flight, base, reused>>

LoseDevice ==
  /\ losses < MaxLosses /\ losses' = losses + 1
  /\ formed' = None /\ ops' = NoOps /\ state' = None /\ completed' = FALSE
  /\ confirmed' = [r \in Urls |-> None]
  /\ desired' = None /\ job' = [r \in Urls |-> None]
  /\ mode' = "recovering" /\ base' = None
  /\ UNCHANGED <<changes, now, stops, seals, relay, flight, reused>>

Next ==
  \/ Tick \/ RecordFormed \/ StartLiquidity \/ FinishLiquidity \/ RebindSeat \/ Coordinate
  \/ \E moved \in BOOLEAN : Reconcile(moved)
  \/ \E r \in Urls : \/ StartDelivery(r) \/ Publish(r) \/ PublishLost(r) \/ ReadBack(r)
                     \/ RecordConfirmation(r) \/ \E e \in flight[r] : Arrive(r, e)
  \/ \E answered \in SUBSET Urls : Restore(answered) \/ NoBackup(answered)
  \/ Stop \/ LoseDevice

Spec == Init /\ [][Next]_vars

----------------------------------------------------------------------------
\* Every event a relay keeps or that is still under way to one.
Events == UNION {({relay[r]} \ {None}) \cup flight[r] : r \in Urls}

TypeOK ==
  /\ changes \in Facts /\ now \in 0..MaxTime /\ mode \in {"open", "recovering"}
  /\ Cardinality(Live) <= 1
  /\ (mode = "recovering" => formed = None /\ ~completed /\ desired = None)
  /\ \A r \in Urls : job[r] # None => job[r].at \in {"publish", "read", "confirm"}

\* A relay the database says has a document serves it or a later one of this
\* device, however deliveries, lost answers and stops interleave (deliver,
\* record_backup_confirmation).
ConfirmedIsServed ==
  \A r \in Urls : confirmed[r] # None =>
    /\ relay[r] # None /\ relay[r].doc.gen >= confirmed[r].gen
    /\ relay[r].doc.gen = confirmed[r].gen => SameDocument(confirmed[r], relay[r]) \/ reused

\* A generation names one document: a restore that compares generations prefers
\* every backup over the one its device came from ("a restore must prefer this
\* backup over the one it came from").  The exceptions are a lookup that could
\* not see a higher generation, and a seat that moved on a restored device
\* before that device prepared its first backup.
OneDocumentPerGeneration ==
  ~reused => \A d, e \in Events : d.doc.gen = e.doc.gen => d.doc.facts = e.doc.facts

\* A lookup is only called empty when fewer relays hold a backup than could be
\* left out of the reads it needs (no_backup_or_unavailable).
EmptyIsTrue ==
  completed /\ formed = None
    => Cardinality({r \in Urls : relay[r] # None}) <= Len(Relays) - Required

=============================================================================
