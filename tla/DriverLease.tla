---------------------------- MODULE DriverLease ----------------------------
(***************************************************************************)
(* The renewable database lease of the Federation Ambassador's drivers     *)
(* (fa-client: db.rs).  A driver acquires it under a fresh random owner,   *)
(* renews it before and during its calls, writes fenced rows under it and  *)
(* removes it at the end; a cancelled driver only spawns the removal.      *)
(* Every operation is one optimistic transaction: it reads a snapshot and  *)
(* its commit conflicts when a key it writes changed since.  Two drivers   *)
(* exist only when the process-local run guard does not cover them.        *)
(***************************************************************************)
EXTENDS Naturals

CONSTANTS Drivers,   \* the driver invocations
          Renewal,   \* lease_renewal_duration
          MaxLease,  \* lease_duration, the bound of one run
          MaxClock,  \* bound on the clock
          MaxOwners  \* bound on the acquisitions attempted

ASSUME LeaseAssumption == Renewal \in Nat /\ MaxLease \in Nat /\ MaxClock \in Nat /\ MaxOwners \in Nat

VARIABLES
  clock,    \* lease_clock
  lease,    \* the stored lease; owner 0 is no lease
  writer,   \* the owner whose fenced write committed last
  taken,    \* ghost: whether that write committed under another live owner
  owners,   \* owners drawn so far
  limit,    \* max_expires_at of each owner
  drv,      \* per driver: its owner (0 for none) and its transaction
  orphans   \* owners whose removal a dropped lease spawned

vars == <<clock, lease, writer, taken, owners, limit, drv, orphans>>

NoLease == [owner |-> 0, exp |-> 0]
\* A transaction: fresh while the lease key is as in its snapshot.
NoTx == [kind |-> "none", now |-> 0, fresh |-> TRUE, exp |-> 0]
Idle == [owner |-> 0, tx |-> NoTx]
Owners == 1..MaxOwners

Lower(a, b) == IF a < b THEN a ELSE b

Init ==
  /\ clock = 0 /\ lease = NoLease
  /\ writer = 0 /\ taken = FALSE
  /\ owners = 0 /\ limit = [o \in Owners |-> 0]
  /\ drv = [d \in Drivers |-> Idle] /\ orphans = {}

Tick ==
  /\ clock < MaxClock /\ clock' = clock + 1
  /\ UNCHANGED <<lease, writer, taken, owners, limit, drv, orphans>>

----------------------------------------------------------------------------
\* acquire_driver_lease: the clock is read before the transaction.
AcquireUpTo(bound, d) ==
  /\ drv[d] = Idle /\ owners < bound
  /\ LET o == owners + 1 IN
     /\ owners' = o
     /\ limit' = [x \in Owners \cup {o} |-> IF x = o THEN clock + MaxLease ELSE limit[x]]
     /\ drv' = [drv EXCEPT ![d] =
          [owner |-> o, tx |-> [kind |-> "start", now |-> clock, fresh |-> TRUE,
                                exp |-> Lower(clock + Renewal, clock + MaxLease)]]]
  /\ UNCHANGED <<clock, lease, writer, taken, orphans>>

Acquire(d) == AcquireUpTo(MaxOwners, d)

\* A lease still running at the clock that was read means Busy.
AcquireCheck(d) ==
  /\ drv[d].tx.kind = "start"
  /\ IF lease.owner # 0 /\ lease.exp > drv[d].tx.now
     THEN drv' = [drv EXCEPT ![d] = Idle]
     ELSE drv' = [drv EXCEPT ![d].tx.kind = "acquire", ![d].tx.fresh = TRUE]
  /\ UNCHANGED <<clock, lease, writer, taken, owners, limit, orphans>>

Live(d) == lease.owner = drv[d].owner /\ lease.exp > clock

RenewedUpTo(bound, d) == Lower(clock + Renewal, bound)
Renewed(d) == RenewedUpTo(limit[drv[d].owner], d)

\* renew_driver_lease and the fenced writes read the lease and check the owner.
Begin(d, kind) ==
  /\ drv[d].owner # 0 /\ drv[d].tx = NoTx
  /\ Live(d) /\ Renewed(d) > clock
  /\ drv' = [drv EXCEPT ![d].tx = [kind |-> kind, now |-> clock, fresh |-> TRUE, exp |-> Renewed(d)]]
  /\ UNCHANGED <<clock, lease, writer, taken, owners, limit, orphans>>

\* Below half of the interval only; otherwise nothing is written.
Renew(d) ==
  /\ Begin(d, "renew")
  /\ lease.exp <= clock + Renewal \div 2 /\ lease.exp # Renewed(d)

\* record_payment_outputs_started, record_seat_effects_authorized,
\* restore_provisional_replacements, abandon_formation.
FencedWrite(d) == Begin(d, "fenced")

\* write_guardian_transfer checks the same lease and writes only its own row.
TransferWrite(d) ==
  /\ drv[d].owner # 0 /\ drv[d].tx = NoTx /\ Live(d)
  /\ drv' = [drv EXCEPT ![d].tx = [kind |-> "transfer", now |-> clock, fresh |-> TRUE, exp |-> 0]]
  /\ UNCHANGED <<clock, lease, writer, taken, owners, limit, orphans>>

----------------------------------------------------------------------------
\* A Busy or failed run: release_driver_lease, or the spawned removal.
Dropped(d) == orphans' = orphans \cup {drv[d].owner} /\ drv' = [drv EXCEPT ![d] = Idle]

\* The kinds whose transaction writes the lease key.
WritesLeaseOf(kinds, d) == drv[d].tx.kind \in kinds
WritesLease(d) == WritesLeaseOf({"acquire", "renew", "fenced"}, d)

\* Every other open transaction now conflicts if it writes the lease key.
Written(l, drivers) ==
  /\ lease' = l
  /\ drv' = [x \in Drivers |-> [drivers[x] EXCEPT !.tx.fresh = @ /\ drivers[x].tx = NoTx]]

Commit(d) ==
  /\ drv[d].tx.kind \notin {"none", "start"}
  /\ IF WritesLease(d) /\ ~drv[d].tx.fresh
     THEN Dropped(d) /\ UNCHANGED <<lease, writer, taken>>
     ELSE /\ LET done == [drv EXCEPT ![d].tx = NoTx] IN
             IF WritesLease(d)
             THEN Written([owner |-> drv[d].owner, exp |-> drv[d].tx.exp], done)
             ELSE drv' = done /\ UNCHANGED lease
          /\ IF drv[d].tx.kind \in {"fenced", "transfer"}
             THEN /\ writer' = drv[d].owner
                  /\ taken' = (lease.owner \notin {0, drv[d].owner} /\ lease.exp > clock)
             ELSE UNCHANGED <<writer, taken>>
          /\ UNCHANGED orphans
  /\ UNCHANGED <<clock, owners, limit>>

\* The run ends, is cancelled, or fails: its removal runs now or later.
Finish(d) ==
  /\ drv[d].owner # 0 /\ drv[d].tx.kind # "start"
  /\ Dropped(d)
  /\ UNCHANGED <<clock, lease, writer, taken, owners, limit>>

\* The process dies: nothing is removed.
Crash(d) ==
  /\ drv[d].owner # 0
  /\ drv' = [drv EXCEPT ![d] = Idle]
  /\ UNCHANGED <<clock, lease, writer, taken, owners, limit, orphans>>

\* release_driver_lease_owner; a conflict is left to expiry.
ReleaseIf(o, mine) ==
  /\ o \in orphans /\ orphans' = orphans \ {o}
  /\ \/ mine /\ Written(NoLease, drv)
     \/ UNCHANGED <<lease, drv>>
  /\ UNCHANGED <<clock, writer, taken, owners, limit>>

ReleaseAny(o) == ReleaseIf(o, TRUE)
Release(o) == ReleaseIf(o, lease.owner = o)

Next ==
  \/ Tick
  \/ \E d \in Drivers : \/ Acquire(d) \/ AcquireCheck(d) \/ Renew(d) \/ FencedWrite(d)
                        \/ TransferWrite(d) \/ Commit(d) \/ Finish(d) \/ Crash(d)
  \/ \E o \in Owners : Release(o)

Spec == Init /\ [][Next]_vars

----------------------------------------------------------------------------
TypeOK ==
  /\ clock \in 0..MaxClock /\ lease.owner \in 0..owners
  /\ owners \in 0..MaxOwners /\ limit \in [Owners -> 0..(MaxClock + MaxLease)]
  /\ writer \in 0..owners /\ taken \in BOOLEAN /\ orphans \subseteq 1..owners
  /\ \A d \in Drivers : drv[d].owner \in 0..owners

\* A stored lease that still runs is never replaced, and only its owner's
\* removal ends it: a late removal of a cancelled driver never takes a
\* successor's lease (acquire_driver_lease, release_driver_lease_owner).
RunningLeaseStands ==
  lease.owner # 0 /\ lease'.owner # lease.owner /\ lease.exp > clock
    => lease'.owner = 0 /\ lease.owner \in orphans

\* A fenced write that renews the lease in its transaction never commits while
\* another driver owns a running lease (renew_driver_lease in the same
\* transaction).
FencedWriteOwned ==
  \A d \in Drivers :
    drv[d].tx.kind = "fenced" /\ drv'[d].tx = NoTx /\ writer' = drv[d].owner => ~taken'

\* The lease fences its drivers: of every step, both of the above (acquire,
\* renew, release and the fenced writes of the driver lease in fa-client db.rs).
LeaseFences == [][RunningLeaseStands /\ FencedWriteOwned]_vars
=============================================================================
