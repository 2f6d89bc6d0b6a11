------------------------- MODULE DriverLeaseProofs -------------------------
(***************************************************************************)
(* The driver lease fences its drivers, for any number of drivers, any     *)
(* durations and any bounds.  The invariant says what an open transaction  *)
(* may rely on while nothing wrote the lease since its snapshot, and that  *)
(* an owner, drawn once, cannot hold the lease again after another driver  *)
(* took it.                                                                *)
(***************************************************************************)
EXTENDS DriverLease, TLAPS

Kinds == {"none", "start", "acquire", "renew", "fenced", "transfer"}
Txs == [kind : Kinds, now : Nat, fresh : BOOLEAN, exp : Nat]
Leases == [owner : Nat, exp : Nat]

Typed ==
  /\ clock \in Nat /\ writer \in Nat
  /\ owners \in Nat /\ owners <= MaxOwners
  /\ limit \in [Owners -> Nat]
  /\ drv \in [Drivers -> [owner : Nat, tx : Txs]]

\* Owners are drawn in order, each by one driver.
OwnersDrawn ==
  /\ lease.owner <= owners /\ writer <= owners
  /\ \A d \in Drivers :
       /\ drv[d].owner <= owners
       /\ drv[d].owner = 0 => drv[d].tx.kind = "none"
       /\ \A e \in Drivers : drv[d].owner = drv[e].owner /\ drv[d].owner # 0 => d = e

\* A transaction whose lease key nobody wrote since finds what it read.
SnapshotsHold ==
  \A d \in Drivers :
    /\ drv[d].tx.now <= clock
    /\ drv[d].tx.kind = "acquire" /\ drv[d].tx.fresh
         => lease.owner = 0 \/ lease.exp <= drv[d].tx.now
    /\ drv[d].tx.kind \in {"renew", "fenced"} /\ drv[d].tx.fresh
         => lease.owner = drv[d].owner

\* A driver that lost the lease to another never has it again: nothing was
\* written by one still acquiring, and what was written too late is not the
\* lease's owner's.
LostForGood ==
  /\ taken => lease.owner # writer /\ writer # 0
  /\ \A d \in Drivers :
       /\ drv[d].tx.kind \in {"start", "acquire"} => writer # drv[d].owner
       /\ drv[d].tx.kind = "fenced" /\ writer = drv[d].owner => ~taken

LeaseInv == lease \in Leases /\ taken \in BOOLEAN /\ Typed /\ OwnersDrawn /\ SnapshotsHold /\ LostForGood

----------------------------------------------------------------------------
\* Initially nobody holds the lease and no transaction is open.
LEMMA InitInv == Init => LeaseInv
<1>1. SUFFICES ASSUME Init PROVE LeaseInv
  OBVIOUS
<1>2. lease \in Leases /\ taken \in BOOLEAN
  BY <1>1 DEF Init, Leases, NoLease
<1>5. Idle \in [owner : Nat, tx : Txs]
  BY DEF Idle, NoTx, Txs, Kinds
<1>6. Typed
  BY <1>1, <1>5, LeaseAssumption DEF Init, Typed
<1>3. OwnersDrawn /\ SnapshotsHold
  BY <1>1 DEF Init, OwnersDrawn, SnapshotsHold, Idle, NoTx, NoLease
<1>4. LostForGood
  BY <1>1 DEF Init, LostForGood, Idle, NoTx, NoLease
<1> QED BY <1>2, <1>3, <1>4, <1>6 DEF LeaseInv

\* Becoming idle disturbs nothing.
LEMMA IdleKeeps ==
  ASSUME LeaseInv, NEW d \in Drivers, drv' = [drv EXCEPT ![d] = Idle],
         UNCHANGED <<clock, lease, writer, taken, owners, limit>>
  PROVE  LeaseInv'
<1>1. Idle \in [owner : Nat, tx : Txs] /\ Idle.owner = 0 /\ Idle.tx.kind = "none" /\ Idle.tx.now = 0
  BY DEF Idle, NoTx, Txs, Kinds
<1>2. \A x \in Drivers : drv'[x] = IF x = d THEN Idle ELSE drv[x]
  BY DEF LeaseInv, Typed
<1>3. lease' \in Leases /\ taken' \in BOOLEAN
  BY DEF LeaseInv
<1>4. Typed'
  BY <1>1 DEF LeaseInv, Typed, Owners
<1>5. OwnersDrawn'
  BY <1>1, <1>2 DEF LeaseInv, Typed, OwnersDrawn
<1>6. SnapshotsHold'
  BY <1>1, <1>2 DEF LeaseInv, Typed, SnapshotsHold
<1>7. LostForGood'
  BY <1>1, <1>2 DEF LeaseInv, LostForGood
<1> QED BY <1>3, <1>4, <1>5, <1>6, <1>7 DEF LeaseInv

\* Time only ends leases.
LEMMA TickKeeps == LeaseInv /\ Tick => LeaseInv'
<1>1. SUFFICES ASSUME LeaseInv, Tick PROVE LeaseInv'
  OBVIOUS
<1>2. lease' \in Leases /\ taken' \in BOOLEAN /\ Typed'
  BY <1>1 DEF Tick, LeaseInv, Typed, Owners
<1>3. OwnersDrawn'
  BY <1>1 DEF Tick, LeaseInv, OwnersDrawn
<1>4. SnapshotsHold'
  <2>1. \A x \in Drivers : drv[x].tx.now \in Nat
    BY <1>1 DEF LeaseInv, Typed, Txs
  <2>2. clock \in Nat /\ clock' = clock + 1
    BY <1>1 DEF Tick, LeaseInv, Typed
  <2>3. \A x \in Drivers : drv[x].tx.now <= clock'
    BY <1>1, <2>1, <2>2 DEF LeaseInv, SnapshotsHold
  <2> QED BY <1>1, <2>3 DEF Tick, LeaseInv, SnapshotsHold
<1>5. LostForGood'
  BY <1>1 DEF Tick, LeaseInv, LostForGood
<1> QED BY <1>2, <1>3, <1>4, <1>5 DEF LeaseInv

\* acquire_driver_lease draws an owner nobody had before.
LEMMA AcquireKeeps == \A d \in Drivers : LeaseInv /\ Acquire(d) => LeaseInv'
<1>1. SUFFICES ASSUME NEW d \in Drivers, LeaseInv, Acquire(d) PROVE LeaseInv'
  OBVIOUS
<1> DEFINE o == owners + 1
           r == [owner |-> o, tx |-> [kind |-> "start", now |-> clock, fresh |-> TRUE,
                                      exp |-> Lower(clock + Renewal, clock + MaxLease)]]
<1>2. /\ owners \in Nat /\ owners < MaxOwners /\ owners' = o /\ o \in Nat /\ o \in Owners
      /\ limit' = [x \in Owners \cup {o} |-> IF x = o THEN clock + MaxLease ELSE limit[x]]
      /\ drv' = [drv EXCEPT ![d] = r] /\ drv[d] = Idle
      /\ UNCHANGED <<clock, lease, writer, taken, orphans>>
  BY <1>1, LeaseAssumption DEF Acquire, AcquireUpTo, LeaseInv, Typed, Owners
<1>3. r \in [owner : Nat, tx : Txs] /\ r.owner = o /\ r.tx.kind = "start" /\ r.tx.now = clock
  BY <1>1, <1>2, LeaseAssumption DEF LeaseInv, Typed, Txs, Kinds, Lower
<1> HIDE DEF r
<1>4. \A x \in Drivers : drv'[x] = IF x = d THEN r ELSE drv[x]
  BY <1>1, <1>2 DEF LeaseInv, Typed
<1>5. lease' \in Leases /\ taken' \in BOOLEAN
  BY <1>1, <1>2 DEF LeaseInv
<1>6. limit' \in [Owners -> Nat]
  <2>1. Owners \cup {o} = Owners
    BY <1>2
  <2>2. \A x \in Owners : (IF x = o THEN clock + MaxLease ELSE limit[x]) \in Nat
    BY <1>1, LeaseAssumption DEF LeaseInv, Typed
  <2> QED BY <1>2, <2>1, <2>2
<1>7. Typed'
  BY <1>1, <1>2, <1>3, <1>6, LeaseAssumption DEF LeaseInv, Typed, Owners
<1>8. OwnersDrawn'
  <2>1. \A x \in Drivers : drv[x].owner \in Nat /\ drv[x].owner <= owners
    BY <1>1 DEF LeaseInv, Typed, OwnersDrawn
  <2>2. lease.owner \in Nat /\ lease.owner <= owners /\ writer \in Nat /\ writer <= owners
    BY <1>1 DEF LeaseInv, Typed, Leases, OwnersDrawn
  <2> QED BY <1>1, <1>2, <1>3, <1>4, <2>1, <2>2 DEF LeaseInv, OwnersDrawn
<1>9. SnapshotsHold'
  BY <1>1, <1>2, <1>3, <1>4 DEF LeaseInv, Typed, SnapshotsHold
<1>10. LostForGood'
  <2>1. writer # o
    BY <1>1, <1>2 DEF LeaseInv, Typed, OwnersDrawn
  <2> HIDE DEF o
  <2> QED BY <1>1, <1>2, <1>3, <1>4, <2>1 DEF LeaseInv, LostForGood
<1> QED BY <1>5, <1>7, <1>8, <1>9, <1>10 DEF LeaseInv

\* Its transaction opens on a lease that had run out at the clock it read.
LEMMA AcquireCheckKeeps == \A d \in Drivers : LeaseInv /\ AcquireCheck(d) => LeaseInv'
<1>1. SUFFICES ASSUME NEW d \in Drivers, LeaseInv, AcquireCheck(d) PROVE LeaseInv'
  OBVIOUS
<1>2. CASE lease.owner # 0 /\ lease.exp > drv[d].tx.now
  BY <1>1, <1>2, IdleKeeps DEF AcquireCheck
<1>3. CASE ~(lease.owner # 0 /\ lease.exp > drv[d].tx.now)
  <2> DEFINE r == [drv[d] EXCEPT !.tx.kind = "acquire", !.tx.fresh = TRUE]
  <2>1. /\ drv' = [drv EXCEPT ![d].tx.kind = "acquire", ![d].tx.fresh = TRUE]
        /\ drv[d].tx.kind = "start"
        /\ UNCHANGED <<clock, lease, writer, taken, owners, limit>>
    BY <1>1, <1>3 DEF AcquireCheck
  <2>2. drv[d] \in [owner : Nat, tx : Txs]
    BY <1>1 DEF LeaseInv, Typed
  <2>3. /\ r \in [owner : Nat, tx : Txs] /\ r.owner = drv[d].owner
        /\ r.tx.kind = "acquire" /\ r.tx.now = drv[d].tx.now
    BY <2>2 DEF Txs, Kinds
  <2>4. drv' \in [Drivers -> [owner : Nat, tx : Txs]] /\ \A x \in Drivers : drv'[x] = IF x = d THEN r ELSE drv[x]
    BY <1>1, <2>1, <2>2, <2>3 DEF LeaseInv, Typed
  <2> HIDE DEF r
  <2>5. lease' \in Leases /\ taken' \in BOOLEAN
    BY <1>1, <2>1 DEF LeaseInv
  <2>6. Typed'
    BY <1>1, <2>1, <2>4 DEF LeaseInv, Typed, Owners
  <2>7. OwnersDrawn'
    <3>1. drv[d].owner # 0
      BY <1>1, <2>1 DEF LeaseInv, OwnersDrawn
    <3> QED BY <1>1, <2>1, <2>3, <2>4, <3>1 DEF LeaseInv, OwnersDrawn
  <2>8. SnapshotsHold'
    <3>1. lease.owner = 0 \/ lease.exp <= drv[d].tx.now
      BY <1>1, <1>3, <2>2 DEF LeaseInv, Leases, Txs
    <3> QED BY <1>1, <2>1, <2>3, <2>4, <3>1 DEF LeaseInv, SnapshotsHold
  <2>9. LostForGood'
    BY <1>1, <2>1, <2>3, <2>4 DEF LeaseInv, LostForGood
  <2> QED BY <2>5, <2>6, <2>7, <2>8, <2>9 DEF LeaseInv
<1> QED BY <1>2, <1>3

\* A transaction that starts under the running lease of its driver.
LEMMA BeginsKeep ==
  ASSUME LeaseInv, NEW d \in Drivers, NEW kind \in {"renew", "fenced", "transfer"}, NEW e \in Nat,
         drv[d].owner # 0, lease.owner = drv[d].owner,
         drv' = [drv EXCEPT ![d].tx = [kind |-> kind, now |-> clock, fresh |-> TRUE, exp |-> e]],
         UNCHANGED <<clock, lease, writer, taken, owners, limit>>
  PROVE  LeaseInv'
<1> DEFINE r == [drv[d] EXCEPT !.tx = [kind |-> kind, now |-> clock, fresh |-> TRUE, exp |-> e]]
<1>1. drv[d] \in [owner : Nat, tx : Txs]
  BY DEF LeaseInv, Typed
<1>2. /\ r \in [owner : Nat, tx : Txs] /\ r.owner = drv[d].owner
      /\ r.tx.kind = kind /\ r.tx.now = clock
  BY <1>1 DEF Txs, Kinds, LeaseInv, Typed
<1>3. drv' \in [Drivers -> [owner : Nat, tx : Txs]] /\ \A x \in Drivers : drv'[x] = IF x = d THEN r ELSE drv[x]
  BY <1>1, <1>2 DEF LeaseInv, Typed
<1> HIDE DEF r
<1>4. lease' \in Leases /\ taken' \in BOOLEAN
  BY DEF LeaseInv
<1>5. Typed'
  BY <1>3 DEF LeaseInv, Typed, Owners
<1>6. OwnersDrawn'
  BY <1>2, <1>3 DEF LeaseInv, OwnersDrawn
<1>7. SnapshotsHold'
  <2>1. clock \in Nat
    BY DEF LeaseInv, Typed
  <2> QED BY <1>2, <1>3, <2>1 DEF LeaseInv, SnapshotsHold
<1>8. LostForGood'
  BY <1>2, <1>3 DEF LeaseInv, LostForGood
<1> QED BY <1>4, <1>5, <1>6, <1>7, <1>8 DEF LeaseInv

\* A renewal, a fenced write or a transfer write opens under its own running lease.
LEMMA BeginKeeps ==
  \A d \in Drivers : LeaseInv /\ (Renew(d) \/ FencedWrite(d) \/ TransferWrite(d)) => LeaseInv'
<1>1. SUFFICES ASSUME NEW d \in Drivers, LeaseInv, Renew(d) \/ FencedWrite(d) \/ TransferWrite(d)
               PROVE  LeaseInv'
  OBVIOUS
<1>2. CASE Renew(d) \/ FencedWrite(d)
  <2>1. PICK kind \in {"renew", "fenced"} : Begin(d, kind)
    BY <1>2, Zenon DEF Renew, FencedWrite
  <2>2. drv[d].owner \in Owners
    <3>1. drv[d].owner \in Nat /\ owners \in Nat /\ owners <= MaxOwners
      BY <1>1 DEF LeaseInv, Typed
    <3>2. drv[d].owner <= owners /\ drv[d].owner # 0
      BY <1>1, <2>1 DEF Begin, LeaseInv, OwnersDrawn
    <3> QED BY <3>1, <3>2, LeaseAssumption DEF Owners
  <2>3. limit[drv[d].owner] \in Nat /\ clock + Renewal \in Nat
    BY <1>1, <2>2, LeaseAssumption DEF LeaseInv, Typed
  <2>4. Renewed(d) \in Nat
    BY <2>3 DEF Renewed, RenewedUpTo, Lower
  <2> QED BY <1>1, <2>1, <2>4, BeginsKeep DEF Begin, Live
<1>3. CASE TransferWrite(d)
  BY <1>1, <1>3, BeginsKeep DEF TransferWrite, Live
<1> QED BY <1>1, <1>2, <1>3

\* Writing the lease key makes every open transaction stale, whatever it wrote.
LEMMA WrittenKeeps ==
  ASSUME LeaseInv, NEW l \in Leases, l.owner <= owners,
         NEW drivers \in [Drivers -> [owner : Nat, tx : Txs]],
         \A x \in Drivers : /\ drivers[x].owner = drv[x].owner
                            /\ drivers[x].tx = drv[x].tx \/ drivers[x].tx = NoTx,
         Written(l, drivers), writer' \in Nat, writer' <= owners,
         UNCHANGED <<clock, owners, limit>>
  PROVE  Typed' /\ OwnersDrawn' /\ SnapshotsHold'
<1> DEFINE r(x) == [drivers[x] EXCEPT !.tx.fresh = @ /\ drivers[x].tx = NoTx]
<1>1. \A x \in Drivers : /\ r(x) \in [owner : Nat, tx : Txs] /\ r(x).owner = drivers[x].owner
                         /\ r(x).tx.kind = drivers[x].tx.kind /\ r(x).tx.now = drivers[x].tx.now
  BY DEF Txs
<1>2. \A x \in Drivers : drivers[x].tx # NoTx => r(x).tx.fresh = FALSE
  BY DEF Txs
<1>3. lease' = l /\ drv' = [x \in Drivers |-> r(x)]
  BY DEF Written
<1> HIDE DEF r
<1>4. drv' \in [Drivers -> [owner : Nat, tx : Txs]] /\ \A x \in Drivers : drv'[x] = r(x)
  BY <1>1, <1>3
<1>5. NoTx.kind = "none" /\ NoTx.now = 0
  BY DEF NoTx
<1>6. Typed'
  BY <1>4 DEF LeaseInv, Typed, Owners
<1>7. OwnersDrawn'
  BY <1>1, <1>3, <1>4, <1>5 DEF LeaseInv, OwnersDrawn
<1>8. SnapshotsHold'
  <2>1. ASSUME NEW x \in Drivers PROVE drv'[x].tx.now <= clock
    <3>1. drv[x].tx.now <= clock /\ 0 <= clock
      BY DEF LeaseInv, Typed, SnapshotsHold
    <3> QED BY <1>1, <1>4, <1>5, <3>1
  <2>2. ASSUME NEW x \in Drivers, drv'[x].tx.kind # "none" PROVE drv'[x].tx.fresh = FALSE
    BY <1>1, <1>2, <1>4, <1>5, <2>2
  <2> QED BY <2>1, <2>2 DEF SnapshotsHold
<1> QED BY <1>6, <1>7, <1>8

\* A commit either conflicts or finds the lease as its snapshot had it.
LEMMA CommitKeeps == \A d \in Drivers : LeaseInv /\ Commit(d) => LeaseInv'
<1>1. SUFFICES ASSUME NEW d \in Drivers, LeaseInv, Commit(d) PROVE LeaseInv'
  OBVIOUS
<1> DEFINE own == drv[d].owner
           done == [drv EXCEPT ![d].tx = NoTx]
           l == [owner |-> own, exp |-> drv[d].tx.exp]
<1>2. CASE WritesLease(d) /\ ~drv[d].tx.fresh
  BY <1>1, <1>2, IdleKeeps DEF Commit, Dropped
<1>3. CASE ~(WritesLease(d) /\ ~drv[d].tx.fresh)
  <2>1. drv[d] \in [owner : Nat, tx : Txs] /\ NoTx \in Txs /\ NoTx.kind = "none" /\ NoTx.now = 0
    BY <1>1 DEF LeaseInv, Typed, Txs, Kinds, NoTx
  <2>2. done \in [Drivers -> [owner : Nat, tx : Txs]]
    BY <1>1, <2>1 DEF LeaseInv, Typed
  <2>3. \A x \in Drivers : /\ done[x].owner = drv[x].owner
                           /\ done[x].tx = IF x = d THEN NoTx ELSE drv[x].tx
    BY <1>1, <2>1 DEF LeaseInv, Typed
  <2>4. own \in Nat /\ own # 0 /\ own <= owners
    BY <1>1, <2>1 DEF Commit, LeaseInv, OwnersDrawn
  <2>5. \A x \in Drivers : x # d => drv[x].owner # own
    BY <1>1, <2>4 DEF LeaseInv, OwnersDrawn
  <2>6. l \in Leases /\ l.owner = own
    BY <2>1, <2>4 DEF Leases, Txs
  <2>7. /\ drv[d].tx.kind \notin {"none", "start"}
        /\ UNCHANGED <<clock, owners, limit>>
        /\ IF WritesLease(d) THEN Written(l, done) ELSE drv' = done /\ UNCHANGED lease
        /\ IF drv[d].tx.kind \in {"fenced", "transfer"}
           THEN /\ writer' = own
                /\ taken' = (lease.owner \notin {0, own} /\ lease.exp > clock)
           ELSE UNCHANGED <<writer, taken>>
    BY <1>1, <1>3, Zenon DEF Commit
  <2>8. writer' \in Nat /\ writer' <= owners
    BY <1>1, <2>4, <2>7 DEF LeaseInv, Typed, OwnersDrawn
  <2>9. taken' \in BOOLEAN
    BY <1>1, <2>7, Zenon DEF LeaseInv
  <2> HIDE DEF own, done, l
  <2>10. CASE ~WritesLease(d)
    <3>1. drv[d].tx.kind = "transfer"
      BY <2>1, <2>7, <2>10 DEF WritesLease, WritesLeaseOf, Txs, Kinds
    <3>2. drv' = done /\ lease' = lease /\ writer' = own /\ (taken' => lease.owner # own)
      BY <2>7, <2>10, <3>1
    <3>3. lease' \in Leases
      BY <1>1, <3>2 DEF LeaseInv
    <3>4. Typed'
      BY <1>1, <2>2, <2>7, <2>8, <3>2 DEF LeaseInv, Typed, Owners
    <3>5. OwnersDrawn'
      BY <1>1, <2>1, <2>3, <2>7, <2>8, <3>2 DEF LeaseInv, OwnersDrawn
    <3>6. SnapshotsHold'
      BY <1>1, <2>1, <2>3, <2>7, <3>2 DEF LeaseInv, Typed, SnapshotsHold
    <3>7. LostForGood'
      BY <2>1, <2>3, <2>4, <2>5, <3>2 DEF LostForGood
    <3> QED BY <2>9, <3>3, <3>4, <3>5, <3>6, <3>7 DEF LeaseInv
  <2>11. CASE WritesLease(d)
    <3>1. drv[d].tx.kind \in {"acquire", "renew", "fenced"} /\ drv[d].tx.fresh
      BY <1>3, <2>11, Zenon DEF WritesLease, WritesLeaseOf
    <3>2. Written(l, done)
      BY <2>7, <2>11
    <3>3. Typed' /\ OwnersDrawn' /\ SnapshotsHold'
      BY <1>1, <2>2, <2>3, <2>4, <2>6, <2>7, <2>8, <3>2, WrittenKeeps
    <3>4. lease' = l /\ lease' \in Leases /\ lease'.owner = own
      BY <2>6, <3>2 DEF Written
    <3>5. \A x \in Drivers : /\ drv'[x].owner = drv[x].owner
                             /\ drv'[x].tx.kind = IF x = d THEN "none" ELSE drv[x].tx.kind
      <4>1. drv' = [x \in Drivers |-> [done[x] EXCEPT !.tx.fresh = @ /\ done[x].tx = NoTx]]
        BY <3>2 DEF Written
      <4>2. \A x \in Drivers : drv'[x].owner = done[x].owner /\ drv'[x].tx.kind = done[x].tx.kind
        BY <2>2, <4>1 DEF Txs
      <4> QED BY <2>1, <2>3, <4>2
    <3>6. CASE drv[d].tx.kind = "fenced"
      <4>1. lease.owner = own
        BY <1>1, <3>1, <3>6 DEF LeaseInv, SnapshotsHold, own
      <4>2. writer' = own /\ ~taken'
        BY <2>7, <3>6, <4>1
      <4>3. LostForGood'
        BY <2>5, <3>5, <4>2 DEF LostForGood
      <4> QED BY <2>9, <3>3, <3>4, <4>3 DEF LeaseInv
    <3>7. CASE drv[d].tx.kind \in {"acquire", "renew"}
      <4>1. UNCHANGED <<writer, taken>>
        BY <2>7, <3>7
      <4>2. taken => own # writer
        <5>1. CASE drv[d].tx.kind = "acquire"
          BY <1>1, <5>1 DEF LeaseInv, LostForGood, own
        <5>2. CASE drv[d].tx.kind = "renew"
          BY <1>1, <3>1, <5>2 DEF LeaseInv, LostForGood, SnapshotsHold, own
        <5> QED BY <3>7, <5>1, <5>2
      <4>3. LostForGood'
        BY <1>1, <3>4, <3>5, <4>1, <4>2 DEF LeaseInv, LostForGood
      <4> QED BY <2>9, <3>3, <3>4, <4>3 DEF LeaseInv
    <3> QED BY <3>1, <3>6, <3>7
  <2> QED BY <2>10, <2>11
<1> QED BY <1>2, <1>3

\* A removal only removes the lease of its own owner.
LEMMA ReleaseKeeps == \A o \in Owners : LeaseInv /\ Release(o) => LeaseInv'
<1>1. SUFFICES ASSUME NEW o \in Owners, LeaseInv, Release(o) PROVE LeaseInv'
  OBVIOUS
<1>2. UNCHANGED <<clock, writer, taken, owners, limit>>
  BY <1>1 DEF Release, ReleaseIf
<1>3. CASE Written(NoLease, drv)
  <2>1. NoLease \in Leases /\ NoLease.owner = 0 /\ owners \in Nat /\ drv \in [Drivers -> [owner : Nat, tx : Txs]]
    BY <1>1 DEF NoLease, Leases, LeaseInv, Typed
  <2>2. writer' \in Nat /\ writer' <= owners
    BY <1>1, <1>2 DEF LeaseInv, Typed, OwnersDrawn
  <2>3. Typed' /\ OwnersDrawn' /\ SnapshotsHold'
    BY <1>1, <1>2, <1>3, <2>1, <2>2, WrittenKeeps
  <2>4. lease' = NoLease
    BY <1>3 DEF Written
  <2>5. \A x \in Drivers : drv'[x].owner = drv[x].owner /\ drv'[x].tx.kind = drv[x].tx.kind
    BY <1>3, <2>1 DEF Written, Txs
  <2>6. LostForGood'
    BY <1>1, <1>2, <2>1, <2>4, <2>5 DEF LeaseInv, LostForGood
  <2> QED BY <1>1, <1>2, <2>1, <2>3, <2>4, <2>6 DEF LeaseInv
<1>4. CASE UNCHANGED <<lease, drv>>
  BY <1>1, <1>2, <1>4 DEF LeaseInv, Typed, OwnersDrawn, SnapshotsHold, LostForGood, Owners
<1> QED BY <1>1, <1>3, <1>4 DEF Release, ReleaseIf

\* Every step keeps the invariant.
LEMMA NextKeeps == LeaseInv /\ [Next]_vars => LeaseInv'
<1>1. SUFFICES ASSUME LeaseInv, [Next]_vars PROVE LeaseInv'
  OBVIOUS
<1>2. CASE UNCHANGED vars
  BY <1>1, <1>2 DEF vars, LeaseInv, Typed, OwnersDrawn, SnapshotsHold, LostForGood, Owners
<1>3. ASSUME NEW d \in Drivers, Finish(d) \/ Crash(d) PROVE LeaseInv'
  BY <1>1, <1>3, IdleKeeps DEF Finish, Crash, Dropped
<1> QED BY <1>1, <1>2, <1>3, TickKeeps, AcquireKeeps, AcquireCheckKeeps, BeginKeeps, CommitKeeps, ReleaseKeeps
        DEF Next

----------------------------------------------------------------------------
\* From the invariant, no step replaces a running lease.
LEMMA StepStands == LeaseInv /\ Next => RunningLeaseStands
<1>1. SUFFICES ASSUME LeaseInv, Next, lease.owner # 0, lease'.owner # lease.owner, lease.exp > clock
               PROVE  lease'.owner = 0 /\ lease.owner \in orphans
  BY DEF RunningLeaseStands
<1>2. CASE \E d \in Drivers : Commit(d)
  <2>1. PICK d \in Drivers : Commit(d)
    BY <1>2
  <2>2. WritesLease(d) /\ drv[d].tx.fresh /\ lease'.owner = drv[d].owner
    <3>1. lease' # lease
      BY <1>1
    <3> QED BY <2>1, <3>1 DEF Commit, Written
  <2>3. drv[d].tx.kind = "acquire"
    BY <1>1, <2>2 DEF LeaseInv, SnapshotsHold, WritesLease, WritesLeaseOf
  <2>4. lease.exp <= drv[d].tx.now /\ drv[d].tx.now <= clock
    BY <1>1, <2>2, <2>3 DEF LeaseInv, SnapshotsHold
  <2>5. lease.exp \in Nat /\ drv[d].tx.now \in Nat /\ clock \in Nat
    BY <1>1 DEF LeaseInv, Typed, Leases, Txs
  <2> QED BY <1>1, <2>4, <2>5
<1>3. CASE \E o \in Owners : Release(o)
  <2>1. PICK o \in Owners : Release(o)
    BY <1>3
  <2>2. lease' # lease
    BY <1>1
  <2> QED BY <2>1, <2>2 DEF Release, ReleaseIf, Written, NoLease
<1> QED BY <1>1, <1>2, <1>3
        DEF Next, Tick, Acquire, AcquireUpTo, AcquireCheck, Renew, FencedWrite, Begin, TransferWrite, Finish, Crash

\* Nor does one commit a fenced write of a driver that lost the lease.
LEMMA StepOwned == LeaseInv /\ Next => FencedWriteOwned
<1>1. SUFFICES ASSUME LeaseInv, Next, NEW d \in Drivers, drv[d].tx.kind = "fenced",
                      drv'[d].tx = NoTx, writer' = drv[d].owner
               PROVE  ~taken'
  BY DEF FencedWriteOwned
<1>2. CASE UNCHANGED <<writer, taken>>
  BY <1>1, <1>2 DEF LeaseInv, LostForGood
<1>3. CASE \E e \in Drivers : Commit(e) /\ drv[e].tx.kind \in {"fenced", "transfer"}
  <2>1. PICK e \in Drivers : Commit(e) /\ drv[e].tx.kind \in {"fenced", "transfer"}
    BY <1>3
  <2>2. CASE WritesLease(e) /\ ~drv[e].tx.fresh
    BY <1>2, <2>1, <2>2 DEF Commit
  <2>3. CASE ~(WritesLease(e) /\ ~drv[e].tx.fresh)
    <3>1. writer' = drv[e].owner /\ taken' = (lease.owner \notin {0, drv[e].owner} /\ lease.exp > clock)
      BY <2>1, <2>3 DEF Commit
    <3>2. e = d
      BY <1>1, <3>1 DEF LeaseInv, OwnersDrawn
    <3>3. drv[d].tx.fresh
      BY <1>1, <2>3, <3>2 DEF WritesLease, WritesLeaseOf
    <3>4. lease.owner = drv[d].owner
      BY <1>1, <3>3 DEF LeaseInv, SnapshotsHold
    <3> QED BY <3>1, <3>2, <3>4
  <2> QED BY <2>2, <2>3
<1>4. CASE \E e \in Drivers : Commit(e) /\ drv[e].tx.kind \notin {"fenced", "transfer"}
  BY <1>2, <1>4 DEF Commit
<1> QED BY <1>1, <1>2, <1>3, <1>4
        DEF Next, Tick, Acquire, AcquireUpTo, AcquireCheck, Renew, FencedWrite, Begin, TransferWrite,
            Finish, Crash, Release, ReleaseIf

\* The lease fences its drivers: in every behaviour of acquire_driver_lease,
\* renew_driver_lease, the fenced writes and release_driver_lease_owner, a
\* running lease is only ended by its owner's removal, and a write that renews
\* the lease in its transaction never commits while another driver's lease
\* runs.
THEOREM LeaseIsFence == Spec => LeaseFences
<1>1. LeaseInv /\ [Next]_vars => [RunningLeaseStands /\ FencedWriteOwned]_vars
  BY StepStands, StepOwned
<1> QED BY <1>1, InitInv, NextKeeps, PTL DEF Spec, LeaseFences
=============================================================================
