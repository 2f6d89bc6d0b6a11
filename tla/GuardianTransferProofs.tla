----------------------- MODULE GuardianTransferProofs -----------------------
(***************************************************************************)
(* A guardian that moves between hosts stays one guardian, for any number  *)
(* of hosts, moves and restores.  The invariant says of each seat what its *)
(* backup promises of its rows and which source let it have the guardian,  *)
(* and of the FA's moves that every seat they left behind has handed the   *)
(* guardian over.                                                          *)
(***************************************************************************)
EXTENDS GuardianTransfer, TLAPS

\* The backup never promises less than the rows hold: a fence the relay serves
\* is in the rows, a fence that was confirmed is on the relay, and whoever
\* handed the guardian over has its fence there.
Backed(s) ==
  /\ relay[s].out # "none" => db[s].out # "none"
  /\ publishing[s] # None => publishing[s].out = relay[s].out
  /\ db[s].confirmed # None /\ db[s].confirmed.out # "none" => relay[s].out # "none"
  /\ s \in exported => relay[s].out # "none"
  /\ relay[s].imported => relay[s].guardian

\* A fenced seat was formed, runs nothing, and signed nothing in this session.
Stopped(s) ==
  /\ db[s].out # "none" => db[s].formed /\ child[s] = "none" /\ s \notin signers
  /\ child[s] = "boundary" => s \notin signers

\* What a command in progress has checked.
Busy(s) ==
  /\ pc[s] = "placed" => s \in disk /\ db[s].in = "waiting" /\ db[s].out = "none"
  /\ pc[s] = "deleted" => db[s].out # "none" /\ s \in removals
  /\ db[s].in = "imported" => db[s].formed

\* A seat has anything of the guardian only after its source handed it over.
Has(s) ==
  \/ db[s].formed \/ relay[s].guardian \/ child[s] # "none" \/ s \in signers
  \/ s \in material \/ pc[s] = "placed"

HandedOver(s) == Has(s) => s = Source \/ granted[s] \in exported

\* What is deleted was asked for.
Removed(s) == db[s].out = "removed" \/ relay[s].out = "removed" => s \in removals

SeatInv(s) == Backed(s) /\ Stopped(s) /\ Busy(s) /\ HandedOver(s) /\ Removed(s)

\* The seats the guardian is or was on.
Custody(s) == s = Source \/ granted[s] # None

MoveInv ==
  /\ granted[Source] = None
  /\ Custody(fa.src)
  /\ fa.phase = "none" => fa.dst = None
  /\ fa.phase # "none" =>
       /\ fa.dst \in Seats \ {Source, fa.src}
       /\ granted[fa.dst] \in {None, fa.src}
  /\ fa.phase \in {"binding", "removing"} => granted[fa.dst] = fa.src
  /\ \A s \in Seats : Custody(s) => s \in {fa.src, fa.dst} \cup exported

RemovalInv ==
  /\ removals \subseteq exported
  /\ fa.src \in removals => fa.phase = "removing"
  /\ fa.dst \notin removals
  /\ fa.phase \in {"none", "pulling"} => named = fa.src
  /\ fa.phase = "binding" => named \in {fa.src, fa.dst}
  /\ fa.phase = "removing" => named = fa.dst
  /\ ~gambled => \E s \in disk : s \notin removals

TransferInv ==
  /\ TypeOK /\ AcceptedHasFiles
  /\ \A s \in Seats : SeatInv(s)
  /\ MoveInv /\ RemovalInv

----------------------------------------------------------------------------
(* What a step leaves of the seats it does not touch.                      *)

\* A seat whose rows, processes and backup stand still keeps its invariant as
\* fences and removals elsewhere come.
LEMMA SeatStands ==
  ASSUME NEW t \in Seats, SeatInv(t),
         db'[t] = db[t], relay'[t] = relay[t], publishing'[t] = publishing[t],
         child'[t] = child[t], pc'[t] = pc[t],
         t \in signers' => t \in signers, t \in disk => t \in disk',
         t \in material' => t \in material, t \in exported' => t \in exported,
         removals \subseteq removals', exported \subseteq exported',
         granted'[t] = granted[t] \/ ~Has(t)
  PROVE  SeatInv(t)'
<1>1. Backed(t)' /\ Stopped(t)' /\ Busy(t)'
  BY DEF SeatInv, Backed, Stopped, Busy
<1>2. HandedOver(t)' /\ Removed(t)'
  BY DEF SeatInv, HandedOver, Has, Removed
<1> QED BY <1>1, <1>2 DEF SeatInv

\* A step of one seat answers for that seat only.
LEMMA OneSeat ==
  ASSUME TransferInv, NEW s \in Seats, TypeOK',
         UNCHANGED <<fa, granted, removals, named, exported>>,
         \A t \in Seats \ {s} :
           /\ db'[t] = db[t] /\ relay'[t] = relay[t] /\ publishing'[t] = publishing[t]
           /\ child'[t] = child[t] /\ pc'[t] = pc[t]
           /\ t \in signers' => t \in signers
           /\ t \in disk' <=> t \in disk
           /\ t \in material' => t \in material,
         SeatInv(s)',
         db'[s].in = "imported" /\ s \notin removals => s \in disk',
         ~gambled' => \E t \in disk' : t \notin removals
  PROVE  TransferInv'
<1>1. \A t \in Seats : SeatInv(t)'
  <2>1. SUFFICES ASSUME NEW t \in Seats, t # s PROVE SeatInv(t)'
    OBVIOUS
  <2>2. SeatInv(t)
    BY DEF TransferInv
  <2> QED BY <2>1, <2>2, SeatStands
<1>2. AcceptedHasFiles'
  BY DEF AcceptedHasFiles, TransferInv
<1>3. MoveInv'
  BY DEF TransferInv, MoveInv, Custody
<1>4. RemovalInv'
  BY DEF TransferInv, RemovalInv
<1> QED BY <1>1, <1>2, <1>3, <1>4 DEF TransferInv

\* The same for one whose directories stand as they are.
LEMMA OneSeatInPlace ==
  ASSUME TransferInv, NEW s \in Seats, TypeOK',
         UNCHANGED <<fa, granted, removals, named, exported, disk, gambled>>,
         \A t \in Seats \ {s} :
           /\ db'[t] = db[t] /\ relay'[t] = relay[t] /\ publishing'[t] = publishing[t]
           /\ child'[t] = child[t] /\ pc'[t] = pc[t]
           /\ t \in signers' => t \in signers
           /\ t \in material' => t \in material,
         SeatInv(s)',
         db'[s].in = "imported" => db[s].in = "imported" \/ s \in disk
  PROVE  TransferInv'
<1>1. ~gambled' => \E t \in disk' : t \notin removals
  BY DEF TransferInv, RemovalInv
<1>2. db'[s].in = "imported" /\ s \notin removals => s \in disk'
  BY DEF TransferInv, AcceptedHasFiles
<1> QED BY <1>1, <1>2, OneSeat

\* What the types say of one seat.
LEMMA SeatTypes ==
  ASSUME TypeOK, NEW s \in Seats
  PROVE  /\ db[s] \in Rows /\ relay[s] \in Docs /\ publishing[s] \in Docs \cup {None}
         /\ child[s] \in Running \cup {"none", "boundary", "crashed"}
         /\ pc[s] \in {"idle", "placed", "deleted", "decom"}
BY DEF TypeOK

\* The guardian starts formed on Source, with every first backup confirmed.
LEMMA InitInv == Init => TransferInv
<1>1. SUFFICES ASSUME Init PROVE TransferInv
  OBVIOUS
<1> DEFINE row(s) == IF s = Source THEN FormedRow ELSE NewRow
<1>2. /\ NewRow \in Rows /\ FormedRow \in Rows
      /\ NewRow.in = "none" /\ NewRow.out = "none" /\ ~NewRow.formed /\ NewRow.decom = FALSE
      /\ FormedRow.in = "none" /\ FormedRow.out = "none" /\ FormedRow.formed /\ FormedRow.decom = FALSE
  BY DEF NewRow, FormedRow, Rows, Fences
<1>3. \A s \in Seats : /\ row(s) \in Rows /\ row(s).in = "none" /\ row(s).out = "none" /\ row(s).decom = FALSE
                       /\ row(s).formed <=> s = Source
  <2>1. ASSUME NEW s \in Seats PROVE s = Source => row(s) = FormedRow
    OBVIOUS
  <2>2. ASSUME NEW s \in Seats PROVE s # Source => row(s) = NewRow
    OBVIOUS
  <2> HIDE DEF row
  <2> QED BY <1>2, <2>1, <2>2
<1> HIDE DEF row
<1>4. \A s \in Seats : /\ Document(row(s)) \in Docs /\ Document(row(s)).out = "none"
                       /\ Document(row(s)).guardian <=> s = Source
                       /\ Document(row(s)).imported = FALSE
  BY <1>3 DEF Document, Docs, Fences, Rows
<1>5. \A s \in Seats : /\ db[s] = [row(s) EXCEPT !.confirmed = Document(row(s))]
                       /\ relay[s] = Document(row(s))
  BY <1>1 DEF Init, row
<1>6. ASSUME NEW s \in Seats
      PROVE  /\ db[s] \in Rows /\ db[s].in = "none" /\ db[s].out = "none"
             /\ db[s].formed <=> s = Source
             /\ db[s].confirmed.out = "none"
  <2>1. row(s) \in Rows /\ Document(row(s)) \in Docs \cup {None}
    BY <1>3, <1>4
  <2>2. db[s] \in Rows /\ db[s].in = row(s).in /\ db[s].out = row(s).out /\ db[s].formed = row(s).formed
        /\ db[s].confirmed = Document(row(s))
    BY <1>5, <2>1 DEF Rows
  <2> QED BY <1>3, <1>4, <2>2
<1>7. TypeOK
  <2>1. db \in [Seats -> Rows]
    <3>1. db = [s \in Seats |-> db[s]]
      BY <1>1 DEF Init
    <3> QED BY <1>6, <3>1
  <2>2. relay \in [Seats -> Docs]
    <3>1. relay = [s \in Seats |-> relay[s]]
      BY <1>1 DEF Init
    <3> QED BY <1>4, <1>5, <3>1
  <2>3. fa \in [phase : GuardianTransferPhase, src : Seats, dst : Seats \cup {None}]
    BY <1>1, TransferAssumption DEF Init, NoTransfer, GuardianTransferPhase
  <2>4. child \in [Seats -> Running \cup {"none", "boundary", "crashed"}]
        /\ pc \in [Seats -> {"idle", "placed", "deleted", "decom"}]
    BY <1>1 DEF Init, Running
  <2>5. publishing \in [Seats -> Docs \cup {None}] /\ granted \in SeatTransferGrants
    BY <1>1 DEF Init, SeatTransferGrants
  <2>6. /\ disk \subseteq Seats /\ material \subseteq Seats /\ exported \subseteq Seats /\ signers \subseteq Seats
        /\ removals \subseteq Seats /\ named \in Seats
    BY <1>1, TransferAssumption DEF Init
  <2>7. enabled \in BOOLEAN /\ gambled \in BOOLEAN
    BY <1>1, Zenon DEF Init
  <2>8. restores = 0 /\ 0 \in 0..MaxRestores
    BY <1>1, TransferAssumption DEF Init
  <2> QED BY <2>1, <2>2, <2>3, <2>4, <2>5, <2>6, <2>7, <2>8 DEF TypeOK
<1>8. ASSUME NEW s \in Seats PROVE SeatInv(s)
  <2>1. /\ relay[s].out = "none"
        /\ relay[s].guardian <=> s = Source
        /\ relay[s].imported = FALSE
    BY <1>4, <1>5
  <2>2. /\ publishing[s] = None /\ pc[s] = "idle" /\ child[s] # "boundary"
        /\ s # Source => child[s] = "none"
        /\ exported = {} /\ material = {} /\ signers = {Source}
    BY <1>1 DEF Init
  <2> QED BY <1>6, <2>1, <2>2 DEF SeatInv, Backed, Stopped, Busy, HandedOver, Has, Removed
<1>9. fa.phase = "none" /\ fa.src = Source /\ fa.dst = None
  BY <1>1 DEF Init, NoTransfer
<1>10. MoveInv /\ RemovalInv
  BY <1>1, <1>9, TransferAssumption DEF Init, MoveInv, RemovalInv, Custody
<1>11. AcceptedHasFiles
  BY <1>6 DEF AcceptedHasFiles
<1> QED BY <1>7, <1>8, <1>10, <1>11 DEF TransferInv

----------------------------------------------------------------------------
(* The FA's steps.                                                         *)

\* A seat that reports Running has the guardian's files and no fence.
LEMMA RunningSeat ==
  ASSUME NEW s \in Seats, Status(s) = "Running"
  PROVE  db[s].formed /\ s \in disk /\ db[s].out = "none"
BY DEF Status, Retired

\* A step of the FA changes nothing on a host.
LEMMA FaOnly ==
  ASSUME TransferInv, TypeOK', UNCHANGED <<db, disk, child, pc, material, exported, signers, mgVars>>,
         removals \subseteq removals', \A t \in Seats : granted'[t] = granted[t] \/ ~Has(t),
         MoveInv', RemovalInv'
  PROVE  TransferInv'
<1>1. \A t \in Seats : SeatInv(t)'
  <2>1. SUFFICES ASSUME NEW t \in Seats PROVE SeatInv(t)'
    OBVIOUS
  <2>2. SeatInv(t)
    BY DEF TransferInv
  <2> QED BY <2>2, SeatStands DEF mgVars
<1>2. AcceptedHasFiles'
  BY DEF AcceptedHasFiles, TransferInv
<1> QED BY <1>1, <1>2 DEF TransferInv

\* Whoever handed the guardian over had custody of it.
LEMMA ExportedHadCustody ==
  ASSUME TransferInv, NEW s \in exported
  PROVE  Custody(s) /\ db[s].out # "none" /\ db[s].formed
<1>1. s \in Seats /\ exported \subseteq Seats
  BY DEF TransferInv, TypeOK
<1>2. SeatInv(s)
  BY <1>1 DEF TransferInv
<1>3. db[s].out # "none" /\ db[s].formed
  BY <1>2 DEF SeatInv, Backed, Stopped
<1>4. s = Source \/ granted[s] \in exported
  BY <1>2, <1>3 DEF SeatInv, HandedOver, Has
<1> QED BY <1>1, <1>3, <1>4, TransferAssumption DEF Custody

\* The destination of the open move, once it runs, has the source's answer.
LEMMA RunningDestination ==
  ASSUME TransferInv, fa.phase # "none", Status(fa.dst) = "Running"
  PROVE  granted[fa.dst] = fa.src /\ fa.src \in exported /\ fa.dst \in disk
<1>1. fa.dst \in Seats \ {Source, fa.src} /\ granted[fa.dst] \in {None, fa.src}
  BY DEF TransferInv, MoveInv
<1>2. db[fa.dst].formed /\ fa.dst \in disk
  BY <1>1, RunningSeat
<1>3. SeatInv(fa.dst) /\ exported \subseteq Seats
  BY <1>1 DEF TransferInv, TypeOK
<1>4. granted[fa.dst] \in exported
  BY <1>1, <1>2, <1>3 DEF SeatInv, HandedOver, Has
<1> QED BY <1>1, <1>2, <1>3, <1>4, TransferAssumption

\* A move opens towards a seat that never had the guardian.
LEMMA StartKeeps == \A d \in Seats : TransferInv /\ StartTransfer(d) => TransferInv'
<1>1. SUFFICES ASSUME NEW d \in Seats, TransferInv, StartTransfer(d) PROVE TransferInv'
  OBVIOUS
<1>2. /\ UNCHANGED <<db, disk, child, pc, material, exported, signers, granted, removals, named, enabled, mgVars>>
      /\ fa' = [fa EXCEPT !.phase = "pulling", !.dst = d] /\ fa.phase = "none"
      /\ d # fa.src /\ d # Source /\ granted[d] = None
  BY <1>1 DEF StartTransfer, HasCustody
<1>3. fa \in [phase : GuardianTransferPhase, src : Seats, dst : Seats \cup {None}]
  BY <1>1 DEF TransferInv, TypeOK
<1>4. /\ fa' \in [phase : GuardianTransferPhase, src : Seats, dst : Seats \cup {None}]
      /\ fa'.phase = "pulling" /\ fa'.src = fa.src /\ fa'.dst = d
  BY <1>2, <1>3 DEF GuardianTransferPhase
<1>5. TypeOK'
  BY <1>1, <1>2, <1>4 DEF TransferInv, TypeOK, mgVars
<1>6. fa.dst = None
  BY <1>1, <1>2 DEF TransferInv, MoveInv
<1>7. MoveInv'
  BY <1>1, <1>2, <1>4, <1>6, TransferAssumption DEF TransferInv, MoveInv, Custody
<1>8. d \notin removals
  BY <1>1, <1>2, ExportedHadCustody DEF TransferInv, RemovalInv, Custody
<1>9. RemovalInv'
  BY <1>1, <1>2, <1>4, <1>8 DEF TransferInv, RemovalInv, mgVars
<1> QED BY <1>1, <1>2, <1>5, <1>7, <1>9, FaOnly

\* The grant names the seat the FA's list names.
LEMMA PullKeeps == TransferInv /\ SendPullSeat => TransferInv'
<1>1. SUFFICES ASSUME TransferInv, SendPullSeat PROVE TransferInv'
  OBVIOUS
<1>2. /\ UNCHANGED <<db, disk, child, pc, material, exported, signers, fa, removals, named, enabled, mgVars>>
      /\ granted' = [granted EXCEPT ![fa.dst] = fa.src] /\ fa.phase # "none"
  BY <1>1 DEF SendPullSeat
<1>3. /\ fa \in [phase : GuardianTransferPhase, src : Seats, dst : Seats \cup {None}]
      /\ granted \in [Seats -> Seats \cup {None}] /\ exported \subseteq Seats
  BY <1>1 DEF TransferInv, TypeOK, SeatTransferGrants
<1>4. fa.dst \in Seats \ {Source, fa.src} /\ granted[fa.dst] \in {None, fa.src}
  BY <1>1, <1>2 DEF TransferInv, MoveInv
<1>5. granted' \in [Seats -> Seats \cup {None}] /\ granted'[fa.dst] = fa.src
      /\ \A t \in Seats : t # fa.dst => granted'[t] = granted[t]
  BY <1>2, <1>3, <1>4
<1>6. TypeOK'
  BY <1>1, <1>2, <1>5 DEF TransferInv, TypeOK, SeatTransferGrants, mgVars
<1>7. \A t \in Seats : granted'[t] = granted[t] \/ ~Has(t)
  <2>1. HandedOver(fa.dst)
    BY <1>1, <1>4 DEF TransferInv, SeatInv
  <2>2. granted[fa.dst] = None => ~Has(fa.dst)
    BY <1>3, <1>4, <2>1, TransferAssumption DEF HandedOver
  <2> QED BY <1>4, <1>5, <2>2
<1>8. MoveInv'
  <2>1. \A t \in Seats : Custody(t)' => Custody(t) \/ t = fa.dst
    BY <1>5 DEF Custody
  <2>2. Custody(fa.src)'
    BY <1>1, <1>2, <1>3, <1>4, <1>5 DEF TransferInv, MoveInv, Custody
  <2>3. granted'[Source] = None
    BY <1>1, <1>4, <1>5, TransferAssumption DEF TransferInv, MoveInv
  <2> QED BY <1>1, <1>2, <1>4, <1>5, <2>1, <2>2, <2>3 DEF TransferInv, MoveInv
<1>9. RemovalInv'
  BY <1>1, <1>2 DEF TransferInv, RemovalInv, mgVars
<1> QED BY <1>1, <1>2, <1>6, <1>7, <1>8, <1>9, FaOnly

\* The move goes on only with a destination that runs, and is only recorded
\* as bound once the directory names the destination.
LEMMA BindingKeeps ==
  TransferInv /\ (SeePulled \/ PublishMovedBinding \/ RecordRebind \/ SetPolicy) => TransferInv'
<1>1. SUFFICES ASSUME TransferInv, SeePulled \/ PublishMovedBinding \/ RecordRebind \/ SetPolicy
               PROVE  TransferInv'
  OBVIOUS
<1>2. UNCHANGED <<db, disk, child, pc, material, exported, signers, granted, removals, mgVars>>
  BY <1>1 DEF SeePulled, PublishMovedBinding, RecordRebind, Rebind, SetPolicy
<1>3. fa \in [phase : GuardianTransferPhase, src : Seats, dst : Seats \cup {None}] /\ named \in Seats
  BY <1>1 DEF TransferInv, TypeOK
<1>4. CASE SeePulled
  <2>1. fa' = [fa EXCEPT !.phase = "binding"] /\ fa.phase = "pulling" /\ Status(fa.dst) = "Running"
        /\ UNCHANGED <<named, enabled>>
    BY <1>4 DEF SeePulled
  <2>2. /\ fa' \in [phase : GuardianTransferPhase, src : Seats, dst : Seats \cup {None}]
        /\ fa'.phase = "binding" /\ fa'.src = fa.src /\ fa'.dst = fa.dst
    BY <1>3, <2>1 DEF GuardianTransferPhase
  <2>3. granted[fa.dst] = fa.src
    BY <1>1, <2>1, RunningDestination
  <2>4. TypeOK'
    BY <1>1, <1>2, <2>1, <2>2 DEF TransferInv, TypeOK, mgVars
  <2>5. MoveInv'
    BY <1>1, <1>2, <2>1, <2>2, <2>3 DEF TransferInv, MoveInv, Custody
  <2>6. RemovalInv'
    BY <1>1, <1>2, <2>1, <2>2 DEF TransferInv, RemovalInv, mgVars
  <2> QED BY <1>1, <1>2, <2>4, <2>5, <2>6, FaOnly
<1>5. CASE PublishMovedBinding
  <2>1. fa.phase = "binding" /\ named' = fa.dst /\ UNCHANGED <<fa, enabled>>
    BY <1>5 DEF PublishMovedBinding
  <2>2. fa.dst \in Seats
    BY <1>1, <2>1 DEF TransferInv, MoveInv
  <2>3. TypeOK'
    BY <1>1, <1>2, <2>1, <2>2 DEF TransferInv, TypeOK, mgVars
  <2>4. MoveInv'
    BY <1>1, <1>2, <2>1 DEF TransferInv, MoveInv, Custody
  <2>5. RemovalInv'
    BY <1>1, <1>2, <2>1 DEF TransferInv, RemovalInv, mgVars
  <2> QED BY <1>1, <1>2, <2>3, <2>4, <2>5, FaOnly
<1>6. CASE RecordRebind
  <2>1. fa' = [fa EXCEPT !.phase = "removing"] /\ fa.phase = "binding" /\ named = fa.dst
        /\ UNCHANGED <<named, enabled>>
    BY <1>6 DEF RecordRebind, Rebind
  <2>2. /\ fa' \in [phase : GuardianTransferPhase, src : Seats, dst : Seats \cup {None}]
        /\ fa'.phase = "removing" /\ fa'.src = fa.src /\ fa'.dst = fa.dst
    BY <1>3, <2>1 DEF GuardianTransferPhase
  <2>3. TypeOK'
    BY <1>1, <1>2, <2>1, <2>2 DEF TransferInv, TypeOK, mgVars
  <2>4. MoveInv'
    BY <1>1, <1>2, <2>1, <2>2 DEF TransferInv, MoveInv, Custody
  <2>5. RemovalInv'
    BY <1>1, <1>2, <2>1, <2>2 DEF TransferInv, RemovalInv, mgVars
  <2> QED BY <1>1, <1>2, <2>3, <2>4, <2>5, FaOnly
<1>7. CASE SetPolicy
  <2>1. UNCHANGED <<fa, named>> /\ enabled' = ~enabled
    BY <1>7 DEF SetPolicy
  <2>2. enabled' \in BOOLEAN
    BY <2>1, Zenon
  <2>3. TypeOK'
    BY <1>1, <1>2, <2>1, <2>2 DEF TransferInv, TypeOK, mgVars
  <2>4. MoveInv'
    BY <1>1, <1>2, <2>1 DEF TransferInv, MoveInv, Custody
  <2>5. RemovalInv'
    BY <1>1, <1>2, <2>1 DEF TransferInv, RemovalInv, mgVars
  <2> QED BY <1>1, <1>2, <2>3, <2>4, <2>5, FaOnly
<1> QED BY <1>1, <1>4, <1>5, <1>6, <1>7

\* RemoveSeat goes to a source that handed the guardian over, while its
\* destination has the files; the move closes on a seat nothing was asked of.
LEMMA RemovingKeeps == TransferInv /\ (SendRemoveSeat \/ CompleteTransfer) => TransferInv'
<1>1. SUFFICES ASSUME TransferInv, SendRemoveSeat \/ CompleteTransfer PROVE TransferInv'
  OBVIOUS
<1>2. UNCHANGED <<db, disk, child, pc, material, exported, signers, granted, named, enabled, mgVars>>
      /\ fa.phase = "removing"
  BY <1>1 DEF SendRemoveSeat, SendRemove, CompleteTransfer, Complete
<1>3. fa \in [phase : GuardianTransferPhase, src : Seats, dst : Seats \cup {None}] /\ removals \subseteq Seats
  BY <1>1 DEF TransferInv, TypeOK
<1>4. /\ fa.dst \in Seats \ {Source, fa.src} /\ granted[fa.dst] = fa.src
      /\ fa.dst \notin removals /\ named = fa.dst
  BY <1>1, <1>2 DEF TransferInv, MoveInv, RemovalInv
<1>5. CASE SendRemoveSeat
  <2>1. removals' = removals \cup {fa.src} /\ fa' = fa /\ Status(fa.dst) = "Running"
    BY <1>5 DEF SendRemoveSeat, SendRemove
  <2>2. fa.src \in exported /\ fa.dst \in disk
    BY <1>1, <1>2, <2>1, RunningDestination
  <2>3. TypeOK'
    BY <1>1, <1>2, <1>3, <2>1 DEF TransferInv, TypeOK, mgVars
  <2>4. MoveInv'
    BY <1>1, <1>2, <2>1 DEF TransferInv, MoveInv, Custody
  <2>5. RemovalInv'
    BY <1>1, <1>2, <1>4, <2>1, <2>2 DEF TransferInv, RemovalInv, mgVars
  <2> QED BY <1>1, <1>2, <2>1, <2>3, <2>4, <2>5, FaOnly
<1>6. CASE CompleteTransfer
  <2>1. fa' = [NoTransfer EXCEPT !.src = fa.dst] /\ removals' = removals /\ fa.src \in removals
    BY <1>6 DEF CompleteTransfer, Complete
  <2>2. fa'.phase = "none" /\ fa'.src = fa.dst /\ fa'.dst = None
        /\ fa' \in [phase : GuardianTransferPhase, src : Seats, dst : Seats \cup {None}]
    BY <1>4, <2>1 DEF NoTransfer, GuardianTransferPhase
  <2>3. fa.src \in exported
    BY <1>1, <2>1 DEF TransferInv, RemovalInv
  <2>4. TypeOK'
    BY <1>1, <1>2, <2>1, <2>2 DEF TransferInv, TypeOK, mgVars
  <2>5. MoveInv'
    <3>1. granted'[fa.dst] # None
      BY <1>2, <1>3, <1>4, TransferAssumption
    <3> QED BY <1>1, <1>2, <2>2, <2>3, <3>1 DEF TransferInv, MoveInv, Custody
  <2>6. RemovalInv'
    BY <1>1, <1>2, <1>3, <1>4, <2>1, <2>2, TransferAssumption DEF TransferInv, RemovalInv, mgVars
  <2> QED BY <1>1, <1>2, <2>1, <2>4, <2>5, <2>6, FaOnly
<1> QED BY <1>1, <1>5, <1>6

----------------------------------------------------------------------------
(* The destination's and the source's steps.                               *)

\* A step that only writes the row of s, with what it must not weaken.
LEMMA RowStays ==
  ASSUME TypeOK, NEW s \in Seats, NEW row \in Rows, db' = [db EXCEPT ![s] = row]
  PROVE  db' \in [Seats -> Rows] /\ db'[s] = row /\ \A t \in Seats \ {s} : db'[t] = db[t]
BY DEF TypeOK

\* pull_seat writes a waiting row of a seat that has nothing yet.
LEMMA AdmitKeeps == \A d \in Seats : TransferInv /\ AdmitTransfer(d) => TransferInv'
<1>1. SUFFICES ASSUME NEW d \in Seats, TransferInv, AdmitTransfer(d) PROVE TransferInv'
  OBVIOUS
<1> DEFINE row == [db[d] EXCEPT !.in = "waiting"]
<1>2. TypeOK /\ SeatInv(d) /\ db[d] \in Rows
  BY <1>1, SeatTypes DEF TransferInv
<1>3. /\ db' = [db EXCEPT ![d] = row] /\ pc[d] = "idle" /\ ~db[d].formed
      /\ UNCHANGED <<disk, child, pc, material, exported, signers, faVars, mgVars>>
  BY <1>1 DEF AdmitTransfer
<1>4. /\ row \in Rows /\ row.in = "waiting" /\ row.out = db[d].out /\ row.formed = db[d].formed
      /\ row.confirmed = db[d].confirmed
  BY <1>2 DEF Rows
<1> HIDE DEF row
<1>5. db' \in [Seats -> Rows] /\ db'[d] = row /\ \A t \in Seats \ {d} : db'[t] = db[t]
  BY <1>2, <1>3, <1>4, RowStays
<1>6. TypeOK'
  BY <1>2, <1>3, <1>5 DEF TypeOK, faVars, mgVars
<1>7. Backed(d)' /\ Stopped(d)' /\ Busy(d)'
  BY <1>2, <1>3, <1>4, <1>5 DEF SeatInv, Backed, Stopped, Busy, faVars, mgVars
<1>8. HandedOver(d)' /\ Removed(d)'
  BY <1>2, <1>3, <1>4, <1>5 DEF SeatInv, HandedOver, Has, Removed, faVars, mgVars
<1>9. SeatInv(d)'
  BY <1>7, <1>8 DEF SeatInv
<1> QED BY <1>1, <1>3, <1>4, <1>5, <1>6, <1>9, OneSeatInPlace DEF faVars, mgVars

\* install_transfer places the files of a seat whose source answered.
LEMMA InstallKeeps == \A d \in Seats : TransferInv /\ InstallMaterial(d) => TransferInv'
<1>1. SUFFICES ASSUME NEW d \in Seats, TransferInv, InstallMaterial(d) PROVE TransferInv'
  OBVIOUS
<1>2. TypeOK /\ SeatInv(d)
  BY <1>1 DEF TransferInv
<1>3. /\ disk' = disk \cup {d} /\ pc' = [pc EXCEPT ![d] = "placed"]
      /\ d \in material /\ db[d].in = "waiting" /\ db[d].out = "none"
      /\ UNCHANGED <<db, child, material, exported, signers, faVars, mgVars>>
  BY <1>1 DEF InstallMaterial, Install, Pulls, Retired
<1>4. /\ pc' \in [Seats -> {"idle", "placed", "deleted", "decom"}]
      /\ pc'[d] = "placed" /\ \A t \in Seats \ {d} : pc'[t] = pc[t]
  BY <1>2, <1>3 DEF TypeOK
<1>5. TypeOK'
  BY <1>2, <1>3, <1>4 DEF TypeOK, faVars, mgVars
<1>6. Backed(d)' /\ Stopped(d)' /\ Busy(d)'
  BY <1>2, <1>3, <1>4 DEF SeatInv, Backed, Stopped, Busy, faVars, mgVars
<1>7. HandedOver(d)' /\ Removed(d)'
  BY <1>2, <1>3, <1>4 DEF SeatInv, HandedOver, Has, Removed, faVars, mgVars
<1>8. SeatInv(d)'
  BY <1>6, <1>7 DEF SeatInv
<1>9. ~gambled' => \E t \in disk' : t \notin removals
  BY <1>1, <1>3 DEF TransferInv, RemovalInv, mgVars
<1> QED BY <1>1, <1>3, <1>4, <1>5, <1>8, <1>9, OneSeat DEF faVars, mgVars

\* accept_transfer records the import of files that are in place.
LEMMA AcceptKeeps == \A d \in Seats : TransferInv /\ AcceptTransfer(d) => TransferInv'
<1>1. SUFFICES ASSUME NEW d \in Seats, TransferInv, AcceptTransfer(d) PROVE TransferInv'
  OBVIOUS
<1> DEFINE row == [db[d] EXCEPT !.in = "imported", !.formed = TRUE]
<1>2. TypeOK /\ SeatInv(d) /\ db[d] \in Rows
  BY <1>1, SeatTypes DEF TransferInv
<1>3. /\ db' = [db EXCEPT ![d] = row] /\ pc[d] = "placed"
      /\ pc' = [pc EXCEPT ![d] = "idle"] /\ material' = material \ {d}
      /\ UNCHANGED <<disk, exported, faVars, mgVars>>
  BY <1>1 DEF AcceptTransfer
<1>4. d \in disk /\ db[d].out = "none"
  BY <1>2, <1>3 DEF SeatInv, Busy
<1>5. /\ row \in Rows /\ row.in = "imported" /\ row.out = "none" /\ row.formed
      /\ row.confirmed = db[d].confirmed
  BY <1>2, <1>4 DEF Rows
<1> HIDE DEF row
<1>6. db' \in [Seats -> Rows] /\ db'[d] = row /\ \A t \in Seats \ {d} : db'[t] = db[t]
  BY <1>2, <1>3, <1>5, RowStays
<1>7. /\ pc' \in [Seats -> {"idle", "placed", "deleted", "decom"}]
      /\ pc'[d] = "idle" /\ \A t \in Seats \ {d} : pc'[t] = pc[t]
  BY <1>2, <1>3 DEF TypeOK
<1>8. /\ child' \in [Seats -> Running \cup {"none", "boundary", "crashed"}] /\ signers' \subseteq Seats
      /\ \A t \in Seats \ {d} : child'[t] = child[t] /\ (t \in signers' => t \in signers)
      /\ child'[d] = "boundary" => d \notin signers'
  BY <1>1, <1>2 DEF AcceptTransfer, TypeOK, Running, SeatInv, Stopped
<1>9. TypeOK'
  BY <1>2, <1>3, <1>6, <1>7, <1>8 DEF TypeOK, faVars, mgVars
<1>10. Backed(d)' /\ Stopped(d)' /\ Busy(d)'
  BY <1>2, <1>3, <1>4, <1>5, <1>6, <1>7, <1>8 DEF SeatInv, Backed, Stopped, Busy, faVars, mgVars
<1>11. HandedOver(d)' /\ Removed(d)'
  BY <1>2, <1>3, <1>5, <1>6 DEF SeatInv, HandedOver, Has, Removed, faVars, mgVars
<1>12. SeatInv(d)'
  BY <1>10, <1>11 DEF SeatInv
<1> QED BY <1>1, <1>3, <1>4, <1>6, <1>7, <1>8, <1>9, <1>12, OneSeatInPlace DEF faVars, mgVars

\* Processes and answers that come and go: no row, document or directory
\* changes, and a seat that is started has no fence.
LEMMA ProcessesKeep ==
  ASSUME TransferInv, NEW s \in Seats,
         UNCHANGED <<db, disk, exported, faVars, relay, restores, gambled>>,
         child' \in [Seats -> Running \cup {"none", "boundary", "crashed"}],
         pc' \in [Seats -> {"idle", "placed", "deleted", "decom"}],
         publishing' \in [Seats -> Docs \cup {None}],
         material' \subseteq material, signers' \subseteq Seats,
         \A t \in Seats \ {s} : /\ child'[t] = child[t] /\ pc'[t] = pc[t] /\ publishing'[t] = publishing[t]
                                /\ t \in signers' => t \in signers,
         child'[s] # "none" => db[s].out = "none" /\ (db[s].formed \/ child[s] # "none"),
         s \in signers' => s \in signers \/ (db[s].out = "none" /\ db[s].formed),
         child'[s] = "boundary" => s \notin signers',
         pc'[s] = pc[s] \/ pc'[s] = "idle", publishing'[s] \in {None, publishing[s]}
  PROVE  TransferInv'
<1>1. TypeOK /\ SeatInv(s)
  BY DEF TransferInv
<1>2. TypeOK'
  BY <1>1 DEF TypeOK, faVars
<1>3. Backed(s)' /\ Busy(s)'
  BY <1>1 DEF SeatInv, Backed, Busy, faVars
<1>4. Stopped(s)'
  BY <1>1 DEF SeatInv, Stopped
<1>5. HandedOver(s)' /\ Removed(s)'
  BY <1>1 DEF SeatInv, HandedOver, Has, Removed, faVars
<1>6. SeatInv(s)'
  BY <1>3, <1>4, <1>5 DEF SeatInv
<1> QED BY <1>2, <1>6, OneSeatInPlace DEF faVars

\* So do the steps that only start, stop or cut off a process.
LEMMA ProcessSteps ==
  \A s \in Seats :
    TransferInv /\ (AskSessionEnd(s) \/ LoseAnswer(s) \/ ObserveExit(s) \/ SpawnGuardian(s) \/ ChildCrashes(s)
                    \/ DaemonDies(s) \/ DecommissionStop(s)) => TransferInv'
<1>1. SUFFICES ASSUME NEW s \in Seats, TransferInv,
                      AskSessionEnd(s) \/ LoseAnswer(s) \/ ObserveExit(s) \/ SpawnGuardian(s) \/ ChildCrashes(s)
                      \/ DaemonDies(s) \/ DecommissionStop(s)
               PROVE  TransferInv'
  OBVIOUS
<1>2. TypeOK /\ SeatInv(s)
  BY <1>1 DEF TransferInv
<1>3. /\ child \in [Seats -> Running \cup {"none", "boundary", "crashed"}]
      /\ pc \in [Seats -> {"idle", "placed", "deleted", "decom"}]
      /\ publishing \in [Seats -> Docs \cup {None}] /\ signers \subseteq Seats
      /\ granted \in [Seats -> Seats \cup {None}]
  BY <1>2 DEF TypeOK, SeatTransferGrants
<1>4. child[s] = "boundary" => s \notin signers
  BY <1>2 DEF SeatInv, Stopped
<1>5. UNCHANGED <<db, disk, exported, faVars, relay, restores, gambled>>
  BY <1>1 DEF AskSessionEnd, LoseAnswer, ObserveExit, SpawnGuardian, ChildCrashes, DaemonDies, DecommissionStop,
              mgVars
<1>6. CASE AskSessionEnd(s)
  <2> DEFINE g == granted[s]
  <2>1. /\ g \in Seats /\ db[g].out = "none" /\ child[g] = "up" /\ db[g].formed
        /\ child' = [child EXCEPT ![g] = "leaving"]
        /\ UNCHANGED <<pc, material, signers, publishing>>
    BY <1>1, <1>3, <1>6 DEF AskSessionEnd, SourceAnswers, Answers, mgVars
  <2> HIDE DEF g
  <2>2. child' \in [Seats -> Running \cup {"none", "boundary", "crashed"}]
        /\ child'[g] = "leaving" /\ \A t \in Seats \ {g} : child'[t] = child[t]
    BY <1>3, <2>1 DEF Running
  <2> QED BY <1>1, <1>3, <1>5, <2>1, <2>2, ProcessesKeep
<1>7. CASE LoseAnswer(s)
  <2>1. material' = material \ {s} /\ UNCHANGED <<child, pc, signers, publishing>>
    BY <1>7 DEF LoseAnswer, mgVars
  <2>2. child[s] # "none" => db[s].out = "none"
    BY <1>2 DEF SeatInv, Stopped
  <2> QED BY <1>1, <1>3, <1>4, <1>5, <2>1, <2>2, ProcessesKeep
<1>8. CASE ObserveExit(s)
  <2>1. child' = [child EXCEPT ![s] = "none"] /\ UNCHANGED <<pc, material, signers, publishing>>
    BY <1>8 DEF ObserveExit, mgVars
  <2>2. child' \in [Seats -> Running \cup {"none", "boundary", "crashed"}]
        /\ child'[s] = "none" /\ \A t \in Seats \ {s} : child'[t] = child[t]
    BY <1>1, <1>3, <2>1
  <2> QED BY <1>1, <1>3, <1>5, <2>1, <2>2, ProcessesKeep
<1>9. CASE SpawnGuardian(s)
  <2>1. /\ child' = [child EXCEPT ![s] = "up"] /\ signers' = signers \cup {s} /\ db[s].formed /\ db[s].out = "none"
        /\ UNCHANGED <<pc, material, publishing>>
    BY <1>9 DEF SpawnGuardian, MayRun, Retired, mgVars
  <2>2. child' \in [Seats -> Running \cup {"none", "boundary", "crashed"}]
        /\ child'[s] = "up" /\ \A t \in Seats \ {s} : child'[t] = child[t]
    BY <1>1, <1>3, <2>1 DEF Running
  <2> QED BY <1>1, <1>3, <1>5, <2>1, <2>2, ProcessesKeep
<1>10. CASE ChildCrashes(s)
  <2>1. child' = [child EXCEPT ![s] = "crashed"] /\ child[s] # "none" /\ UNCHANGED <<pc, material, signers, publishing>>
    BY <1>10 DEF ChildCrashes, Running, mgVars
  <2>2. child' \in [Seats -> Running \cup {"none", "boundary", "crashed"}]
        /\ child'[s] = "crashed" /\ \A t \in Seats \ {s} : child'[t] = child[t]
    BY <1>1, <1>3, <2>1
  <2>3. db[s].out = "none"
    BY <1>2, <2>1 DEF SeatInv, Stopped
  <2> QED BY <1>1, <1>3, <1>5, <2>1, <2>2, <2>3, ProcessesKeep
<1>11. CASE DaemonDies(s)
  <2>1. /\ child' = [child EXCEPT ![s] = "none"] /\ pc' = [pc EXCEPT ![s] = "idle"]
        /\ material' = material \ {s} /\ publishing' = [publishing EXCEPT ![s] = None] /\ UNCHANGED signers
    BY <1>11 DEF DaemonDies
  <2>2. /\ child' \in [Seats -> Running \cup {"none", "boundary", "crashed"}]
        /\ child'[s] = "none" /\ \A t \in Seats \ {s} : child'[t] = child[t]
    BY <1>1, <1>3, <2>1
  <2>3. /\ pc' \in [Seats -> {"idle", "placed", "deleted", "decom"}]
        /\ pc'[s] = "idle" /\ \A t \in Seats \ {s} : pc'[t] = pc[t]
    BY <1>1, <1>3, <2>1
  <2>4. /\ publishing' \in [Seats -> Docs \cup {None}]
        /\ publishing'[s] = None /\ \A t \in Seats \ {s} : publishing'[t] = publishing[t]
    BY <1>1, <1>3, <2>1
  <2> QED BY <1>1, <1>3, <1>5, <2>1, <2>2, <2>3, <2>4, ProcessesKeep
<1>12. CASE DecommissionStop(s)
  <2>1. /\ child' = [child EXCEPT ![s] = "none"] /\ pc' = [pc EXCEPT ![s] = "idle"]
        /\ UNCHANGED <<material, signers, publishing>>
    BY <1>12 DEF DecommissionStop, mgVars
  <2>2. /\ child' \in [Seats -> Running \cup {"none", "boundary", "crashed"}]
        /\ child'[s] = "none" /\ \A t \in Seats \ {s} : child'[t] = child[t]
    BY <1>1, <1>3, <2>1
  <2>3. /\ pc' \in [Seats -> {"idle", "placed", "deleted", "decom"}]
        /\ pc'[s] = "idle" /\ \A t \in Seats \ {s} : pc'[t] = pc[t]
    BY <1>1, <1>3, <2>1
  <2> QED BY <1>1, <1>3, <1>5, <2>1, <2>2, <2>3, ProcessesKeep
<1> QED BY <1>1, <1>6, <1>7, <1>8, <1>9, <1>10, <1>11, <1>12

\* transfer_out answers with the guardian only behind a fence the relay has.
LEMMA ExportKeeps == \A d \in Seats : TransferInv /\ ExportGuardian(d) => TransferInv'
<1>1. SUFFICES ASSUME NEW d \in Seats, TransferInv, ExportGuardian(d) PROVE TransferInv'
  OBVIOUS
<1> DEFINE g == granted[d]
<1>2. TypeOK /\ granted \in [Seats -> Seats \cup {None}]
  BY <1>1 DEF TransferInv, TypeOK, SeatTransferGrants
<1>3. /\ g \in Seats /\ db[g].confirmed # None /\ db[g].confirmed.out = "stopped"
      /\ material' = material \cup {d} /\ exported' = exported \cup {g}
      /\ UNCHANGED <<db, disk, child, pc, signers, faVars, mgVars>>
  BY <1>1, <1>2 DEF ExportGuardian, HandOver, SourceAnswers, Answers
<1>4. SeatInv(g)
  BY <1>1, <1>3 DEF TransferInv
<1>5. relay[g].out # "none"
  BY <1>3, <1>4 DEF SeatInv, Backed
<1>6. TypeOK'
  BY <1>1, <1>2, <1>3 DEF TypeOK, faVars, mgVars
<1>7. \A t \in Seats : SeatInv(t)'
  <2>1. SUFFICES ASSUME NEW t \in Seats PROVE SeatInv(t)'
    OBVIOUS
  <2>2. SeatInv(t)
    BY <1>1 DEF TransferInv
  <2>3. t \in exported' => t \in exported \/ t = g
    BY <1>3
  <2>4. Backed(t)'
    BY <1>3, <1>5, <2>2, <2>3 DEF SeatInv, Backed, mgVars
  <2>5. Stopped(t)' /\ Busy(t)' /\ Removed(t)'
    BY <1>3, <2>2 DEF SeatInv, Stopped, Busy, Removed, faVars, mgVars
  <2>6. HandedOver(t)'
    <3>1. Has(t)' => Has(t) \/ t = d
      BY <1>3 DEF Has, mgVars
    <3>2. granted'[d] \in exported' /\ granted'[t] = granted[t] /\ exported \subseteq exported'
      BY <1>3 DEF faVars
    <3> QED BY <2>2, <3>1, <3>2 DEF SeatInv, HandedOver
  <2> QED BY <2>4, <2>5, <2>6 DEF SeatInv
<1>8. AcceptedHasFiles'
  BY <1>1, <1>3 DEF TransferInv, AcceptedHasFiles, faVars
<1>9. exported \subseteq exported'
  BY <1>3
<1>10. MoveInv'
  BY <1>1, <1>3, <1>9 DEF TransferInv, MoveInv, Custody, faVars
<1>11. RemovalInv'
  BY <1>1, <1>3, <1>9 DEF TransferInv, RemovalInv, faVars, mgVars
<1> QED BY <1>6, <1>7, <1>8, <1>10, <1>11 DEF TransferInv

\* Only a stop between two sessions writes the fence.
LEMMA BoundaryKeeps == \A s \in Seats : TransferInv /\ CommitBoundaryExit(s) => TransferInv'
<1>1. SUFFICES ASSUME NEW s \in Seats, TransferInv, CommitBoundaryExit(s) PROVE TransferInv'
  OBVIOUS
<1> DEFINE row == IF MayRetire(db[s]) /\ db[s].out = "none" THEN [db[s] EXCEPT !.out = "stopped"] ELSE db[s]
<1>2. TypeOK /\ SeatInv(s) /\ db[s] \in Rows
  BY <1>1, SeatTypes DEF TransferInv
<1>3. /\ pc[s] = "idle" /\ child[s] = "boundary" /\ child' = [child EXCEPT ![s] = "none"]
      /\ UNCHANGED <<disk, pc, material, exported, signers, faVars, mgVars>>
  BY <1>1 DEF CommitBoundaryExit, CommitExit
<1>4. db' = [db EXCEPT ![s] = row]
  BY <1>1, <1>2 DEF CommitBoundaryExit, CommitExit, TypeOK
<1>5. /\ row \in Rows /\ row.in = db[s].in /\ row.formed = db[s].formed /\ row.confirmed = db[s].confirmed
      /\ row.out = db[s].out \/ (row.out = "stopped" /\ db[s].formed)
  <2>1. CASE MayRetire(db[s]) /\ db[s].out = "none"
    BY <1>2, <2>1 DEF Rows, Fences, MayRetire
  <2>2. CASE ~(MayRetire(db[s]) /\ db[s].out = "none")
    BY <1>2, <2>2
  <2> QED BY <2>1, <2>2
<1> HIDE DEF row
<1>6. db' \in [Seats -> Rows] /\ db'[s] = row /\ \A t \in Seats \ {s} : db'[t] = db[t]
  BY <1>2, <1>4, <1>5, RowStays
<1>7. /\ child' \in [Seats -> Running \cup {"none", "boundary", "crashed"}]
      /\ child'[s] = "none" /\ \A t \in Seats \ {s} : child'[t] = child[t]
  BY <1>2, <1>3 DEF TypeOK
<1>8. TypeOK'
  BY <1>2, <1>3, <1>6, <1>7 DEF TypeOK, faVars, mgVars
<1>9. s \notin signers
  BY <1>2, <1>3 DEF SeatInv, Stopped
<1>10. Backed(s)' /\ Stopped(s)' /\ Busy(s)'
  BY <1>2, <1>3, <1>5, <1>6, <1>7, <1>9 DEF SeatInv, Backed, Stopped, Busy, faVars, mgVars
<1>11. HandedOver(s)' /\ Removed(s)'
  BY <1>2, <1>3, <1>5, <1>6, <1>7 DEF SeatInv, HandedOver, Has, Removed, faVars, mgVars
<1>12. SeatInv(s)'
  BY <1>10, <1>11 DEF SeatInv
<1> QED BY <1>1, <1>3, <1>5, <1>6, <1>7, <1>8, <1>12, OneSeatInPlace DEF faVars, mgVars

\* remove_transferred deletes only what the FA asked for.
LEMMA DeleteKeeps == \A s \in Seats : TransferInv /\ DeleteMaterial(s) => TransferInv'
<1>1. SUFFICES ASSUME NEW s \in Seats, TransferInv, DeleteMaterial(s) PROVE TransferInv'
  OBVIOUS
<1>2. TypeOK /\ SeatInv(s)
  BY <1>1 DEF TransferInv
<1>3. /\ disk' = disk \ {s} /\ pc' = [pc EXCEPT ![s] = "deleted"]
      /\ s \in removals /\ db[s].out = "stopped"
      /\ UNCHANGED <<db, child, material, exported, signers, faVars, mgVars>>
  BY <1>1 DEF DeleteMaterial, Delete
<1>4. /\ pc' \in [Seats -> {"idle", "placed", "deleted", "decom"}]
      /\ pc'[s] = "deleted" /\ \A t \in Seats \ {s} : pc'[t] = pc[t]
  BY <1>2, <1>3 DEF TypeOK
<1>5. TypeOK'
  BY <1>2, <1>3, <1>4 DEF TypeOK, faVars, mgVars
<1>6. Backed(s)' /\ Stopped(s)' /\ Busy(s)'
  BY <1>2, <1>3, <1>4 DEF SeatInv, Backed, Stopped, Busy, faVars, mgVars
<1>7. HandedOver(s)' /\ Removed(s)'
  BY <1>2, <1>3, <1>4 DEF SeatInv, HandedOver, Has, Removed, faVars, mgVars
<1>8. SeatInv(s)'
  BY <1>6, <1>7 DEF SeatInv
<1>9. ~gambled' => \E t \in disk' : t \notin removals
  BY <1>1, <1>3 DEF TransferInv, RemovalInv, mgVars
<1> QED BY <1>1, <1>3, <1>4, <1>5, <1>8, <1>9, OneSeat DEF faVars, mgVars

\* record_transfer_removal and decommission write rows that keep their fence.
LEMMA RetiredKeeps == \A s \in Seats : TransferInv /\ (RecordRemoval(s) \/ Decommission(s)) => TransferInv'
<1>1. SUFFICES ASSUME NEW s \in Seats, TransferInv, RecordRemoval(s) \/ Decommission(s) PROVE TransferInv'
  OBVIOUS
<1> DEFINE row == IF RecordRemoval(s) THEN [db[s] EXCEPT !.out = "removed", !.in = "none"]
                  ELSE [db[s] EXCEPT !.decom = TRUE]
<1>2. TypeOK /\ SeatInv(s) /\ db[s] \in Rows
  BY <1>1, SeatTypes DEF TransferInv
<1>3. UNCHANGED <<disk, child, material, exported, signers, faVars, mgVars>>
  BY <1>1 DEF RecordRemoval, Decommission
<1>4. db' = [db EXCEPT ![s] = row]
  BY <1>1, <1>2 DEF RecordRemoval, Decommission, TypeOK
<1>5. PICK new \in {"idle", "decom"} : pc' = [pc EXCEPT ![s] = new]
  BY <1>1 DEF RecordRemoval, Decommission
<1>6. RecordRemoval(s) => s \in removals /\ db[s].out # "none"
  BY <1>2 DEF RecordRemoval, SeatInv, Busy
<1>7. /\ row \in Rows /\ row.formed = db[s].formed /\ row.confirmed = db[s].confirmed
      /\ row.in \in {"none", db[s].in}
      /\ row.out = db[s].out \/ (row.out = "removed" /\ s \in removals /\ db[s].out # "none")
  <2>1. CASE RecordRemoval(s)
    BY <1>2, <1>6, <2>1 DEF Rows, Fences
  <2>2. CASE ~RecordRemoval(s)
    BY <1>2, <2>2 DEF Rows
  <2> QED BY <2>1, <2>2
<1> HIDE DEF row
<1>8. db' \in [Seats -> Rows] /\ db'[s] = row /\ \A t \in Seats \ {s} : db'[t] = db[t]
  BY <1>2, <1>4, <1>7, RowStays
<1>9. /\ pc' \in [Seats -> {"idle", "placed", "deleted", "decom"}]
      /\ pc'[s] \in {"idle", "decom"} /\ \A t \in Seats \ {s} : pc'[t] = pc[t]
  BY <1>2, <1>5 DEF TypeOK
<1>10. TypeOK'
  BY <1>2, <1>3, <1>8, <1>9 DEF TypeOK, faVars, mgVars
<1>11. Backed(s)' /\ Stopped(s)' /\ Busy(s)'
  BY <1>2, <1>3, <1>7, <1>8, <1>9 DEF SeatInv, Backed, Stopped, Busy, faVars, mgVars
<1>12. HandedOver(s)' /\ Removed(s)'
  BY <1>2, <1>3, <1>7, <1>8, <1>9 DEF SeatInv, HandedOver, Has, Removed, faVars, mgVars
<1>13. SeatInv(s)'
  BY <1>11, <1>12 DEF SeatInv
<1>14. db'[s].in = "imported" => db[s].in = "imported"
  BY <1>7, <1>8
<1> QED BY <1>1, <1>3, <1>8, <1>9, <1>10, <1>13, <1>14, OneSeatInPlace DEF faVars, mgVars

----------------------------------------------------------------------------
(* The backup worker, the restore, and the federation's sessions.          *)

\* A document says of a fence what the row says.
LEMMA DocumentOf ==
  ASSUME NEW row \in Rows
  PROVE  /\ Document(row) \in Docs /\ Document(row).out = row.out
         /\ Document(row).guardian => row.formed
         /\ ((row.in = "imported" => row.formed) /\ Document(row).imported) => Document(row).guardian
BY DEF Document, Rows, Docs

\* What is published is what the rows say now.
LEMMA PublishKeeps == \A s \in Seats : TransferInv /\ PublishBackup(s) => TransferInv'
<1>1. SUFFICES ASSUME NEW s \in Seats, TransferInv, PublishBackup(s) PROVE TransferInv'
  OBVIOUS
<1> DEFINE doc == Document(db[s])
<1>2. TypeOK /\ SeatInv(s) /\ db[s] \in Rows
  BY <1>1, SeatTypes DEF TransferInv
<1>3. /\ relay' = [relay EXCEPT ![s] = doc] /\ publishing' = [publishing EXCEPT ![s] = doc]
      /\ UNCHANGED <<db, disk, child, pc, material, exported, signers, faVars, restores, gambled>>
  BY <1>1 DEF PublishBackup
<1>4. /\ doc \in Docs /\ doc.out = db[s].out /\ (doc.guardian => db[s].formed)
      /\ doc.imported => doc.guardian
  BY <1>2, DocumentOf DEF SeatInv, Busy
<1> HIDE DEF doc
<1>5. /\ relay' \in [Seats -> Docs] /\ publishing' \in [Seats -> Docs \cup {None}]
      /\ relay'[s] = doc /\ publishing'[s] = doc
      /\ \A t \in Seats \ {s} : relay'[t] = relay[t] /\ publishing'[t] = publishing[t]
  BY <1>2, <1>3, <1>4 DEF TypeOK
<1>6. TypeOK'
  BY <1>2, <1>3, <1>5 DEF TypeOK, faVars
<1>7. Backed(s)' /\ Stopped(s)' /\ Busy(s)'
  BY <1>2, <1>3, <1>4, <1>5 DEF SeatInv, Backed, Stopped, Busy, faVars
<1>8. HandedOver(s)' /\ Removed(s)'
  BY <1>2, <1>3, <1>4, <1>5 DEF SeatInv, HandedOver, Has, Removed, faVars
<1>9. SeatInv(s)'
  BY <1>7, <1>8 DEF SeatInv
<1> QED BY <1>1, <1>3, <1>5, <1>6, <1>9, OneSeatInPlace DEF faVars

\* What is recorded as confirmed was published.
LEMMA RecordKeeps == \A s \in Seats : TransferInv /\ RecordBackup(s) => TransferInv'
<1>1. SUFFICES ASSUME NEW s \in Seats, TransferInv, RecordBackup(s) PROVE TransferInv'
  OBVIOUS
<1> DEFINE row == IF Document(db[s]) = publishing[s] THEN [db[s] EXCEPT !.confirmed = publishing[s]] ELSE db[s]
<1>2. TypeOK /\ SeatInv(s) /\ db[s] \in Rows /\ publishing[s] \in Docs \cup {None}
  BY <1>1, SeatTypes DEF TransferInv
<1>3. /\ publishing[s] # None /\ publishing' = [publishing EXCEPT ![s] = None]
      /\ UNCHANGED <<disk, child, pc, material, exported, signers, faVars, relay, restores, gambled>>
  BY <1>1 DEF RecordBackup, Record
<1>4. db' = [db EXCEPT ![s] = row]
  BY <1>1, <1>2 DEF RecordBackup, Record, TypeOK
<1>5. /\ row \in Rows /\ row.in = db[s].in /\ row.out = db[s].out /\ row.formed = db[s].formed
      /\ row.confirmed \in {db[s].confirmed, publishing[s]}
  <2>1. CASE Document(db[s]) = publishing[s]
    BY <1>2, <2>1 DEF Rows
  <2>2. CASE Document(db[s]) # publishing[s]
    BY <1>2, <2>2
  <2> QED BY <2>1, <2>2
<1> HIDE DEF row
<1>6. db' \in [Seats -> Rows] /\ db'[s] = row /\ \A t \in Seats \ {s} : db'[t] = db[t]
  BY <1>2, <1>4, <1>5, RowStays
<1>7. /\ publishing' \in [Seats -> Docs \cup {None}]
      /\ publishing'[s] = None /\ \A t \in Seats \ {s} : publishing'[t] = publishing[t]
  BY <1>2, <1>3 DEF TypeOK
<1>8. TypeOK'
  BY <1>2, <1>3, <1>6, <1>7 DEF TypeOK, faVars
<1>9. Backed(s)'
  BY <1>2, <1>3, <1>5, <1>6, <1>7 DEF SeatInv, Backed
<1>10. Stopped(s)' /\ Busy(s)'
  BY <1>2, <1>3, <1>5, <1>6 DEF SeatInv, Stopped, Busy, faVars
<1>11. HandedOver(s)' /\ Removed(s)'
  BY <1>2, <1>3, <1>5, <1>6 DEF SeatInv, HandedOver, Has, Removed, faVars
<1>12. SeatInv(s)'
  BY <1>9, <1>10, <1>11 DEF SeatInv
<1> QED BY <1>1, <1>3, <1>5, <1>6, <1>7, <1>8, <1>12, OneSeatInPlace DEF faVars

\* A restored host has the fence the relay serves, and files if it accepted.
LEMMA RestoreKeeps == \A s \in Seats : TransferInv /\ Restore(s) => TransferInv'
<1>1. SUFFICES ASSUME NEW s \in Seats, TransferInv, Restore(s) PROVE TransferInv'
  OBVIOUS
<1> DEFINE row == RestoredRow(relay[s])
<1>2. TypeOK /\ SeatInv(s) /\ relay[s] \in Docs
  BY <1>1, SeatTypes DEF TransferInv
<1>3. /\ db' = [db EXCEPT ![s] = row] /\ child' = [child EXCEPT ![s] = "none"] /\ pc' = [pc EXCEPT ![s] = "idle"]
      /\ material' = material \ {s} /\ publishing' = [publishing EXCEPT ![s] = None]
      /\ restores < MaxRestores /\ restores' = restores + 1
      /\ UNCHANGED <<relay, exported, signers, faVars>>
  BY <1>1 DEF Restore
<1>4. disk' = IF relay[s].guardian THEN disk \cup {s} ELSE disk \ {s}
  BY <1>1 DEF Restore
<1>5. /\ row \in Rows /\ row.out = relay[s].out /\ row.confirmed = None
      /\ row.formed <=> relay[s].guardian \/ relay[s].out # "none"
      /\ row.in \in {"none", "imported"}
      /\ row.in = "imported" => relay[s].imported
  BY <1>2 DEF RestoredRow, Rows, Docs
<1> HIDE DEF row
<1>6. db' \in [Seats -> Rows] /\ db'[s] = row /\ \A t \in Seats \ {s} : db'[t] = db[t]
  BY <1>2, <1>3, <1>5, RowStays
<1>7. /\ child' \in [Seats -> Running \cup {"none", "boundary", "crashed"}]
      /\ child'[s] = "none" /\ \A t \in Seats \ {s} : child'[t] = child[t]
  BY <1>2, <1>3 DEF TypeOK
<1>8. /\ pc' \in [Seats -> {"idle", "placed", "deleted", "decom"}]
      /\ pc'[s] = "idle" /\ \A t \in Seats \ {s} : pc'[t] = pc[t]
  BY <1>2, <1>3 DEF TypeOK
<1>9. /\ publishing' \in [Seats -> Docs \cup {None}]
      /\ publishing'[s] = None /\ \A t \in Seats \ {s} : publishing'[t] = publishing[t]
  BY <1>2, <1>3 DEF TypeOK
<1>10. gambled' \in BOOLEAN
       /\ (~gambled' => ~gambled /\ ~(s \in disk /\ ~relay[s].guardian /\ disk \ {s} \subseteq removals))
  BY <1>1, <1>2, Zenon DEF Restore, TypeOK
<1>11. restores' \in 0..MaxRestores
  BY <1>2, <1>3, TransferAssumption DEF TypeOK
<1>12. disk' \subseteq Seats
  BY <1>2, <1>4 DEF TypeOK
<1>13. TypeOK'
  BY <1>2, <1>3, <1>6, <1>7, <1>8, <1>9, <1>10, <1>11, <1>12 DEF TypeOK, faVars
<1>14. Backed(s)'
  BY <1>2, <1>3, <1>5, <1>6, <1>9 DEF SeatInv, Backed
<1>15. Stopped(s)'
  BY <1>2, <1>3, <1>5, <1>6, <1>7 DEF SeatInv, Backed, Stopped
<1>16. Busy(s)'
  BY <1>2, <1>3, <1>5, <1>6, <1>8 DEF SeatInv, Backed, Busy
<1>17. HandedOver(s)'
  BY <1>2, <1>3, <1>5, <1>6, <1>7, <1>8 DEF SeatInv, Backed, Stopped, HandedOver, Has, faVars
<1>18. Removed(s)'
  BY <1>2, <1>3, <1>5, <1>6 DEF SeatInv, Removed, faVars
<1>19. SeatInv(s)'
  BY <1>14, <1>15, <1>16, <1>17, <1>18 DEF SeatInv
<1>20. db'[s].in = "imported" => s \in disk'
  BY <1>2, <1>4, <1>5, <1>6 DEF SeatInv, Backed
<1>21. ~gambled' => \E t \in disk' : t \notin removals
  <2>1. SUFFICES ASSUME ~gambled' PROVE \E t \in disk' : t \notin removals
    OBVIOUS
  <2>2. ~gambled /\ ~(s \in disk /\ ~relay[s].guardian /\ disk \ {s} \subseteq removals)
    BY <1>10, <2>1
  <2>3. PICK t \in disk : t \notin removals
    BY <1>1, <2>2 DEF TransferInv, RemovalInv
  <2>4. CASE relay[s].guardian \/ s \notin disk
    BY <1>4, <2>3, <2>4
  <2>5. CASE ~relay[s].guardian /\ s \in disk
    BY <1>4, <2>2, <2>5
  <2> QED BY <2>4, <2>5
<1>22. \A t \in Seats \ {s} : t \in disk' <=> t \in disk
  BY <1>4
<1> QED BY <1>1, <1>3, <1>6, <1>7, <1>8, <1>9, <1>13, <1>19, <1>20, <1>21, <1>22, OneSeat DEF faVars

\* A session ends: whoever left it did not sign in the next.
LEMMA SessionKeeps == TransferInv /\ SessionEnds => TransferInv'
<1>1. SUFFICES ASSUME TransferInv, SessionEnds PROVE TransferInv'
  OBVIOUS
<1>2. TypeOK /\ \A t \in Seats : SeatInv(t)
  BY <1>1 DEF TransferInv
<1>3. /\ UNCHANGED <<db, disk, pc, material, exported, faVars, mgVars>>
      /\ child' = [s \in Seats |-> IF child[s] = "leaving" THEN "boundary" ELSE child[s]]
      /\ signers' = {s \in Seats : child[s] = "up"}
  BY <1>1 DEF SessionEnds
<1>4. child' \in [Seats -> Running \cup {"none", "boundary", "crashed"}]
  BY <1>2, <1>3 DEF TypeOK, Running
<1>5. TypeOK'
  BY <1>2, <1>3, <1>4 DEF TypeOK, faVars, mgVars
<1>6. ASSUME NEW t \in Seats PROVE SeatInv(t)'
  <2>1. /\ child'[t] = IF child[t] = "leaving" THEN "boundary" ELSE child[t]
        /\ t \in signers' <=> child[t] = "up"
    BY <1>3
  <2>2. SeatInv(t)
    BY <1>2
  <2>3. Backed(t)' /\ Busy(t)' /\ Removed(t)'
    BY <1>3, <2>2 DEF SeatInv, Backed, Busy, Removed, faVars, mgVars
  <2>4. Stopped(t)'
    BY <1>3, <2>1, <2>2 DEF SeatInv, Stopped
  <2>5. HandedOver(t)'
    BY <1>3, <2>1, <2>2 DEF SeatInv, HandedOver, Has, faVars, mgVars
  <2> QED BY <2>3, <2>4, <2>5 DEF SeatInv
<1>7. AcceptedHasFiles'
  BY <1>1, <1>3 DEF TransferInv, AcceptedHasFiles, faVars
<1>8. MoveInv'
  BY <1>1, <1>3 DEF TransferInv, MoveInv, Custody, faVars
<1>9. RemovalInv'
  BY <1>1, <1>3 DEF TransferInv, RemovalInv, faVars, mgVars
<1> QED BY <1>5, <1>6, <1>7, <1>8, <1>9 DEF TransferInv

\* Every step keeps the invariant.
LEMMA NextKeeps == TransferInv /\ [Next]_vars => TransferInv'
<1>1. SUFFICES ASSUME TransferInv, [Next]_vars PROVE TransferInv'
  OBVIOUS
<1>2. CASE UNCHANGED vars \/ FaultsEnd
  <2>1. UNCHANGED <<db, disk, child, pc, relay, publishing, material, exported, signers, fa, granted, removals,
                    named, enabled, restores, gambled>>
    BY <1>2 DEF vars, FaultsEnd, faVars
  <2>2. TypeOK'
    BY <1>1, <2>1 DEF TransferInv, TypeOK
  <2>3. \A t \in Seats : SeatInv(t)'
    <3>1. SUFFICES ASSUME NEW t \in Seats PROVE SeatInv(t)'
      OBVIOUS
    <3>2. SeatInv(t)
      BY <1>1 DEF TransferInv
    <3> QED BY <2>1, <3>2, SeatStands
  <2>4. AcceptedHasFiles' /\ MoveInv'
    BY <1>1, <2>1 DEF TransferInv, AcceptedHasFiles, MoveInv, Custody
  <2>5. RemovalInv'
    BY <1>1, <2>1 DEF TransferInv, RemovalInv
  <2> QED BY <2>2, <2>3, <2>4, <2>5 DEF TransferInv
<1>3. CASE FaNext
  BY <1>1, <1>3, StartKeeps, PullKeeps, BindingKeeps, RemovingKeeps DEF FaNext
<1>4. CASE \E s \in Seats : SeatNext(s)
  BY <1>1, <1>4, AdmitKeeps, InstallKeeps, AcceptKeeps, ProcessSteps, ExportKeeps, BoundaryKeeps, DeleteKeeps,
     RetiredKeeps, PublishKeeps, RecordKeeps, RestoreKeeps DEF SeatNext
<1>5. CASE SessionEnds
  BY <1>1, <1>5, SessionKeeps
<1> QED BY <1>1, <1>2, <1>3, <1>4, <1>5 DEF Next

----------------------------------------------------------------------------
\* The seats that run the guardian or signed with it are the two of the open
\* move, and the destination has it only after the source handed it over.
LEMMA ActsOnce ==
  ASSUME TransferInv, NEW s \in Seats, NEW t \in Seats,
         child[s] \in Running \/ s \in signers, child[t] \in Running \/ t \in signers
  PROVE  s = t
<1>1. ASSUME NEW x \in Seats, child[x] \in Running \/ x \in signers
      PROVE  x \notin exported /\ x \in {fa.src, fa.dst} /\ Has(x)
  <2>1. SeatInv(x) /\ exported \subseteq Seats
    BY DEF TransferInv, TypeOK
  <2>2. child[x] # "none" \/ x \in signers
    BY <1>1 DEF Running
  <2>3. db[x].out = "none" /\ x \notin exported
    BY <2>1, <2>2 DEF SeatInv, Stopped, Backed
  <2>4. Has(x)
    BY <2>2 DEF Has
  <2>5. Custody(x)
    BY <2>1, <2>4, TransferAssumption DEF SeatInv, HandedOver, Custody
  <2> QED BY <2>3, <2>4, <2>5 DEF TransferInv, MoveInv
<1>2. ASSUME fa.dst \in Seats, fa.dst # fa.src, Has(fa.dst) PROVE fa.src \in exported
  <2>1. fa.phase # "none"
    BY <1>2, TransferAssumption DEF TransferInv, MoveInv
  <2>2. fa.dst # Source /\ granted[fa.dst] \in {None, fa.src} /\ exported \subseteq Seats
    BY <2>1 DEF TransferInv, MoveInv, TypeOK
  <2>3. HandedOver(fa.dst)
    BY <1>2 DEF TransferInv, SeatInv
  <2> QED BY <1>2, <2>2, <2>3, TransferAssumption DEF HandedOver
<1> QED BY <1>1, <1>2

\* A guardian moves whole and once, for any number of hosts, moves, crashes and
\* restores: no two hosts run it or sign with it in one session, whoever handed
\* it over stays fenced in its rows and on the relay, and some directory keeps
\* it while the directory of the federation names a host that was not deleted
\* (the guardian transfer of mg/core and fa-client).
THEOREM GuardianIsOne == Spec => []OneGuardian
<1>1. TransferInv => OneGuardian
  <2>1. SUFFICES ASSUME TransferInv PROVE OneGuardian
    OBVIOUS
  <2>2. TypeOK /\ AcceptedHasFiles /\ signers \subseteq Seats /\ exported \subseteq Seats
    BY <2>1 DEF TransferInv, TypeOK
  <2>3. NeverForked
    BY <2>1, <2>2, ActsOnce DEF NeverForked, SingleHost, NoFork
  <2>4. ExportIsFinal
    <3>1. SUFFICES ASSUME NEW s \in exported PROVE db[s].out # "none" /\ relay[s].out # "none"
      BY DEF ExportIsFinal
    <3>2. SeatInv(s)
      BY <2>1, <2>2 DEF TransferInv
    <3> QED BY <3>2 DEF SeatInv, Backed
  <2>5. GuardianHeld
    BY <2>1 DEF TransferInv, RemovalInv, GuardianHeld
  <2>6. NamedNotRemoved
    <3>1. named \in Seats /\ fa.phase \in GuardianTransferPhase
      BY <2>2 DEF TypeOK
    <3>2. named \notin removals
      BY <2>1, <3>1 DEF TransferInv, RemovalInv, GuardianTransferPhase
    <3>3. SeatInv(named)
      BY <2>1, <3>1 DEF TransferInv
    <3> QED BY <3>2, <3>3 DEF SeatInv, Removed, NamedNotRemoved
  <2> QED BY <2>2, <2>3, <2>4, <2>5, <2>6 DEF OneGuardian, GuardianKept
<1> QED BY <1>1, InitInv, NextKeeps, PTL DEF Spec
=============================================================================
