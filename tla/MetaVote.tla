------------------------------- MODULE MetaVote -------------------------------
(***************************************************************************)
(* How a federation's metadata changes: the ambassador's formation,         *)
(* maintenance and transfer drivers (fa-client formation.rs, maintenance.rs,*)
(* transfer.rs), the guarded vote of every hosted seat (mg core seat.rs) and Fedimint's meta  *)
(* module, which adopts one opaque object when a threshold of guardians     *)
(* have submitted the same bytes and has no conditional submit.             *)
(*                                                                         *)
(* A base is the revision of the object that was read: revisions never      *)
(* recur, so a revision names one occurrence of the board.                  *)
(***************************************************************************)
EXTENDS Integers, FiniteSets, TLC

CONSTANTS Guardians,     \* the federation's guardians
          Threshold,     \* how many equal submissions the meta module needs
          FormTargets,   \* the formation targets the ambassador could derive
          Updates,       \* the field writes of later maintenance
          Moves,         \* the bindings of a guardian moved to another host
          Fields,        \* the fields of the metadata object
          Values,        \* what a field may hold; 0 is an absent field
          MaxRestarts,   \* how many times a guardian daemon restarts
          MaxWaves,      \* how many waves of requests are sent; 0 for no bound
          None           \* a model value: no pin, no vote, no handler

VARIABLES board,      \* the adopted object and its revision
          vote,       \* the object each guardian's child last submitted
          pin,        \* SeatLoop.meta_admission
          hand,       \* the handler between its checks and its child RPC
          req,        \* signed requests on their way to each guardian
          fa,         \* the ambassador's durable record and its driver
          restarts, waves

vars == <<board, vote, pin, hand, req, fa, restarts, waves>>

\* Fields the formation target owns; the directory is the one that marks it.
Directory == "dir"
Absent == [f \in Fields |-> 0]
Merged(obj, m) == m @@ obj
Matches(obj, m) == \A f \in DOMAIN m : obj[f] = m[f]
IsForm(m) == m \in FormTargets
IsMove(m) == m \in Moves
Mutations == FormTargets \cup Updates \cup Moves

Idle == [pc |-> "idle", op |-> None, base |-> -1, left |-> {}, conflict |-> {}]

Init == /\ board = [rev |-> 0, obj |-> Absent]
        /\ vote = [g \in Guardians |-> None]
        /\ pin = [g \in Guardians |-> None]
        /\ hand = [g \in Guardians |-> None]
        /\ req = [g \in Guardians |-> {}]
        /\ fa = [phase |-> "dkg_complete", target |-> None, run |-> Idle]
        /\ restarts = 0 /\ waves = 0

-----------------------------------------------------------------------------
(* The ambassador. *)

\* publish_seat_bindings: a target is durable before its first vote; a
\* recovered one is replayed, whatever the ambassador would derive now.
RecordedTarget(kept, derived) == IF kept = None THEN derived ELSE kept

StartPublication(t) ==
    /\ fa.phase \in {"dkg_complete", "publishing"} /\ fa.run = Idle
    /\ LET target == RecordedTarget(fa.target, t)
       IN fa' = [phase |-> "publishing", target |-> target,
                 run |-> [Idle EXCEPT !.pc = "read", !.op = target]]
    /\ UNCHANGED <<board, vote, pin, hand, req, restarts, waves>>

\* update_federation_metadata and propose_guardian_fees: only once formed.
StartUpdate(m) ==
    /\ fa.phase = "formed" /\ fa.run = Idle
    /\ fa' = [fa EXCEPT !.run = [Idle EXCEPT !.pc = "read", !.op = m]]
    /\ UNCHANGED <<board, vote, pin, hand, req, restarts, waves>>

\* publish_moved_binding: every current guardian votes, the destination in the
\* place of the source it took over from.
PublishMove(m) ==
    /\ fa.phase = "formed" /\ fa.run = Idle
    /\ fa' = [fa EXCEPT !.run = [Idle EXCEPT !.pc = "read", !.op = m]]
    /\ UNCHANGED <<board, vote, pin, hand, req, restarts, waves>>

\* What a driver looks for in the consensus it read: for the formation its
\* directory, recipients and rate, for a move the destination's binding.
SeatBindingsMatch(m) == board.obj[Directory] = m[Directory]
Adopted(m) ==
    /\ IsForm(m) \/ IsMove(m) => SeatBindingsMatch(m)
    /\ Matches(board.obj, m)

\* A fresh read that shows the exact value ends the run; for the formation
\* it is the only thing that ever makes the federation formed.
ConfirmIf(shown) ==
    /\ fa.run.pc = "read"
    /\ shown
    /\ fa' = [fa EXCEPT !.run = Idle,
                        !.phase = IF IsForm(fa.run.op) THEN "formed" ELSE @]
    /\ UNCHANGED <<board, vote, pin, hand, req, restarts, waves>>

Confirm == ConfirmIf(Adopted(fa.run.op))

\* Otherwise one wave, bound to the base just read, goes to the rows that have
\* neither acknowledged nor refused this base. The formation's wave goes to all.
RowsOf(run, base) == IF run.base # base \/ IsForm(run.op) THEN Guardians
                   ELSE run.left \ run.conflict

\* What a refused guardian leaves the run to do: maintenance sets the row
\* aside, the formation and a move end unless the next read shows them adopted.
MayGoOn(run) == run.conflict = {} \/ run.op \in Updates

SignedRequest(base, m) == [base |-> base, m |-> m]

\* A row that cannot be reached is one whose request is never taken up.
SendWave ==
    /\ fa.run.pc = "read" /\ (waves < MaxWaves \/ MaxWaves = 0)
    /\ MayGoOn(fa.run)
    /\ ~ Adopted(fa.run.op)
    /\ LET fresh == fa.run.base # board.rev
       IN fa' = [fa EXCEPT !.run = [@ EXCEPT !.pc = "wave", !.base = board.rev,
                            !.left = IF fresh THEN Guardians ELSE @,
                            !.conflict = IF fresh THEN {} ELSE @]]
    /\ req' = [g \in Guardians |-> IF g \in RowsOf(fa.run, board.rev)
                 THEN req[g] \cup {SignedRequest(board.rev, fa.run.op)} ELSE req[g]]
    /\ waves' = IF MaxWaves = 0 THEN 0 ELSE waves + 1
    /\ UNCHANGED <<board, vote, pin, hand, restarts>>

\* The wave is over: every row answered or timed out. Read consensus again.
WaveEnds ==
    /\ fa.run.pc = "wave"
    /\ fa' = [fa EXCEPT !.run.pc = "read"]
    /\ UNCHANGED <<board, vote, pin, hand, req, restarts, waves>>

\* A run ends without its readback: a deadline, a terminal refusal, a
\* cancelled call or a crash. Acknowledgements are not durable.
CutOff ==
    /\ fa.run # Idle
    /\ fa' = [fa EXCEPT !.run = Idle]
    /\ UNCHANGED <<board, vote, pin, hand, req, restarts, waves>>

\* What an answer changes for the run it belongs to; it may also be lost.
Told(g, r, answer) ==
    \/ fa' = fa
    \/ /\ fa.run.pc = "wave" /\ fa.run.op = r.m /\ fa.run.base = r.base
       /\ answer # "changed"
       /\ fa' = [fa EXCEPT !.run = [@ EXCEPT
                   !.left = IF answer = "accepted" THEN @ \ {g} ELSE @,
                   !.conflict = IF answer # "accepted" THEN @ \cup {g} ELSE @]]

-----------------------------------------------------------------------------
(* One hosted seat: a sequential loop, one handler at a time. *)

\* propose_formation_meta, submit_meta_patch, replace_seat_binding and
\* submit_admitted_meta_target. The checks share one read of the child; the
\* vote is a later child RPC.
Changed(r) == board.rev # r.base
ProposeFormationMeta(r) ==
    IF board.obj[Directory] # 0 THEN "published" ELSE IF Changed(r) THEN "changed" ELSE None
SubmitMetaPatch(r) == IF Changed(r) THEN "changed" ELSE None
ReplaceSeatBinding(r) ==
    IF Changed(r) THEN "changed" ELSE IF board.obj[Directory] = 0 THEN "invalid" ELSE None
Checked(r) ==
    CASE IsForm(r.m) -> ProposeFormationMeta(r)
      [] IsMove(r.m) -> ReplaceSeatBinding(r)
      [] OTHER -> SubmitMetaPatch(r)

Refusal(g, r, target) ==
    IF Checked(r) # None THEN Checked(r)
    ELSE IF pin[g] # None /\ pin[g].base = r.base /\ pin[g].target # target
         THEN "conflict" ELSE None

Refuse(g, r) ==
    /\ hand[g] = None /\ r \in req[g]
    /\ LET why == Refusal(g, r, Merged(board.obj, r.m))
       IN why # None /\ Told(g, r, why)
    /\ req' = [req EXCEPT ![g] = @ \ {r}]
    /\ UNCHANGED <<board, vote, pin, hand, restarts, waves>>

\* The vote is for a whole object: the patch merged into the one just read.
AdmitTarget(g, r, target) ==
    /\ hand[g] = None /\ r \in req[g]
    /\ Refusal(g, r, target) = None
    /\ pin' = [pin EXCEPT ![g] = [base |-> r.base, target |-> target]]
    /\ hand' = [hand EXCEPT ![g] = [r |-> r, target |-> target]]
    /\ req' = [req EXCEPT ![g] = @ \ {r}]
    /\ UNCHANGED <<board, vote, fa, restarts, waves>>
AdmitBare(g, r) == AdmitTarget(g, r, Merged(Absent, r.m))
Admit(g, r) == AdmitTarget(g, r, Merged(board.obj, r.m))

\* The child takes the vote; its answer may still be an error.
Submit(g) ==
    /\ hand[g] # None
    /\ vote' = [vote EXCEPT ![g] = hand[g].target]
    /\ hand' = [hand EXCEPT ![g] = None]
    /\ Told(g, hand[g].r, "accepted")
    /\ UNCHANGED <<board, pin, req, restarts, waves>>

SubmitFails(g) ==
    /\ hand[g] # None
    /\ hand' = [hand EXCEPT ![g] = None]
    /\ UNCHANGED <<board, vote, pin, req, fa, restarts, waves>>

\* A daemon restart clears the pin with every handler and request it fences.
Fenced(g) == /\ pin' = [pin EXCEPT ![g] = None]
             /\ hand' = [hand EXCEPT ![g] = None]
             /\ req' = [req EXCEPT ![g] = {}]

Restart(g) ==
    /\ restarts < MaxRestarts
    /\ Fenced(g)
    /\ restarts' = restarts + 1
    /\ UNCHANGED <<board, vote, fa, waves>>

-----------------------------------------------------------------------------
(* The meta module: external, as the votes above use it. *)

Promote(v) ==
    /\ v # board.obj
    /\ Cardinality({g \in Guardians : vote[g] = v}) >= Threshold
    /\ board' = [rev |-> board.rev + 1, obj |-> v]
    /\ UNCHANGED <<vote, pin, hand, req, fa, restarts, waves>>

Driver == \/ \E t \in FormTargets : StartPublication(t)
          \/ \E m \in Updates : StartUpdate(m)
          \/ \E m \in Moves : PublishMove(m)
          \/ Confirm
          \/ SendWave
          \/ WaveEnds

Seats == \E g \in Guardians :
           \/ \E r \in req[g] : Refuse(g, r) \/ Admit(g, r)
           \/ Submit(g)

Promotes == \E g \in Guardians : vote[g] # None /\ Promote(vote[g])

Next == Driver \/ CutOff \/ Seats \/ Promotes
        \/ \E g \in Guardians : SubmitFails(g) \/ Restart(g)

Spec == Init /\ [][Next]_vars

-----------------------------------------------------------------------------
(* Properties. *)

Objects == [Fields -> Values]
\* Every variable holds a value of its shape.
TypeOK ==
    /\ board \in [rev : Nat, obj : Objects]
    /\ \A g \in Guardians :
         /\ vote[g] # None => vote[g] \in Objects
         /\ pin[g] # None => pin[g] \in [base : Nat, target : Objects]
         /\ hand[g] # None => hand[g].target \in Objects
         /\ req[g] \subseteq [base : Nat, m : Mutations]
    /\ fa.phase \in {"dkg_complete", "publishing", "formed"}
    /\ fa.run.pc \in {"idle", "read", "wave"}
    /\ restarts \in 0..MaxRestarts /\ waves \in 0..MaxWaves

\* Of every step: a late whole-object vote never discards another write: whatever the meta
\* module adopts is the object it replaces with exactly one mutation merged in
\* (submit_meta_patch, replace_seat_binding, submit_admitted_meta_target; fewer restarts than two
\* thresholds overlap).
AdoptsOneWrite ==
    board' # board => \E m \in Mutations : board'.obj = Merged(board.obj, m)

=============================================================================
