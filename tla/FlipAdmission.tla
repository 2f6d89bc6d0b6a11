---------------------------- MODULE FlipAdmission ----------------------------
(***************************************************************************)
(* Deciding a liquidity request while the deployment's setup is edited.    *)
(*                                                                         *)
(* A request reads a setup snapshot, is verified outside every             *)
(* transaction, and commits an allocation under two fences: the setup      *)
(* revision it read and its own expiry.  The setup row has four kinds of   *)
(* writer, each of which reads it, awaits, and writes the whole row back   *)
(* on top of the revision it read: apply_setup_config and                  *)
(* update_provider_config (operator verbs, refused when the fence is       *)
(* lost), and two derived writers that re-read and try again: the          *)
(* bitcoind-password flag and the adoption of the local Iroh node id.      *)
(*                                                                         *)
(* One federation.  A config is its gateway, its funding policy, whether   *)
(* its trust policy admits the requests, the password flag and whether it  *)
(* carries the local node id.  Reachability probes, verification and       *)
(* capacity answer nondeterministically.                                   *)
(***************************************************************************)
EXTENDS Naturals, FiniteSets

CONSTANTS
  Requests,     \* signed requests, each of which may be sent again
  Requester,    \* the key a request is signed under
  Details,      \* the details commitment of a request
  Expires,      \* the second from which a request is expired
  Editors,      \* calls of the two operator verbs
  SecretCalls,  \* calls of set_config_secret for the bitcoind password
  Gateways, Policies,
  Attempts,     \* DERIVED_WRITE_ATTEMPTS
  MaxNow, MaxRevision, MaxSends, MaxRestarts,
  NoRow         \* the absent config or allocation

VARIABLES
  setup,        \* [rev, ready, config] : the setup_state row
  secret,       \* whether the bitcoind password is in the secret store
  writers,      \* Editors and SecretCalls and the adopter: calls in progress
  calls,        \* request_liquidity calls in progress
  alloc,        \* the federation's allocation row
  bound,        \* whether the public transport has bound its node id
  now,          \* the wall clock
  sends,        \* how many requests were sent so far
  restarts,     \* how often the daemon was restarted
  written       \* history: the last value an operator committed, per field

vars == <<setup, secret, writers, calls, alloc, bound, now, sends, restarts, written>>

Adopter == "adopter"
Writers == Editors \cup SecretCalls \cup {Adopter}

Configs == [gateway : Gateways, policy : Policies, trust : BOOLEAN,
            flag : BOOLEAN, local : BOOLEAN]
Idle == [pc |-> "idle", snap |-> NoRow, cand |-> NoRow, left |-> 0]
Waiting == [pc |-> "idle", snap |-> NoRow, answer |-> "none"]

Work == {"reserving", "settling", "idle", "fulfilled"}
Allocations == [requester : {Requester[r] : r \in Requests},
                details : {Details[r] : r \in Requests},
                policy : Policies, work : Work]

Init ==
  /\ setup = [rev |-> 0, ready |-> FALSE, config |-> NoRow]
  /\ secret \in BOOLEAN
  /\ writers = [w \in Writers |-> Idle]
  /\ calls = [r \in Requests |-> Waiting]
  /\ alloc = NoRow
  /\ bound = FALSE
  /\ now = 0
  /\ sends = 0
  /\ restarts = 0
  /\ written = [policy |-> NoRow, trust |-> NoRow]

Unsettled == alloc # NoRow /\ alloc.work \in {"reserving", "settling"}

(***************************************************************************)
(* The fenced write of the setup row.                                      *)
(***************************************************************************)

\* try_upsert_setup_state_tx: the write lands only on the revision read.
Fence(snap) == snap.rev = setup.rev

Write(config, ready) ==
  setup' = [rev |-> setup.rev + 1, ready |-> ready, config |-> config]

\* funding_policy_changes and refuse_unsettled_work.
PolicySettled(snap, config) ==
  (snap.config # NoRow /\ snap.config.policy # config.policy) => ~Unsettled

(***************************************************************************)
(* apply_setup_config and update_provider_config.                          *)
(***************************************************************************)
BeginApplyAt(w, local) ==
  /\ w \in Editors /\ writers[w].pc = "idle" /\ setup.rev < MaxRevision
  /\ \E g \in Gateways, p \in Policies, t \in BOOLEAN :
       LET cand == [gateway |-> g, policy |-> p, trust |-> t, flag |-> FALSE,
                    local |-> local]
       IN  /\ setup.config # NoRow => setup.config.gateway = g
           /\ PolicySettled(setup, cand)
           /\ writers' = [writers EXCEPT ![w] =
                [pc |-> "secret", snap |-> setup, cand |-> cand, left |-> 0]]
  /\ UNCHANGED <<setup, secret, calls, alloc, bound, now, sends, restarts, written>>

\* normalize_advertised_endpoint: the address is the local node id or, before
\* the bind, the stored one.
Normalized == bound \/ (setup.config # NoRow /\ setup.config.local)

\* apply_setup_config up to its fast refusals: the gateway identity of a
\* configured deployment is fixed.
BeginApply(w) == BeginApplyAt(w, Normalized)

\* It then asks the secret store whether a bitcoind password exists.
ReadSecret(w) ==
  /\ w \in Editors /\ writers[w].pc = "secret"
  /\ writers' = [writers EXCEPT ![w].pc = "commit", ![w].cand.flag = secret]
  /\ UNCHANGED <<setup, secret, calls, alloc, bound, now, sends, restarts, written>>

\* update_provider_config: the stored config with one field patched.
BeginUpdate(w) ==
  /\ w \in Editors /\ writers[w].pc = "idle" /\ setup.rev < MaxRevision
  /\ setup.config # NoRow
  /\ \E cand \in {[setup.config EXCEPT !.policy = p] : p \in Policies}
             \cup {[setup.config EXCEPT !.trust = ~@]} :
       /\ PolicySettled(setup, cand)
       /\ writers' = [writers EXCEPT ![w] =
            [pc |-> "commit", snap |-> setup, left |-> 0,
             cand |-> [cand EXCEPT !.local = @ \/ bound]]]
  /\ UNCHANGED <<setup, secret, calls, alloc, bound, now, sends, restarts, written>>

CommitUnder(w, settled) ==
  LET cand == writers[w].cand
      snap == writers[w].snap
  IN  /\ w \in Editors /\ writers[w].pc = "commit"
      /\ writers' = [writers EXCEPT ![w] = Idle]
      /\ \/ /\ settled /\ Fence(snap)
            /\ \E ready \in BOOLEAN : Write(cand, ready)
            /\ written' =
                 [policy |-> IF snap.config # NoRow /\ snap.config.policy = cand.policy
                               THEN written.policy ELSE cand.policy,
                  trust  |-> IF snap.config # NoRow /\ snap.config.trust = cand.trust
                               THEN written.trust ELSE cand.trust]
         \/ /\ ~(settled /\ Fence(snap))
            /\ UNCHANGED <<setup, written>>
      /\ UNCHANGED <<secret, calls, alloc, bound, now, sends, restarts>>

\* Only the counts read before the probes are consulted.
CommitOnFastCheck(w) == CommitUnder(w, TRUE)

\* The transaction of both verbs: the settled-work guard is run again, then
\* the fenced write; either refusal leaves the row alone.
CommitEdit(w) == CommitUnder(w, PolicySettled(writers[w].snap, writers[w].cand))

(***************************************************************************)
(* set_config_secret and the two derived writers.                          *)
(***************************************************************************)
\* The secret is committed in a transaction of its own, before the flag.
SetConfigSecret(w) ==
  /\ w \in SecretCalls /\ writers[w].pc = "idle" /\ setup.rev < MaxRevision
  /\ \E present \in BOOLEAN :
       /\ secret' = present
       /\ writers' = [writers EXCEPT ![w] =
            [pc |-> "load", snap |-> NoRow, cand |-> present, left |-> Attempts]]
  /\ UNCHANGED <<setup, calls, alloc, bound, now, sends, restarts, written>>

\* public::serve: the transport binds and the adopter is run once.
Bind ==
  /\ ~bound
  /\ bound' = TRUE
  /\ writers' = [writers EXCEPT ![Adopter] =
       [pc |-> "load", snap |-> NoRow, cand |-> TRUE, left |-> Attempts]]
  /\ UNCHANGED <<setup, secret, calls, alloc, now, sends, restarts, written>>

Derived(w, config) ==
  IF w = Adopter THEN [config EXCEPT !.local = writers[w].cand]
                 ELSE [config EXCEPT !.flag = writers[w].cand]

LoadUnless(w, spent) ==
  /\ w \notin Editors /\ writers[w].pc = "load"
  /\ writers' = [writers EXCEPT ![w] =
       IF spent \/ setup.config = NoRow \/ Derived(w, setup.config) = setup.config
         THEN Idle ELSE [@ EXCEPT !.pc = "write", !.snap = setup]]
  /\ UNCHANGED <<setup, secret, calls, alloc, bound, now, sends, restarts, written>>

\* One read of the loop of refresh_stored_bitcoind_password_flag or
\* adopt_local_iroh_endpoint_address, which gives up after its attempts.
LoadDerived(w) == LoadUnless(w, writers[w].left = 0)

WriteOn(w, current) ==
  /\ w \notin Editors /\ writers[w].pc = "write"
  /\ \/ /\ current
        /\ Write(Derived(w, writers[w].snap.config), writers[w].snap.ready)
        /\ writers' = [writers EXCEPT ![w] = Idle]
     \/ /\ ~current
        /\ writers' = [writers EXCEPT ![w].pc = "load", ![w].left = @ - 1]
        /\ UNCHANGED setup
  /\ UNCHANGED <<secret, calls, alloc, bound, now, sends, restarts, written>>

\* The fenced write of the whole view; a lost fence starts over.
WriteDerived(w) == WriteOn(w, Fence(writers[w].snap))

(***************************************************************************)
(* request_liquidity.                                                      *)
(***************************************************************************)
Answer(r, a) == calls' = [calls EXCEPT ![r] = [Waiting EXCEPT !.answer = a]]
Step(r, pc) == calls' = [calls EXCEPT ![r].pc = pc]

Mine(r) == alloc # NoRow /\ alloc.requester = Requester[r]
Repeat(r) == Mine(r) /\ alloc.details = Details[r]

\* request_liquidity loads the setup snapshot the request is decided against.
Receive(r) ==
  /\ calls[r].pc = "idle" /\ sends < MaxSends
  /\ calls' = [calls EXCEPT ![r] = [pc |-> "existing", snap |-> setup, answer |-> "none"]]
  /\ sends' = sends + 1
  /\ UNCHANGED <<setup, secret, writers, alloc, bound, now, restarts, written>>

ExistingFor(r, repeat, mine) ==
  /\ calls[r].pc = "existing"
  /\ \/ repeat /\ Answer(r, "accepted")
     \/ mine /\ ~repeat /\ Answer(r, "conflict")
     \/ ~mine /\ ~repeat /\ Step(r, "checks")
  /\ UNCHANGED <<setup, secret, writers, alloc, bound, now, sends, restarts, written>>

\* respond_from_existing_allocation before verification: only the
\* allocation's own requester is answered.
Existing(r) == ExistingFor(r, Repeat(r), Mine(r))

\* pre_validation_failure and the verifier, on the snapshot.
Verify(r) ==
  /\ calls[r].pc = "checks"
  /\ LET s == calls[r].snap
         passes == s.config # NoRow /\ s.ready /\ now < Expires[r] /\ s.config.trust
     IN  \/ passes /\ Step(r, "commit")
         \/ Answer(r, "rejected")
  /\ UNCHANGED <<setup, secret, writers, alloc, bound, now, sends, restarts, written>>

HoldsNothing == alloc # NoRow /\ alloc.work = "idle"

CommitOn(r, current, idle) ==
  LET take == current /\ (alloc = NoRow \/ (~Mine(r) /\ idle))
      row == [requester |-> Requester[r], details |-> Details[r], work |-> "reserving",
              policy |-> calls[r].snap.config.policy]
  IN  /\ calls[r].pc = "commit"
      /\ \/ take /\ alloc' = row /\ Answer(r, "accepted")
         \/ current /\ ~take /\ Step(r, "lost") /\ UNCHANGED alloc
         \/ Answer(r, "rejected") /\ UNCHANGED alloc
      /\ UNCHANGED <<setup, secret, writers, bound, now, sends, restarts, written>>

\* The write transaction: revision fence, expiry, capacity (which may refuse),
\* then the insert or the takeover of another requester's idle allocation.
Commit(r) ==
  CommitOn(r, calls[r].snap.rev = setup.rev /\ now < Expires[r], HoldsNothing)

\* The insert was ignored: after the rollback the incumbent answers.
Lost(r) ==
  /\ calls[r].pc = "lost"
  /\ Answer(r, CASE alloc = NoRow -> "error"
                 [] Repeat(r) -> "accepted"
                 [] OTHER -> "conflict")
  /\ UNCHANGED <<setup, secret, writers, alloc, bound, now, sends, restarts, written>>

(***************************************************************************)
(* The allocation's own progress, and the clock.                           *)
(***************************************************************************)
\* The workers end the item, perhaps before its wallet operation settles.
Progress ==
  /\ Unsettled
  /\ \E w \in {"settling", "idle", "fulfilled"} \ {alloc.work} :
       alloc' = [alloc EXCEPT !.work = w]
  /\ UNCHANGED <<setup, secret, writers, calls, bound, now, sends, restarts, written>>

\* release_federation_allocation: refused while anything is held.
Release ==
  /\ HoldsNothing
  /\ alloc' = NoRow
  /\ UNCHANGED <<setup, secret, writers, calls, bound, now, sends, restarts, written>>

Tick ==
  /\ now < MaxNow
  /\ now' = now + 1
  /\ UNCHANGED <<setup, secret, writers, calls, alloc, bound, sends, restarts, written>>

\* The daemon stops: calls in progress are lost, the rows stay.
Restart ==
  /\ restarts < MaxRestarts
  /\ restarts' = restarts + 1
  /\ bound' = FALSE
  /\ writers' = [w \in Writers |-> Idle]
  /\ calls' = [r \in Requests |-> Waiting]
  /\ UNCHANGED <<setup, secret, alloc, now, sends, written>>

Next ==
  \/ \E w \in Writers : \/ BeginApply(w) \/ ReadSecret(w) \/ BeginUpdate(w)
                        \/ CommitEdit(w) \/ SetConfigSecret(w)
                        \/ LoadDerived(w) \/ WriteDerived(w)
  \/ \E r \in Requests : \/ Receive(r) \/ Existing(r) \/ Verify(r)
                         \/ Commit(r) \/ Lost(r)
  \/ Bind \/ Progress \/ Release \/ Tick \/ Restart

Spec == Init /\ [][Next]_vars

(***************************************************************************)
(* Properties.                                                             *)
(***************************************************************************)
\* Every variable has its type.
TypeOK ==
  /\ setup.rev \in Nat /\ setup.ready \in BOOLEAN
  /\ setup.config \in Configs \cup {NoRow}
  /\ secret \in BOOLEAN /\ bound \in BOOLEAN
  /\ alloc \in Allocations \cup {NoRow}
  /\ \A w \in Writers :
       /\ writers[w].pc \in {"idle", "secret", "commit", "load", "write"}
       /\ writers[w].left \in 0 .. Attempts
  /\ \A r \in Requests :
       /\ calls[r].pc \in {"idle", "existing", "checks", "commit", "lost"}
       /\ calls[r].answer \in {"none", "accepted", "conflict", "rejected", "error"}
  /\ now \in 0 .. MaxNow

\* An item in flight settles under the funding policy it was accepted under:
\* neither an edit prepared before the acceptance nor an acceptance prepared
\* before the edit can commit across the other
\* (ensure_funding_policy_settled_tx and the revision fence of
\* accept_or_reject_request).
SettledUnderAcceptedPolicy == Unsettled => setup.config.policy = alloc.policy

\* No write of the setup row undoes an operator's committed change: every
\* field holds the last value an operator committed for it, whatever other
\* writers prepared their whole-row write meanwhile (upsert_setup_state_tx).
NoLostUpdate ==
  setup.config # NoRow =>
    /\ setup.config.policy = written.policy
    /\ setup.config.trust = written.trust

=============================================================================
