--------------------------- MODULE PayoutsProofs ---------------------------
(***************************************************************************)
(* For every number of requests, destinations, wallets, calls and payments: *)
(* payouts implement PayOnce, and a wallet that is reported drained was.    *)
(*                                                                         *)
(* PayOnce looks at the rows, the native operations and the links alone;    *)
(* why it holds is in the calls.  A call past its row has the row's terms.  *)
(* A call that looks for an earlier payment, or has found none, holds the   *)
(* start fence of its wallet; two calls of one request have one wallet (the *)
(* row's), hence one fence, so that "found none" still holds when the       *)
(* payment starts.                                                          *)
(***************************************************************************)
EXTENDS Payouts, TLAPS

Steps == {"create", "lock", "find", "start", "commit", "lookup"}
BusyCalls == [pc : Steps, req : Requests, scope : Scopes, dest : Destinations,
              op : OpIds \cup {None}]
CallType == BusyCalls \cup {Idle}

\* What the rows, operation logs, fences and calls hold.
Shapes ==
    /\ jobs \in [Requests -> JobType \cup {None}]
    /\ setting \in Destinations \cup {None} /\ live \subseteq Guardians
    /\ ops \in [OpIds -> OutgoingOperation \cup {None}]
    /\ balance \in [Scopes -> 0..1] /\ claims \in [Scopes -> BOOLEAN]
    /\ lock \in [Scopes -> Callers \cup {None}]
    /\ call \in [Callers -> CallType]

\* The holder of a fence is past start_exclusion in that wallet, and a call
\* that looks for a payment or starts one holds its fence.
Fenced ==
    /\ \A s \in Scopes : lock[s] # None =>
         /\ call[lock[s]].scope = s
         /\ call[lock[s]].pc \in {"find", "start", "commit"}
    /\ \A c \in Callers : call[c].pc \in {"find", "start"} => lock[call[c].scope] = c

\* A call past its row, and every payment, is on the terms of a stored row.
OnTerms(k) == jobs[k.req] # None /\ SameInputs(jobs[k.req], k)
CallsOnTerms ==
    \A c \in Callers : call[c].pc \in {"lock", "find", "start", "commit", "lookup"} =>
                         OnTerms(call[c])
OpsOnTerms == \A o \in OpIds : ops[o] # None => OnTerms(ops[o])

\* The payments of a request, in whichever wallet.
Pays(o, r) == ops[o] # None /\ ops[o].req = r
PaidOnce == \A r \in Requests : \A o, p \in OpIds : Pays(o, r) /\ Pays(p, r) => o = p
StartsUnpaid ==
    \A c \in Callers : call[c].pc = "start" => \A o \in OpIds : ~ Pays(o, call[c].req)
CommitsPaid ==
    \A c \in Callers : call[c].pc = "commit" =>
                         call[c].op \in OpIds /\ Pays(call[c].op, call[c].req)
LinksPaid ==
    \A r \in Requests : jobs[r] # None /\ jobs[r].op # None => Pays(jobs[r].op, r)

PayInv ==
    /\ Shapes /\ Fenced /\ CallsOnTerms /\ OpsOnTerms /\ PaidOnce /\ StartsUnpaid
    /\ CommitsPaid /\ LinksPaid

-----------------------------------------------------------------------------
\* The invariant starts true: no rows, no operations, no calls.
LEMMA PayInvInit == Init => PayInv
  BY ConstantsAssumption
  DEF Init, PayInv, Shapes, Fenced, CallsOnTerms, OpsOnTerms, PaidOnce, StartsUnpaid,
      CommitsPaid, LinksPaid, Pays, OnTerms, CallType, BusyCalls, Steps, Idle

\* A call that ends gives its fence back and leaves rows and payments alone.
LEMMA EndKeepsPayInv ==
  ASSUME PayInv, NEW c \in Callers, Ended(c),
         UNCHANGED <<jobs, setting, live, ops, balance, claims>>
  PROVE  PayInv'
  <1>0. Idle \in CallType /\ Idle.pc = "idle"
    BY DEF CallType, BusyCalls, Steps, Idle
  <1>1. Shapes'
    BY <1>0 DEF PayInv, Shapes, Ended
  <1>2. Fenced'
    <2>1. ASSUME NEW s \in Scopes, lock'[s] # None
          PROVE  /\ call'[lock'[s]].scope = s
                 /\ call'[lock'[s]].pc \in {"find", "start", "commit"}
      BY <2>1, ConstantsAssumption DEF PayInv, Shapes, Fenced, Ended
    <2>2. ASSUME NEW d \in Callers, call'[d].pc \in {"find", "start"}
          PROVE  lock'[call'[d].scope] = d
      <3>1. d # c /\ call'[d] = call[d]
        BY <1>0, <2>2 DEF PayInv, Shapes, Ended
      <3>2. call[d].scope \in Scopes /\ lock[call[d].scope] = d
        BY <2>2, <3>1 DEF PayInv, Shapes, Fenced, CallType, BusyCalls, Steps, Idle
      <3> QED BY <3>1, <3>2 DEF Ended
    <2> QED BY <2>1, <2>2 DEF Fenced
  <1>3. \A d \in Callers : call'[d] = call[d] \/ call'[d].pc = "idle"
    BY <1>0 DEF PayInv, Shapes, Ended
  <1>4. CallsOnTerms' /\ StartsUnpaid' /\ CommitsPaid'
    BY <1>3 DEF PayInv, CallsOnTerms, StartsUnpaid, CommitsPaid, OnTerms, SameInputs, Pays
  <1>5. OpsOnTerms' /\ PaidOnce' /\ LinksPaid'
    BY DEF PayInv, OpsOnTerms, PaidOnce, LinksPaid, OnTerms, SameInputs, Pays
  <1> QED BY <1>1, <1>2, <1>4, <1>5 DEF PayInv

\* What is known of a call that is past its first read.
LEMMA BusyCall ==
  ASSUME PayInv, NEW c \in Callers, call[c].pc # "idle"
  PROVE  /\ call[c] \in BusyCalls /\ call[c].pc \in Steps
         /\ call[c].req \in Requests /\ call[c].scope \in Scopes
         /\ call[c].dest \in Destinations /\ call[c].op \in OpIds \cup {None}
  BY DEF PayInv, Shapes, CallType, BusyCalls, Steps, Idle

\* A call that moves on without a fence, in "create", "lock" or "lookup", on the
\* terms it has there: nothing else depends on it.
LEMMA UnfencedMove ==
  ASSUME PayInv, NEW c \in Callers, NEW k \in CallType,
         call[c].pc \in {"idle", "create", "lookup"},
         k.pc \notin {"find", "start"},
         k.pc = "commit" => k.op \in OpIds /\ Pays(k.op, k.req),
         k.pc \in {"lock", "lookup", "commit"} => OnTerms(k),
         call' = [call EXCEPT ![c] = k],
         UNCHANGED <<jobs, setting, live, ops, balance, claims, lock>>
  PROVE  PayInv'
  <1>1. Shapes'
    BY DEF PayInv, Shapes
  <1>2. \A d \in Callers : d # c => call'[d] = call[d]
    BY DEF PayInv, Shapes
  <1>3. call'[c] = k
    BY DEF PayInv, Shapes
  <1>4. \A s \in Scopes : lock[s] # c
    BY ConstantsAssumption DEF PayInv, Fenced
  <1>5. Fenced'
    BY <1>2, <1>3, <1>4 DEF PayInv, Shapes, Fenced
  <1>6. CallsOnTerms' /\ StartsUnpaid' /\ CommitsPaid'
    BY <1>2, <1>3 DEF PayInv, CallsOnTerms, StartsUnpaid, CommitsPaid, OnTerms, SameInputs, Pays
  <1>7. OpsOnTerms' /\ PaidOnce' /\ LinksPaid'
    BY DEF PayInv, OpsOnTerms, PaidOnce, LinksPaid, OnTerms, SameInputs, Pays
  <1> QED BY <1>1, <1>5, <1>6, <1>7 DEF PayInv

\* The first insert of a request's row adds a promise and changes none.
LEMMA CreateKeepsPayInv ==
  ASSUME PayInv, NEW c \in Callers, Create(c)
  PROVE  PayInv'
  <1> DEFINE k == call[c]
             row == IF jobs[k.req] = None
                    THEN [scope |-> k.scope, dest |-> k.dest, op |-> None]
                    ELSE jobs[k.req]
  <1>0. /\ k.pc = "create" /\ jobs' = [jobs EXCEPT ![k.req] = row]
        /\ UNCHANGED <<setting, live, ops, balance, claims>>
    BY DEF Create
  <1>1. k.req \in Requests /\ k.scope \in Scopes /\ k.dest \in Destinations
    BY <1>0, BusyCall
  <1>2. row \in JobType
    BY <1>1 DEF PayInv, Shapes, JobType
  <1>3. /\ jobs' \in [Requests -> JobType \cup {None}] /\ jobs'[k.req] = row
        /\ \A r \in Requests : r # k.req => jobs'[r] = jobs[r]
        /\ \A r \in Requests : jobs[r] # None => jobs'[r] = jobs[r]
    BY <1>0, <1>1, <1>2 DEF PayInv, Shapes
  <1>4. \A r \in Requests : jobs[r] = None /\ jobs'[r] # None => jobs'[r].op = None
    BY <1>3
  <1>5. OpsOnTerms'
    BY <1>0, <1>3 DEF PayInv, Shapes, OpsOnTerms, OnTerms, SameInputs, OutgoingOperation
  <1>6. PaidOnce' /\ LinksPaid'
    <2>1. PaidOnce'
      BY <1>0 DEF PayInv, PaidOnce, Pays
    <2>2. ASSUME NEW r \in Requests, jobs'[r] # None, jobs'[r].op # None
          PROVE  Pays(jobs'[r].op, r)
      BY <1>3, <1>4, <2>2 DEF PayInv, LinksPaid
    <2> QED BY <1>0, <2>1, <2>2 DEF LinksPaid, Pays
  <1>7. \A d \in Callers : call[d].pc \in {"lock", "find", "start", "commit", "lookup"} =>
           jobs'[call[d].req] = jobs[call[d].req]
    BY <1>3, BusyCall DEF PayInv, CallsOnTerms, OnTerms
  <1>8. CASE SameInputs(row, k) /\ row.op = None
    <2>1. call' = [call EXCEPT ![c].pc = "lock"] /\ UNCHANGED lock
      BY <1>0, <1>8 DEF Create
    <2>2. /\ call'[c] = [pc |-> "lock", req |-> k.req, scope |-> k.scope, dest |-> k.dest,
                         op |-> k.op]
          /\ \A d \in Callers : d # c => call'[d] = call[d]
          /\ call' \in [Callers -> CallType]
      BY <2>1, <1>0, BusyCall DEF PayInv, Shapes, CallType, BusyCalls, Steps
    <2>3. Shapes'
      BY <1>0, <1>3, <2>1, <2>2 DEF PayInv, Shapes
    <2>4. \A s \in Scopes : lock[s] # c
      BY <1>0, ConstantsAssumption DEF PayInv, Fenced
    <2>5. Fenced'
      BY <2>1, <2>2, <2>4 DEF PayInv, Shapes, Fenced
    <2>6. CallsOnTerms'
      BY <1>1, <1>2, <1>3, <1>7, <1>8, <2>2, ConstantsAssumption
      DEF PayInv, CallsOnTerms, OnTerms, SameInputs
    <2>7. StartsUnpaid' /\ CommitsPaid'
      BY <1>0, <2>2 DEF PayInv, StartsUnpaid, CommitsPaid, Pays
    <2> QED BY <1>5, <1>6, <2>3, <2>5, <2>6, <2>7 DEF PayInv
  <1>9. CASE ~(SameInputs(row, k) /\ row.op = None)
    <2>1. Ended(c)
      BY <1>0, <1>9 DEF Create
    <2>2. Idle \in CallType /\ Idle.pc = "idle"
      BY DEF CallType, BusyCalls, Steps, Idle
    <2>3. /\ call'[c] = Idle /\ \A d \in Callers : d # c => call'[d] = call[d]
          /\ call' \in [Callers -> CallType]
      BY <2>1, <2>2 DEF PayInv, Shapes, Ended
    <2>4. \A s \in Scopes : lock[s] # c
      BY <1>0, ConstantsAssumption DEF PayInv, Fenced
    <2>5. lock' = lock
      BY <2>1, <2>4 DEF PayInv, Shapes, Ended
    <2>6. Shapes'
      BY <1>0, <1>3, <2>3, <2>5 DEF PayInv, Shapes
    <2>7. Fenced'
      BY <2>2, <2>3, <2>4, <2>5 DEF PayInv, Shapes, Fenced
    <2>8. CallsOnTerms'
      BY <1>7, <2>2, <2>3 DEF PayInv, CallsOnTerms, OnTerms, SameInputs
    <2>9. StartsUnpaid' /\ CommitsPaid'
      BY <1>0, <2>2, <2>3 DEF PayInv, StartsUnpaid, CommitsPaid, Pays
    <2> QED BY <1>5, <1>6, <2>6, <2>7, <2>8, <2>9 DEF PayInv
  <1> QED BY <1>8, <1>9

\* The fence of a wallet goes to a call that is on terms and past its row.
LEMMA TakeLockKeepsPayInv ==
  ASSUME PayInv, NEW c \in Callers, TakeLock(c)
  PROVE  PayInv'
  <1> DEFINE k == call[c]
  <1>0. /\ k.pc = "lock" /\ lock[k.scope] = None
        /\ lock' = [lock EXCEPT ![k.scope] = c] /\ call' = [call EXCEPT ![c].pc = "find"]
        /\ UNCHANGED <<jobs, setting, live, ops, balance, claims>>
    BY DEF TakeLock, TakeLockIf, Unlocked
  <1>a. k.pc = "lock" /\ UNCHANGED <<jobs, ops>>
    BY <1>0
  <1>1. k.scope \in Scopes
    BY <1>0, BusyCall
  <1>2. /\ call'[c] = [pc |-> "find", req |-> k.req, scope |-> k.scope, dest |-> k.dest,
                       op |-> k.op]
        /\ \A d \in Callers : d # c => call'[d] = call[d]
        /\ call' \in [Callers -> CallType]
    BY <1>0, BusyCall DEF PayInv, Shapes, CallType, BusyCalls, Steps
  <1>3. Shapes'
    BY <1>0, <1>1, <1>2 DEF PayInv, Shapes
  <1>4. \A s \in Scopes : lock[s] # c
    BY <1>0, ConstantsAssumption DEF PayInv, Fenced
  <1>5. lock'[k.scope] = c /\ \A s \in Scopes : s # k.scope => lock'[s] = lock[s]
    BY <1>0, <1>1 DEF PayInv, Shapes
  <1>6. Fenced'
    <2>1. ASSUME NEW s \in Scopes, lock'[s] # None
          PROVE  /\ call'[lock'[s]].scope = s
                 /\ call'[lock'[s]].pc \in {"find", "start", "commit"}
      BY <1>2, <1>4, <1>5, <2>1 DEF PayInv, Shapes, Fenced
    <2>2. ASSUME NEW d \in Callers, call'[d].pc \in {"find", "start"}
          PROVE  lock'[call'[d].scope] = d
      <3>1. CASE d = c
        BY <1>2, <1>5, <3>1
      <3>2. CASE d # c
        <4>1. call[d].scope \in Scopes /\ lock[call[d].scope] = d
          BY <1>2, <2>2, <3>2, BusyCall DEF PayInv, Fenced
        <4> QED BY <1>0, <1>2, <1>5, <3>2, <4>1, ConstantsAssumption
      <3> QED BY <3>1, <3>2
    <2> QED BY <2>1, <2>2 DEF Fenced
  <1>7. CallsOnTerms' /\ StartsUnpaid' /\ CommitsPaid'
    <2>1. CallsOnTerms'
      BY <1>a, <1>2 DEF PayInv, CallsOnTerms, OnTerms, SameInputs
    <2>2. StartsUnpaid'
      BY <1>a, <1>2 DEF PayInv, StartsUnpaid, Pays
    <2>3. CommitsPaid'
      BY <1>a, <1>2 DEF PayInv, CommitsPaid, Pays
    <2> QED BY <2>1, <2>2, <2>3
  <1>8. OpsOnTerms' /\ PaidOnce' /\ LinksPaid'
    BY <1>0 DEF PayInv, OpsOnTerms, PaidOnce, LinksPaid, OnTerms, SameInputs, Pays
  <1> QED BY <1>3, <1>6, <1>7, <1>8 DEF PayInv

\* What a call's update of its step and operation leaves.
LEMMA MovedCall ==
  ASSUME NEW k \in BusyCalls, NEW st \in Steps, NEW o \in OpIds \cup {None}
  PROVE  [k EXCEPT !.pc = st, !.op = o] =
           [pc |-> st, req |-> k.req, scope |-> k.scope, dest |-> k.dest, op |-> o]
  <1> DEFINE n == [k EXCEPT !.pc = st, !.op = o]
  <1>1. /\ n \in BusyCalls
        /\ n.pc = st /\ n.req = k.req /\ n.scope = k.scope /\ n.dest = k.dest /\ n.op = o
    BY DEF BusyCalls
  <1> HIDE DEF n
  <1>2. n = [pc |-> st, req |-> k.req, scope |-> k.scope, dest |-> k.dest, op |-> o]
    BY <1>1 DEF BusyCalls
  <1> QED BY <1>2 DEF n

\* A fenced call that moves on in its fence, on its terms.
LEMMA FencedMove ==
  ASSUME PayInv, NEW c \in Callers, NEW st \in {"start", "commit"}, NEW o \in OpIds \cup {None},
         call[c].pc \in {"find", "start"},
         call' = [call EXCEPT ![c] = [call[c] EXCEPT !.pc = st, !.op = o]],
         UNCHANGED <<lock, jobs, setting, live, claims>>
  PROVE  /\ call'[c] = [pc |-> st, req |-> call[c].req, scope |-> call[c].scope,
                        dest |-> call[c].dest, op |-> o]
         /\ \A d \in Callers : d # c => call'[d] = call[d]
         /\ call' \in [Callers -> CallType]
         /\ Fenced' /\ CallsOnTerms'
  <1>0. [call[c] EXCEPT !.pc = st, !.op = o] =
          [pc |-> st, req |-> call[c].req, scope |-> call[c].scope, dest |-> call[c].dest,
           op |-> o]
    <2>1. call[c] \in BusyCalls /\ st \in Steps
      BY BusyCall DEF Steps
    <2> QED BY <2>1, MovedCall
  <1>1. /\ call'[c] = [pc |-> st, req |-> call[c].req, scope |-> call[c].scope,
                       dest |-> call[c].dest, op |-> o]
        /\ \A d \in Callers : d # c => call'[d] = call[d]
    BY <1>0 DEF PayInv, Shapes
  <1>2. call' \in [Callers -> CallType]
    BY <1>1, BusyCall DEF PayInv, Shapes, CallType, BusyCalls, Steps
  <1>3. Fenced'
    BY <1>1 DEF PayInv, Shapes, Fenced
  <1>4. CallsOnTerms'
    BY <1>1 DEF PayInv, CallsOnTerms, OnTerms, SameInputs
  <1> QED BY <1>1, <1>2, <1>3, <1>4

\* The payments a wallet's log shows for a request on terms are all there are.
LEMMA MarkedIsAll ==
  ASSUME PayInv, NEW c \in Callers, call[c].pc \in {"find", "lookup"}
  PROVE  Marked(call[c].scope, call[c].req) = {o \in OpIds : Pays(o, call[c].req)}
  BY DEF PayInv, CallsOnTerms, OpsOnTerms, OnTerms, SameInputs, Marked, Outgoing, Pays

\* An earlier payment is adopted; none found is none made.
LEMMA RecoverKeepsPayInv ==
  ASSUME PayInv, NEW c \in Callers, Recover(c)
  PROVE  PayInv'
  <1> DEFINE k == call[c]
             m == Marked(k.scope, k.req)
  <1>0. k.pc = "find" /\ UNCHANGED <<jobs, setting, live, ops, balance, claims>>
    BY DEF Recover
  <1>1. m = {o \in OpIds : Pays(o, k.req)}
    BY <1>0, MarkedIsAll
  <1>2. OpsOnTerms' /\ PaidOnce' /\ LinksPaid'
    BY <1>0 DEF PayInv, OpsOnTerms, PaidOnce, LinksPaid, OnTerms, SameInputs, Pays
  <1>3. k.op \in OpIds \cup {None}
    BY <1>0, BusyCall
  <1>4. CASE Found(k.scope, k.req, k.dest) = "one"
    <2>1. m # {}
      BY <1>4 DEF Found
    <2> DEFINE o == CHOOSE x \in m : TRUE
    <2>2. o \in OpIds /\ Pays(o, k.req)
      BY <1>1, <2>1
    <2>3. call' = [call EXCEPT ![c] = [k EXCEPT !.pc = "commit", !.op = o]] /\ UNCHANGED lock
      BY <1>4 DEF Recover
    <2> HIDE DEF o
    <2>4. /\ call'[c] = [pc |-> "commit", req |-> k.req, scope |-> k.scope,
                         dest |-> k.dest, op |-> o]
          /\ \A d \in Callers : d # c => call'[d] = call[d]
          /\ call' \in [Callers -> CallType]
          /\ Fenced' /\ CallsOnTerms'
      BY <1>0, <2>2, <2>3, FencedMove
    <2>5. Shapes'
      BY <1>0, <2>3, <2>4 DEF PayInv, Shapes
    <2>6. StartsUnpaid' /\ CommitsPaid'
      <3>1. StartsUnpaid'
        BY <1>0, <2>4 DEF PayInv, StartsUnpaid, Pays
      <3>2. ASSUME NEW d \in Callers, call'[d].pc = "commit"
            PROVE  call'[d].op \in OpIds /\ Pays(call'[d].op, call'[d].req)
        <4>1. CASE d = c
          BY <2>2, <2>4, <4>1
        <4>2. CASE d # c
          BY <2>4, <3>2, <4>2 DEF PayInv, CommitsPaid
        <4> QED BY <4>1, <4>2
      <3>3. CommitsPaid'
        BY <1>0, <3>2 DEF CommitsPaid, Pays
      <3> QED BY <3>1, <3>3
    <2> QED BY <1>2, <2>4, <2>5, <2>6 DEF PayInv
  <1>5. CASE Found(k.scope, k.req, k.dest) = "none"
    <2>1. \A o \in OpIds : ~ Pays(o, k.req)
      BY <1>1, <1>5 DEF Found
    <2>2. call' = [call EXCEPT ![c].pc = "start"] /\ UNCHANGED lock
      BY <1>5 DEF Recover
    <2>3. call' = [call EXCEPT ![c] = [k EXCEPT !.pc = "start", !.op = k.op]]
      BY <2>2, <1>0, BusyCall
    <2>4. /\ call'[c] = [pc |-> "start", req |-> k.req, scope |-> k.scope,
                         dest |-> k.dest, op |-> k.op]
          /\ \A d \in Callers : d # c => call'[d] = call[d]
          /\ call' \in [Callers -> CallType]
          /\ Fenced' /\ CallsOnTerms'
      BY <1>0, <1>3, <2>2, <2>3, FencedMove
    <2>5. Shapes'
      BY <1>0, <2>2, <2>4 DEF PayInv, Shapes
    <2>6. StartsUnpaid' /\ CommitsPaid'
      BY <1>0, <2>1, <2>4 DEF PayInv, StartsUnpaid, CommitsPaid, Pays
    <2> QED BY <1>2, <2>4, <2>5, <2>6 DEF PayInv
  <1>6. CASE Found(k.scope, k.req, k.dest) \notin {"one", "none"}
    BY <1>0, <1>6, EndKeepsPayInv DEF Recover
  <1> QED BY <1>4, <1>5, <1>6

\* A payment starts: its request had none, and no other call is about to start
\* one, because that call would hold the same fence.
LEMMA StartKeepsPayInv ==
  ASSUME PayInv, NEW c \in Callers, StartNative(c)
  PROVE  PayInv'
  <1> DEFINE k == call[c]
  <1>1. k.pc = "start" /\ UNCHANGED <<jobs, setting, live, claims, lock>>
    BY DEF StartNative
  <1>2. PICK o \in OpIds :
          /\ ops[o] = None
          /\ ops' = [ops EXCEPT ![o] = [req |-> k.req, dest |-> k.dest, scope |-> k.scope,
                                        active |-> TRUE, state |-> "none"]]
          /\ call' = [call EXCEPT ![c] = [k EXCEPT !.pc = "commit", !.op = o]]
    BY DEF StartNative
  <1>3. /\ k.req \in Requests /\ k.scope \in Scopes /\ k.dest \in Destinations
        /\ OnTerms(k) /\ lock[k.scope] = c /\ \A p \in OpIds : ~ Pays(p, k.req)
    BY <1>1, BusyCall DEF PayInv, CallsOnTerms, Fenced, StartsUnpaid
  <1>4. /\ call'[c] = [pc |-> "commit", req |-> k.req, scope |-> k.scope,
                       dest |-> k.dest, op |-> o]
        /\ \A d \in Callers : d # c => call'[d] = call[d]
        /\ call' \in [Callers -> CallType]
        /\ Fenced' /\ CallsOnTerms'
    BY <1>1, <1>2, FencedMove
  <1>5. [req |-> k.req, dest |-> k.dest, scope |-> k.scope, active |-> TRUE,
         state |-> "none"] \in OutgoingOperation
    BY <1>3 DEF OutgoingOperation
  <1>6. /\ ops' \in [OpIds -> OutgoingOperation \cup {None}]
        /\ ops'[o] # None /\ ops'[o].req = k.req /\ ops'[o].scope = k.scope
        /\ ops'[o].dest = k.dest
        /\ \A p \in OpIds : p # o => ops'[p] = ops[p]
    BY <1>2, <1>5, ConstantsAssumption DEF PayInv, Shapes
  <1>7. Shapes'
    <2>1. balance' \in [Scopes -> 0..1]
      BY <1>3 DEF PayInv, Shapes, StartNative
    <2> QED BY <1>1, <1>4, <1>6, <2>1 DEF PayInv, Shapes
  <1>8. OpsOnTerms'
    BY <1>1, <1>3, <1>6 DEF PayInv, OpsOnTerms, OnTerms, SameInputs
  <1>9. PaidOnce'
    BY <1>3, <1>6 DEF PayInv, PaidOnce, Pays
  <1>10. StartsUnpaid'
    <2> SUFFICES ASSUME NEW d \in Callers, call'[d].pc = "start", NEW p \in OpIds
                 PROVE  ~ Pays(p, call[d].req)'
      BY DEF StartsUnpaid
    <2>1. d # c /\ call'[d] = call[d]
      BY <1>4
    <2>2. call[d].req # k.req
      <3>1. /\ call[d].scope \in Scopes /\ lock[call[d].scope] = d
            /\ OnTerms(call[d])
        BY <2>1, BusyCall DEF PayInv, Fenced, CallsOnTerms
      <3> QED BY <1>3, <2>1, <3>1 DEF OnTerms, SameInputs
    <2>3. ~ Pays(p, call[d].req)
      BY <2>1 DEF PayInv, StartsUnpaid
    <2> QED BY <1>6, <2>1, <2>2, <2>3 DEF Pays
  <1>11. CommitsPaid'
    <2> SUFFICES ASSUME NEW d \in Callers, call'[d].pc = "commit"
                 PROVE  (call[d].op \in OpIds /\ Pays(call[d].op, call[d].req))'
      BY DEF CommitsPaid
    <2>1. CASE d = c
      BY <1>4, <1>6, <2>1 DEF Pays
    <2>2. CASE d # c
      BY <1>2, <1>4, <1>6, <2>2 DEF PayInv, CommitsPaid, Pays
    <2> QED BY <2>1, <2>2
  <1>12. LinksPaid'
    BY <1>1, <1>2, <1>6, ConstantsAssumption DEF PayInv, Shapes, LinksPaid, Pays, JobType
  <1> QED BY <1>4, <1>7, <1>8, <1>9, <1>10, <1>11, <1>12 DEF PayInv

\* The link is written once, to a payment of the request.
LEMMA CommitKeepsPayInv ==
  ASSUME PayInv, NEW c \in Callers, Commit(c)
  PROVE  PayInv'
  <1> DEFINE k == call[c]
             row == jobs[k.req]
  <1>1. /\ k.pc = "commit" /\ jobs' = [jobs EXCEPT ![k.req].op = IF @ = None THEN k.op ELSE @]
        /\ Ended(c) /\ UNCHANGED <<setting, live, ops, balance, claims>>
    BY DEF Commit, Committed
  <1>2. /\ k.req \in Requests /\ row \in JobType /\ k.op \in OpIds /\ Pays(k.op, k.req)
    BY <1>1, BusyCall DEF PayInv, Shapes, CallsOnTerms, OnTerms, CommitsPaid
  <1>3. /\ jobs' \in [Requests -> JobType \cup {None}]
        /\ jobs'[k.req] \in JobType
        /\ jobs'[k.req].scope = row.scope /\ jobs'[k.req].dest = row.dest
        /\ jobs'[k.req].op = IF row.op = None THEN k.op ELSE row.op
        /\ \A r \in Requests : r # k.req => jobs'[r] = jobs[r]
    BY <1>1, <1>2 DEF PayInv, Shapes, JobType
  <1>4. \A r \in Requests : jobs[r] # None =>
          /\ jobs'[r] # None
          /\ jobs'[r].scope = jobs[r].scope /\ jobs'[r].dest = jobs[r].dest
    BY <1>3, ConstantsAssumption
  <1>5. LinksPaid'
    <2> SUFFICES ASSUME NEW r \in Requests, jobs'[r] # None, jobs'[r].op # None
                 PROVE  Pays(jobs'[r].op, r)
      BY <1>1 DEF LinksPaid, Pays
    <2>1. CASE r = k.req
      BY <1>2, <1>3, <2>1, ConstantsAssumption DEF PayInv, LinksPaid
    <2>2. CASE r # k.req
      BY <1>3, <2>2 DEF PayInv, LinksPaid
    <2> QED BY <2>1, <2>2
  <1>6. OpsOnTerms'
    BY <1>1, <1>4 DEF PayInv, Shapes, OpsOnTerms, OnTerms, SameInputs, OutgoingOperation
  <1>7. PaidOnce'
    BY <1>1 DEF PayInv, PaidOnce, Pays
  <1>8. Idle \in CallType /\ Idle.pc = "idle"
    BY DEF CallType, BusyCalls, Steps, Idle
  <1>9. call'[c] = Idle /\ \A d \in Callers : d # c => call'[d] = call[d]
    BY <1>1 DEF PayInv, Shapes, Ended
  <1>10. CallsOnTerms'
    <2> SUFFICES ASSUME NEW d \in Callers,
                        call'[d].pc \in {"lock", "find", "start", "commit", "lookup"}
                 PROVE  OnTerms(call[d])'
      BY DEF CallsOnTerms
    <2>1. call'[d] = call[d] /\ call[d].req \in Requests /\ OnTerms(call[d])
      BY <1>8, <1>9, BusyCall DEF PayInv, CallsOnTerms
    <2> QED BY <1>4, <2>1 DEF OnTerms, SameInputs
  <1>11. StartsUnpaid' /\ CommitsPaid'
    BY <1>1, <1>8, <1>9 DEF PayInv, StartsUnpaid, CommitsPaid, Pays
  <1>12. Shapes'
    BY <1>1, <1>3, <1>8 DEF PayInv, Shapes, Ended
  <1>13. Fenced'
    <2>1. ASSUME NEW s \in Scopes, lock'[s] # None
          PROVE  /\ call'[lock'[s]].scope = s
                 /\ call'[lock'[s]].pc \in {"find", "start", "commit"}
      BY <1>1, <2>1, ConstantsAssumption DEF PayInv, Shapes, Fenced, Ended
    <2>2. ASSUME NEW d \in Callers, call'[d].pc \in {"find", "start"}
          PROVE  lock'[call'[d].scope] = d
      <3>1. d # c /\ call'[d] = call[d]
        BY <1>8, <1>9, <2>2
      <3>2. call[d].scope \in Scopes /\ lock[call[d].scope] = d
        BY <2>2, <3>1, BusyCall DEF PayInv, Fenced
      <3> QED BY <1>1, <3>1, <3>2 DEF Ended
    <2> QED BY <2>1, <2>2 DEF Fenced
  <1> QED BY <1>5, <1>6, <1>7, <1>10, <1>11, <1>12, <1>13 DEF PayInv

\* The rail and the state machines change how far a payment is, not whose it is.
SamePayment(o) ==
    /\ (ops'[o] = None) <=> (ops[o] = None)
    /\ ops[o] # None => /\ ops'[o].req = ops[o].req /\ ops'[o].scope = ops[o].scope
                        /\ ops'[o].dest = ops[o].dest

\* What the rail and the clients do to an operation leaves its request, its
\* wallet and its destination as start_payout wrote them.
LEMMA RailKeepsPayments ==
  ASSUME PayInv, NEW o \in OpIds, RailEnds(o) \/ OpSettles(o)
  PROVE  /\ ops' \in [OpIds -> OutgoingOperation \cup {None}]
         /\ \A p \in OpIds : SamePayment(p)
  <1>1. ops[o] \in OutgoingOperation
    BY DEF PayInv, Shapes, RailEnds, OpSettles
  <1>2. CASE RailEnds(o)
    <2>1. PICK out \in {"ok", "failed"} : ops' = [ops EXCEPT ![o].state = out]
      BY <1>2 DEF RailEnds
    <2>2. [ops[o] EXCEPT !.state = out] \in OutgoingOperation
      BY <1>1 DEF OutgoingOperation
    <2> QED BY <1>1, <2>1, <2>2, ConstantsAssumption DEF PayInv, Shapes, SamePayment, OutgoingOperation
  <1>3. CASE OpSettles(o)
    <2>1. ops' = [ops EXCEPT ![o].active = FALSE]
      BY <1>3 DEF OpSettles
    <2>2. [ops[o] EXCEPT !.active = FALSE] \in OutgoingOperation
      BY <1>1 DEF OutgoingOperation
    <2> QED BY <1>1, <2>1, <2>2, ConstantsAssumption DEF PayInv, Shapes, SamePayment, OutgoingOperation
  <1> QED BY <1>2, <1>3

\* A step that leaves rows, fences, calls and the identity of payments alone.
LEMMA OutsideKeepsPayInv ==
  ASSUME PayInv, UNCHANGED <<jobs, lock, call>>, Shapes', \A o \in OpIds : SamePayment(o)
  PROVE  PayInv'
  <1>1. \A o \in OpIds, r \in Requests : Pays(o, r)' <=> Pays(o, r)
    BY DEF Pays, SamePayment
  <1>2. Fenced' /\ CallsOnTerms'
    BY DEF PayInv, Fenced, CallsOnTerms, OnTerms, SameInputs
  <1>3. OpsOnTerms'
    BY DEF PayInv, OpsOnTerms, OnTerms, SameInputs, SamePayment
  <1>4. PaidOnce'
    BY <1>1 DEF PayInv, PaidOnce
  <1>5. StartsUnpaid'
    BY <1>1, BusyCall DEF PayInv, StartsUnpaid
  <1>6. CommitsPaid'
    BY <1>1, BusyCall DEF PayInv, CommitsPaid
  <1>7. LinksPaid'
    BY <1>1 DEF PayInv, Shapes, LinksPaid, JobType
  <1> QED BY <1>2, <1>3, <1>4, <1>5, <1>6, <1>7 DEF PayInv

\* Every step of the worker, of the wallets and of the operator keeps it.
LEMMA PayInvNext == PayInv /\ [Next]_vars => PayInv'
  <1> SUFFICES ASSUME PayInv, [Next]_vars
               PROVE  PayInv'
    OBVIOUS
  <1>1. ASSUME NEW c \in Callers, NEW r \in Requests, StatusRead(c, r)
        PROVE  PayInv'
    <2> DEFINE k == [pc |-> "lookup", req |-> r, scope |-> jobs[r].scope,
                     dest |-> jobs[r].dest, op |-> None]
    <2>1. /\ call[c] = Idle /\ jobs[r] # None /\ call' = [call EXCEPT ![c] = k]
          /\ UNCHANGED <<jobs, setting, live, ops, balance, claims, lock>>
      BY <1>1 DEF StatusRead
    <2>2. k \in CallType /\ k.pc = "lookup" /\ OnTerms(k)
      BY <2>1 DEF PayInv, Shapes, CallType, BusyCalls, Steps, JobType, OnTerms, SameInputs
    <2>3. call[c].pc = "idle"
      BY <2>1 DEF Idle
    <2> HIDE DEF k
    <2> QED BY <2>1, <2>2, <2>3, UnfencedMove
  <1>2. ASSUME NEW c \in Callers, NEW r \in Requests, NEW s \in Scopes, Sweep(c, r, s)
        PROVE  PayInv'
    <2>1. call[c].pc = "idle" /\ UNCHANGED <<jobs, setting, live, ops, balance, claims, lock>>
      BY <1>2 DEF Sweep, Idle
    <2>2. CASE jobs[r] # None
      <3> DEFINE k == [pc |-> "lock", req |-> r, scope |-> s, dest |-> jobs[r].dest, op |-> None]
      <3>1. jobs[r].scope = s /\ call' = [call EXCEPT ![c] = k]
        BY <1>2, <2>2 DEF Sweep
      <3>2. k \in CallType /\ k.pc = "lock" /\ OnTerms(k)
        BY <2>2, <3>1 DEF PayInv, Shapes, CallType, BusyCalls, Steps, JobType, OnTerms, SameInputs
      <3> HIDE DEF k
      <3> QED BY <2>1, <3>1, <3>2, UnfencedMove
    <2>3. CASE jobs[r] = None
      <3> DEFINE k == [pc |-> "create", req |-> r, scope |-> s, dest |-> setting, op |-> None]
      <3>1. setting # None /\ call' = [call EXCEPT ![c] = k]
        BY <1>2, <2>3 DEF Sweep
      <3>2. k \in CallType /\ k.pc = "create"
        BY <3>1 DEF PayInv, Shapes, CallType, BusyCalls, Steps
      <3> HIDE DEF k
      <3> QED BY <2>1, <3>1, <3>2, UnfencedMove
    <2> QED BY <2>2, <2>3
  <1>3. ASSUME NEW c \in Callers, StatusFind(c)
        PROVE  PayInv'
    <2> DEFINE m == Marked(call[c].scope, call[c].req)
               o == CHOOSE x \in m : TRUE
    <2>1. call[c].pc = "lookup" /\ UNCHANGED <<jobs, setting, live, ops, balance, claims, lock>>
      BY <1>3 DEF StatusFind
    <2>2. call[c] \in BusyCalls /\ OnTerms(call[c])
      BY <2>1, BusyCall DEF PayInv, CallsOnTerms
    <2>3. CASE Found(call[c].scope, call[c].req, call[c].dest) = "one"
      <3>1. m # {}
        BY <2>3 DEF Found
      <3>2. o \in OpIds /\ Pays(o, call[c].req)
        BY <2>1, <3>1, MarkedIsAll
      <3>3. call' = [call EXCEPT ![c] = [call[c] EXCEPT !.pc = "commit", !.op = o]]
        BY <1>3, <2>3 DEF StatusFind
      <3> HIDE DEF o
      <3> DEFINE k == [pc |-> "commit", req |-> call[c].req, scope |-> call[c].scope,
                       dest |-> call[c].dest, op |-> o]
      <3>4. [call[c] EXCEPT !.pc = "commit", !.op = o] = k
        BY <2>2, <3>2, MovedCall DEF Steps
      <3>5. k \in CallType /\ k.pc = "commit" /\ k.op \in OpIds /\ Pays(k.op, k.req) /\ OnTerms(k)
        BY <2>2, <3>2 DEF CallType, BusyCalls, Steps, OnTerms, SameInputs
      <3>6. call' = [call EXCEPT ![c] = k]
        BY <3>3, <3>4
      <3> HIDE DEF k
      <3> QED BY <2>1, <3>5, <3>6, UnfencedMove
    <2>4. CASE Found(call[c].scope, call[c].req, call[c].dest) # "one"
      <3>1. call' = [call EXCEPT ![c] = Idle]
        BY <1>3, <2>4 DEF StatusFind
      <3>2. Idle \in CallType /\ Idle.pc = "idle"
        BY DEF CallType, Idle
      <3> QED BY <2>1, <3>1, <3>2, UnfencedMove
    <2> QED BY <2>3, <2>4
  <1>4. ASSUME NEW c \in Callers, NothingToSweep(c) \/ CutOff(c)
        PROVE  PayInv'
    BY <1>4, EndKeepsPayInv DEF NothingToSweep, CutOff
  <1>5. ASSUME Crash
        PROVE  PayInv'
    <2>1. /\ call' = [c \in Callers |-> Idle] /\ lock' = [s \in Scopes |-> None]
          /\ UNCHANGED <<jobs, setting, live, ops, balance, claims>>
      BY <1>5 DEF Crash
    <2>2. Idle \in CallType /\ Idle.pc = "idle"
      BY DEF CallType, Idle
    <2>3. Shapes' /\ Fenced'
      BY <2>1, <2>2 DEF PayInv, Shapes, Fenced
    <2>4. CallsOnTerms' /\ StartsUnpaid' /\ CommitsPaid'
      BY <2>1, <2>2 DEF CallsOnTerms, StartsUnpaid, CommitsPaid
    <2>5. OpsOnTerms' /\ PaidOnce' /\ LinksPaid'
      BY <2>1 DEF PayInv, OpsOnTerms, PaidOnce, LinksPaid, OnTerms, SameInputs, Pays
    <2> QED BY <2>3, <2>4, <2>5 DEF PayInv
  <1>6. ASSUME NEW o \in OpIds, RailEnds(o) \/ OpSettles(o)
        PROVE  PayInv'
    <2>1. /\ ops' \in [OpIds -> OutgoingOperation \cup {None}]
          /\ \A p \in OpIds : SamePayment(p)
      BY <1>6, RailKeepsPayments
    <2>2. balance' \in [Scopes -> 0..1]
      BY <1>6 DEF PayInv, Shapes, RailEnds, OpSettles
    <2>3. UNCHANGED <<jobs, setting, live, claims, lock, call>>
      BY <1>6 DEF RailEnds, OpSettles
    <2>4. Shapes'
      BY <2>1, <2>2, <2>3 DEF PayInv, Shapes
    <2> QED BY <2>1, <2>3, <2>4, OutsideKeepsPayInv
  <1>7. ASSUME NEW s \in Scopes, ClaimStarts(s) \/ ClaimSettles(s)
        PROVE  PayInv'
    <2>0. claims' \in [Scopes -> BOOLEAN]
      BY <1>7, Zenon DEF PayInv, Shapes, ClaimStarts, ClaimSettles
    <2>1. balance' \in [Scopes -> 0..1]
      BY <1>7 DEF PayInv, Shapes, ClaimStarts, ClaimSettles
    <2>2. UNCHANGED <<jobs, setting, live, ops, lock, call>>
      BY <1>7 DEF ClaimStarts, ClaimSettles
    <2>3. Shapes' /\ \A o \in OpIds : SamePayment(o)
      BY <2>0, <2>1, <2>2 DEF PayInv, Shapes, SamePayment
    <2> QED BY <2>2, <2>3, OutsideKeepsPayInv
  <1>8. CASE \/ \E d \in Destinations \cup {None} : SetDestination(d)
             \/ \E s \in Guardians : SeatGone(s)
    <2>1. /\ setting' \in Destinations \cup {None} /\ live' \subseteq Guardians
          /\ UNCHANGED <<jobs, ops, balance, claims, lock, call>>
      BY <1>8 DEF PayInv, Shapes, SetDestination, SeatGone
    <2>2. Shapes' /\ \A o \in OpIds : SamePayment(o)
      BY <2>1 DEF PayInv, Shapes, SamePayment
    <2> QED BY <2>1, <2>2, OutsideKeepsPayInv
  <1>9. ASSUME UNCHANGED <<jobs, setting, live, ops, balance, claims, lock, call>>
        PROVE  PayInv'
    <2>1. Shapes' /\ \A o \in OpIds : SamePayment(o)
      BY <1>9 DEF PayInv, Shapes, SamePayment
    <2> QED BY <1>9, <2>1, OutsideKeepsPayInv
  <1>10. CASE \/ \E s \in Queried : DrainQuery(s)
              \/ ReadBalance \/ ReadOutgoing \/ AgainActive \/ AgainBalance
              \/ QueryAnswered \/ QueryReported \/ UNCHANGED vars
    BY <1>9, <1>10
    DEF DrainQuery, ReadBalance, ReadOutgoing, AgainActive, AgainBalance, QueryStep,
        QueryAnswered, QueryReported, vars
  <1> QED
    BY <1>1, <1>2, <1>3, <1>4, <1>5, <1>6, <1>7, <1>8, <1>10, CreateKeepsPayInv,
       TakeLockKeepsPayInv, RecoverKeepsPayInv, StartKeepsPayInv, CommitKeepsPayInv
    DEF Next, CallStep

\* The invariant of the payouts holds of every reachable state.
LEMMA PayInvAlways == Spec => []PayInv
  BY PayInvInit, PayInvNext, PTL DEF Spec

-----------------------------------------------------------------------------
(* What PayOnce sees of a step. *)

\* Rows that stand are the same promises.
LEMMA SameJobsSameTerms ==
  ASSUME UNCHANGED jobs
  PROVE  Promised' = Promised /\ Linked' = Linked
  BY DEF Promised, Linked

\* Operations that stand are the same payments.
LEMMA SamePaymentsMade ==
  ASSUME \A o \in OpIds : SamePayment(o)
  PROVE  PaymentsMade' = PaymentsMade
  <1>1. ASSUME NEW r \in Requests
        PROVE  {<<o, <<ops'[o].scope, ops'[o].dest>>>> :
                   o \in {p \in OpIds : ops'[p] # None /\ ops'[p].req = r}}
             = {<<o, <<ops[o].scope, ops[o].dest>>>> :
                   o \in {p \in OpIds : ops[p] # None /\ ops[p].req = r}}
    <2>1. {p \in OpIds : ops'[p] # None /\ ops'[p].req = r}
            = {p \in OpIds : ops[p] # None /\ ops[p].req = r}
      BY DEF SamePayment
    <2>2. \A o \in {p \in OpIds : ops[p] # None /\ ops[p].req = r} :
            ops'[o].scope = ops[o].scope /\ ops'[o].dest = ops[o].dest
      BY DEF SamePayment
    <2> QED BY <2>1, <2>2
  <1> QED BY <1>1 DEF PaymentsMade

\* Creating a row is the promise of its request.
LEMMA CreateIsPromise ==
  ASSUME PayInv, NEW c \in Callers, Create(c)
  PROVE  [Once!Next]_(Once!vars)
  <1> DEFINE k == call[c]
             new == [scope |-> k.scope, dest |-> k.dest, op |-> None]
  <1>1. /\ k.pc = "create" /\ UNCHANGED ops
        /\ jobs' = [jobs EXCEPT ![k.req] = IF jobs[k.req] = None THEN new ELSE jobs[k.req]]
    BY DEF Create
  <1>2. k.req \in Requests /\ k.scope \in Scopes /\ k.dest \in Destinations
    BY <1>1, BusyCall
  <1>3. PaymentsMade' = PaymentsMade
    BY <1>1, SamePaymentsMade DEF SamePayment
  <1>4. CASE jobs[k.req] # None
    <2>1. jobs' = jobs
      BY <1>1, <1>2, <1>4 DEF PayInv, Shapes
    <2> QED BY <1>3, <2>1, SameJobsSameTerms DEF Once!vars
  <1>5. CASE jobs[k.req] = None
    <2>1. new \in JobType /\ new # None
      BY <1>2, ConstantsAssumption DEF JobType
    <2>2. /\ jobs'[k.req] = new /\ \A r \in Requests : r # k.req => jobs'[r] = jobs[r]
      BY <1>1, <1>2, <1>5 DEF PayInv, Shapes
    <2>3. Linked' = Linked
      BY <1>5, <2>1, <2>2 DEF Linked
    <2>4. Promised[k.req] = None
      BY <1>2, <1>5 DEF Promised
    <2>5. <<k.scope, k.dest>> \in Scopes \X Destinations
      BY <1>2
    <2>6. Promised' = [Promised EXCEPT ![k.req] = <<k.scope, k.dest>>]
      <3>1. Promised'[k.req] = <<k.scope, k.dest>>
        BY <1>2, <2>1, <2>2 DEF Promised
      <3>2. \A r \in Requests : r # k.req => Promised'[r] = Promised[r]
        BY <2>2 DEF Promised
      <3> QED BY <1>2, <3>1, <3>2 DEF Promised
    <2> QED BY <1>2, <1>3, <2>3, <2>4, <2>5, <2>6 DEF Once!Next, Once!Promise
  <1> QED BY <1>4, <1>5

\* Starting the native operation is the payment of its request.
LEMMA StartIsPayment ==
  ASSUME PayInv, NEW c \in Callers, StartNative(c)
  PROVE  [Once!Next]_(Once!vars)
  <1> DEFINE k == call[c]
             new == [req |-> k.req, dest |-> k.dest, scope |-> k.scope,
                     active |-> TRUE, state |-> "none"]
  <1>1. k.pc = "start" /\ UNCHANGED jobs
    BY DEF StartNative
  <1>2. PICK o \in OpIds : ops[o] = None /\ ops' = [ops EXCEPT ![o] = new]
    BY DEF StartNative
  <1>3. /\ k.req \in Requests /\ k.scope \in Scopes /\ k.dest \in Destinations
        /\ OnTerms(k) /\ \A p \in OpIds : ~ Pays(p, k.req)
    BY <1>1, BusyCall DEF PayInv, CallsOnTerms, StartsUnpaid
  <1>4. new \in OutgoingOperation /\ new # None
    <2>1. new \in OutgoingOperation
      BY <1>3 DEF OutgoingOperation
    <2> QED BY <2>1, ConstantsAssumption
  <1>5. /\ ops'[o] = new /\ \A p \in OpIds : p # o => ops'[p] = ops[p]
    BY <1>2 DEF PayInv, Shapes
  <1>6. Promised' = Promised /\ Linked' = Linked
    BY <1>1, SameJobsSameTerms
  <1>7. Promised[k.req] = <<k.scope, k.dest>> /\ Promised[k.req] # None
    BY <1>3, ConstantsAssumption DEF Promised, OnTerms, SameInputs
  <1>8. PaymentsMade[k.req] = {}
    BY <1>3 DEF PaymentsMade, Pays
  <1>9. PaymentsMade' = [PaymentsMade EXCEPT ![k.req] = {<<o, Promised[k.req]>>}]
    <2>1. {p \in OpIds : ops'[p] # None /\ ops'[p].req = k.req} = {o}
      BY <1>3, <1>4, <1>5 DEF Pays
    <2>2. PaymentsMade'[k.req] = {<<o, <<k.scope, k.dest>>>>}
      BY <1>3, <1>5, <2>1 DEF PaymentsMade
    <2>3. ASSUME NEW r \in Requests, r # k.req
          PROVE  PaymentsMade'[r] = PaymentsMade[r]
      <3>1. {p \in OpIds : ops'[p] # None /\ ops'[p].req = r}
              = {p \in OpIds : ops[p] # None /\ ops[p].req = r}
        BY <1>2, <1>5, <2>3
      <3>2. \A p \in {x \in OpIds : ops[x] # None /\ ops[x].req = r} : ops'[p] = ops[p]
        BY <1>2, <1>5
      <3> QED BY <3>1, <3>2 DEF PaymentsMade
    <2> QED BY <1>3, <1>7, <2>2, <2>3 DEF PaymentsMade
  <1> QED BY <1>3, <1>6, <1>7, <1>8, <1>9 DEF Once!Next, Once!Pay

\* The commit links the row to that payment, once.
LEMMA CommitIsLink ==
  ASSUME PayInv, NEW c \in Callers, Commit(c)
  PROVE  [Once!Next]_(Once!vars)
  <1> DEFINE k == call[c]
             row == jobs[k.req]
  <1>1. /\ k.pc = "commit" /\ jobs' = [jobs EXCEPT ![k.req].op = IF @ = None THEN k.op ELSE @]
        /\ UNCHANGED ops
    BY DEF Commit, Committed
  <1>2. /\ k.req \in Requests /\ row \in JobType /\ row # None /\ k.op \in OpIds
        /\ Pays(k.op, k.req)
    BY <1>1, BusyCall DEF PayInv, Shapes, CallsOnTerms, OnTerms, CommitsPaid
  <1>3. /\ jobs'[k.req] \in JobType
        /\ jobs'[k.req].scope = row.scope /\ jobs'[k.req].dest = row.dest
        /\ jobs'[k.req].op = IF row.op = None THEN k.op ELSE row.op
        /\ \A r \in Requests : r # k.req => jobs'[r] = jobs[r]
    BY <1>1, <1>2 DEF PayInv, Shapes, JobType
  <1>4. jobs'[k.req] # None
    BY <1>3, ConstantsAssumption
  <1>5. PaymentsMade' = PaymentsMade
    BY <1>1, SamePaymentsMade DEF SamePayment
  <1>6. Promised' = Promised
    BY <1>2, <1>3, <1>4 DEF Promised
  <1>7. CASE row.op # None
    <2>1. Linked' = Linked
      BY <1>2, <1>3, <1>4, <1>7 DEF Linked
    <2> QED BY <1>5, <1>6, <2>1 DEF Once!vars
  <1>8. CASE row.op = None
    <2>1. Linked[k.req] = None
      BY <1>2, <1>8 DEF Linked
    <2>2. Linked' = [Linked EXCEPT ![k.req] = k.op]
      BY <1>2, <1>3, <1>4, <1>8 DEF Linked
    <2> DEFINE pay == <<k.op, <<ops[k.op].scope, ops[k.op].dest>>>>
    <2>3. pay \in PaymentsMade[k.req] /\ pay[1] = k.op
      BY <1>2 DEF PaymentsMade, Pays
    <2> HIDE DEF pay
    <2>4. \E p \in PaymentsMade[k.req] : Linked' = [Linked EXCEPT ![k.req] = p[1]]
      BY <2>2, <2>3
    <2> QED BY <1>2, <1>5, <1>6, <2>1, <2>4 DEF Once!Next, Once!Link
  <1> QED BY <1>7, <1>8

\* Every other step is one PayOnce does not see.
LEMMA OtherStepsUnseen ==
  ASSUME UNCHANGED jobs, \A o \in OpIds : SamePayment(o)
  PROVE  [Once!Next]_(Once!vars)
  BY SameJobsSameTerms, SamePaymentsMade DEF Once!vars

\* Every step of the payouts is a step of PayOnce, or one it does not see.
LEMMA StepImplements == PayInv /\ [Next]_vars => [Once!Next]_(Once!vars)
  <1> SUFFICES ASSUME PayInv, [Next]_vars
               PROVE  [Once!Next]_(Once!vars)
    OBVIOUS
  <1>1. ASSUME NEW c \in Callers, \/ TakeLock(c) \/ Recover(c) \/ NothingToSweep(c)
                                  \/ StatusFind(c) \/ CutOff(c)
        PROVE  UNCHANGED <<jobs, ops>>
    BY <1>1 DEF TakeLock, TakeLockIf, Recover, NothingToSweep, StatusFind, CutOff
  <1>2. ASSUME NEW c \in Callers, NEW r \in Requests,
               StatusRead(c, r) \/ \E s \in Scopes : Sweep(c, r, s)
        PROVE  UNCHANGED <<jobs, ops>>
    BY <1>2 DEF StatusRead, Sweep
  <1>3. ASSUME NEW o \in OpIds, RailEnds(o) \/ OpSettles(o)
        PROVE  UNCHANGED jobs /\ \A p \in OpIds : SamePayment(p)
    <2>1. \A p \in OpIds : SamePayment(p)
      BY <1>3, RailKeepsPayments
    <2>2. UNCHANGED jobs
      BY <1>3 DEF RailEnds, OpSettles
    <2> QED BY <2>1, <2>2
  <1>4. CASE \/ \E d \in Destinations \cup {None} : SetDestination(d)
             \/ \E s \in Guardians : SeatGone(s)
             \/ \E s \in Scopes : ClaimStarts(s) \/ ClaimSettles(s)
             \/ \E s \in Queried : DrainQuery(s)
             \/ ReadBalance \/ ReadOutgoing \/ AgainActive \/ AgainBalance
             \/ QueryAnswered \/ QueryReported \/ Crash \/ UNCHANGED vars
    <2>1. UNCHANGED <<jobs, ops>>
      BY <1>4
      DEF SetDestination, SeatGone, ClaimStarts, ClaimSettles, DrainQuery, ReadBalance,
          ReadOutgoing, AgainActive, AgainBalance, QueryStep, QueryAnswered, QueryReported,
          Crash, vars
    <2> QED BY <2>1, OtherStepsUnseen DEF SamePayment
  <1>5. ASSUME UNCHANGED <<jobs, ops>>
        PROVE  [Once!Next]_(Once!vars)
    BY <1>5, OtherStepsUnseen DEF SamePayment
  <1> QED
    BY <1>1, <1>2, <1>3, <1>4, <1>5, CreateIsPromise, StartIsPayment, CommitIsLink,
       OtherStepsUnseen
    DEF Next, CallStep

\* Payouts implement PayOnce, whatever the numbers of requests, wallets, calls
\* and destinations: money leaves once per request and on its row's terms, and
\* the row's link is to that payment for good (start_job, start_or_recover,
\* payout_store's create and commit).
THEOREM PayoutsImplementPayOnce == Spec => ImplementsPayOnce
  <1>1. Init => Once!Init
    BY DEF Init, Once!Init, Promised, PaymentsMade, Linked
  <1>2. PayInv /\ [Next]_vars => [Once!Next]_(Once!vars)
    BY StepImplements
  <1> QED BY <1>1, <1>2, PayInvAlways, PTL DEF Spec, ImplementsPayOnce, Once!Spec

\* The shapes of the rows and logs, and that the holder of a start fence is a
\* call in its wallet that has not returned (start_exclusion).
THEOREM PayoutTypes == Spec => []TypeOK
  <1>1. PayInv => TypeOK
    BY DEF PayInv, Shapes, Fenced, TypeOK
  <1> QED BY <1>1, PayInvAlways, PTL

-----------------------------------------------------------------------------
(* The drain query.  The second observation of the active set is the moment *)
(* that counts.  If it is empty and the wallet was not drained then, there  *)
(* was ecash left; if the balance read after it is zero, a payout took that *)
(* ecash, and it is in the second history and not in the first, so that the *)
(* two observations differ.                                                 *)

Reports == [op : OpIds, state : {"ok", "failed", "pending", "unknown"}, active : BOOLEAN]
Observed == ((SUBSET OpIds) \X BOOLEAN) \cup (0..1) \cup SUBSET Reports
Reads == {"balance", "outgoing", "again", "again balance", "again outgoing"}
Queries == [pc : Reads \cup {"idle", "done"}, scope : Scopes \cup {None},
            seen : Seq(Observed) \cup {None}, quiet : BOOLEAN,
            result : {"unknown", "pending", "sweepable", "drained", None}]

QueryShape ==
    /\ query \in Queries
    /\ query.pc \in Reads => query.scope \in Scopes /\ query.seen \in Seq(Observed)
    /\ query.pc = "balance" => Len(query.seen) = 1
    /\ query.pc = "outgoing" => Len(query.seen) = 2
    /\ query.pc = "again" => Len(query.seen) = 3
    /\ query.pc = "again balance" => Len(query.seen) = 4
    /\ query.pc = "again outgoing" => Len(query.seen) = 5 /\ query.seen[5] \in 0..1
    /\ query.pc # "done" => query.result = None

\* The first history is of operations that exist.
HistoryIsPast ==
    query.pc \in {"again", "again balance", "again outgoing"} =>
      \A x \in query.seen[3] : x.op \in OpIds /\ ops[x.op] # None

\* A payment of the queried wallet that the first history does not have.
PaidSince == \E o \in Outgoing(query.scope) : \A x \in query.seen[3] : x.op # o

QuietOrPaid ==
    /\ query.pc = "again balance" /\ query.seen[4] = <<{}, FALSE>> =>
         query.quiet \/ balance[query.scope] = 1 \/ PaidSince
    /\ query.pc = "again outgoing" /\ query.seen[4] = <<{}, FALSE>> /\ query.seen[5] = 0 =>
         query.quiet \/ PaidSince

DrainInv == QueryShape /\ HistoryIsPast /\ QuietOrPaid /\ DrainedWasTrue

\* No query runs at the start.
LEMMA DrainInvInit == Init => DrainInv
  BY ConstantsAssumption
  DEF Init, DrainInv, QueryShape, HistoryIsPast, QuietOrPaid, DrainedWasTrue, NoQuery, Queries, Reads

\* A query that is over, or that a crash cut off, claims nothing.
LEMMA NoQueryKeepsDrainInv ==
  ASSUME query' = NoQuery
  PROVE  DrainInv'
  BY ConstantsAssumption
  DEF DrainInv, QueryShape, HistoryIsPast, QuietOrPaid, DrainedWasTrue, NoQuery, Queries, Reads

\* Beside a query, operations are only added, and ecash only leaves with one.
BesideQuery ==
    /\ \A o \in OpIds : ops[o] # None => ops'[o] # None /\ ops'[o].scope = ops[o].scope
    /\ \A s \in Scopes : balance[s] = 1 =>
         \/ balance'[s] = 1
         \/ \E o \in OpIds : ops[o] = None /\ ops'[o] # None /\ ops'[o].scope = s

\* Payouts, refunds and claims beside a query leave its argument standing.
LEMMA OthersKeepDrainInv ==
  ASSUME PayInv, DrainInv, UNCHANGED query, BesideQuery
  PROVE  DrainInv'
  <1> USE DEF BesideQuery
  <1>1. QueryShape' /\ DrainedWasTrue'
    BY DEF DrainInv, QueryShape, DrainedWasTrue
  <1>2. HistoryIsPast'
    BY DEF DrainInv, HistoryIsPast
  <1>3. PaidSince => PaidSince'
    BY DEF PaidSince, Outgoing
  <1>4. ASSUME query.pc = "again balance", query.seen[4] = <<{}, FALSE>>
        PROVE  query.quiet \/ balance'[query.scope] = 1 \/ PaidSince'
    <2>1. query.quiet \/ balance[query.scope] = 1 \/ PaidSince
      BY <1>4 DEF DrainInv, QuietOrPaid
    <2>2. query.scope \in Scopes
      BY <1>4 DEF DrainInv, QueryShape, Reads
    <2>3. ASSUME NEW o \in OpIds, ops[o] = None, ops'[o] # None, ops'[o].scope = query.scope
          PROVE  PaidSince'
      <3>1. \A x \in query.seen[3] : x.op # o
        BY <1>4, <2>3 DEF DrainInv, HistoryIsPast
      <3> QED BY <2>3, <3>1 DEF PaidSince, Outgoing
    <2> QED BY <1>3, <2>1, <2>2, <2>3
  <1>5. QuietOrPaid'
    BY <1>3, <1>4 DEF DrainInv, QuietOrPaid
  <1> QED BY <1>1, <1>2, <1>5 DEF DrainInv

\* What a read adds to a query.
Adds(next, add) ==
    /\ query.scope' = query.scope /\ query.pc' = next /\ query.result' = None
    /\ query.seen' \in Seq(Observed) /\ Len(query.seen') = Len(query.seen) + 1
    /\ query.seen'[Len(query.seen) + 1] = add
    /\ \A i \in 1..Len(query.seen) : query.seen'[i] = query.seen[i]
    /\ query' \in Queries /\ UNCHANGED <<ops, balance, claims>>

\* What Append puts where.
LEMMA AppendAt ==
  ASSUME NEW S, NEW s \in Seq(S), NEW e \in S
  PROVE  /\ Append(s, e)[Len(s) + 1] = e
         /\ \A i \in 1..Len(s) : Append(s, e)[i] = s[i]
  OBVIOUS

\* The last of the six reads beside the five that were kept.
LEMMA SixthRead ==
  ASSUME NEW s, NEW e, NEW l, NEW t, t[l + 1] = e, \A i \in 1..l : t[i] = s[i], l = 5
  PROVE  /\ t[1] = s[1] /\ t[2] = s[2] /\ t[3] = s[3]
         /\ t[4] = s[4] /\ t[5] = s[5] /\ t[6] = e
  <1>1. t[6] = e /\ \A i \in 1..5 : t[i] = s[i]
    OBVIOUS
  <1> QED BY <1>1

\* A read of the query keeps what was read before it, and touches no wallet.
LEMMA QueryStepAdds ==
  ASSUME DrainInv, NEW pc \in Reads, NEW next \in Reads, NEW add \in Observed,
         QueryStep(pc, next, Append(query.seen, add))
  PROVE  Adds(next, add) /\ query.quiet' = (query.quiet \/ Drained(query.scope))
  <1>1. query.pc = pc /\ query.seen \in Seq(Observed) /\ query.scope \in Scopes
    BY DEF QueryStep, DrainInv, QueryShape
  <1> DEFINE s == Append(query.seen, add)
             b == query.quiet \/ Drained(query.scope)
  <1>2. /\ s \in Seq(Observed) /\ Len(s) = Len(query.seen) + 1
        /\ s[Len(query.seen) + 1] = add
        /\ \A i \in 1..Len(query.seen) : s[i] = query.seen[i]
    BY <1>1
  <1>3. b \in BOOLEAN
    OBVIOUS
  <1>4. /\ query' = [query EXCEPT !.pc = next, !.seen = s, !.quiet = b]
        /\ UNCHANGED <<ops, balance, claims>>
    BY DEF QueryStep
  <1> HIDE DEF s, b
  <1>5. /\ query' \in Queries
        /\ query.pc' = next /\ query.scope' = query.scope /\ query.seen' = s
        /\ query.quiet' = b /\ query.result' = query.result
    BY <1>2, <1>3, <1>4 DEF DrainInv, QueryShape, Queries
  <1>6. query.result = None
    BY <1>1 DEF DrainInv, QueryShape, Reads
  <1>7. query.quiet' = (query.quiet \/ Drained(query.scope))
    BY <1>5 DEF b
  <1> QED BY <1>1, <1>2, <1>4, <1>5, <1>6, <1>7 DEF Adds

\* outgoing_operations reports every outgoing operation of the wallet, and only
\* those.
LEMMA HistoryShape ==
  ASSUME PayInv, NEW s \in Scopes, NEW active
  PROVE  /\ OutgoingNow(s, active) \in SUBSET Reports
         /\ \A x \in OutgoingNow(s, active) : x.op \in OpIds /\ ops[x.op] # None
         /\ \A o \in Outgoing(s) : \E x \in OutgoingNow(s, active) : x.op = o
  <1>1. \A o \in Outgoing(s) :
          o \in OpIds /\ ops[o] # None /\ ops[o].state \in {"none", "ok", "failed"}
    BY DEF PayInv, Shapes, Outgoing, OutgoingOperation
  <1>2. \A o \in Outgoing(s) : RailState(o, active) \in {"ok", "failed", "pending", "unknown"}
    BY <1>1 DEF RailState
  <1> DEFINE Report(o) == [op |-> o, state |-> RailState(o, active), active |-> o \in active]
  <1>3. ASSUME NEW o \in Outgoing(s)
        PROVE  Report(o) \in Reports /\ Report(o).op = o
    <2> DEFINE b == o \in active
    <2>1. b \in BOOLEAN
      OBVIOUS
    <2> HIDE DEF b
    <2>2. [op |-> o, state |-> RailState(o, active), active |-> b] \in Reports
      BY <1>1, <1>2, <2>1 DEF Reports
    <2>3. [op |-> o, state |-> RailState(o, active), active |-> b].op = o
      OBVIOUS
    <2> QED BY <2>2, <2>3 DEF b
  <1>4. OutgoingNow(s, active) = {Report(o) : o \in Outgoing(s)}
    BY DEF OutgoingNow
  <1> HIDE DEF Report
  <1> QED BY <1>1, <1>3, <1>4

\* The active set is one of the values the query keeps.
LEMMA ActiveShape ==
  ASSUME PayInv, NEW s \in Scopes
  PROVE  ActiveNow(s) \in Observed
  <1>1. Active(s) \in SUBSET OpIds /\ claims[s] \in BOOLEAN
    BY DEF PayInv, Shapes, Active, Outgoing
  <1> QED BY <1>1 DEF ActiveNow, Observed

\* Each read, and the answer, keep the argument going.
LEMMA DrainInvNext == PayInv /\ DrainInv /\ [Next]_vars => DrainInv'
  <1> SUFFICES ASSUME PayInv, DrainInv, [Next]_vars
               PROVE  DrainInv'
    OBVIOUS
  <1>1. ASSUME NEW s \in Queried, DrainQuery(s)
        PROVE  DrainInv'
    <2>1. s \in Scopes /\ ActiveNow(s) \in Observed
      BY ActiveShape, ConstantsAssumption
    <2>2. <<ActiveNow(s)>> \in Seq(Observed) /\ Len(<<ActiveNow(s)>>) = 1
      BY <2>1
    <2>3. Drained(s) \in BOOLEAN
      BY DEF Drained
    <2>4. query' = [pc |-> "balance", scope |-> s, seen |-> <<ActiveNow(s)>>,
                    quiet |-> Drained(s), result |-> None]
      BY <1>1 DEF DrainQuery
    <2>5. QueryShape'
      BY <2>1, <2>2, <2>3, <2>4 DEF QueryShape, Queries, Reads
    <2> QED BY <2>4, <2>5, ConstantsAssumption
            DEF DrainInv, HistoryIsPast, QuietOrPaid, DrainedWasTrue
  <1>2. CASE ReadBalance
    <2>0. "balance" \in Reads /\ "outgoing" \in Reads /\ "again" \in Reads
          /\ "again balance" \in Reads /\ "again outgoing" \in Reads
      BY DEF Reads
    <2>1. query.pc = "balance" /\ query.scope \in Scopes /\ Len(query.seen) = 1
      BY <1>2, <2>0 DEF ReadBalance, QueryStep, DrainInv, QueryShape
    <2>2. balance[query.scope] \in Observed
      BY <2>1 DEF PayInv, Shapes, Observed
    <2>a. Adds("outgoing", balance[query.scope])
      BY <1>2, <2>0, <2>2, QueryStepAdds DEF ReadBalance
    <2>3. /\ query.pc' = "outgoing" /\ query.scope' \in Scopes /\ query.seen' \in Seq(Observed)
          /\ Len(query.seen') = 2 /\ query.result' = None
          /\ query' \in Queries
      BY <2>1, <2>a DEF Adds
    <2> QED BY <2>0, <2>3, ConstantsAssumption
            DEF DrainInv, QueryShape, HistoryIsPast, QuietOrPaid, DrainedWasTrue
  <1>3. CASE ReadOutgoing
    <2> DEFINE now == OutgoingNow(query.scope, query.seen[1][1])
    <2>0. "balance" \in Reads /\ "outgoing" \in Reads /\ "again" \in Reads
          /\ "again balance" \in Reads /\ "again outgoing" \in Reads
      BY DEF Reads
    <2>1. query.pc = "outgoing" /\ query.scope \in Scopes /\ Len(query.seen) = 2
      BY <1>3, <2>0 DEF ReadOutgoing, QueryStep, DrainInv, QueryShape
    <2>2. /\ now \in Observed
          /\ \A x \in now : x.op \in OpIds /\ ops[x.op] # None
      BY <2>1, HistoryShape DEF Observed
    <2>3. QueryStep("outgoing", "again", Append(query.seen, now))
      BY <1>3 DEF ReadOutgoing
    <2> HIDE DEF now
    <2>a. Adds("again", now)
      BY <2>0, <2>2, <2>3, QueryStepAdds
    <2>4. /\ query.pc' = "again" /\ query.scope' \in Scopes /\ query.seen' \in Seq(Observed)
          /\ Len(query.seen') = 3 /\ query.result' = None /\ query.seen'[3] = now
          /\ UNCHANGED ops
          /\ query' \in Queries
      BY <2>1, <2>a DEF Adds
    <2> QED BY <2>0, <2>2, <2>4, ConstantsAssumption
            DEF DrainInv, QueryShape, HistoryIsPast, QuietOrPaid, DrainedWasTrue
  <1>4. CASE AgainActive
    <2> DEFINE now == ActiveNow(query.scope)
    <2>0. "balance" \in Reads /\ "outgoing" \in Reads /\ "again" \in Reads
          /\ "again balance" \in Reads /\ "again outgoing" \in Reads
      BY DEF Reads
    <2>1. query.pc = "again" /\ query.scope \in Scopes /\ Len(query.seen) = 3
      BY <1>4, <2>0 DEF AgainActive, QueryStep, DrainInv, QueryShape
    <2>2. now \in Observed
      BY <2>1, ActiveShape
    <2>3. QueryStep("again", "again balance", Append(query.seen, now))
      BY <1>4 DEF AgainActive
    <2>a. Adds("again balance", now)
      <3> HIDE DEF now
      <3> QED BY <2>0, <2>2, <2>3, QueryStepAdds
    <2>b. query.quiet' = (query.quiet \/ Drained(query.scope))
      <3> HIDE DEF now
      <3> QED BY <2>0, <2>2, <2>3, QueryStepAdds
    <2>n. Len(query.seen) + 1 = 4 /\ 3 \in 1..Len(query.seen)
      <3> DEFINE l == Len(query.seen)
      <3>1. l = 3
        BY <2>1
      <3> HIDE DEF l
      <3>2. l + 1 = 4 /\ 3 \in 1..l
        BY <3>1
      <3> QED BY <3>2 DEF l
    <2>4. /\ query.pc' = "again balance" /\ query.scope' = query.scope
          /\ query.seen' \in Seq(Observed)
          /\ Len(query.seen') = 4 /\ query.result' = None
          /\ query.seen'[4] = now
          /\ UNCHANGED <<ops, balance>>
          /\ query' \in Queries
      <3> HIDE DEF now
      <3> QED BY <2>a, <2>n, Zenon DEF Adds
    <2>c. query.seen'[3] = query.seen[3]
      BY <2>a, <2>n, Zenon DEF Adds
    <2>5. now = <<{}, FALSE>> => Drained(query.scope) \/ balance[query.scope] = 1
      BY <2>1 DEF PayInv, Shapes, ActiveNow, Drained
    <2>6. HistoryIsPast'
      BY <2>1, <2>4, <2>c DEF DrainInv, HistoryIsPast
    <2>7. QuietOrPaid'
      <3>1. ASSUME now = <<{}, FALSE>>
            PROVE  query.quiet' \/ balance[query.scope] = 1
        BY <2>5, <2>b, <3>1, Zenon
      <3> HIDE DEF now
      <3> QED BY <2>4, <2>c, <3>1 DEF QuietOrPaid
    <2> HIDE DEF now
    <2> QED BY <2>0, <2>1, <2>4, <2>6, <2>7, ConstantsAssumption
            DEF DrainInv, QueryShape, DrainedWasTrue
  <1>5. CASE AgainBalance
    <2> DEFINE now == balance[query.scope]
    <2>0. "balance" \in Reads /\ "outgoing" \in Reads /\ "again" \in Reads
          /\ "again balance" \in Reads /\ "again outgoing" \in Reads
      BY DEF Reads
    <2>1. query.pc = "again balance" /\ query.scope \in Scopes /\ Len(query.seen) = 4
      BY <1>5, <2>0 DEF AgainBalance, QueryStep, DrainInv, QueryShape
    <2>2. now \in Observed /\ now \in 0..1
      BY <2>1 DEF PayInv, Shapes, Observed
    <2>3. QueryStep("again balance", "again outgoing", Append(query.seen, now))
      BY <1>5 DEF AgainBalance
    <2>a. Adds("again outgoing", now)
      <3> HIDE DEF now
      <3> QED BY <2>0, <2>2, <2>3, QueryStepAdds
    <2>b. query.quiet' = (query.quiet \/ Drained(query.scope))
      <3> HIDE DEF now
      <3> QED BY <2>0, <2>2, <2>3, QueryStepAdds
    <2>n. Len(query.seen) + 1 = 5 /\ 3 \in 1..Len(query.seen) /\ 4 \in 1..Len(query.seen)
      <3> DEFINE l == Len(query.seen)
      <3>1. l = 4
        BY <2>1
      <3> HIDE DEF l
      <3>2. l + 1 = 5 /\ 3 \in 1..l /\ 4 \in 1..l
        BY <3>1
      <3> QED BY <3>2 DEF l
    <2>4. /\ query.pc' = "again outgoing" /\ query.scope' = query.scope
          /\ query.seen' \in Seq(Observed)
          /\ Len(query.seen') = 5 /\ query.result' = None
          /\ query.seen'[5] = now
          /\ UNCHANGED <<ops, balance>>
          /\ query' \in Queries
      <3> HIDE DEF now
      <3> QED BY <2>a, <2>n, Zenon DEF Adds
    <2>c. query.seen'[3] = query.seen[3] /\ query.seen'[4] = query.seen[4]
      BY <2>a, <2>n, Zenon DEF Adds
    <2>5. PaidSince' <=> PaidSince
      BY <2>4, <2>c DEF PaidSince, Outgoing
    <2>6. HistoryIsPast'
      BY <2>1, <2>4, <2>c DEF DrainInv, HistoryIsPast
    <2>7. QuietOrPaid'
      <3>1. ASSUME query.seen[4] = <<{}, FALSE>>, now = 0
            PROVE  query.quiet \/ PaidSince
        <4>1. balance[query.scope] # 1
          BY <3>1
        <4> QED BY <2>1, <3>1, <4>1, Zenon DEF DrainInv, QuietOrPaid
      <3>2. query.seen[4] = <<{}, FALSE>> /\ now = 0 => query.quiet' \/ PaidSince'
        BY <2>5, <2>b, <3>1, Zenon
      <3> HIDE DEF now
      <3> QED BY <2>4, <2>c, <3>2 DEF QuietOrPaid
    <2> HIDE DEF now
    <2> QED BY <2>0, <2>1, <2>2, <2>4, <2>6, <2>7, ConstantsAssumption
            DEF DrainInv, QueryShape, DrainedWasTrue
  <1>6. CASE QueryAnswered
    <2> DEFINE now == OutgoingNow(query.scope, query.seen[4][1])
               seen == Append(query.seen, now)
               b == query.quiet \/ Drained(query.scope)
    <2>0. "balance" \in Reads /\ "outgoing" \in Reads /\ "again" \in Reads
          /\ "again balance" \in Reads /\ "again outgoing" \in Reads
      BY DEF Reads
    <2>1. /\ query.pc = "again outgoing" /\ query.scope \in Scopes
          /\ query.seen \in Seq(Observed) /\ Len(query.seen) = 5 /\ query.seen[5] \in 0..1
      BY <1>6, <2>0 DEF QueryAnswered, DrainInv, QueryShape
    <2>a. now \in Observed
      BY <2>1, HistoryShape DEF Observed
    <2>2. \A o \in Outgoing(query.scope) : \E x \in now : x.op = o
      BY <2>1, HistoryShape
    <2>3. /\ query' = [query EXCEPT !.pc = "done", !.seen = None, !.result = Conclusion(seen),
                                    !.quiet = b]
      BY <1>6 DEF QueryAnswered
    <2>4. Conclusion(seen) \in {"unknown", "pending", "sweepable", "drained"} /\ b \in BOOLEAN
      BY DEF Conclusion, ConclusionIf
    <2>5. ASSUME Conclusion(seen) = "drained"
          PROVE  query.quiet
      <3> HIDE DEF now
      <3>2. /\ seen[2] = query.seen[2] /\ seen[3] = query.seen[3] /\ seen[4] = query.seen[4]
            /\ seen[5] = query.seen[5] /\ seen[6] = now
        <4> DEFINE old == query.seen
                   l == Len(old)
        <4>1. old \in Seq(Observed)
          BY <2>1, Zenon
        <4>2. l = 5
          BY <2>1, Zenon
        <4>3. seen[l + 1] = now /\ \A i \in 1..l : seen[i] = old[i]
          <5>1. seen = Append(old, now)
            OBVIOUS
          <5> HIDE DEF old, seen
          <5> QED BY <2>a, <4>1, <5>1, AppendAt
        <4> HIDE DEF seen, l, old
        <4>4. seen[2] = old[2] /\ seen[3] = old[3] /\ seen[4] = old[4] /\ seen[5] = old[5]
              /\ seen[6] = now
          BY <4>2, <4>3, SixthRead
        <4> QED BY <4>4 DEF old
      <3> HIDE DEF seen
      <3>a. /\ Consistent(seen) /\ seen[1] = <<{}, FALSE>> /\ ~(seen[2] > 0)
        <4>1. Consistent(seen)
          BY <2>5 DEF Conclusion, ConclusionIf
        <4>2. seen[1] = <<{}, FALSE>>
          BY <2>5 DEF Conclusion, ConclusionIf
        <4> QED BY <2>5, <4>1, <4>2 DEF Conclusion, ConclusionIf
      <3>1. /\ seen[1] = seen[4] /\ seen[2] = seen[5] /\ seen[3] = seen[6]
            /\ seen[1] = <<{}, FALSE>> /\ ~(seen[2] > 0)
        BY <3>a DEF Consistent
      <3>3. ~ PaidSince
        BY <2>2, <3>1, <3>2 DEF PaidSince
      <3>4. query.seen[5] = 0 => query.quiet
        BY <2>1, <3>1, <3>2, <3>3 DEF DrainInv, QuietOrPaid
      <3>5. query.seen[5] = 0
        <4>1. query.seen[5] \in 0..1
          BY <2>1, Zenon
        <4>2. ~(query.seen[5] > 0)
          BY <3>1, <3>2, Zenon
        <4> QED BY <4>1, <4>2
      <3> QED BY <3>4, <3>5
    <2> HIDE DEF seen, b
    <2>6. /\ query' \in Queries
          /\ query.pc' = "done" /\ query.quiet' = b /\ query.result' = Conclusion(seen)
      BY <2>3, <2>4 DEF DrainInv, QueryShape, Queries
    <2>7. QueryShape' /\ HistoryIsPast' /\ QuietOrPaid'
      BY <2>6 DEF QueryShape, HistoryIsPast, QuietOrPaid, Reads
    <2>8. DrainedWasTrue'
      BY <2>5, <2>6 DEF DrainedWasTrue, b
    <2> QED BY <2>7, <2>8 DEF DrainInv
  <1>7. CASE QueryReported \/ Crash
    BY <1>7, NoQueryKeepsDrainInv DEF QueryReported, Crash
  <1>8. ASSUME UNCHANGED query, BesideQuery
        PROVE  DrainInv'
    BY <1>8, OthersKeepDrainInv
  <1>a. /\ balance \in [Scopes -> 0..1] /\ ops \in [OpIds -> OutgoingOperation \cup {None}]
        /\ \A o \in OpIds : ops[o] # None => ops[o] \in OutgoingOperation
    BY DEF PayInv, Shapes
  <1>b. ASSUME NEW c \in Callers, StartNative(c)
        PROVE  UNCHANGED query /\ BesideQuery
    <2>1. PICK o \in OpIds :
            /\ ops[o] = None
            /\ ops' = [ops EXCEPT ![o] =
                 [req |-> call[c].req, dest |-> call[c].dest, scope |-> call[c].scope,
                  active |-> TRUE, state |-> "none"]]
      BY <1>b DEF StartNative
    <2>2. balance' = [balance EXCEPT ![call[c].scope] = 0]
      BY <1>b DEF StartNative
    <2>3. /\ call[c].req \in Requests /\ call[c].scope \in Scopes
          /\ call[c].dest \in Destinations
      BY <1>b, BusyCall DEF StartNative
    <2>4. [req |-> call[c].req, dest |-> call[c].dest, scope |-> call[c].scope,
           active |-> TRUE, state |-> "none"] \in OutgoingOperation
      BY <2>3 DEF OutgoingOperation
    <2>5. /\ ops'[o] # None /\ ops'[o].scope = call[c].scope
          /\ \A p \in OpIds : p # o => ops'[p] = ops[p]
      BY <1>a, <2>1, <2>4, ConstantsAssumption
    <2>6. \A s \in Scopes : s # call[c].scope => balance'[s] = balance[s]
      BY <1>a, <2>2
    <2>7. UNCHANGED query
      BY <1>b DEF StartNative
    <2> QED BY <2>1, <2>5, <2>6, <2>7 DEF BesideQuery
  <1>c. ASSUME NEW o \in OpIds, RailEnds(o) \/ OpSettles(o)
        PROVE  UNCHANGED query /\ BesideQuery
    <2>1. UNCHANGED query /\ ops[o] # None
      BY <1>c DEF RailEnds, OpSettles
    <2>2. \A p \in OpIds : p # o => ops'[p] = ops[p]
      BY <1>a, <1>c DEF RailEnds, OpSettles
    <2>3. ops'[o] # None /\ ops'[o].scope = ops[o].scope
      <3>1. ASSUME NEW x \in {"ok", "failed"}, ops' = [ops EXCEPT ![o].state = x]
            PROVE  ops'[o] \in OutgoingOperation /\ ops'[o].scope = ops[o].scope
        BY <1>a, <2>1, <3>1 DEF OutgoingOperation
      <3>2. ASSUME ops' = [ops EXCEPT ![o].active = FALSE]
            PROVE  ops'[o] \in OutgoingOperation /\ ops'[o].scope = ops[o].scope
        BY <1>a, <2>1, <3>2 DEF OutgoingOperation
      <3> QED BY <1>c, <3>1, <3>2, ConstantsAssumption DEF RailEnds, OpSettles
    <2>4. \A s \in Scopes : balance[s] = 1 => balance'[s] = 1
      BY <1>a, <1>c DEF RailEnds, OpSettles
    <2> QED BY <2>1, <2>2, <2>3, <2>4 DEF BesideQuery
  <1>d. ASSUME NEW s \in Scopes, ClaimSettles(s)
        PROVE  UNCHANGED query /\ BesideQuery
    BY <1>a, <1>d DEF ClaimSettles, BesideQuery
  <1>e. ASSUME UNCHANGED <<query, ops, balance>>
        PROVE  UNCHANGED query /\ BesideQuery
    BY <1>e DEF BesideQuery
  <1>f. ASSUME NEW c \in Callers, NEW r \in Requests, NEW s \in Scopes,
               Sweep(c, r, s)
        PROVE  UNCHANGED <<query, ops, balance>>
    BY <1>f DEF Sweep
  <1>g. ASSUME NEW c \in Callers,
               Create(c) \/ TakeLock(c) \/ Recover(c) \/ NothingToSweep(c)
               \/ StatusFind(c) \/ Commit(c) \/ CutOff(c)
        PROVE  UNCHANGED <<query, ops, balance>>
    BY <1>g DEF Create, TakeLock, TakeLockIf, Recover, NothingToSweep, StatusFind, Commit, CutOff
  <1>h. ASSUME NEW d, NEW s, SetDestination(d) \/ SeatGone(s) \/ ClaimStarts(s)
        PROVE  UNCHANGED <<query, ops, balance>>
    BY <1>h DEF SetDestination, SeatGone, ClaimStarts
  <1>i. ASSUME UNCHANGED vars
        PROVE  UNCHANGED <<query, ops, balance>>
    BY <1>i DEF vars
  <1>j. ASSUME NEW c \in Callers, NEW r \in Requests, StatusRead(c, r)
        PROVE  UNCHANGED <<query, ops, balance>>
    BY <1>j DEF StatusRead
  <1> QED BY <1>1, <1>2, <1>3, <1>4, <1>5, <1>6, <1>7, <1>8, <1>b, <1>c, <1>d, <1>e, <1>f,
             <1>g, <1>h, <1>i, <1>j
          DEF Next, CallStep

\* A wallet the drain query calls drained was drained at a moment between the
\* query's first read and its last, whatever payouts, refunds and claims run
\* beside it (validated_status over two observations).
THEOREM DrainedIsTrue == Spec => []DrainedWasTrue
  <1>1. DrainInv => DrainedWasTrue
    BY DEF DrainInv
  <1> QED BY <1>1, DrainInvInit, DrainInvNext, PayInvAlways, PTL DEF Spec
=============================================================================
