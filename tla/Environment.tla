---------------------------- MODULE Environment ----------------------------
(***************************************************************************)
(* The local development environment: the defe server, which starts        *)
(* relays, bitcoind, guardians, gateways and FLIP daemons on behalf of its  *)
(* connections and stops them with the last lease; the port reservations    *)
(* every process on the host takes from one file; and the composer of       *)
(* `defe env`, which runs its commands in a PID namespace and must not give  *)
(* up its leases while a descendant may still use them.                     *)
(*                                                                         *)
(* A resource process is a pair <<slot, generation>> and `running` is the   *)
(* set of those alive.  The manager's mutex is held across the start of a    *)
(* shared resource and of a restart, and is not held across the start of an  *)
(* exclusive one: `lock` names the connection that holds it.                 *)
(***************************************************************************)
EXTENDS Integers, Sequences, FiniteSets

CONSTANTS Clients,     \* connections to the server's socket
          Keys,        \* keys of shared requests
          SharedKind,  \* the kind a shared request asks for
          Kinds,       \* the kinds exclusive requests ask for
          MaxSlots,    \* bound on the slots ever numbered
          MaxGen,      \* bound on the generations of a slot
          MaxHandles,  \* bound on the handles a connection ever numbers
          Composer,    \* the connection of `defe env`, or NoClient
          Plan,        \* what the composer leases and runs before it is ready
          MaxForks,    \* bound on the descendants alive at once
          Low, High,   \* the ports reservations start from
          Sizes,       \* the sizes asked for
          Hold,        \* how long a reservation lasts
          MaxTime,     \* bound on the clock
          MaxBound,    \* bound on the ports sockets hold at once
          NoClient

VARIABLES mgr, slots, shared, running, stable,           \* the server
          onboarded, conn,
          exec, temp,                                    \* `defe exec`
          comp, sup, ns, guard, manifest, sig,           \* the composer
          book, search, bound, now                       \* port reservations

server == <<mgr, slots, shared, running, stable, onboarded, conn>>
serving == <<exec, temp>>
composer == <<comp, sup, ns, guard, manifest, sig>>
ports == <<book, search, bound, now>>
vars == <<server, serving, composer, ports>>

NoOperation == [do |-> "idle"]
Answer(ok) == [do |-> "answer", ok |-> ok]

ResourceConnection == [state |-> "none", handles |-> {}, next |-> 1, op |-> NoOperation]

\* A slot whose process is up, with the one lease of its requester.
ResourceSlot(key, kind) == [key |-> key, kind |-> kind, gen |-> 1, leases |-> 1]

\* The namespace of a composer that has come up: bootstrap and init alive.
Establish == [bootstrap |-> TRUE, init |-> TRUE, starting |-> 0, cmds |-> 0, helpers |-> 0]

Init ==
  /\ mgr = [closed |-> FALSE, pending |-> 0, next |-> 0, lock |-> NoClient]
  /\ slots = <<>> /\ shared = <<>> /\ running = {}
  /\ stable = <<>> /\ onboarded = {}
  /\ conn = [c \in Clients |-> ResourceConnection]
  /\ exec = "child" /\ temp = TRUE
  /\ comp = [at |-> IF Composer = NoClient THEN "gone" ELSE "setup", pc |-> 1, killed |-> FALSE]
  /\ sup = [closed |-> FALSE, cleaned |-> FALSE, owner |-> "none"]
  /\ ns = Establish
  /\ guard = "none" /\ manifest = "none" /\ sig = "none"
  /\ book = [next |-> Low, keys |-> {}] /\ search = NoOperation /\ bound = {} /\ now = 0

-----------------------------------------------------------------------------
(* Starting a resource                                                     *)

\* What each driver waits for once the process is spawned.
RelayStages == <<"connect">>
PushGatewayStages == <<"connect">>
FlipStages == <<"connect">>
GatewaydStages == <<"info">>
BitcoindStages == <<"connect", "wallet">>
MgStages == <<"onboard", "authorize", "offer", "locator">>

\* The ports it reserves, once for a slot.
RelayPorts == 1
PushGatewayPorts == 1
FlipPorts == 2
GatewaydPorts == 3
BitcoindPorts == 4
MgPorts == 1

PortsOf(kind) ==
  CASE kind = "relay" -> RelayPorts
    [] kind = "push" -> PushGatewayPorts
    [] kind = "flip" -> FlipPorts
    [] kind = "gatewayd" -> GatewaydPorts
    [] kind = "bitcoind" -> BitcoindPorts
    [] kind = "mg" -> MgPorts

Stages(kind) ==
  CASE kind = "relay" -> RelayStages
    [] kind = "push" -> PushGatewayStages
    [] kind = "flip" -> FlipStages
    [] kind = "gatewayd" -> GatewaydStages
    [] kind = "bitcoind" -> BitcoindStages
    [] kind = "mg" -> MgStages

\* Onboarding is durable in the slot's data directory: a guardian whose first
\* offer stands is complete, and a restart goes straight to the locator.
Remaining(kind, slot) ==
  IF kind = "mg" /\ slot \in onboarded THEN <<"locator">> ELSE Stages(kind)

With(f, k, v) == [x \in DOMAIN f \union {k} |-> IF x = k THEN v ELSE f[x]]
Without(f, S) == [x \in DOMAIN f \ S |-> f[x]]

\* A slot keeps its ports and directories through every restart; those of a
\* slot that is gone are not handed out again while its reservation lasts.
StableAllocation(slot, kind) ==
  LET ends == {stable[t].base + stable[t].size : t \in DOMAIN stable} \union {0}
      base == CHOOSE e \in ends : \A d \in ends : d <= e
  IN stable' = IF slot \in DOMAIN stable THEN stable
               ELSE With(stable, slot, [base |-> base, size |-> PortsOf(kind)])

NextSlotId == mgr.next + 1

SetOp(c, op) == conn' = [conn EXCEPT ![c].op = op]

\* The process is spawned and the driver begins to wait for it.
Spawned(c, do, slot, gen, kind) ==
  /\ StableAllocation(slot, kind)
  /\ running' = running \union {<<slot, gen>>}
  /\ SetOp(c, [do |-> do, slot |-> slot, gen |-> gen, kind |-> kind,
               todo |-> Remaining(kind, slot)])

Starting(c) == conn[c].op.do \in {"shared", "exclusive", "restart"}

\* One stage of readiness passes while the process runs.
Ready(c) ==
  /\ Starting(c) /\ conn[c].op.todo # <<>>
  /\ <<conn[c].op.slot, conn[c].op.gen>> \in running
  /\ onboarded' = IF Head(conn[c].op.todo) = "offer"
                  THEN onboarded \union {conn[c].op.slot} ELSE onboarded
  /\ SetOp(c, [conn[c].op EXCEPT !.todo = Tail(@)])
  /\ UNCHANGED <<mgr, slots, shared, running, stable, serving, composer, ports>>

\* A resource process exits by itself; its reaper records the status.
ProcessExits(p) ==
  /\ p \in running
  /\ running' = running \ {p}
  /\ UNCHANGED <<mgr, slots, shared, stable, onboarded, conn, serving, composer, ports>>

-----------------------------------------------------------------------------
(* The resource manager and its connections                                *)

\* A connection asks for one thing at a time, and the server reads the next
\* request once the answer to the last is written.
May(c) == conn[c].state = "open" /\ conn[c].op = NoOperation /\ mgr.lock = NoClient

AcceptClient(c) ==
  /\ exec \in {"child", "signalled", "exited"} /\ conn[c].state = "none"
  /\ conn' = [conn EXCEPT ![c].state = "open"]
  /\ UNCHANGED <<mgr, slots, shared, running, stable, onboarded, serving, composer, ports>>

Hold1(c, slot, op) ==
  conn' = [conn EXCEPT ![c].handles = @ \union {<<conn[c].next, slot>>},
                       ![c].next = @ + 1, ![c].op = op]

Roomy(c) == mgr.next < MaxSlots /\ conn[c].next <= MaxHandles

\* A shared request joins the slot its key has, whatever its process is doing,
\* or starts one with the mutex held.
AcquireShared(c, k) ==
  /\ May(c) /\ Roomy(c)
  /\ \/ /\ mgr.closed
        /\ SetOp(c, Answer(FALSE))
        /\ UNCHANGED <<mgr, slots, running, stable>>
     \/ /\ ~mgr.closed /\ k \in DOMAIN shared
        /\ slots' = [slots EXCEPT ![shared[k]].leases = @ + 1]
        /\ Hold1(c, shared[k], Answer(TRUE))
        /\ UNCHANGED <<mgr, running, stable>>
     \/ /\ ~mgr.closed /\ k \notin DOMAIN shared
        /\ mgr' = [mgr EXCEPT !.next = NextSlotId, !.lock = c]
        /\ StableAllocation(NextSlotId, SharedKind)
        /\ running' = running \union {<<NextSlotId, 1>>}
        /\ SetOp(c, [do |-> "shared", slot |-> NextSlotId, gen |-> 1, key |-> k,
                     kind |-> SharedKind, todo |-> Stages(SharedKind)])
        /\ UNCHANGED slots
  /\ UNCHANGED <<shared, onboarded, serving, composer, ports>>

SharedStarted(c) ==
  LET op == conn[c].op IN
  /\ op.do = "shared" /\ op.todo = <<>>
  /\ slots' = With(slots, op.slot,
                   ResourceSlot(op.key, op.kind))
  /\ shared' = With(shared, op.key, op.slot)
  /\ mgr' = [mgr EXCEPT !.lock = NoClient]
  /\ Hold1(c, op.slot, Answer(TRUE))
  /\ UNCHANGED <<running, stable, onboarded, serving, composer, ports>>

\* A start that fails stops the process; a slot that never was leaves nothing
\* behind, and one being restarted keeps its old generation.
StartFails(c) ==
  LET op == conn[c].op IN
  /\ op.do \in {"shared", "restart"}
  /\ running' = running \ {<<op.slot, op.gen>>}
  /\ mgr' = [mgr EXCEPT !.lock = NoClient]
  /\ SetOp(c, Answer(FALSE))
  /\ UNCHANGED <<slots, shared, stable, onboarded, serving, composer, ports>>

Requested(c) == IF c = Composer THEN {Plan[comp.pc].kind} ELSE Kinds

AcquireExclusive(c) ==
  /\ May(c) /\ Roomy(c)
  /\ c = Composer => /\ comp.at = "setup" /\ guard # "none" /\ comp.pc <= Len(Plan)
                     /\ Plan[comp.pc].do = "lease"
  /\ \/ /\ mgr.closed /\ SetOp(c, Answer(FALSE))
        /\ UNCHANGED <<mgr, running, stable>>
     \/ /\ ~mgr.closed
        /\ mgr' = [mgr EXCEPT !.next = NextSlotId, !.pending = @ + 1]
        /\ \E kind \in Requested(c) : Spawned(c, "exclusive", NextSlotId, 1, kind)
  /\ UNCHANGED <<slots, shared, onboarded, serving, composer, ports>>

\* Back under the mutex, a started resource becomes a slot unless the manager
\* closed meanwhile.
ExclusiveStarted(c) ==
  LET op == conn[c].op IN
  /\ op.do = "exclusive" /\ op.todo = <<>> /\ mgr.lock = NoClient
  /\ IF mgr.closed
     THEN SetOp(c, [op EXCEPT !.do = "discard"]) /\ UNCHANGED slots
     ELSE /\ slots' = With(slots, op.slot, ResourceSlot("none", op.kind))
          /\ SetOp(c, [do |-> "count", slot |-> op.slot, ok |-> TRUE])
  /\ UNCHANGED <<mgr, shared, running, stable, onboarded, serving, composer, ports>>

ExclusiveFails(c) ==
  /\ conn[c].op.do = "exclusive"
  /\ SetOp(c, [conn[c].op EXCEPT !.do = "discard"])
  /\ UNCHANGED <<mgr, slots, shared, running, stable, onboarded, serving, composer, ports>>

\* PendingExclusiveStart is dropped: a resource it still owns is stopped, and
\* only then does the start leave the count a shutdown waits for.
DiscardPending(c) ==
  LET op == conn[c].op IN
  /\ op.do = "discard"
  /\ running' = running \ {<<op.slot, 1>>}
  /\ SetOp(c, [do |-> "count", slot |-> op.slot, ok |-> FALSE])
  /\ UNCHANGED <<mgr, slots, shared, stable, onboarded, serving, composer, ports>>

CountFinished(c) ==
  LET op == conn[c].op IN
  /\ op.do = "count" /\ mgr.lock = NoClient
  /\ mgr' = [mgr EXCEPT !.pending = @ - 1]
  /\ IF op.ok THEN Hold1(c, op.slot, Answer(TRUE)) ELSE SetOp(c, Answer(FALSE))
  /\ UNCHANGED <<slots, shared, running, stable, onboarded, serving, composer, ports>>

Current(slot) == <<slot, slots[slot].gen>>

\* The last lease takes the key out of the shared map and stops the resource.
ReleaseSlot(slot) ==
  IF slot \notin DOMAIN slots THEN UNCHANGED <<slots, shared, running>>
  ELSE IF slots[slot].leases > 1
  THEN /\ slots' = [slots EXCEPT ![slot].leases = @ - 1]
       /\ UNCHANGED <<shared, running>>
  ELSE /\ slots' = Without(slots, {slot})
       /\ shared' = Without(shared, {k \in DOMAIN shared : shared[k] = slot})
       /\ running' = running \ {Current(slot)}

Release(c) ==
  /\ May(c) /\ c # Composer
  /\ \E h \in conn[c].handles :
       /\ conn' = [conn EXCEPT ![c].handles = @ \ {h}, ![c].op = Answer(TRUE)]
       /\ ReleaseSlot(h[2])
  /\ UNCHANGED <<mgr, stable, onboarded, serving, composer, ports>>

Restart(c, mode) ==
  /\ May(c) /\ c # Composer
  /\ \E h \in conn[c].handles :
       LET slot == h[2]
           fails == \/ mgr.closed \/ slot \notin DOMAIN slots
                    \/ mode = "IfExited" /\ Current(slot) \in running
       IN IF fails THEN SetOp(c, Answer(FALSE)) /\ UNCHANGED <<mgr, running, stable>>
          ELSE /\ slots[slot].gen < MaxGen
               /\ mgr' = [mgr EXCEPT !.lock = c]
               /\ StableAllocation(slot, slots[slot].kind)
               /\ running' = (running \ {Current(slot)}) \union {<<slot, slots[slot].gen + 1>>}
               /\ SetOp(c, [do |-> "restart", slot |-> slot, gen |-> slots[slot].gen + 1,
                            kind |-> slots[slot].kind,
                            todo |-> Remaining(slots[slot].kind, slot)])
  /\ UNCHANGED <<slots, shared, onboarded, serving, composer, ports>>

\* The new resource replaces the old one, whose drop stops it.
Restarted(c) ==
  LET op == conn[c].op IN
  /\ op.do = "restart" /\ op.todo = <<>>
  /\ slots' = [slots EXCEPT ![op.slot].gen = op.gen]
  /\ running' = running \ {Current(op.slot)}
  /\ mgr' = [mgr EXCEPT !.lock = NoClient]
  /\ SetOp(c, Answer(TRUE))
  /\ UNCHANGED <<shared, stable, onboarded, serving, composer, ports>>

\* The answer is written; to a client that is gone the write fails instead and
\* the connection is dropped.
Respond(c) ==
  /\ conn[c].op.do = "answer" /\ c # Composer
  /\ SetOp(c, NoOperation)
  /\ UNCHANGED <<mgr, slots, shared, running, stable, onboarded, serving, composer, ports>>

\* The client closes its end, or sends a frame that does not decode.
Disconnect(c) ==
  /\ conn[c].state = "open"
  /\ c = Composer => comp.at = "gone" /\ guard # "alive"
  /\ conn' = [conn EXCEPT ![c].state = "closed"]
  /\ UNCHANGED <<mgr, slots, shared, running, stable, onboarded, serving, composer, ports>>

\* Dropping the connection releases its handles one after another.
DropConnection(c) ==
  /\ conn[c].state = "closed" /\ conn[c].op.do \in {"idle", "answer"}
  /\ mgr.lock = NoClient
  /\ IF conn[c].handles = {}
     THEN /\ conn' = [conn EXCEPT ![c].state = "dropped", ![c].op = NoOperation]
          /\ UNCHANGED <<slots, shared, running>>
     ELSE \E h \in conn[c].handles :
            /\ conn' = [conn EXCEPT ![c].handles = @ \ {h}]
            /\ ReleaseSlot(h[2])
  /\ UNCHANGED <<mgr, stable, onboarded, serving, composer, ports>>

-----------------------------------------------------------------------------
(* `defe exec`: the command's lifetime is the server's                     *)

\* SIGINT or SIGTERM reaches the server: it stops accepting and ends the
\* command.  An environment's composer is asked to end with SIGTERM, any other
\* command is killed.
InstallShutdownHandler ==
  /\ exec = "child" /\ exec' = "signalled"
  /\ sig' = IF comp.at # "gone" /\ sig = "none" THEN "received" ELSE sig
  /\ UNCHANGED <<server, temp, comp, sup, ns, guard, manifest, ports>>

WaitForExecChild ==
  /\ exec \in {"child", "signalled"} /\ comp.at = "gone"
  /\ exec' = "exited"
  /\ UNCHANGED <<server, temp, composer, ports>>

\* The accept loop has ended and the manager closes to new work.
BeginShutdown ==
  /\ exec = "exited" /\ mgr.lock = NoClient
  /\ exec' = "closing" /\ mgr' = [mgr EXCEPT !.closed = TRUE]
  /\ UNCHANGED <<slots, shared, running, stable, onboarded, conn, temp, composer, ports>>

StopAllSlots ==
  /\ shared' = <<>> /\ slots' = <<>>
  /\ running' = running \ {Current(s) : s \in DOMAIN slots}

ShutdownAtOnce ==
  /\ exec = "closing" /\ mgr.lock = NoClient
  /\ StopAllSlots
  /\ exec' = "stopped"
  /\ UNCHANGED <<mgr, stable, onboarded, conn, temp, composer, ports>>

\* Every exclusive start has ended one way or the other: stop what there is.
Shutdown ==
  /\ exec = "closing" /\ mgr.lock = NoClient /\ mgr.pending = 0
  /\ StopAllSlots
  /\ exec' = "stopped"
  /\ UNCHANGED <<mgr, stable, onboarded, conn, temp, composer, ports>>

CleanupTemp(keep) ==
  /\ exec = "stopped"
  /\ exec' = "cleaned" /\ temp' = keep
  /\ UNCHANGED <<server, composer, ports>>

-----------------------------------------------------------------------------
(* The composer and the supervisor of its descendants                      *)

GuardConnection ==
  /\ comp.at = "setup" /\ conn[Composer].state = "open" /\ guard = "none"
  /\ sup.owner = "none"
  /\ guard' = IF ns.init THEN "alive" ELSE "gone"
  /\ UNCHANGED <<server, serving, comp, sup, ns, manifest, sig, ports>>

\* The lease is held and the next step of the plan is due, or setup fails.
LeaseHeld ==
  /\ comp.at = "setup" /\ conn[Composer].op.do = "answer"
  /\ comp' = IF conn[Composer].op.ok THEN [comp EXCEPT !.pc = @ + 1]
             ELSE [comp EXCEPT !.at = "failing"]
  /\ SetOp(Composer, NoOperation)
  /\ UNCHANGED <<mgr, slots, shared, running, stable, onboarded, serving, sup, ns, guard, manifest,
                 sig, ports>>

DueToRun ==
  \/ comp.at = "setup" /\ guard # "none" /\ comp.pc <= Len(Plan) /\ Plan[comp.pc].do = "run"
  \/ comp.at = "ready"

\* A helper is started and registered with the supervisor's mutex held, unless
\* teardown has begun.
Spawn ==
  /\ DueToRun /\ sup.owner = "none"
  /\ IF sup.closed
     THEN comp' = [comp EXCEPT !.at = IF @ = "ready" THEN "draining" ELSE "failing"]
          /\ UNCHANGED <<sup, ns>>
     ELSE /\ comp' = [comp EXCEPT !.at = IF @ = "ready" THEN "spawn_child" ELSE "spawn_run"]
          /\ sup' = [sup EXCEPT !.owner = "spawn"]
          /\ ns' = [ns EXCEPT !.starting = @ + 1, !.helpers = @ + 1]
  /\ UNCHANGED <<server, serving, guard, manifest, sig, ports>>

\* The helper enters the namespace and forks the command there; a namespace
\* whose init is dead admits no process, and the helper exits.
RunNamespaceSpawn ==
  /\ ns.starting > 0
  /\ ns' = IF ns.init THEN [ns EXCEPT !.starting = @ - 1, !.cmds = @ + 1]
           ELSE [ns EXCEPT !.starting = @ - 1, !.helpers = @ - 1]
  /\ sup' = IF comp.killed THEN sup ELSE [sup EXCEPT !.owner = "none"]
  /\ comp' = CASE comp.at = "spawn_run" -> [comp EXCEPT !.at = IF ns.init THEN "run" ELSE "failing"]
               [] comp.at = "spawn_child" -> [comp EXCEPT !.at = IF ns.init THEN "child" ELSE "draining"]
               [] OTHER -> comp
  /\ UNCHANGED <<server, serving, guard, manifest, sig, ports>>

\* A contained process forks, daemons included, and the child outlives it.
Fork ==
  /\ ns.cmds > 0 /\ ns.cmds < MaxForks
  /\ ns' = [ns EXCEPT !.cmds = @ + 1]
  /\ UNCHANGED <<server, serving, comp, sup, guard, manifest, sig, ports>>

\* The command ends and its helper reports the status.  A setup command that
\* failed is tried again until its deadline, or fails the setup.
RunCommand(outcome) ==
  /\ comp.at = "run" /\ ns.helpers > 0 /\ ns.starting = 0
  /\ ns' = [ns EXCEPT !.helpers = @ - 1, !.cmds = IF @ > 0 THEN @ - 1 ELSE 0]
  /\ comp' = CASE outcome = "ok" /\ ns.cmds > 0 -> [comp EXCEPT !.at = "setup", !.pc = @ + 1]
               [] outcome = "again" -> [comp EXCEPT !.at = "setup"]
               [] OTHER -> [comp EXCEPT !.at = "failing"]
  /\ UNCHANGED <<server, serving, sup, guard, manifest, sig, ports>>

\* The command's time is up: the whole environment is torn down.
RunCommandTimesOut ==
  /\ comp.at = "run" /\ comp' = [comp EXCEPT !.at = "failing"]
  /\ UNCHANGED <<server, serving, sup, ns, guard, manifest, sig, ports>>

WriteReady ==
  /\ comp.at = "setup" /\ comp.pc > Len(Plan) /\ guard # "none"
  /\ manifest' = "ready"
  /\ comp' = [comp EXCEPT !.at = "ready"]
  /\ UNCHANGED <<server, serving, sup, ns, guard, sig, ports>>

RunChild ==
  /\ comp.at = "child" /\ ns.helpers > 0
  /\ ns' = [ns EXCEPT !.helpers = @ - 1, !.cmds = IF @ > 0 THEN @ - 1 ELSE 0]
  /\ comp' = [comp EXCEPT !.at = "draining"]
  /\ UNCHANGED <<server, serving, sup, guard, manifest, sig, ports>>

\* Any other step of the setup fails: the supervisor is dropped first.
SetupFails ==
  /\ comp.at = "setup" /\ conn[Composer].op = NoOperation
  /\ comp' = [comp EXCEPT !.at = "failing"]
  /\ UNCHANGED <<server, serving, sup, ns, guard, manifest, sig, ports>>

CatchSignal ==
  /\ sig = "none" /\ comp.at # "gone"
  /\ sig' = "received"
  /\ UNCHANGED <<server, serving, comp, sup, ns, guard, manifest, ports>>

\* terminate_and_reap: admission closes, and its mutex is kept to the end.
Terminate(by) ==
  /\ sup.owner = "none"
  /\ \/ by = "main" /\ comp.at \in {"failing", "draining"} /\ ~sup.cleaned
     \/ by = "signal" /\ sig = "received" /\ comp.at # "gone"
  /\ sup' = [sup EXCEPT !.closed = TRUE, !.owner = IF sup.cleaned THEN "none" ELSE by]
  /\ sig' = IF by = "signal" THEN (IF sup.cleaned THEN "reaped" ELSE "reaping") ELSE sig
  /\ UNCHANGED <<server, serving, comp, ns, guard, manifest, ports>>

\* SIGKILL reaches namespace init; the kernel ends every process of the
\* namespace before init's exit can be seen.
KillInit ==
  /\ sup.owner \in {"main", "signal"} /\ comp.at # "gone" /\ ns.init
  /\ ns' = [ns EXCEPT !.init = FALSE, !.cmds = 0]
  /\ UNCHANGED <<server, serving, comp, sup, guard, manifest, sig, ports>>

HelperExits ==
  /\ ns.helpers > ns.starting /\ ~ns.init
  /\ ns' = [ns EXCEPT !.helpers = @ - 1]
  /\ UNCHANGED <<server, serving, comp, sup, guard, manifest, sig, ports>>

\* The bootstrap ends with init, or by the kernel when the composer is gone.
NamespaceBootstrap ==
  /\ ns.bootstrap /\ (~ns.init \/ comp.at = "gone")
  /\ ns' = [ns EXCEPT !.bootstrap = FALSE]
  /\ UNCHANGED <<server, serving, comp, sup, guard, manifest, sig, ports>>

\* Init asked to die with its parent, the bootstrap.
NamespaceInit ==
  /\ ns.init /\ ~ns.bootstrap
  /\ ns' = [ns EXCEPT !.init = FALSE, !.cmds = 0]
  /\ UNCHANGED <<server, serving, comp, sup, guard, manifest, sig, ports>>

\* The lease guard keeps its copy of the connection until init has exited.
RunLeaseGuard ==
  /\ guard = "alive" /\ ~ns.init
  /\ guard' = "gone"
  /\ UNCHANGED <<server, serving, comp, sup, ns, manifest, sig, ports>>

TerminateAndReap ==
  /\ sup.owner \in {"main", "signal"} /\ comp.at # "gone"
  /\ ~ns.init /\ ns.helpers = 0 /\ ~ns.bootstrap /\ guard # "alive"
  /\ sup' = [sup EXCEPT !.cleaned = TRUE, !.owner = "none"]
  /\ sig' = IF sup.owner = "signal" THEN "reaped" ELSE sig
  /\ UNCHANGED <<server, serving, comp, ns, guard, manifest, ports>>

\* The signal task marks a ready manifest stopped and dies of the signal.
InvalidateReadyManifest ==
  /\ sig = "reaped" /\ comp.at # "gone"
  /\ manifest' = IF manifest = "ready" THEN "stopped" ELSE manifest
  /\ sig' = "invalidated"
  /\ UNCHANGED <<server, serving, comp, sup, ns, guard, ports>>

RaiseDefaultSignal ==
  /\ sig = "invalidated" /\ comp.at # "gone"
  /\ comp' = [comp EXCEPT !.at = "gone"]
  /\ UNCHANGED <<server, serving, sup, ns, guard, manifest, sig, ports>>

\* The environment is over: the manifest says so, or is removed, before the
\* leases go.  A setup that failed never wrote one.
StoppedManifest ==
  /\ comp.at = "draining" /\ sup.cleaned
  /\ \E m \in {"stopped", "none"} : manifest' = m
  /\ comp' = [comp EXCEPT !.at = "gone"]
  /\ UNCHANGED <<server, serving, sup, ns, guard, sig, ports>>

DropSupervisor ==
  /\ comp.at = "failing" /\ sup.cleaned
  /\ comp' = [comp EXCEPT !.at = "gone"]
  /\ UNCHANGED <<server, serving, sup, ns, guard, manifest, sig, ports>>

\* The composer is killed outright, at any point.
Killed ==
  /\ comp.at # "gone"
  /\ comp' = [comp EXCEPT !.at = "gone", !.killed = TRUE]
  /\ UNCHANGED <<server, serving, sup, ns, guard, manifest, sig, ports>>

-----------------------------------------------------------------------------
(* Port reservations, under the lock of the state file                     *)

Range1(start, size) == start..(start + size - 1)

Reclaim(keys) == {k \in keys : now < k.expires}

\* Only the last reservation that starts before the range's end is looked at:
\* enough, as long as reservations are disjoint.
Contains(start, size) ==
  LET below == {k \in book.keys : k.start < start + size}
      last == CHOOSE k \in below : \A j \in below : j.start <= k.start
  IN IF below # {} /\ start < last.start + last.size THEN last.start + last.size ELSE 0

PortAlloc(size) ==
  /\ search = NoOperation
  /\ search' = [do |-> "search", size |-> size, base |-> book.next]
  /\ book' = [book EXCEPT !.keys = Reclaim(@)]
  /\ UNCHANGED <<server, serving, composer, bound, now>>

\* One turn of the loop: back to the bottom, past a reservation, past a port
\* some socket holds, or the range is taken.
GetFreePortRange ==
  LET base == IF search.base > High THEN Low ELSE search.base
      keys == IF search.base > High THEN Reclaim(book.keys) ELSE book.keys
      past == Contains(base, search.size)
      busy == Range1(base, search.size) \cap bound
  IN
  /\ search.do = "search"
  /\ IF search.base > High
     THEN search' = [search EXCEPT !.base = Low] /\ book' = [book EXCEPT !.keys = keys]
     ELSE IF past # 0
     THEN search' = [search EXCEPT !.base = past] /\ UNCHANGED book
     ELSE IF busy # {}
     THEN /\ search' = [search EXCEPT !.base = (CHOOSE p \in busy : \A q \in busy : p <= q) + 1]
          /\ UNCHANGED book
     ELSE /\ book' = [next |-> base + search.size,
                      keys |-> {k \in book.keys : k.start # base}
                               \union {[start |-> base, size |-> search.size,
                                        expires |-> now + Hold]}]
          /\ search' = NoOperation
  /\ UNCHANGED <<server, serving, composer, bound, now>>

\* A process binds a port it reserved, or any process one it did not.
Bind(p) ==
  /\ Sizes # {} /\ p \notin bound /\ Cardinality(bound) < MaxBound
  /\ bound' = bound \union {p}
  /\ UNCHANGED <<server, serving, composer, book, search, now>>

Unbind(p) ==
  /\ p \in bound /\ bound' = bound \ {p}
  /\ UNCHANGED <<server, serving, composer, book, search, now>>

Tick ==
  /\ Sizes # {} /\ now < MaxTime /\ now' = now + 1
  /\ UNCHANGED <<server, serving, composer, book, search, bound>>

-----------------------------------------------------------------------------
ServerNext ==
  \/ \E c \in Clients :
       \/ AcceptClient(c) \/ AcquireExclusive(c) \/ ExclusiveStarted(c) \/ ExclusiveFails(c)
       \/ DiscardPending(c) \/ CountFinished(c) \/ Ready(c) \/ SharedStarted(c) \/ StartFails(c)
       \/ Release(c) \/ Restarted(c) \/ Respond(c) \/ Disconnect(c) \/ DropConnection(c)
       \/ \E k \in Keys : AcquireShared(c, k)
       \/ \E mode \in {"IfExited", "Force"} : Restart(c, mode)
  \/ \E p \in running : ProcessExits(p)
  \/ InstallShutdownHandler \/ WaitForExecChild \/ BeginShutdown \/ Shutdown
  \/ \E keep \in BOOLEAN : CleanupTemp(keep)

ComposerNext ==
  \/ GuardConnection \/ LeaseHeld \/ Spawn \/ RunNamespaceSpawn \/ Fork
  \/ \E outcome \in {"ok", "again", "failed"} : RunCommand(outcome)
  \/ RunCommandTimesOut \/ WriteReady \/ RunChild \/ SetupFails \/ CatchSignal
  \/ \E by \in {"main", "signal"} : Terminate(by)
  \/ KillInit \/ HelperExits \/ NamespaceBootstrap \/ NamespaceInit \/ RunLeaseGuard
  \/ TerminateAndReap \/ InvalidateReadyManifest \/ RaiseDefaultSignal
  \/ StoppedManifest \/ DropSupervisor \/ Killed

PortsNext ==
  \/ \E size \in Sizes : PortAlloc(size)
  \/ GetFreePortRange
  \/ \E p \in Low..(High + 2) : Bind(p) \/ Unbind(p)
  \/ Tick

Next ==
  \/ Clients # {} /\ ServerNext
  \/ Composer # NoClient /\ ComposerNext
  \/ PortsNext

Spec == Init /\ [][Next]_vars

-----------------------------------------------------------------------------
(* Properties                                                              *)

\* The variables stay within their types.
TypeOK ==
  /\ mgr.pending \in 0..Cardinality(Clients) /\ mgr.next \in 0..MaxSlots
  /\ mgr.lock \in Clients \union {NoClient}
  /\ \A s \in DOMAIN slots : slots[s].gen \in 1..MaxGen /\ slots[s].leases \in Nat
  /\ running \subseteq (1..MaxSlots) \X (1..MaxGen)
  /\ \A c \in Clients : conn[c].state \in {"none", "open", "closed", "dropped"}
  /\ exec \in {"child", "signalled", "exited", "closing", "stopped", "cleaned"}
  /\ temp \in BOOLEAN /\ now \in 0..MaxTime

\* The handles, over all connections, that stand for a slot, one whose start
\* has made the slot but not yet the handle included.
HoldersOf(s) ==
  {<<c, h>> \in Clients \X (1..MaxHandles) : <<h, s>> \in conn[c].handles}
  \union {<<c, 0>> : c \in {d \in Clients : conn[d].op.do = "count" /\ conn[d].op.ok
                                             /\ conn[d].op.slot = s}}

\* A slot is kept exactly as long as some connection holds it: its lease count
\* is the number of handles that name it (acquire, release_slot, connection
\* drop), and no two slots answer for one shared key.
LeasesAreCounted ==
  /\ \A s \in DOMAIN slots : slots[s].leases = Cardinality(HoldersOf(s))
  /\ \A s \in DOMAIN slots : slots[s].leases > 0
  /\ \A k \in DOMAIN shared : shared[k] \in DOMAIN slots /\ slots[shared[k]].key = k
  /\ \A s \in DOMAIN slots : slots[s].key # "none" =>
       slots[s].key \in DOMAIN shared /\ shared[slots[s].key] = s

\* No process runs that nobody answers for: it is the current generation of a
\* slot, or a start in progress that will install or stop it.  Two generations
\* of one slot never run at once, and no two processes share a port of the
\* ranges their slots keep through restarts.
EveryProcessIsOwned ==
  \A p \in running :
    /\ \/ p[1] \in DOMAIN slots /\ slots[p[1]].gen = p[2]
       \/ \E c \in Clients : /\ conn[c].op.do \in {"shared", "exclusive", "restart", "discard"}
                             /\ conn[c].op.slot = p[1] /\ conn[c].op.gen = p[2]
    /\ \A q \in running : q[1] = p[1] => q = p
    /\ \A q \in running \ {p} :
         LET a == stable[p[1]]  b == stable[q[1]]
         IN a.base + a.size <= b.base \/ b.base + b.size <= a.base

\* Once the manager's shutdown returns nothing it started is left running, an
\* exclusive start that raced it included, so the temporary root is removed
\* from under no process.
ShutdownStopsAll == exec \in {"stopped", "cleaned"} => running = {}

\* A contained descendant never outlives the leases it may be using: while one
\* lives the composer's connection is open and its slots exist, whether the
\* command exits, the setup fails, a signal arrives or the composer is killed.
\* (After a kill the server itself may close: it waits for its child only.)
DescendantsKeepTheirLeases ==
  ns.cmds > 0 /\ Composer # NoClient =>
    /\ conn[Composer].state # "none" => conn[Composer].state = "open"
    /\ ~mgr.closed => \A h \in conn[Composer].handles : h[2] \in DOMAIN slots
    /\ mgr.closed => comp.killed

\* Teardown is complete when it says so: after it no helper, bootstrap or
\* guard is left, and no command is admitted again.
CleanedIsEmpty ==
  sup.cleaned => sup.closed /\ ns.cmds = 0 /\ ns.helpers = 0 /\ ~ns.bootstrap /\ guard # "alive"

\* A manifest that says ready names resources the composer holds, unless the
\* composer was killed or is dying of a signal.
ReadyIsServed ==
  manifest = "ready" /\ ~comp.killed /\ sig = "none" =>
    Cardinality(conn[Composer].handles) = Cardinality({i \in DOMAIN Plan : Plan[i].do = "lease"})

\* Reservations in force never overlap, although a new range is compared with
\* one of them only, ranges wrap around and old ones expire.
ReservationsAreDisjoint ==
  \A j, k \in book.keys : j # k => Range1(j.start, j.size) \cap Range1(k.start, k.size) = {}

=============================================================================
