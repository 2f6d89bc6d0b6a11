-------------------------- MODULE CompletionHooks --------------------------
(***************************************************************************)
(* Delivery of the DKG completion callbacks FAs leave with their seats.    *)
(* The callback row is chosen once, with the ceremony's inputs; one worker *)
(* per daemon reads the deliverable rows, persists each attempt before its *)
(* network call, and settles the row from the answer.  Formation,          *)
(* decommission and transfer change the same rows at any time.             *)
(***************************************************************************)
EXTENDS Naturals, FiniteSets

CONSTANTS Seats, None

VARIABLES
  hook,     \* completion_callbacks: status per seat ("none": no row)
  bearer,   \* the row still holds the callback's URL
  due,      \* next_attempt_at_ms has passed
  formed,   \* formed_seats
  gone,     \* "no", "decommissioned" or "retired" (transferred out)
  origin,   \* the deployment names a gateway origin the callback matches
  plan,     \* rows of the current pass: seat -> status read, or None
  active,   \* seats with an invocation in flight, and its answer
  accepted, \* gateway: idempotency keys it has accepted
  early     \* history: an attempt started on a seat that was not deliverable

vars == <<hook, bearer, due, formed, gone, origin, plan, active, accepted, early>>

Open == {"pending", "operator_blocked"}
Final == {"delivered", "terminal"}
CompletionCallbackStatus == {"none", "not_configured"} \union Open \union Final
Answers == {"delivered", "retryable", "terminal"}
Nothing == [s \in Seats |-> None]

Init ==
  /\ hook = [s \in Seats |-> "none"]
  /\ bearer = [s \in Seats |-> FALSE]
  /\ due = [s \in Seats |-> TRUE]
  /\ formed = [s \in Seats |-> FALSE]
  /\ gone = [s \in Seats |-> "no"]
  /\ origin \in BOOLEAN
  /\ plan = Nothing
  /\ active = Nothing
  /\ accepted = {}
  /\ early = FALSE

-----------------------------------------------------------------------------
(* The seat's own transitions. *)

\* The first ceremony's choice is kept; a restarted ceremony's is ignored.
InstallCallback(s, some) ==
  /\ gone[s] = "no" /\ ~formed[s]
  /\ hook' = [hook EXCEPT ![s] = IF @ # "none" THEN @
                                 ELSE IF some THEN "pending" ELSE "not_configured"]
  /\ bearer' = [bearer EXCEPT ![s] = IF hook[s] = "none" THEN some ELSE @]
  /\ UNCHANGED <<due, formed, gone, origin, plan, active, accepted, early>>

RecordFormed(s) ==
  /\ hook[s] # "none" /\ gone[s] = "no" /\ ~formed[s]
  /\ formed' = [formed EXCEPT ![s] = TRUE]
  /\ UNCHANGED <<hook, bearer, due, gone, origin, plan, active, accepted, early>>

EndSeat(s, status) ==
  /\ gone[s] = "no"
  /\ gone' = [gone EXCEPT ![s] = "decommissioned"]
  /\ hook' = [hook EXCEPT ![s] = IF @ \in Open THEN status ELSE @]
  /\ bearer' = [bearer EXCEPT ![s] = IF hook[s] \in Open THEN FALSE ELSE @]
  /\ UNCHANGED <<due, formed, origin, plan, active, accepted, early>>

\* The same transaction ends an open callback.
DecommissionSeat(s) == EndSeat(s, "terminal")

RetireForTransfer(s) ==
  /\ formed[s] /\ gone[s] = "no"
  /\ gone' = [gone EXCEPT ![s] = "retired"]
  /\ UNCHANGED <<hook, bearer, due, formed, origin, plan, active, accepted, early>>

BackoffEnds(s) ==
  /\ ~due[s]
  /\ due' = [due EXCEPT ![s] = TRUE]
  /\ UNCHANGED <<hook, bearer, formed, gone, origin, plan, active, accepted, early>>

-----------------------------------------------------------------------------
(* The worker.  A pass runs to its end before an answer is looked at. *)

Deliverable(s) == formed[s] /\ gone[s] = "no" /\ bearer[s] /\ hook[s] \in Open

Between == plan = Nothing

ScanOf(read) ==
  /\ Between /\ \A s \in Seats : active[s] \notin Answers
  /\ \E s \in Seats : Deliverable(s)
  /\ plan' = [s \in Seats |-> IF Deliverable(s) /\ hook[s] \in read THEN hook[s] ELSE None]
  /\ UNCHANGED <<hook, bearer, due, formed, gone, origin, active, accepted, early>>

\* mutant: a blocked callback is not looked at again
MScan == ScanOf({"pending"})

\* The loop's select is biased: answers that are in come before the next pass.
Scan == ScanOf(Open)

Considered(s) == plan' = [plan EXCEPT ![s] = None]

Skip(s) ==
  /\ plan[s] # None
  /\ active[s] # None \/ (plan[s] = "pending" /\ ~due[s])
  /\ Considered(s)
  /\ UNCHANGED <<hook, bearer, due, formed, gone, origin, active, accepted, early>>

BlockIf(s, allowed) ==
  /\ plan[s] # None /\ active[s] = None
  /\ plan[s] = "pending" => due[s]
  /\ ~origin
  /\ hook' = [hook EXCEPT ![s] = IF allowed THEN "operator_blocked" ELSE @]
  /\ Considered(s)
  /\ UNCHANGED <<bearer, due, formed, gone, origin, active, accepted, early>>

\* No usable origin: waits for the operator, without spending an attempt.
MarkOperatorBlocked(s) == BlockIf(s, bearer[s] /\ hook[s] \in Open)

AttemptIf(s, allowed) ==
  /\ plan[s] # None /\ active[s] = None
  /\ plan[s] = "pending" => due[s]
  /\ origin
  /\ IF allowed
     THEN /\ hook' = [hook EXCEPT ![s] = "pending"]
          /\ due' = [due EXCEPT ![s] = FALSE]
          /\ active' = [active EXCEPT ![s] = "calling"]
          /\ early' = (early \/ ~formed[s] \/ gone[s] = "decommissioned")
     ELSE UNCHANGED <<hook, due, active, early>>
  /\ Considered(s)
  /\ UNCHANGED <<bearer, formed, gone, origin, accepted>>

\* The attempt is persisted before the network call, if the row still wants it.
Attempt(s) ==
  AttemptIf(s, bearer[s] /\ hook[s] \in Open /\ formed[s] /\ gone[s] # "decommissioned")

\* The gateway's answer; an accepted invocation's answer may be lost.
Invoke(s, answer, taken) ==
  /\ active[s] = "calling"
  /\ answer = "delivered" => taken
  /\ answer = "terminal" => ~taken
  /\ accepted' = IF taken THEN accepted \union {s} ELSE accepted
  /\ active' = [active EXCEPT ![s] = answer]
  /\ UNCHANGED <<hook, bearer, due, formed, gone, origin, plan, early>>

FinishAs(s, allowed, status) ==
  /\ Between /\ active[s] \in Answers
  /\ LET settles == allowed /\ active[s] # "retryable"
     IN /\ hook' = [hook EXCEPT ![s] = IF settles THEN status ELSE @]
        /\ bearer' = [bearer EXCEPT ![s] = IF settles THEN FALSE ELSE @]
  /\ active' = [active EXCEPT ![s] = None]
  /\ UNCHANGED <<due, formed, gone, origin, plan, accepted, early>>

Finish(s) == FinishAs(s, bearer[s] /\ hook[s] = "pending", active[s])

\* Invocations and their answers are lost; the next start may have another origin.
Restart(o) ==
  /\ plan' = Nothing
  /\ active' = Nothing
  /\ origin' = o
  /\ UNCHANGED <<hook, bearer, due, formed, gone, accepted, early>>

Work(s) == \/ Skip(s) \/ MarkOperatorBlocked(s) \/ Attempt(s) \/ Finish(s)
           \/ \E answer \in Answers, taken \in BOOLEAN : Invoke(s, answer, taken)

Next ==
  \/ \E s \in Seats : \/ \E some \in BOOLEAN : InstallCallback(s, some)
                      \/ RecordFormed(s) \/ DecommissionSeat(s) \/ RetireForTransfer(s)
                      \/ BackoffEnds(s) \/ Work(s)
  \/ Scan
  \/ \E o \in BOOLEAN : Restart(o)

Spec == Init /\ [][Next]_vars

-----------------------------------------------------------------------------
TypeOK ==
  /\ hook \in [Seats -> CompletionCallbackStatus]
  /\ bearer \in [Seats -> BOOLEAN] /\ due \in [Seats -> BOOLEAN] /\ formed \in [Seats -> BOOLEAN]
  /\ gone \in [Seats -> {"no", "decommissioned", "retired"}]
  /\ origin \in BOOLEAN /\ early \in BOOLEAN
  /\ plan \in [Seats -> Open \union {None}]
  /\ active \in [Seats -> Answers \union {"calling", None}]
  /\ accepted \subseteq Seats

\* The rows always load (validate_completion_callbacks runs before any
\* network call): the bearer is there exactly while delivery is open.
RowsLoad == \A s \in Seats : bearer[s] = (hook[s] \in Open)

\* A row says "delivered" only of a callback the gateway has accepted, also
\* when the answer comes after the seat was decommissioned or restarted; and
\* no attempt started on a seat that was not deliverable, although the rows of
\* a pass were read before (record_completion_callback_attempt_started's guard).
DeliveredWasAccepted ==
  /\ \A s \in Seats : hook[s] = "delivered" => s \in accepted
  /\ ~early

\* The callback of a formed seat is delivered or definitively refused, unless
\* the seat is decommissioned or transferred first.
CallbackSettles ==
  \A s \in Seats : Deliverable(s) ~> (hook[s] \in Final \/ gone[s] # "no")
=============================================================================
