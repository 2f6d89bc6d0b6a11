------------------------------- MODULE PayOnce -------------------------------
(***************************************************************************)
(* What a payout request is promised: its terms are fixed once, it is paid *)
(* at most once and on those terms, and the payment it is linked to is the *)
(* one that was made.                                                      *)
(***************************************************************************)
CONSTANTS Requests,
          Terms,      \* a wallet and a destination
          Payments,   \* identities of payments
          None        \* a model value: absent

VARIABLES promised,   \* the terms of each request
          payments,   \* the payments made for each request, with their terms
          linked      \* the payment each request is known to be paid by

vars == <<promised, payments, linked>>

Init ==
    /\ promised = [r \in Requests |-> None]
    /\ payments = [r \in Requests |-> {}]
    /\ linked = [r \in Requests |-> None]

Promise(r) ==
    /\ promised[r] = None
    /\ \E t \in Terms : promised' = [promised EXCEPT ![r] = t]
    /\ UNCHANGED <<payments, linked>>

Pay(r) ==
    /\ promised[r] # None /\ payments[r] = {}
    /\ \E p \in Payments : payments' = [payments EXCEPT ![r] = {<<p, promised[r]>>}]
    /\ UNCHANGED <<promised, linked>>

Link(r) ==
    /\ linked[r] = None
    /\ \E p \in payments[r] : linked' = [linked EXCEPT ![r] = p[1]]
    /\ UNCHANGED <<promised, payments>>

Next == \E r \in Requests : Promise(r) \/ Pay(r) \/ Link(r)

Spec == Init /\ [][Next]_vars
=============================================================================
