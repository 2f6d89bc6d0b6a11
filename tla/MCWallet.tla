------------------------------ MODULE MCWallet -------------------------------
(* The Manifold Guardian's money, for TLC.  A behaviour of this suite is    *)
(* one of payouts, or of the wallet clients of the payment federations,     *)
(* named by "part".  The payouts come in three parts, each with everything  *)
(* in it but what another part is about: calls for several requests in a    *)
(* guardian's wallet, calls of one request that name different wallets, and *)
(* a drain query beside payouts and claims.                                 *)
EXTENDS Payouts, TLC

CONSTANTS
    Parts,   \* the components a run checks
    Off      \* a component that is not under check

VARIABLES
    part,  \* the component this behaviour is of
    map, next, partition, origin, known, attempted, ledger, published,
    openers, mode, joinLock, opening, policy, up, restarts

W == INSTANCE WalletClients WITH Feds <- {"f"}, Guarded <- {"f"},
                                 MaxPrefix <- 2, MaxRestarts <- 1,
                                 part <- partition, lock <- joinLock,
                                 call <- opening

clientVars == <<map, next, partition, origin, known, attempted, ledger,
                published, openers, mode, joinLock, opening, policy, up,
                restarts>>
allVars == <<part, vars, clientVars>>

\* A component that is not under check is switched off.
PartsInit ==
    /\ part \in Parts
    /\ Init
    /\ IF part = "clients" THEN W!Init ELSE
            /\ map = Off /\ next = Off /\ partition = Off /\ origin = Off
            /\ known = Off /\ attempted = Off /\ ledger = Off /\ published = Off
            /\ openers = Off /\ mode = Off /\ joinLock = Off /\ opening = Off
            /\ policy = Off /\ up = Off /\ restarts = Off

\* What the calls of a part may name, and how many of them run at a time.
Busy == {c \in Callers : call[c] # Idle}
InWallets(S) == \A c \in Busy : call[c].scope \in S
OneRequest == Cardinality({call[c].req : c \in Busy} \cup {r \in Requests : jobs[r] # None}) <= 1
OneCall == Cardinality(Busy) <= 1

PartsNext ==
    \/ /\ part = "requests" /\ Next /\ UNCHANGED <<claims, query>>
       /\ InWallets(Guardians)'
       /\ UNCHANGED <<part, clientVars>>
    \/ /\ part = "scopes" /\ Next /\ UNCHANGED <<claims, query>>
       /\ OneRequest'
       /\ UNCHANGED <<part, clientVars>>
    \/ /\ part = "drain" /\ Next
       /\ InWallets(Queried)' /\ OneRequest' /\ OneCall'
       /\ UNCHANGED <<part, clientVars>>
    \/ /\ part = "clients" /\ W!Next
       /\ UNCHANGED <<part, vars>>

PartsSpec == PartsInit /\ [][PartsNext]_allVars

Symmetry ==
    Permutations(Requests) \cup Permutations(Destinations) \cup Permutations(Callers)

\* A client that is handed out has all of its federation's value, no second
\* client works in its partition, and the partition was never another scope's,
\* over cancelled opens, failed recoveries and crashes (client_open_once,
\* finish_recovery, reserve_prefix).
ClientsAreSound ==
    part = "clients" => W!TypeOK /\ W!PublishedIsWhole /\ W!OneOpener /\ W!PartitionIsTheirs
==============================================================================
