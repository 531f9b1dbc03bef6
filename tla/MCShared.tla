------------------------------ MODULE MCShared ------------------------------
(***************************************************************************)
(* Three pieces of a server that every publish goes through and that share *)
(* no state, one part in each behaviour: the ids a process mints, its rate *)
(* limiter, and the Redis bus of two instances (MCRedisBus).               *)
(***************************************************************************)
EXTENDS Ulid, RateLimit, MCRedisBus

VARIABLE part

partVars == <<part, ulidVars, rateVars, vars>>

NoIds ==
    /\ lock = NoThread /\ lastMs = 0 /\ lastRand = 0
    /\ next = [t \in Threads |-> <<0, 0>>] /\ issued = {}

NoLimiter ==
    /\ now = 0
    /\ bucket = [k \in Keys |-> None] /\ promise = [k \in Keys |-> None]
    /\ mark = [k \in Keys |-> 0] /\ spent = [k \in Keys |-> 0]

\* Without a publish the bus of Init stays as it is.
SharedInit ==
    /\ Init
    /\ \/ part = "ids" /\ UlidInit /\ NoLimiter
       \/ part = "rates" /\ NoIds /\ RateInit
       \/ part = "bus" /\ NoIds /\ NoLimiter

Mint  == part = "ids" /\ UlidNext /\ UNCHANGED <<part, rateVars, vars>>
Limit == part = "rates" /\ RateNext /\ UNCHANGED <<part, ulidVars, vars>>
Carry == part = "bus" /\ Next /\ UNCHANGED <<part, ulidVars, rateVars>>

SharedNext == Mint \/ Limit \/ Carry

SharedSpec == SharedInit /\ [][SharedNext]_partVars /\ BusFairness
=============================================================================
