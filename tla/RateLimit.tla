------------------------------ MODULE RateLimit ------------------------------
(***************************************************************************)
(* app/services/ratelimit.py: the token bucket each API key's publishes    *)
(* are charged to.  check does not await, so a check is one step.          *)
(*                                                                         *)
(* The code counts tokens and seconds in floats.  Here time is counted in  *)
(* hundredths of a second, the precision retry_after is rounded to, and    *)
(* tokens in a unit small enough for Rate, what a hundredth refills, to be *)
(* an integer; Burst and the costs are in the same unit.                   *)
(***************************************************************************)
EXTENDS Integers

CONSTANTS Keys,
          Costs,      \* what the batches of a request cost
          Rate,       \* self.rate
          Burst,      \* self.burst
          MinRetry,   \* the shortest retry_after, 0.1 s
          NoRate,     \* retry_after when nothing is refilled, 60 s
          OlderThan,  \* the age prune deletes buckets at
          None,
          MaxTime     \* bound on the clock

ASSUME RateLimitAssumption ==
    /\ Costs \subseteq Nat
    /\ Rate \in Nat
    /\ Burst \in Nat \ {0}
    /\ MinRetry \in Nat /\ NoRate \in Nat
    /\ OlderThan \in Nat
    /\ MaxTime \in Nat

\* prune forgets only buckets that are full again: an hour refills the burst.
ASSUME PruneAssumption == OlderThan * Rate >= Burst

VARIABLES now,      \* time.monotonic()
          bucket,   \* _buckets: key -> [tokens, updated], or None
          mark,     \* history: the start of an observer's window, per key
          spent,    \* history: what was admitted since
          promise   \* history: the first denial since the last admission

rateVars == <<now, bucket, mark, spent, promise>>

Buckets == [tokens : 0..Burst, updated : Nat]
Promises == [cost : Costs, due : Nat]

ASSUME NoneAssumption == None \notin Buckets \cup Promises

-----------------------------------------------------------------------------
(***************************************************************************)
(* The tokens check finds: a new bucket is full, an old one has been       *)
(* refilled since it was last looked at, up to the burst.                  *)
(***************************************************************************)
Refilled(k) ==
    IF bucket[k] = None THEN Burst
    ELSE LET tokens == bucket[k].tokens + (now - bucket[k].updated) * Rate
         IN  IF tokens < Burst THEN tokens ELSE Burst

\* Mutant: the wait is computed from the tokens there are, not the deficit.
RetryAfterTokens(k, cost) ==
    IF Rate = 0 THEN NoRate
    ELSE LET ticks == (2 * Refilled(k) + Rate) \div (2 * Rate)
         IN  IF ticks < MinRetry THEN MinRetry ELSE ticks

\* deficit / rate, rounded to the nearest hundredth, at least MinRetry.
RetryAfter(k, cost) ==
    IF Rate = 0 THEN NoRate
    ELSE LET ticks == (2 * (cost - Refilled(k)) + Rate) \div (2 * Rate)
         IN  IF ticks < MinRetry THEN MinRetry ELSE ticks

-----------------------------------------------------------------------------
RateInit ==
    /\ now = 0
    /\ bucket = [k \in Keys |-> None]
    /\ mark = [k \in Keys |-> 0]
    /\ spent = [k \in Keys |-> 0]
    /\ promise = [k \in Keys |-> None]

\* Mutant: a denial's refill is kept but not its time.
DenyKeepsTime(k, cost) ==
    /\ Refilled(k) < cost
    /\ bucket' = [bucket EXCEPT ![k] =
                    [tokens |-> Refilled(k),
                     updated |-> IF @ = None THEN now ELSE @.updated]]
    /\ IF promise[k] = None
       THEN promise' = [promise EXCEPT ![k] =
                          [cost |-> cost, due |-> now + RetryAfter(k, cost)]]
       ELSE UNCHANGED promise
    /\ UNCHANGED <<now, mark, spent>>

Deny(k, cost) ==
    /\ Refilled(k) < cost
    /\ bucket' = [bucket EXCEPT ![k] = [tokens |-> Refilled(k), updated |-> now]]
    /\ IF promise[k] = None
       THEN promise' = [promise EXCEPT ![k] =
                          [cost |-> cost, due |-> now + RetryAfter(k, cost)]]
       ELSE UNCHANGED promise
    /\ UNCHANGED <<now, mark, spent>>

Admit(k, cost) ==
    /\ Refilled(k) >= cost
    /\ bucket' = [bucket EXCEPT ![k] = [tokens |-> Refilled(k) - cost, updated |-> now]]
    /\ spent' = [spent EXCEPT ![k] = @ + cost]
    /\ promise' = [promise EXCEPT ![k] = None]
    /\ UNCHANGED <<now, mark>>

Check(k, cost) == Admit(k, cost) \/ Deny(k, cost)

\* prune: the buckets nobody has used for OlderThan are deleted.  Nothing in
\* the repository calls it yet; the promise must hold when something does.
Prune == /\ bucket' = [k \in Keys |->
                         IF bucket[k] # None /\ now - bucket[k].updated > OlderThan
                         THEN None ELSE bucket[k]]
         /\ UNCHANGED <<now, mark, spent, promise>>

Tick == /\ now < MaxTime
        /\ now' = now + 1
        /\ UNCHANGED <<bucket, mark, spent, promise>>

\* An observer begins to count what is admitted.
Observe(k) == /\ mark' = [mark EXCEPT ![k] = now]
              /\ spent' = [spent EXCEPT ![k] = 0]
              /\ UNCHANGED <<now, bucket, promise>>

RateNext ==
    \/ \E k \in Keys, cost \in Costs : Check(k, cost)
    \/ Prune \/ Tick
    \/ \E k \in Keys : Observe(k)

RateSpec == RateInit /\ [][RateNext]_rateVars

-----------------------------------------------------------------------------
(* The shape of the state; no bucket holds more than the burst.             *)
RateTypeOK ==
    /\ now \in Nat
    /\ bucket \in [Keys -> Buckets \cup {None}]
    /\ mark \in [Keys -> Nat]
    /\ spent \in [Keys -> Nat]
    /\ promise \in [Keys -> Promises \cup {None}]
    /\ \A k \in Keys : /\ mark[k] <= now
                       /\ bucket[k] # None => bucket[k].updated <= now

(* ratelimit.py:3-9: whenever one starts counting, a key is never admitted  *)
(* more than the burst and what the sustained rate gives for the time since, *)
(* denied checks, idle times and forgotten buckets notwithstanding.        *)
WithinRate ==
    \A k \in Keys : spent[k] <= Burst + Rate * (now - mark[k])

(* ratelimit.py:46-51, docs/ARCHITECTURE.md:199: a request denied with a    *)
(* retry_after is admitted when it comes back after that time (and at most  *)
(* one hundredth of a second, lost to rounding) if nothing of its key was   *)
(* admitted meanwhile and it costs no more than the burst.                 *)
RetryAdmitted ==
    \A k \in Keys :
       (/\ Rate > 0 /\ promise[k] # None
        /\ promise[k].cost <= Burst /\ now > promise[k].due)
          => Refilled(k) >= promise[k].cost
=============================================================================
