--------------------------- MODULE RateLimitProofs ---------------------------
(***************************************************************************)
(* For every rate, burst, set of keys and set of costs: no key is ever     *)
(* admitted more than the burst plus the sustained rate, in any window.    *)
(*                                                                         *)
(* The bound itself is not inductive: a bucket must be known to hold no    *)
(* more than what the window has left.  Account says so for a bucket that  *)
(* was looked at during the window; one that was not has spent nothing in  *)
(* it; and one that prune deleted was old enough to be full again.         *)
(***************************************************************************)
EXTENDS RateLimit, TLAPS

Account ==
    \A k \in Keys :
       /\ bucket[k] = None => spent[k] <= Rate * (now - mark[k])
       /\ bucket[k] # None =>
             IF bucket[k].updated >= mark[k]
             THEN spent[k] + bucket[k].tokens
                     <= Burst + Rate * (bucket[k].updated - mark[k])
             ELSE spent[k] = 0

IInv == RateTypeOK /\ Account

-----------------------------------------------------------------------------
(* What is refilled in two stretches is refilled in their sum. *)
LEMMA Stretches ==
    ASSUME NEW r \in Int, NEW x \in Int, NEW y \in Int, NEW z \in Int
    PROVE  r * (z - x) = r * (y - x) + r * (z - y)
  BY SMT

(* More time refills more. *)
LEMMA Longer ==
    ASSUME NEW r \in Nat, NEW x \in Nat, NEW y \in Nat, x <= y
    PROVE  r * x \in Nat /\ r * y \in Nat /\ r * x <= r * y
<1>1. r * x \in Nat /\ r * (y - x) \in Nat
  BY SMT
<1>2. r * y = r * x + r * (y - x)
  BY SMT
<1> QED  BY <1>1, <1>2

(* What check finds in a bucket lies between nothing and the burst, and is  *)
(* at most what was there and what the elapsed time has refilled.          *)
LEMMA RefilledBound ==
    ASSUME RateTypeOK, NEW k \in Keys
    PROVE  /\ Refilled(k) \in 0..Burst
           /\ bucket[k] # None =>
                 Refilled(k) <= bucket[k].tokens
                                  + Rate * (now - bucket[k].updated)
<1> USE RateLimitAssumption
<1>1. CASE bucket[k] = None
  BY <1>1 DEF Refilled
<1>2. CASE bucket[k] # None
  <2>1. bucket[k].tokens \in 0..Burst /\ bucket[k].updated \in Nat
        /\ bucket[k].updated <= now /\ now \in Nat
    BY <1>2 DEF RateTypeOK, Buckets
  <2>2. (now - bucket[k].updated) * Rate \in Nat
    BY <2>1
  <2>3. (now - bucket[k].updated) * Rate = Rate * (now - bucket[k].updated)
    BY <2>1
  <2> QED  BY <1>2, <2>1, <2>2, <2>3 DEF Refilled
<1> QED  BY <1>1, <1>2

(* What is in the account when check looks, before it takes the cost. *)
LEMMA AccountNow ==
    ASSUME RateTypeOK, Account, NEW k \in Keys
    PROVE  spent[k] + Refilled(k) <= Burst + Rate * (now - mark[k])
<1> USE RateLimitAssumption
<1>0. /\ now \in Nat /\ mark[k] \in Nat /\ spent[k] \in Nat
      /\ mark[k] <= now /\ Refilled(k) \in 0..Burst
  BY RefilledBound DEF RateTypeOK
<1>1. Rate * (now - mark[k]) \in Nat
  BY <1>0
<1>2. CASE bucket[k] = None
  BY <1>0, <1>1, <1>2 DEF Refilled, Account
<1>3. CASE bucket[k] # None
  <2> DEFINE u == bucket[k].updated
  <2>1. u \in Nat /\ u <= now /\ bucket[k].tokens \in 0..Burst
    BY <1>3 DEF RateTypeOK, Buckets
  <2>2. Refilled(k) <= bucket[k].tokens + Rate * (now - u)
    BY <1>3, RefilledBound
  <2>3. CASE u >= mark[k]
    <3>1. spent[k] + bucket[k].tokens <= Burst + Rate * (u - mark[k])
      BY <1>3, <2>3 DEF Account
    <3>2. Rate * (now - mark[k]) = Rate * (u - mark[k]) + Rate * (now - u)
      BY <1>0, <2>1, Stretches
    <3>3. Rate * (u - mark[k]) \in Int /\ Rate * (now - u) \in Int
      BY <1>0, <2>1
    <3> QED  BY <1>0, <1>1, <2>1, <2>2, <3>1, <3>2, <3>3
  <2>4. CASE ~(u >= mark[k])
    <3>1. spent[k] = 0
      BY <1>3, <2>4 DEF Account
    <3> QED  BY <1>0, <1>1, <3>1
  <2> QED  BY <2>3, <2>4
<1> QED  BY <1>2, <1>3

-----------------------------------------------------------------------------
LEMMA InitIInv == RateInit => IInv
<1> SUFFICES ASSUME RateInit PROVE IInv
  OBVIOUS
<1> USE RateLimitAssumption
<1>1. RateTypeOK
  BY DEF RateInit, RateTypeOK
<1>2. Account
  <2> SUFFICES ASSUME NEW k \in Keys
               PROVE  bucket[k] = None /\ spent[k] <= Rate * (now - mark[k])
    BY DEF Account
  <2>1. now = 0 /\ mark[k] = 0 /\ spent[k] = 0 /\ bucket[k] = None
    BY DEF RateInit
  <2>2. Rate * (0 - 0) = 0
    OBVIOUS
  <2> QED  BY <2>1, <2>2
<1> QED  BY <1>1, <1>2 DEF IInv

(* A check leaves every other key alone, so one key decides. *)
LEMMA CheckIInv ==
    ASSUME IInv, NEW k \in Keys, NEW cost \in Costs, Check(k, cost)
    PROVE  IInv'
<1> USE RateLimitAssumption
<1>0. RateTypeOK /\ Account
  BY DEF IInv
<1>1. /\ now \in Nat /\ mark[k] \in Nat /\ spent[k] \in Nat /\ mark[k] <= now
      /\ cost \in Nat /\ Refilled(k) \in 0..Burst
  BY <1>0, RefilledBound DEF RateTypeOK
<1>2. spent[k] + Refilled(k) <= Burst + Rate * (now - mark[k])
  BY <1>0, AccountNow
<1>3. CASE Admit(k, cost)
  <2>1. [tokens |-> Refilled(k) - cost, updated |-> now] \in Buckets
    BY <1>1, <1>3 DEF Admit, Buckets
  <2>2. RateTypeOK'
    <3>1. bucket' \in [Keys -> Buckets \cup {None}]
      BY <1>0, <1>3, <2>1 DEF RateTypeOK, Admit
    <3>2. spent' \in [Keys -> Nat] /\ promise' \in [Keys -> Promises \cup {None}]
      BY <1>0, <1>1, <1>3 DEF RateTypeOK, Admit
    <3>3. \A j \in Keys : bucket'[j] # None => bucket'[j].updated <= now
      BY <1>0, <1>1, <1>3 DEF RateTypeOK, Admit
    <3> QED  BY <1>0, <1>3, <3>1, <3>2, <3>3 DEF RateTypeOK, Admit
  <2>3. Account'
    <3> SUFFICES ASSUME NEW j \in Keys
                 PROVE  Account!(j)'
      BY DEF Account
    <3>1. CASE j # k
      <4>1. bucket'[j] = bucket[j] /\ spent'[j] = spent[j]
            /\ mark' = mark /\ now' = now
        BY <1>0, <1>3, <3>1 DEF RateTypeOK, Admit
      <4> QED  BY <1>0, <4>1 DEF Account
    <3>2. CASE j = k
      <4>1. /\ bucket'[k] = [tokens |-> Refilled(k) - cost, updated |-> now]
            /\ spent'[k] = spent[k] + cost
            /\ mark' = mark /\ now' = now
        BY <1>0, <1>3 DEF RateTypeOK, Admit
      <4>2. bucket'[k] # None
        BY <2>1, <4>1, NoneAssumption
      <4>3. Rate * (now - mark[k]) \in Int
        BY <1>1
      <4>4. spent'[k] + bucket'[k].tokens <= Burst + Rate * (bucket'[k].updated - mark[k])
        BY <1>1, <1>2, <4>1, <4>3
      <4> QED  BY <1>1, <3>2, <4>1, <4>2, <4>4
    <3> QED  BY <3>1, <3>2
  <2> QED  BY <2>2, <2>3 DEF IInv
<1>4. CASE Deny(k, cost)
  <2>1. [tokens |-> Refilled(k), updated |-> now] \in Buckets
    BY <1>1 DEF Buckets
  <2>2. RetryAfter(k, cost) \in Nat
    <3>1. CASE Rate = 0
      BY <3>1 DEF RetryAfter
    <3>2. CASE Rate # 0
      <4> DEFINE ticks == (2 * (cost - Refilled(k)) + Rate) \div (2 * Rate)
      <4>1. 2 * (cost - Refilled(k)) + Rate \in Int /\ 2 * Rate \in Nat /\ 2 * Rate > 0
        BY <1>1, <3>2
      <4>2. ticks \in Int
        BY <4>1
      <4>3. RetryAfter(k, cost) = IF ticks < MinRetry THEN MinRetry ELSE ticks
        BY <3>2 DEF RetryAfter
      <4> HIDE DEF ticks
      <4> QED  BY <4>2, <4>3
    <3> QED  BY <3>1, <3>2
  <2>3. RateTypeOK'
    <3>1. bucket' \in [Keys -> Buckets \cup {None}]
      BY <1>0, <1>4, <2>1 DEF RateTypeOK, Deny
    <3>2. promise' \in [Keys -> Promises \cup {None}]
      <4>1. [cost |-> cost, due |-> now + RetryAfter(k, cost)] \in Promises
        BY <1>1, <2>2 DEF Promises
      <4> QED  BY <1>0, <1>4, <4>1 DEF RateTypeOK, Deny
    <3>3. \A j \in Keys : bucket'[j] # None => bucket'[j].updated <= now
      BY <1>0, <1>1, <1>4 DEF RateTypeOK, Deny
    <3> QED  BY <1>0, <1>4, <3>1, <3>2, <3>3 DEF RateTypeOK, Deny
  <2>4. Account'
    <3> SUFFICES ASSUME NEW j \in Keys
                 PROVE  Account!(j)'
      BY DEF Account
    <3>1. CASE j # k
      <4>1. bucket'[j] = bucket[j] /\ spent' = spent /\ mark' = mark /\ now' = now
        BY <1>0, <1>4, <3>1 DEF RateTypeOK, Deny
      <4> QED  BY <1>0, <4>1 DEF Account
    <3>2. CASE j = k
      <4>1. /\ bucket'[k] = [tokens |-> Refilled(k), updated |-> now]
            /\ spent' = spent /\ mark' = mark /\ now' = now
        BY <1>0, <1>4 DEF RateTypeOK, Deny
      <4>2. bucket'[k] # None
        BY <2>1, <4>1, NoneAssumption
      <4> QED  BY <1>1, <1>2, <3>2, <4>1, <4>2
    <3> QED  BY <3>1, <3>2
  <2> QED  BY <2>3, <2>4 DEF IInv
<1> QED  BY <1>3, <1>4 DEF Check

(* A bucket that prune deletes was full: an hour's refill is at least the   *)
(* burst (PruneAssumption).                                                *)
LEMMA PruneIInv == IInv /\ Prune => IInv'
<1> SUFFICES ASSUME IInv, Prune PROVE IInv'
  OBVIOUS
<1> USE RateLimitAssumption
<1>0. RateTypeOK /\ Account
  BY DEF IInv
<1>1. RateTypeOK'
  BY <1>0 DEF RateTypeOK, Prune
<1>2. Account'
  <2> SUFFICES ASSUME NEW k \in Keys
               PROVE  Account!(k)'
    BY DEF Account
  <2>0. /\ now \in Nat /\ mark[k] \in Nat /\ spent[k] \in Nat /\ mark[k] <= now
        /\ mark' = mark /\ spent' = spent /\ now' = now
    BY <1>0 DEF RateTypeOK, Prune
  <2>1. CASE bucket[k] # None /\ now - bucket[k].updated > OlderThan
    <3> DEFINE u == bucket[k].updated
    <3>1. u \in Nat /\ bucket[k].tokens \in 0..Burst
      BY <1>0, <2>1 DEF RateTypeOK, Buckets
    <3>2. bucket'[k] = None
      BY <2>1 DEF Prune
    <3>3. now - u \in Nat /\ OlderThan <= now - u
      BY <2>0, <2>1, <3>1
    <3>4. Rate * OlderThan \in Nat /\ Rate * (now - u) \in Nat
          /\ Rate * OlderThan <= Rate * (now - u)
      BY <3>3, Longer
    <3>5. Burst <= Rate * (now - u)
      <4>1. OlderThan * Rate = Rate * OlderThan
        OBVIOUS
      <4> QED  BY <3>4, <4>1, PruneAssumption
    <3>6. spent[k] <= Rate * (now - mark[k])
      <4>1. CASE u >= mark[k]
        <5>1. spent[k] + bucket[k].tokens <= Burst + Rate * (u - mark[k])
          BY <1>0, <2>1, <4>1 DEF Account
        <5>2. Rate * (now - mark[k]) = Rate * (u - mark[k]) + Rate * (now - u)
          BY <2>0, <3>1, Stretches
        <5>3. Rate * (u - mark[k]) \in Int /\ Rate * (now - u) \in Int
          BY <2>0, <3>1
        <5> QED  BY <2>0, <3>1, <3>5, <5>1, <5>2, <5>3
      <4>2. CASE ~(u >= mark[k])
        <5>1. spent[k] = 0
          BY <1>0, <2>1, <4>2 DEF Account
        <5>2. Rate * (now - mark[k]) \in Nat
          BY <2>0
        <5> QED  BY <5>1, <5>2
      <4> QED  BY <4>1, <4>2
    <3> QED  BY <2>0, <3>2, <3>6
  <2>2. CASE ~(bucket[k] # None /\ now - bucket[k].updated > OlderThan)
    <3>1. bucket'[k] = bucket[k]
      BY <2>2 DEF Prune
    <3> QED  BY <1>0, <2>0, <3>1 DEF Account
  <2> QED  BY <2>1, <2>2
<1> QED  BY <1>1, <1>2 DEF IInv

LEMMA TickIInv == IInv /\ Tick => IInv'
<1> SUFFICES ASSUME IInv, Tick PROVE IInv'
  OBVIOUS
<1> USE RateLimitAssumption
<1>0. RateTypeOK /\ Account
  BY DEF IInv
<1>1. RateTypeOK'
  <2>1. now \in Nat /\ now' = now + 1 /\ UNCHANGED <<bucket, mark, spent, promise>>
    BY <1>0 DEF RateTypeOK, Tick
  <2>2. \A k \in Keys : /\ mark[k] \in Nat /\ mark[k] <= now
                        /\ bucket[k] # None => /\ bucket[k].updated \in Nat
                                               /\ bucket[k].updated <= now
    BY <1>0 DEF RateTypeOK, Buckets
  <2>3. \A k \in Keys : /\ mark[k] <= now + 1
                        /\ bucket[k] # None => bucket[k].updated <= now + 1
    BY <2>1, <2>2
  <2> QED  BY <1>0, <2>1, <2>3 DEF RateTypeOK
<1>2. Account'
  <2> SUFFICES ASSUME NEW k \in Keys
               PROVE  Account!(k)'
    BY DEF Account
  <2>1. /\ now \in Nat /\ mark[k] \in Nat /\ spent[k] \in Nat /\ mark[k] <= now
        /\ mark' = mark /\ spent' = spent /\ bucket' = bucket /\ now' = now + 1
    BY <1>0 DEF RateTypeOK, Tick
  <2>2. CASE bucket[k] = None
    <3>1. Rate * (now - mark[k]) \in Nat /\ Rate * (now' - mark[k]) \in Nat
          /\ Rate * (now - mark[k]) <= Rate * (now' - mark[k])
      <4>1. now - mark[k] \in Nat /\ now' - mark[k] \in Nat
            /\ now - mark[k] <= now' - mark[k]
        BY <2>1
      <4> QED  BY <4>1, Longer
    <3> QED  BY <1>0, <2>1, <2>2, <3>1 DEF Account
  <2>3. CASE bucket[k] # None
    BY <1>0, <2>1, <2>3 DEF Account
  <2> QED  BY <2>2, <2>3
<1> QED  BY <1>1, <1>2 DEF IInv

(* A window that starts now has seen nothing yet. *)
LEMMA ObserveIInv ==
    ASSUME IInv, NEW k \in Keys, Observe(k)
    PROVE  IInv'
<1> USE RateLimitAssumption
<1>0. RateTypeOK /\ Account
  BY DEF IInv
<1>1. RateTypeOK'
  BY <1>0 DEF RateTypeOK, Observe
<1>2. Account'
  <2> SUFFICES ASSUME NEW j \in Keys
               PROVE  Account!(j)'
    BY DEF Account
  <2>0. now \in Nat /\ bucket' = bucket /\ now' = now
    BY <1>0 DEF RateTypeOK, Observe
  <2>1. CASE j # k
    <3>1. mark'[j] = mark[j] /\ spent'[j] = spent[j]
      BY <1>0, <2>1 DEF RateTypeOK, Observe
    <3> QED  BY <1>0, <2>0, <3>1 DEF Account
  <2>2. CASE j = k
    <3>1. mark'[j] = now /\ spent'[j] = 0
      BY <1>0, <2>2 DEF RateTypeOK, Observe
    <3>2. Rate * (now - now) = 0
      BY <2>0
    <3>3. bucket[j] # None => bucket[j].updated \in Nat
                              /\ bucket[j].tokens \in 0..Burst
                              /\ bucket[j].updated <= now
      BY <1>0 DEF RateTypeOK, Buckets
    <3>4. (bucket[j] # None /\ bucket[j].updated >= now)
             => bucket[j].tokens <= Burst + Rate * (bucket[j].updated - now)
      BY <2>0, <3>2, <3>3
    <3>5. bucket'[j] = bucket[j] /\ now' = now
      BY <2>0
    <3>6. bucket[j] = None => 0 <= Rate * (now - now)
      BY <3>2
    <3>7. bucket[j] # None => 0 + bucket[j].tokens = bucket[j].tokens
      BY <3>3
    <3> QED  BY <3>1, <3>4, <3>5, <3>6, <3>7
  <2> QED  BY <2>1, <2>2
<1> QED  BY <1>1, <1>2 DEF IInv

LEMMA NextIInv == IInv /\ [RateNext]_rateVars => IInv'
<1> SUFFICES ASSUME IInv, [RateNext]_rateVars PROVE IInv'
  OBVIOUS
<1>1. ASSUME NEW k \in Keys, NEW cost \in Costs, Check(k, cost) PROVE IInv'
  BY <1>1, CheckIInv
<1>2. CASE Prune
  BY <1>2, PruneIInv
<1>3. CASE Tick
  BY <1>3, TickIInv
<1>4. ASSUME NEW k \in Keys, Observe(k) PROVE IInv'
  BY <1>4, ObserveIInv
<1>5. CASE UNCHANGED rateVars
  BY <1>5 DEF IInv, RateTypeOK, Account, rateVars
<1> QED  BY <1>1, <1>2, <1>3, <1>4, <1>5 DEF RateNext

LEMMA IInvWithinRate == IInv => WithinRate
<1> SUFFICES ASSUME IInv, NEW k \in Keys
             PROVE  spent[k] <= Burst + Rate * (now - mark[k])
  BY DEF WithinRate
<1>1. Refilled(k) \in 0..Burst /\ spent[k] \in Nat /\ now \in Nat /\ mark[k] \in Nat
  BY RefilledBound DEF IInv, RateTypeOK
<1>2. Rate * (now - mark[k]) \in Int
  BY <1>1, RateLimitAssumption
<1> QED  BY <1>1, <1>2, AccountNow, RateLimitAssumption DEF IInv

-----------------------------------------------------------------------------
(* Buckets, clocks and counters keep their ranges (ratelimit.py:33-54); the *)
(* inductive invariant holds of every behaviour.                           *)
THEOREM RateLimitInvariant == RateSpec => []IInv
<1>1. RateInit => IInv
  BY InitIInv
<1>2. IInv /\ [RateNext]_rateVars => IInv'
  BY NextIInv
<1> QED  BY <1>1, <1>2, PTL DEF RateSpec

(* No key is ever admitted more than the burst plus the sustained rate, in  *)
(* any window (ratelimit.py:3-9).                                          *)
THEOREM RateLimitWithinRate == RateSpec => []WithinRate
<1>1. RateSpec => []IInv
  BY RateLimitInvariant
<1>2. IInv => WithinRate
  BY IInvWithinRate
<1> QED  BY <1>1, <1>2, PTL

-----------------------------------------------------------------------------
(* The promise a denial makes.  What a denied key lacks of the promised     *)
(* cost is refilled one hundredth of a second after the promise is due, or  *)
(* before: denials do not slow the refill, and a forgotten bucket is full.  *)
PromiseKept ==
    \A k \in Keys :
       (Rate > 0 /\ promise[k] # None /\ promise[k].cost <= Burst)
          => \/ Refilled(k) >= promise[k].cost
             \/ promise[k].cost - Refilled(k) <= Rate * (promise[k].due + 1 - now)

(* Rounding to the nearest hundredth loses less than a hundredth.           *)
LEMMA Rounding ==
    ASSUME NEW deficit \in Int, NEW r \in Nat, r > 0
    PROVE  /\ (2 * deficit + r) \div (2 * r) \in Int
           /\ deficit <= r * ((2 * deficit + r) \div (2 * r) + 1)
<1> DEFINE a == 2 * deficit + r
           q == a \div (2 * r)
<1>1. a \in Int /\ 2 * r \in Nat /\ 2 * r > 0
  OBVIOUS
<1>2. q \in Int /\ a < (2 * r) * q + 2 * r
  <2> HIDE DEF a
  <2>1. \A b \in Nat : b > 0 => a \div b \in Int /\ a < b * (a \div b) + b
    BY <1>1, SMT
  <2> QED  BY <1>1, <2>1
<1>3. /\ r * q \in Int
      /\ (2 * r) * q = 2 * (r * q)
      /\ r * (q + 1) = r * q + r
  <2> HIDE DEF q
  <2> QED  BY <1>2, SMT
<1>4. deficit <= r * (q + 1)
  <2> HIDE DEF q
  <2> QED  BY <1>2, <1>3
<1> QED  BY <1>2, <1>4

(* A client that waits for retry_after has waited long enough.              *)
LEMMA RetryCovers ==
    ASSUME RateTypeOK, NEW k \in Keys, NEW cost \in Costs, Rate > 0
    PROVE  /\ RetryAfter(k, cost) \in Int
           /\ cost - Refilled(k) <= Rate * (RetryAfter(k, cost) + 1)
<1> USE RateLimitAssumption
<1> DEFINE deficit == cost - Refilled(k)
           ticks == (2 * deficit + Rate) \div (2 * Rate)
<1>1. deficit \in Int
  BY RefilledBound
<1>2. ticks \in Int /\ deficit <= Rate * (ticks + 1)
  BY <1>1, Rounding
<1>3. RetryAfter(k, cost) = IF ticks < MinRetry THEN MinRetry ELSE ticks
  BY DEF RetryAfter
<1> HIDE DEF ticks, deficit
<1>4. CASE ticks < MinRetry
  <2>1. Rate * (ticks + 1) <= Rate * (MinRetry + 1)
    <3>1. Rate * (MinRetry - ticks) \in Nat
      BY <1>2, <1>4
    <3>2. Rate * (MinRetry + 1) = Rate * (ticks + 1) + Rate * (MinRetry - ticks)
      BY <1>2
    <3> QED  BY <1>2, <3>1, <3>2
  <2> QED  BY <1>1, <1>2, <1>3, <1>4, <2>1 DEF deficit
<1>5. CASE ~(ticks < MinRetry)
  BY <1>2, <1>3, <1>5 DEF deficit
<1> QED  BY <1>4, <1>5

(* One tick refills a bucket by Rate, or up to the burst.                   *)
LEMMA TickRefills ==
    ASSUME RateTypeOK, Tick, NEW k \in Keys
    PROVE  Refilled(k)' = Burst \/ Refilled(k)' = Refilled(k) + Rate
<1> USE RateLimitAssumption
<1>1. now \in Nat /\ now' = now + 1 /\ bucket' = bucket
  BY DEF RateTypeOK, Tick
<1>2. CASE bucket[k] = None
  BY <1>1, <1>2 DEF Refilled
<1>3. CASE bucket[k] # None
  <2> DEFINE u == bucket[k].updated
             n == bucket[k].tokens
             gain == (now - u) * Rate
  <2>1. u \in Nat /\ n \in 0..Burst
    BY <1>3 DEF RateTypeOK, Buckets
  <2>2. gain \in Int /\ (now' - u) * Rate = gain + Rate
    <3>1. now' - u = (now - u) + 1 /\ now - u \in Int
      BY <1>1, <2>1
    <3>2. \A x \in Int : (x + 1) * Rate = x * Rate + Rate /\ x * Rate \in Int
      OBVIOUS
    <3>. QED  BY <3>1, <3>2
  <2>3. Refilled(k) = IF n + gain < Burst THEN n + gain ELSE Burst
    BY <1>3 DEF Refilled
  <2>4. Refilled(k)' = IF n + (now' - u) * Rate < Burst THEN n + (now' - u) * Rate
                                                       ELSE Burst
    BY <1>1, <1>3 DEF Refilled
  <2>5. Refilled(k)' = IF n + (gain + Rate) < Burst THEN n + (gain + Rate) ELSE Burst
    <3> HIDE DEF gain
    <3> QED  BY <2>2, <2>4
  <2> HIDE DEF gain, u, n
  <2> QED  BY <2>1, <2>2, <2>3, <2>5
<1> QED  BY <1>2, <1>3

(* A denial refills the bucket and charges nothing.                         *)
LEMMA DenyRefills ==
    ASSUME RateTypeOK, NEW k \in Keys, NEW cost \in Costs, Deny(k, cost)
    PROVE  \A j \in Keys : Refilled(j)' = Refilled(j)
<1> USE RateLimitAssumption
<1>1. now \in Nat /\ now' = now /\ Refilled(k) \in 0..Burst
  BY RefilledBound DEF RateTypeOK, Deny
<1>2. ASSUME NEW j \in Keys, j # k PROVE Refilled(j)' = Refilled(j)
  <2>1. bucket'[j] = bucket[j]
    BY <1>2 DEF RateTypeOK, Deny
  <2> QED  BY <1>1, <2>1 DEF Refilled
<1>3. Refilled(k)' = Refilled(k)
  <2>1. bucket'[k] = [tokens |-> Refilled(k), updated |-> now]
    BY DEF RateTypeOK, Deny
  <2>2. bucket'[k] \in Buckets
    BY <1>1, <2>1 DEF Buckets
  <2>3. bucket'[k] # None
    BY <2>2, NoneAssumption
  <2>4. (now - now) * Rate = 0
    BY <1>1
  <2>5. Refilled(k)' = IF Refilled(k) + 0 < Burst THEN Refilled(k) + 0 ELSE Burst
    BY <1>1, <2>1, <2>3, <2>4 DEF Refilled
  <2> QED  BY <1>1, <2>5
<1> QED  BY <1>2, <1>3

LEMMA PromiseInit == RateInit => PromiseKept
  BY DEF RateInit, PromiseKept

LEMMA PromiseStep == IInv /\ PromiseKept /\ [RateNext]_rateVars => PromiseKept'
<1> SUFFICES ASSUME IInv, PromiseKept, [RateNext]_rateVars, NEW j \in Keys,
                    Rate > 0, promise'[j] # None, promise'[j].cost <= Burst
             PROVE  \/ Refilled(j)' >= promise'[j].cost
                    \/ promise'[j].cost - Refilled(j)'
                          <= Rate * (promise'[j].due + 1 - now')
  BY DEF PromiseKept
<1> USE RateLimitAssumption
<1>0. /\ RateTypeOK
      /\ now \in Nat
      /\ Refilled(j) \in 0..Burst
      /\ promise[j] # None => promise[j].cost \in Nat /\ promise[j].due \in Nat
  BY RefilledBound DEF IInv, RateTypeOK, Promises
<1>1. ASSUME Refilled(j)' = Refilled(j), now' = now, promise'[j] = promise[j]
      PROVE  \/ Refilled(j)' >= promise'[j].cost
             \/ promise'[j].cost - Refilled(j)' <= Rate * (promise'[j].due + 1 - now')
  BY <1>1 DEF PromiseKept
<1>2. ASSUME NEW k \in Keys, NEW cost \in Costs, Deny(k, cost)
      PROVE  \/ Refilled(j)' >= promise'[j].cost
             \/ promise'[j].cost - Refilled(j)' <= Rate * (promise'[j].due + 1 - now')
  <2>1. Refilled(j)' = Refilled(j) /\ now' = now
    BY <1>0, <1>2, DenyRefills DEF Deny
  <2>2. CASE j = k /\ promise[j] = None
    <3>1. promise'[j] = [cost |-> cost, due |-> now + RetryAfter(j, cost)]
      BY <1>0, <1>2, <2>2 DEF Deny, RateTypeOK
    <3>2. /\ RetryAfter(j, cost) \in Int
          /\ cost - Refilled(j) <= Rate * (RetryAfter(j, cost) + 1)
      BY <1>0, RetryCovers
    <3>3. promise'[j].due + 1 - now = RetryAfter(j, cost) + 1
      BY <1>0, <3>1, <3>2
    <3> QED  BY <2>1, <3>1, <3>2, <3>3
  <2>3. CASE ~(j = k /\ promise[j] = None)
    <3>1. promise'[j] = promise[j]
      BY <1>0, <1>2, <2>3 DEF Deny, RateTypeOK
    <3> QED  BY <1>1, <2>1, <3>1
  <2> QED  BY <2>2, <2>3
<1>3. ASSUME NEW k \in Keys, NEW cost \in Costs, Admit(k, cost)
      PROVE  \/ Refilled(j)' >= promise'[j].cost
             \/ promise'[j].cost - Refilled(j)' <= Rate * (promise'[j].due + 1 - now')
  <2>1. j # k
    BY <1>0, <1>3 DEF Admit, RateTypeOK
  <2>2. bucket'[j] = bucket[j] /\ promise'[j] = promise[j] /\ now' = now
    BY <1>0, <1>3, <2>1 DEF Admit, RateTypeOK
  <2> QED  BY <1>1, <2>2 DEF Refilled
<1>4. CASE Prune
  <2>1. now' = now /\ promise' = promise
        /\ (bucket'[j] = bucket[j] \/ bucket'[j] = None)
    BY <1>4 DEF Prune
  <2>2. CASE bucket'[j] = None
    <3>1. Refilled(j)' = Burst
      BY <2>2 DEF Refilled
    <3> QED  BY <1>0, <2>1, <3>1
  <2>3. CASE bucket'[j] = bucket[j]
    BY <1>1, <2>1, <2>3 DEF Refilled
  <2> QED  BY <2>1, <2>2, <2>3
<1>5. CASE Tick
  <2>1. now' = now + 1 /\ promise' = promise
    BY <1>5 DEF Tick
  <2>2. Refilled(j)' = Burst \/ Refilled(j)' = Refilled(j) + Rate
    BY <1>0, <1>5, TickRefills
  <2> DEFINE due == promise[j].due
  <2>3. due \in Nat /\ promise[j].cost \in Nat
    BY <1>0, <2>1
  <2>4. Rate * (due + 1 - now') = Rate * (due + 1 - now) - Rate
        /\ Rate * (due + 1 - now) \in Int
    BY <1>0, <2>1, <2>3
  <2>5. \/ Refilled(j) >= promise[j].cost
        \/ promise[j].cost - Refilled(j) <= Rate * (due + 1 - now)
    BY <2>1 DEF PromiseKept
  <2> QED  BY <1>0, <2>1, <2>2, <2>3, <2>4, <2>5
<1>6. ASSUME NEW k \in Keys, Observe(k)
      PROVE  \/ Refilled(j)' >= promise'[j].cost
             \/ promise'[j].cost - Refilled(j)' <= Rate * (promise'[j].due + 1 - now')
  BY <1>1, <1>6 DEF Observe, Refilled
<1>7. CASE UNCHANGED rateVars
  BY <1>1, <1>7 DEF rateVars, Refilled
<1> QED  BY <1>2, <1>3, <1>4, <1>5, <1>6, <1>7 DEF RateNext, Check

LEMMA KeptIsAdmitted == IInv /\ PromiseKept => RetryAdmitted
<1> SUFFICES ASSUME IInv, PromiseKept, NEW k \in Keys,
                    Rate > 0, promise[k] # None,
                    promise[k].cost <= Burst, now > promise[k].due
             PROVE  Refilled(k) >= promise[k].cost
  BY DEF RetryAdmitted
<1> USE RateLimitAssumption
<1>1. /\ now \in Nat /\ Refilled(k) \in 0..Burst
      /\ promise[k].cost \in Nat /\ promise[k].due \in Nat
  BY RefilledBound DEF IInv, RateTypeOK, Promises
<1>2. promise[k].due + 1 - now \in Int /\ promise[k].due + 1 - now <= 0
  BY <1>1
<1>3. Rate * (promise[k].due + 1 - now) <= 0
  BY <1>2
<1>4. \/ Refilled(k) >= promise[k].cost
      \/ promise[k].cost - Refilled(k) <= Rate * (promise[k].due + 1 - now)
  BY DEF PromiseKept
<1>5. Rate * (promise[k].due + 1 - now) \in Int
  BY <1>2
<1> QED  BY <1>1, <1>3, <1>4, <1>5

(* A denied request that comes back after its retry_after is admitted, for  *)
(* any rate, burst and cost, and however often it was denied meanwhile      *)
(* (ratelimit.py:46-51).                                                    *)
THEOREM RateLimitRetryAdmitted == RateSpec => []RetryAdmitted
<1>1. RateSpec => []IInv
  BY RateLimitInvariant
<1>2. RateInit => PromiseKept
  BY PromiseInit
<1>3. IInv /\ PromiseKept /\ [RateNext]_rateVars => PromiseKept'
  BY PromiseStep
<1>4. IInv /\ PromiseKept => RetryAdmitted
  BY KeptIsAdmitted
<1> QED  BY <1>1, <1>2, <1>3, <1>4, PTL DEF RateSpec
=============================================================================
