-------------------------------- MODULE Ulid --------------------------------
(***************************************************************************)
(* domain/ids.py: the id generator every event, connection and row id      *)
(* comes from.  _ulid keeps the last timestamp and the last random field   *)
(* in module globals and updates them under a threading.Lock; here a call  *)
(* is split at the point where another thread could run if the lock did    *)
(* not exclude it: Enter takes the lock, reads the clock and computes the  *)
(* next pair; Leave stores the pair and returns the encoded id.            *)
(*                                                                         *)
(* The wall clock may stand still, jump forward or go backwards.           *)
(***************************************************************************)
EXTENDS Integers, Sequences

CONSTANTS Threads,   \* threads that mint ids
          RandMax,   \* _RAND_MAX, the largest random field
          MaxClock,  \* bound: the wall clock is read in 0..MaxClock
          NoThread,  \* the lock is free
          Base,      \* the size of _ALPHABET
          MsLen,     \* digits that encode the timestamp
          RandLen    \* digits that encode the random field

ASSUME UlidAssumption ==
    /\ RandMax \in Nat \ {0}
    /\ MaxClock \in Nat
    /\ NoThread \notin Threads

VARIABLES lock,      \* _lock: the thread that holds it
          lastMs,    \* _last_ms
          lastRand,  \* _last_rand
          next,      \* the pair each thread computed inside the lock
          issued     \* history: the pairs returned so far

ulidVars == <<lock, lastMs, lastRand, next, issued>>

(***************************************************************************)
(* An id is compared by its timestamp, then by its random field.           *)
(***************************************************************************)
Pairs == Nat \X (0..RandMax)

Later(p, q) == \/ p[1] > q[1]
               \/ p[1] = q[1] /\ p[2] > q[2]

\* Mutant: the random field wraps without stepping the clock.
CandidatesWrap(ms) ==
    IF ms > lastMs
    THEN {ms} \X (0..RandMax)
    ELSE {<<lastMs, (lastRand + 1) % (RandMax + 1)>>}

(***************************************************************************)
(* The pairs a call may produce when the clock reads ms: a fresh random    *)
(* field on a new millisecond; otherwise the old timestamp with the random *)
(* field incremented, and on overflow the next millisecond, redrawn.       *)
(***************************************************************************)
Candidates(ms) ==
    IF ms > lastMs
    THEN {ms} \X (0..RandMax)
    ELSE LET bumped == (lastRand + 1) % (RandMax + 1)
         IN  IF bumped = 0 THEN {lastMs + 1} \X (0..RandMax)
                           ELSE {<<lastMs, bumped>>}

(***************************************************************************)
(* The values _encode's loop goes through: value >>= 5 divides by the size  *)
(* of the alphabet, once for each digit.                                    *)
(***************************************************************************)
Shifted(value, length) ==
    LET after[n \in 0..length] ==
            IF n = 0 THEN value ELSE after[n - 1] \div Base
    IN  after

\* Mutant: least significant digit first.
DigitsReversed(value, length) ==
    [k \in 1..length |-> Shifted(value, length)[k - 1] % Base]

(***************************************************************************)
(* _encode: a fixed number of base-32 digits, filled from the last to the   *)
(* first with the low bits (value & 0x1F) of what is left; the bits above   *)
(* them are lost.  The alphabet is in ASCII order, so strings compare as    *)
(* their digit sequences do.                                                *)
(***************************************************************************)
Digits(value, length) ==
    [k \in 1..length |-> Shifted(value, length)[length - k] % Base]

(***************************************************************************)
(* No bits are lost: 16 digits of 5 bits hold the 80 bits of _RAND_MAX, and *)
(* 10 of them hold every clock reading (milliseconds below 2^50) and the    *)
(* step beyond it that an overflow of the random field takes.               *)
(***************************************************************************)
ASSUME EncodingAssumption ==
    /\ Base \in Nat \ {0, 1}
    /\ MsLen \in Nat /\ Shifted(MaxClock + 1, MsLen)[MsLen] = 0
    /\ RandLen \in Nat /\ Shifted(RandMax, RandLen)[RandLen] = 0

Encoded(p) == Digits(p[1], MsLen) \o Digits(p[2], RandLen)

-----------------------------------------------------------------------------
UlidInit == /\ lock = NoThread
            /\ lastMs = 0
            /\ lastRand = 0
            /\ next = [t \in Threads |-> <<0, 0>>]
            /\ issued = {}

Enter(t) == /\ lock = NoThread
            /\ lastMs <= MaxClock
            /\ lock' = t
            /\ \E ms \in 0..MaxClock : \E p \in Candidates(ms) :
                  next' = [next EXCEPT ![t] = p]
            /\ UNCHANGED <<lastMs, lastRand, issued>>

Leave(t) == /\ lock = t
            /\ lastMs' = next[t][1]
            /\ lastRand' = next[t][2]
            /\ issued' = issued \cup {next[t]}
            /\ lock' = NoThread
            /\ UNCHANGED next

UlidNext == \E t \in Threads : Enter(t) \/ Leave(t)

UlidSpec == UlidInit /\ [][UlidNext]_ulidVars

-----------------------------------------------------------------------------
(* The shape of the state. *)
UlidTypeOK == /\ lock \in Threads \cup {NoThread}
              /\ lastMs \in Nat
              /\ lastRand \in 0..RandMax
              /\ next \in [Threads -> Pairs]
              /\ issued \in SUBSET Pairs

(* ids.py:7-10: the id a call returns is greater than every id this process *)
(* returned before, whatever the clock does and however many ids one       *)
(* millisecond sees (random-field overflow included); so none repeats.     *)
Returns(t) == lock = t /\ lock' = NoThread

Monotonic ==
    [][\A t \in Threads : Returns(t) =>
          \A q \in issued : Later(next[t], q)]_ulidVars

(* ids.py:3-5: the order of the encoded strings is the order of the pairs, *)
(* so a store that sorts ids as text sorts them as they were minted.       *)
StringLater(a, b) ==
    \E k \in DOMAIN a : /\ a[k] > b[k]
                        /\ \A j \in 1..(k - 1) : a[j] = b[j]

SortsAsText ==
    \A p, q \in issued : Later(p, q) => StringLater(Encoded(p), Encoded(q))
=============================================================================
