--------------------------- MODULE DeliveryProofs ---------------------------
(***************************************************************************)
(* The order of ids, and what it is for.  The first part proves that        *)
(* domain/ids.py mints ids in ascending order, for any number of threads,   *)
(* any width of the random field and any behaviour of the clock.  The       *)
(* second proves what a consumer that replays from its last id may rely on, *)
(* for any number of events and disconnects, any queue and any page size.   *)
(***************************************************************************)
EXTENDS Delivery, Ulid, FiniteSetTheorems, SequenceTheorems,
        WellFoundedInduction, TLAPS

(***************************************************************************)
(* The order on ids is transitive, and every pair _ulid may compute is     *)
(* later than the pair in the globals.                                     *)
(***************************************************************************)
LEMMA LaterTransitive ==
    ASSUME NEW p \in Pairs, NEW q \in Pairs, NEW r \in Pairs,
           Later(p, q), Later(q, r)
    PROVE  Later(p, r)
  BY DEF Later, Pairs

LEMMA CandidatesAreLater ==
    ASSUME UlidTypeOK, NEW ms \in 0..MaxClock, NEW p \in Candidates(ms)
    PROVE  p \in Pairs /\ Later(p, <<lastMs, lastRand>>)
<1>. USE UlidAssumption
<1>. DEFINE bumped == (lastRand + 1) % (RandMax + 1)
<1>1. CASE ms > lastMs
  BY <1>1 DEF Candidates, Pairs, Later, UlidTypeOK
<1>2. CASE ~(ms > lastMs) /\ bumped = 0
  <2>1. p \in {lastMs + 1} \X (0..RandMax)
    BY <1>2 DEF Candidates
  <2>. QED  BY <2>1 DEF Pairs, Later, UlidTypeOK
<1>3. CASE ~(ms > lastMs) /\ bumped # 0
  <2>1. p = <<lastMs, bumped>>
    BY <1>3 DEF Candidates
  <2>2. lastRand # RandMax
    <3>1. ASSUME lastRand = RandMax PROVE FALSE
      BY <3>1, <1>3 DEF UlidTypeOK
    <3>. QED  BY <3>1
  <2>3. bumped = lastRand + 1
    BY <2>2 DEF UlidTypeOK
  <2>. HIDE DEF bumped
  <2>. QED  BY <2>1, <2>2, <2>3 DEF Pairs, Later, UlidTypeOK
<1>. QED  BY <1>1, <1>2, <1>3

(***************************************************************************)
(* The inductive invariant: the globals hold the latest id returned, and   *)
(* the thread inside the lock is about to return a later one.              *)
(***************************************************************************)
LastIsLatest ==
    \A q \in issued : q = <<lastMs, lastRand>> \/ Later(<<lastMs, lastRand>>, q)

HolderIsLater ==
    \A t \in Threads : lock = t => Later(next[t], <<lastMs, lastRand>>)

UlidInv == UlidTypeOK /\ LastIsLatest /\ HolderIsLater

(* The invariant makes the step that returns an id monotonic.              *)
LEMMA ReturnIsLatest ==
    ASSUME UlidInv, NEW t \in Threads, lock = t
    PROVE  \A q \in issued : Later(next[t], q)
<1>1. <<lastMs, lastRand>> \in Pairs /\ next[t] \in Pairs
  BY DEF UlidInv, UlidTypeOK, Pairs
<1>2. Later(next[t], <<lastMs, lastRand>>)
  BY DEF UlidInv, HolderIsLater
<1>. TAKE q \in issued
<1>3. q \in Pairs
  BY DEF UlidInv, UlidTypeOK
<1>4. CASE q = <<lastMs, lastRand>>
  BY <1>2, <1>4
<1>5. CASE Later(<<lastMs, lastRand>>, q)
  BY <1>1, <1>2, <1>3, <1>5, LaterTransitive
<1>. QED  BY <1>4, <1>5 DEF UlidInv, LastIsLatest

LEMMA InitUlidInv == UlidInit => UlidInv
<1>. SUFFICES ASSUME UlidInit PROVE UlidInv
  OBVIOUS
<1>1. UlidTypeOK
  BY UlidAssumption DEF UlidInit, UlidTypeOK, Pairs
<1>2. LastIsLatest /\ HolderIsLater
  BY UlidAssumption DEF UlidInit, LastIsLatest, HolderIsLater
<1>. QED  BY <1>1, <1>2 DEF UlidInv

LEMMA NextUlidInv == UlidInv /\ [UlidNext]_ulidVars => UlidInv'
<1>. SUFFICES ASSUME UlidInv, [UlidNext]_ulidVars PROVE UlidInv'
  OBVIOUS
<1>. USE UlidAssumption
<1>1. ASSUME NEW t \in Threads, Enter(t) PROVE UlidInv'
  <2>1. PICK ms \in 0..MaxClock :
          \E p \in Candidates(ms) : next' = [next EXCEPT ![t] = p]
    BY <1>1 DEF Enter
  <2>2. PICK p \in Candidates(ms) : next' = [next EXCEPT ![t] = p]
    BY <2>1
  <2>3. p \in Pairs /\ Later(p, <<lastMs, lastRand>>)
    BY CandidatesAreLater DEF UlidInv
  <2>4. UlidTypeOK'
    BY <1>1, <2>2, <2>3 DEF Enter, UlidInv, UlidTypeOK
  <2>5. LastIsLatest'
    BY <1>1 DEF Enter, UlidInv, LastIsLatest
  <2>6. HolderIsLater'
    BY <1>1, <2>2, <2>3 DEF Enter, UlidInv, UlidTypeOK, HolderIsLater
  <2>. QED  BY <2>4, <2>5, <2>6 DEF UlidInv
<1>2. ASSUME NEW t \in Threads, Leave(t) PROVE UlidInv'
  <2>1. next[t] \in Pairs /\ next[t] = <<next[t][1], next[t][2]>>
    BY DEF UlidInv, UlidTypeOK, Pairs
  <2>2. UlidTypeOK'
    BY <1>2, <2>1 DEF Leave, UlidInv, UlidTypeOK, Pairs
  <2>3. <<lastMs', lastRand'>> = next[t] /\ issued' = issued \cup {next[t]}
    BY <1>2, <2>1 DEF Leave
  <2>4. LastIsLatest'
    BY <1>2, <2>3, ReturnIsLatest DEF Leave, LastIsLatest
  <2>5. HolderIsLater'
    BY <1>2 DEF Leave, HolderIsLater
  <2>. QED  BY <2>2, <2>4, <2>5 DEF UlidInv
<1>3. CASE UNCHANGED ulidVars
  BY <1>3 DEF ulidVars, UlidInv, UlidTypeOK, LastIsLatest, HolderIsLater
<1>. QED  BY <1>1, <1>2, <1>3 DEF UlidNext

(* Every run keeps the globals, the computed pairs and the history in      *)
(* range, and the globals at the latest id returned.                       *)
THEOREM UlidInvariant == UlidSpec => []UlidInv
  BY InitUlidInv, NextUlidInv, PTL DEF UlidSpec

(* ids.py:7-10, monotonic within a process: whatever the threads and the   *)
(* clock do, an id is greater than every id returned before it.            *)
THEOREM UlidMonotonic == UlidSpec => Monotonic
<1>1. UlidInv => [\A t \in Threads : Returns(t) =>
                  \A q \in issued : Later(next[t], q)]_ulidVars
  BY ReturnIsLatest DEF Returns
<1>. QED  BY <1>1, UlidInvariant, PTL DEF Monotonic, UlidSpec

(* A set of naturals that is not empty has a least element: what proofs by  *)
(* the least counterexample rest on.                                        *)
LEMMA LeastExists ==
    ASSUME NEW S, S \subseteq Nat, S # {}
    PROVE  \E m \in S : \A n \in S : m <= n
<1>. DEFINE R == OpToRel(<, Nat)
<1>1. IsWellFoundedOn(R, Nat)
  BY NatLessThanWellFounded
<1>2. \A x, y \in Nat : x < y => <<x, y>> \in R
  BY DEF OpToRel
<1>. HIDE DEF R
<1>3. PICK m \in S : \A n \in S : ~ (<<n, m>> \in R)
  BY <1>1, WFMin
<1>4. ASSUME NEW n \in S PROVE m <= n
  <2>1. ~(n < m)
    BY <1>2, <1>3
  <2>. QED  BY <2>1
<1>. QED  BY <1>4

(***************************************************************************)
(* The text of an id.  Shifted is a recursive function; that one exists for *)
(* every value and length is shown by the least length without one.        *)
(***************************************************************************)
LEMMA ShiftedExists ==
    ASSUME NEW value \in Nat
    PROVE  \A length \in Nat : \E f :
               f = [n \in 0..length |->
                       IF n = 0 THEN value ELSE f[n - 1] \div Base]
<1>. DEFINE Step(f, length) ==
        [n \in 0..length |-> IF n = 0 THEN value ELSE f[n - 1] \div Base]
     Without == {length \in Nat : \A f : f # Step(f, length)}
<1>1. SUFFICES ASSUME Without # {} PROVE FALSE
  BY <1>1
<1>2. Without \subseteq Nat
  OBVIOUS
<1>3. PICK least \in Without : \A n \in Without : least <= n
  BY <1>1, <1>2, LeastExists
<1>4. least \in Nat /\ \A f : f # Step(f, least)
  BY <1>3
<1>5. CASE least = 0
  <2>. DEFINE f == [n \in 0..0 |-> value]
  <2>1. f = Step(f, 0)
    OBVIOUS
  <2>. QED  BY <2>1, <1>4, <1>5
<1>6. CASE least # 0
  <2>1. least - 1 \in Nat /\ least - 1 \notin Without
    <3>. HIDE DEF Without
    <3>. QED  BY <1>3, <1>4, <1>6
  <2>2. PICK f : f = Step(f, least - 1)
    BY <2>1
  <2>. DEFINE g == [n \in 0..least |->
                       IF n = least THEN f[least - 1] \div Base ELSE f[n]]
  <2>3. ASSUME NEW n \in 0..least
        PROVE  g[n] = IF n = 0 THEN value ELSE g[n - 1] \div Base
    <3>1. CASE n = least
      BY <3>1, <1>4, <1>6
    <3>2. CASE n # least
      <4>1. n \in 0..(least - 1)
        BY <3>2, <1>4
      <4>2. f[n] = IF n = 0 THEN value ELSE f[n - 1] \div Base
        BY <4>1, <2>2
      <4>. QED  BY <4>1, <4>2, <3>2, <1>4
    <3>. QED  BY <3>1, <3>2
  <2>4. g = Step(g, least)
    BY <2>3
  <2>. QED  BY <2>4, <1>4
<1>. QED  BY <1>5, <1>6

(* The loop of _encode, step by step. *)
LEMMA ShiftedSteps ==
    ASSUME NEW value \in Nat, NEW length \in Nat
    PROVE  \A n \in 0..length :
               Shifted(value, length)[n] =
                   IF n = 0 THEN value
                   ELSE Shifted(value, length)[n - 1] \div Base
<1>1. PICK f : f = [n \in 0..length |->
                       IF n = 0 THEN value ELSE f[n - 1] \div Base]
  BY ShiftedExists
<1>2. Shifted(value, length) =
        [n \in 0..length |->
            IF n = 0 THEN value
            ELSE Shifted(value, length)[n - 1] \div Base]
  BY <1>1 DEF Shifted
<1>. QED  BY <1>2

LEMMA Division ==
    ASSUME NEW a \in Nat
    PROVE  /\ a \div Base \in Nat
           /\ a % Base \in Nat /\ a % Base < Base
           /\ a = Base * (a \div Base) + (a % Base)
BY EncodingAssumption

LEMMA DivisionMonotonic ==
    ASSUME NEW a \in Nat, NEW b \in Nat, b <= a
    PROVE  b \div Base <= a \div Base
<1>. DEFINE qa == a \div Base  qb == b \div Base
<1>1. /\ qa \in Nat /\ a < Base * qa + Base
      /\ qb \in Nat /\ Base * qb <= b
  BY Division, EncodingAssumption
<1>2. ASSUME NEW x \in Nat, NEW y \in Nat, a < Base * x + Base, Base * y <= b
      PROVE  y <= x
  <2>1. SUFFICES ASSUME y >= x + 1 PROVE FALSE
    BY <2>1
  <2>2. PICK z \in Nat : y = x + 1 + z
    BY <2>1
  <2>3. Base * y = Base * x + Base + Base * z /\ Base * z >= 0
    BY <2>2, EncodingAssumption
  <2>4. Base * x \in Nat /\ Base * y \in Nat /\ Base * z \in Nat
    BY EncodingAssumption
  <2>. QED  BY <1>2, <2>3, <2>4, EncodingAssumption
<1>. HIDE DEF qa, qb
<1>3. qb <= qa
  BY <1>1, <1>2
<1>. QED  BY <1>3 DEF qa, qb

(* What is left of a value stays in range, and a smaller value leaves no   *)
(* more than a greater one.                                                *)
LEMMA ShiftedMonotonic ==
    ASSUME NEW a \in Nat, NEW b \in Nat, b <= a, NEW length \in Nat
    PROVE  \A n \in 0..length :
               /\ Shifted(a, length)[n] \in Nat
               /\ Shifted(b, length)[n] \in Nat
               /\ Shifted(b, length)[n] <= Shifted(a, length)[n]
<1>. DEFINE A == Shifted(a, length)  B == Shifted(b, length)
     Good(n) == A[n] \in Nat /\ B[n] \in Nat /\ B[n] <= A[n]
     Bad == {n \in 0..length : ~Good(n)}
<1>1. \A n \in 0..length : A[n] = IF n = 0 THEN a ELSE A[n - 1] \div Base
  BY ShiftedSteps
<1>2. \A n \in 0..length : B[n] = IF n = 0 THEN b ELSE B[n - 1] \div Base
  BY ShiftedSteps
<1>. HIDE DEF A, B
<1>3. SUFFICES ASSUME Bad # {} PROVE FALSE
  BY <1>3 DEF A, B
<1>4. Bad \subseteq Nat
  OBVIOUS
<1>5. PICK least \in Bad : \A n \in Bad : least <= n
  BY <1>3, <1>4, LeastExists
<1>6. least # 0
  BY <1>1, <1>2, <1>5
<1>7. least - 1 \in 0..length /\ least \in 0..length /\ Good(least - 1)
  BY <1>5, <1>6
<1>8. A[least] = A[least - 1] \div Base /\ B[least] = B[least - 1] \div Base
  BY <1>1, <1>2, <1>6, <1>7
<1>9. Good(least)
  BY <1>7, <1>8, Division, DivisionMonotonic
<1>. QED  BY <1>5, <1>9

LEMMA DigitsAt ==
    ASSUME NEW value \in Nat, NEW length \in Nat
    PROVE  /\ DOMAIN Digits(value, length) = 1..length
           /\ \A k \in 1..length :
                 Digits(value, length)[k] =
                     Shifted(value, length)[length - k] % Base
BY DEF Digits

(* Of two values that fit, the greater one is written as the later text:   *)
(* the last shift at which they still differ is the first digit that does. *)
LEMMA DigitsLater ==
    ASSUME NEW a \in Nat, NEW b \in Nat, b < a, NEW length \in Nat,
           Shifted(a, length)[length] = 0
    PROVE  \E k \in 1..length :
              /\ Digits(a, length)[k] > Digits(b, length)[k]
              /\ \A j \in 1..(k - 1) :
                    Digits(a, length)[j] = Digits(b, length)[j]
<1>. DEFINE A == Shifted(a, length)  B == Shifted(b, length)
     Differ == {d \in 0..length : A[length - d] # B[length - d]}
<1>1. \A n \in 0..length : A[n] \in Nat /\ B[n] \in Nat /\ B[n] <= A[n]
  BY ShiftedMonotonic
<1>2. \A n \in 0..length : /\ A[n] = IF n = 0 THEN a ELSE A[n - 1] \div Base
                           /\ B[n] = IF n = 0 THEN b ELSE B[n - 1] \div Base
  BY ShiftedSteps
<1>3. \A k \in 1..length : /\ Digits(a, length)[k] = A[length - k] % Base
                           /\ Digits(b, length)[k] = B[length - k] % Base
  BY DigitsAt
<1>4. A[length] = 0
  OBVIOUS
<1>. HIDE DEF A, B
<1>5. Differ # {} /\ Differ \subseteq Nat
  <2>1. A[0] = a /\ B[0] = b
    BY <1>2
  <2>2. length \in Differ
    BY <2>1
  <2>. QED  BY <2>2
<1>6. PICK k \in Differ : \A n \in Differ : k <= n
  BY <1>5, LeastExists
<1>7. k \in 0..length /\ A[length - k] # B[length - k]
  BY <1>6
<1>8. k # 0
  BY <1>1, <1>4, <1>7
<1>9. \A j \in 0..(k - 1) : A[length - j] = B[length - j]
  BY <1>6, <1>7
<1>10. k \in 1..length
  BY <1>7, <1>8
<1>11. A[length - k] % Base > B[length - k] % Base
  <2>. DEFINE x == A[length - k]  y == B[length - k]
  <2>1. x \in Nat /\ y \in Nat /\ y < x
    BY <1>1, <1>7
  <2>2. length - k + 1 \in 0..length /\ length - (k - 1) = length - k + 1
    BY <1>10
  <2>3. A[length - k + 1] = x \div Base /\ B[length - k + 1] = y \div Base
    BY <1>2, <2>2, <1>10
  <2>4. A[length - k + 1] = B[length - k + 1]
    BY <1>9, <2>2, <1>10
  <2>. HIDE DEF x, y
  <2>5. x \div Base = y \div Base
    BY <2>3, <2>4
  <2>6. /\ x = Base * (x \div Base) + (x % Base)
        /\ y = Base * (y \div Base) + (y % Base)
        /\ x % Base \in Nat /\ y % Base \in Nat
    BY <2>1, Division
  <2>7. Base * (x \div Base) \in Nat
    BY <2>1, Division, EncodingAssumption
  <2>8. x % Base > y % Base
    BY <2>1, <2>5, <2>6, <2>7
  <2>. QED  BY <2>8 DEF x, y
<1>12. \A j \in 1..(k - 1) : j \in 1..length /\ j \in 0..(k - 1)
  BY <1>10
<1>. QED  BY <1>3, <1>9, <1>10, <1>11, <1>12

(* Every pair an id is made from fits its digits. *)
Fits(p) == p \in Pairs /\ p[1] <= MaxClock + 1

LEMMA FitsDigits ==
    ASSUME NEW p, Fits(p)
    PROVE  /\ p[1] \in Nat /\ p[2] \in Nat
           /\ Shifted(p[1], MsLen)[MsLen] = 0
           /\ Shifted(p[2], RandLen)[RandLen] = 0
<1>1. p[1] \in Nat /\ p[1] <= MaxClock + 1 /\ p[2] \in 0..RandMax
  BY DEF Fits, Pairs
<1>2. MaxClock + 1 \in Nat /\ RandMax \in Nat /\ p[2] \in Nat /\ p[2] <= RandMax
  BY <1>1, UlidAssumption
<1>3. MsLen \in Nat /\ MsLen \in 0..MsLen /\ RandLen \in Nat /\ RandLen \in 0..RandLen
  BY EncodingAssumption
<1>4. /\ Shifted(p[1], MsLen)[MsLen] \in Nat
      /\ Shifted(p[1], MsLen)[MsLen] <= Shifted(MaxClock + 1, MsLen)[MsLen]
  BY <1>1, <1>2, <1>3, ShiftedMonotonic
<1>5. /\ Shifted(p[2], RandLen)[RandLen] \in Nat
      /\ Shifted(p[2], RandLen)[RandLen] <= Shifted(RandMax, RandLen)[RandLen]
  BY <1>2, <1>3, ShiftedMonotonic
<1>. QED  BY <1>1, <1>2, <1>4, <1>5, EncodingAssumption

\* Digits one after the other.
LEMMA JoinedAt ==
    \A list, more \in Seq(Nat) :
       /\ DOMAIN (list \o more) = 1..(Len(list) + Len(more))
       /\ \A k \in 1..Len(list) : (list \o more)[k] = list[k]
       /\ \A k \in 1..Len(more) : (list \o more)[Len(list) + k] = more[k]
<1>. SUFFICES ASSUME NEW list \in Seq(Nat), NEW more \in Seq(Nat)
              PROVE  /\ DOMAIN (list \o more) = 1..(Len(list) + Len(more))
                     /\ \A k \in 1..Len(list) : (list \o more)[k] = list[k]
                     /\ \A k \in 1..Len(more) : (list \o more)[Len(list) + k] = more[k]
  OBVIOUS
<1>1. Len(list) \in Nat /\ Len(more) \in Nat
  OBVIOUS
<1>2. DOMAIN (list \o more) = 1..(Len(list) + Len(more))
  OBVIOUS
<1>3. ASSUME NEW k \in 1..Len(list) PROVE (list \o more)[k] = list[k]
  BY <1>1
<1>4. ASSUME NEW k \in 1..Len(more) PROVE (list \o more)[Len(list) + k] = more[k]
  BY <1>1
<1>. QED  BY <1>2, <1>3, <1>4

LEMMA EncodedAt ==
    ASSUME NEW p, Fits(p)
    PROVE  /\ DOMAIN Encoded(p) = 1..(MsLen + RandLen)
           /\ \A k \in 1..MsLen : Encoded(p)[k] = Digits(p[1], MsLen)[k]
           /\ \A k \in 1..RandLen :
                 Encoded(p)[MsLen + k] = Digits(p[2], RandLen)[k]
<1>. DEFINE ms == Digits(p[1], MsLen)  rand == Digits(p[2], RandLen)
<1>1. MsLen \in Nat /\ RandLen \in Nat
  BY EncodingAssumption
<1>2. \A n \in 0..MsLen : Shifted(p[1], MsLen)[n] \in Nat
  BY <1>1, FitsDigits, ShiftedMonotonic
<1>3. \A n \in 0..RandLen : Shifted(p[2], RandLen)[n] \in Nat
  BY <1>1, FitsDigits, ShiftedMonotonic
<1>4. ms \in [1..MsLen -> Nat]
  BY <1>1, <1>2, Division DEF Digits
<1>5. rand \in [1..RandLen -> Nat]
  BY <1>1, <1>3, Division DEF Digits
<1>. HIDE DEF ms, rand
<1>6. ms \in Seq(Nat) /\ Len(ms) = MsLen /\ rand \in Seq(Nat) /\ Len(rand) = RandLen
  BY <1>1, <1>4, <1>5
<1>7. Encoded(p) = ms \o rand
  BY DEF Encoded, ms, rand
<1>8. /\ DOMAIN (ms \o rand) = 1..(MsLen + RandLen)
      /\ \A k \in 1..MsLen : (ms \o rand)[k] = ms[k]
      /\ \A k \in 1..RandLen : (ms \o rand)[MsLen + k] = rand[k]
  <2>1. /\ DOMAIN (ms \o rand) = 1..(Len(ms) + Len(rand))
        /\ \A k \in 1..Len(ms) : (ms \o rand)[k] = ms[k]
        /\ \A k \in 1..Len(rand) : (ms \o rand)[Len(ms) + k] = rand[k]
    <3>1. ms \in Seq(Nat) /\ rand \in Seq(Nat)
      BY <1>6
    <3>. QED  BY <3>1, JoinedAt
  <2>. QED  BY <1>6, <2>1
<1>. QED  BY <1>7, <1>8 DEF ms, rand

LEMMA LaterIsLaterText ==
    ASSUME NEW p, Fits(p), NEW q, Fits(q), Later(p, q)
    PROVE  StringLater(Encoded(p), Encoded(q))
<1>1. MsLen \in Nat /\ RandLen \in Nat
  BY EncodingAssumption
<1>2. /\ p[1] \in Nat /\ p[2] \in Nat /\ q[1] \in Nat /\ q[2] \in Nat
      /\ Shifted(p[1], MsLen)[MsLen] = 0
      /\ Shifted(p[2], RandLen)[RandLen] = 0
  BY FitsDigits
<1>3. CASE p[1] > q[1]
  <2>1. PICK k \in 1..MsLen :
           /\ Digits(p[1], MsLen)[k] > Digits(q[1], MsLen)[k]
           /\ \A j \in 1..(k - 1) :
                 Digits(p[1], MsLen)[j] = Digits(q[1], MsLen)[j]
    BY <1>1, <1>2, <1>3, DigitsLater
  <2>2. k \in DOMAIN Encoded(p) /\ Encoded(p)[k] > Encoded(q)[k]
    BY <2>1, <1>1, EncodedAt
  <2>3. \A j \in 1..(k - 1) : Encoded(p)[j] = Encoded(q)[j]
    BY <2>1, <1>1, EncodedAt
  <2>. QED  BY <2>2, <2>3 DEF StringLater
<1>4. CASE p[1] = q[1] /\ p[2] > q[2]
  <2>1. PICK k \in 1..RandLen :
           /\ Digits(p[2], RandLen)[k] > Digits(q[2], RandLen)[k]
           /\ \A j \in 1..(k - 1) :
                 Digits(p[2], RandLen)[j] = Digits(q[2], RandLen)[j]
    BY <1>1, <1>2, <1>4, DigitsLater
  <2>2. MsLen + k \in DOMAIN Encoded(p)
        /\ Encoded(p)[MsLen + k] > Encoded(q)[MsLen + k]
    BY <2>1, <1>1, EncodedAt
  <2>3. ASSUME NEW j \in 1..(MsLen + k - 1)
        PROVE  Encoded(p)[j] = Encoded(q)[j]
    <3>1. CASE j <= MsLen
      BY <3>1, <1>1, <1>4, EncodedAt
    <3>2. CASE j > MsLen
      <4>1. j - MsLen \in 1..(k - 1) /\ j - MsLen \in 1..RandLen
            /\ j = MsLen + (j - MsLen)
        BY <3>2, <1>1
      <4>2. /\ Encoded(p)[MsLen + (j - MsLen)] = Digits(p[2], RandLen)[j - MsLen]
            /\ Encoded(q)[MsLen + (j - MsLen)] = Digits(q[2], RandLen)[j - MsLen]
        BY <4>1, EncodedAt
      <4>. QED  BY <4>1, <4>2, <2>1
    <3>. QED  BY <3>1, <3>2, <1>1
  <2>. QED  BY <2>2, <2>3, <1>1 DEF StringLater
<1>. QED  BY <1>3, <1>4 DEF Later

(* Every pair minted fits: the lock's holder stepped the clock at most once *)
(* beyond a reading that is within range.                                   *)
MintedFits == /\ \A p \in issued : Fits(p)
              /\ lock \in Threads => Fits(next[lock])

LEMMA InitMintedFits == UlidInit => MintedFits
BY UlidAssumption DEF UlidInit, MintedFits

LEMMA NextMintedFits ==
    UlidInv /\ MintedFits /\ [UlidNext]_ulidVars => MintedFits'
<1>. SUFFICES ASSUME UlidInv, MintedFits, [UlidNext]_ulidVars PROVE MintedFits'
  OBVIOUS
<1>. USE UlidAssumption
<1>1. ASSUME NEW t \in Threads, Enter(t) PROVE MintedFits'
  <2>1. PICK ms \in 0..MaxClock : \E p \in Candidates(ms) :
                                     next' = [next EXCEPT ![t] = p]
    BY <1>1 DEF Enter
  <2>2. PICK p \in Candidates(ms) : next' = [next EXCEPT ![t] = p]
    BY <2>1
  <2>3. lastMs \in Nat /\ lastMs <= MaxClock /\ lastRand \in 0..RandMax
    BY <1>1 DEF Enter, UlidInv, UlidTypeOK
  <2>4. p \in Pairs
    BY CandidatesAreLater DEF UlidInv
  <2>5. p[1] <= MaxClock + 1
    BY <2>1, <2>2, <2>3 DEF Candidates
  <2>6. next'[lock'] = p /\ issued' = issued
    BY <1>1, <2>2 DEF Enter, UlidInv, UlidTypeOK
  <2>. QED  BY <2>4, <2>5, <2>6 DEF MintedFits, Fits
<1>2. ASSUME NEW t \in Threads, Leave(t) PROVE MintedFits'
  <2>1. /\ issued' = issued \cup {next[t]} /\ lock = t /\ lock' \notin Threads
    BY <1>2 DEF Leave
  <2>. QED  BY <2>1 DEF MintedFits, Fits
<1>3. CASE UNCHANGED ulidVars
  BY <1>3 DEF ulidVars, MintedFits, Fits
<1>. QED  BY <1>1, <1>2, <1>3 DEF UlidNext

(* ids.py:3-5, lexicographically sortable: whatever the width of the clock, *)
(* of the random field and of the alphabet, as long as the digits hold      *)
(* both, ids sorted as text are in the order they were minted in.           *)
THEOREM UlidSorts == UlidSpec => []SortsAsText
<1>1. UlidInv /\ MintedFits => SortsAsText
  BY LaterIsLaterText DEF MintedFits, SortsAsText
<1>. QED
  BY <1>1, InitMintedFits, NextMintedFits, UlidInvariant, PTL DEF UlidSpec

-----------------------------------------------------------------------------
(***************************************************************************)
(* Rows in ascending order: the least and the greatest id of a set, and the *)
(* first n.                                                                *)
(***************************************************************************)
LEMMA LeastIs ==
    ASSUME NEW S, S \subseteq EventIds, S # {}
    PROVE  Least(S) \in S /\ \A x \in S : Least(S) <= x
<1>1. S \subseteq Nat
  BY DeliveryAssumption DEF EventIds
<1>. QED  BY <1>1, LeastExists DEF Least

LEMMA GreatestIs ==
    ASSUME NEW S, S \subseteq EventIds, S # {}
    PROVE  Greatest(S) \in S /\ \A x \in S : x <= Greatest(S)
<1>. DEFINE T == {N - x : x \in S}
<1>1. \A x \in S : x \in Nat /\ x <= N
  BY DeliveryAssumption DEF EventIds
<1>2. T \subseteq Nat /\ T # {}
  BY <1>1, DeliveryAssumption
<1>. HIDE DEF T
<1>3. PICK m \in T : \A n \in T : m <= n
  BY <1>2, LeastExists
<1>4. PICK g \in S : m = N - g
  BY <1>3 DEF T
<1>5. ASSUME NEW x \in S PROVE x <= g
  <2>1. N - x \in T
    BY <1>5 DEF T
  <2>2. N - g <= N - x
    BY <1>3, <1>4, <2>1
  <2>. QED  BY <1>1, <1>4, <2>2, DeliveryAssumption
<1>. QED  BY <1>5 DEF Greatest

LEMMA IdSetsFinite ==
    ASSUME NEW S, S \subseteq EventIds
    PROVE  IsFiniteSet(S) /\ Cardinality(S) \in Nat
<1>1. IsFiniteSet(EventIds)
  BY DeliveryAssumption, FS_Interval DEF EventIds
<1>2. S \in SUBSET EventIds
  OBVIOUS
<1>. QED  BY <1>1, <1>2, FS_Subset, FS_CardinalityType

\* The first n are before the rest, there are no more than n of them, and
\* there are some if there is anything.
LEMMA FirstBefore ==
    ASSUME NEW S, S \subseteq EventIds, NEW n \in Nat,
           NEW x \in First(n, S), NEW y \in S, y < x
    PROVE  y \in First(n, S)
<1>. DEFINE Below(id) == {z \in S : z < id}
<1>1. x \in Nat /\ y \in Nat /\ \A z \in S : z \in Nat
  BY DeliveryAssumption DEF First, EventIds
<1>2. Below(y) \in SUBSET Below(x)
  <2>1. ASSUME NEW z \in S, z < y PROVE z < x
    BY <1>1, <2>1
  <2>. QED  BY <2>1
<1>3. IsFiniteSet(Below(x)) /\ Cardinality(Below(x)) \in Nat
  BY IdSetsFinite
<1>4. IsFiniteSet(Below(y)) /\ Cardinality(Below(y)) \in Nat
  BY IdSetsFinite
<1>5. Cardinality(Below(y)) <= Cardinality(Below(x))
  BY <1>2, <1>3, FS_Subset
<1>6. Cardinality(Below(x)) < n
  BY DEF First
<1>7. Cardinality(Below(y)) < n
  BY <1>3, <1>4, <1>5, <1>6
<1>. QED  BY <1>7 DEF First

LEMMA FirstCount ==
    ASSUME NEW S, S \subseteq EventIds, NEW n \in Nat
    PROVE  Cardinality(First(n, S)) <= n
<1>1. First(n, S) \subseteq S
  BY DEF First
<1>2. CASE First(n, S) = {}
  BY <1>2, FS_EmptySet
<1>3. CASE First(n, S) # {}
  <2>. DEFINE g == Greatest(First(n, S))
              B == {z \in S : z < g}
  <2>1. g \in First(n, S) /\ \A x \in First(n, S) : x <= g
    BY <1>1, <1>3, GreatestIs
  <2>2. IsFiniteSet(B) /\ Cardinality(B) \in Nat
    BY IdSetsFinite
  <2>3. Cardinality(B) < n
    BY <2>1 DEF First
  <2>4. First(n, S) \in SUBSET (B \cup {g})
    <3>. HIDE DEF g
    <3>1. \A x \in S : x \in Nat
      BY DeliveryAssumption DEF EventIds
    <3>2. ASSUME NEW x \in First(n, S), x # g PROVE x < g
      BY <1>1, <2>1, <3>1, <3>2
    <3>3. \A x \in First(n, S) : x \in B \cup {g}
      BY <1>1, <3>2
    <3>. QED  BY <3>3
  <2>. HIDE DEF g, B
  <2>5. IsFiniteSet(B \cup {g}) /\ Cardinality(B \cup {g}) <= Cardinality(B) + 1
    BY <2>2, FS_AddElement
  <2>6. Cardinality(B \cup {g}) \in Nat /\ Cardinality(First(n, S)) \in Nat
    BY <1>1, <2>5, FS_CardinalityType, IdSetsFinite
  <2>7. Cardinality(First(n, S)) <= Cardinality(B \cup {g})
    BY <2>4, <2>5, FS_Subset
  <2>. QED  BY <2>2, <2>3, <2>5, <2>6, <2>7
<1>. QED  BY <1>2, <1>3

LEMMA FirstSome ==
    ASSUME NEW S, S \subseteq EventIds, S # {}, NEW n \in Nat \ {0}
    PROVE  First(n, S) # {}
<1>1. Least(S) \in S /\ \A x \in S : Least(S) <= x
  BY LeastIs
<1>2. {x \in S : x < Least(S)} = {}
  <2>1. \A x \in S : x \in Nat
    BY DeliveryAssumption DEF EventIds
  <2>. QED  BY <1>1, <2>1
<1>3. Cardinality({x \in S : x < Least(S)}) = 0
  BY <1>2, FS_EmptySet
<1>. QED  BY <1>1, <1>3 DEF First

-----------------------------------------------------------------------------
(***************************************************************************)
(* The inductive invariant.  An event is owed to the consumer while the     *)
(* store holds it, it was not shed and it is not late: neither stored nor   *)
(* fanned out after a greater id, nor bound to be.                         *)
(***************************************************************************)
Owed(id) ==
    /\ id \in stored \ (processed \cup dropped \cup tardy)
    /\ id \in fanned \/ \A y \in fanned : y < id

(* The consumer's cursor never passes an owed event, and neither does the    *)
(* replay page: a live frame or a row is processed only when nothing owed   *)
(* is before it.                                                           *)
Ahead ==
    \A id \in EventIds : Owed(id) => /\ id > lastId
                                     /\ id \in page \/ \A x \in page : x < id

\* The cursor is an id that was processed; the session replays from it, and
\* goes on after the page's last row.
Cursor ==
    /\ lastId \in processed \cup {None}
    /\ rp \in {"oldest", "rows"} => since = lastId
    /\ (rp = "send" /\ answer.next # None)
          => answer.next = IF page = {} THEN lastId ELSE Greatest(page)

(* Once the last page is read, what is owed is in the page, in a live frame  *)
(* on its way or set aside, or will be fanned out to this connection.      *)
LastPage == link = "live" \/ (rp = "send" /\ answer.next = None)

Reachable ==
    LastPage => \A id \in EventIds : Owed(id) =>
                   id \in page \cup Range(queue) \cup Range(aside) \/ id \notin fanned

(* Live frames come in the order of their ids, late ones excepted.           *)
InOrder ==
    /\ Range(queue) \subseteq fanned /\ Range(aside) \subseteq fanned
    /\ \A j \in DOMAIN queue : \A i \in 1..(j - 1) :
          queue[i] < queue[j] \/ queue[j] \in tardy
    /\ \A i \in DOMAIN aside, j \in DOMAIN queue :
          aside[i] < queue[j] \/ queue[j] \in tardy

\* What is left of a connection that is gone, or of a replay that is over.
Resting ==
    /\ link = "down" => queue = <<>>
    /\ link # "replaying" => page = {} /\ aside = <<>>
    /\ rp # "send" => page = {}

MissedInv == TypeOK /\ Ahead /\ Cursor /\ Reachable /\ InOrder /\ Resting

LEMMA InitMissedInv == Init => MissedInv
<1>. SUFFICES ASSUME Init PROVE MissedInv
  OBVIOUS
<1>1. Cardinality({}) = 0
  BY FS_EmptySet
<1>2. TypeOK
  BY <1>1, DeliveryAssumption DEF Init, TypeOK, None, NoAnswer
<1>3. Ahead /\ Cursor /\ Reachable /\ InOrder /\ Resting
  BY DEF Init, Ahead, Owed, Cursor, Reachable, LastPage, InOrder, Resting, Range
<1>. QED  BY <1>2, <1>3 DEF MissedInv

\* The types in use: everything is an id, and the queue is a sequence of them.
LEMMA InUse ==
    ASSUME TypeOK
    PROVE  /\ stored \subseteq EventIds /\ ever \subseteq EventIds /\ fanned \subseteq EventIds
           /\ page \subseteq EventIds
           /\ \A id \in EventIds : id \in Nat /\ id # None
           /\ lastId \in Nat /\ since \in Nat
           /\ queue \in Seq(EventIds) /\ aside \in Seq(EventIds)
           /\ ReplayLimit \in Nat \ {0}
  BY DeliveryAssumption DEF TypeOK, EventIds, None

\* A step that leaves the queue, the page and the cursor alone keeps the rest
\* of the invariant if what is owed after it was owed before.
LEMMA OwedKeeps ==
    ASSUME MissedInv, TypeOK', \A id \in EventIds : Owed(id)' => Owed(id),
           tardy \subseteq tardy', fanned' = fanned,
           UNCHANGED <<queue, rp, since, page, answer, link, aside, lastId, processed>>
    PROVE  MissedInv'
<1>1. Ahead'
  BY DEF MissedInv, Ahead
<1>2. Cursor' /\ Resting'
  BY DEF MissedInv, Cursor, Resting
<1>3. Reachable'
  BY DEF MissedInv, Reachable, LastPage
<1>4. InOrder'
  BY DEF MissedInv, InOrder
<1>. QED  BY <1>1, <1>2, <1>3, <1>4 DEF MissedInv

LEMMA StoreKeeps ==
    ASSUME MissedInv, NEW new \in EventIds, Store(new)
    PROVE  MissedInv'
<1>. DEFINE over == \E x \in ever : x > new
<1>1. /\ TypeOK /\ new \notin ever
      /\ stored' = stored \cup {new} /\ ever' = ever \cup {new}
      /\ tardy' = (IF over THEN tardy \cup {new} ELSE tardy)
      /\ UNCHANGED <<fanned, queue, dropped, rp, since, oldest, page, answer,
                     link, aside, lastId, processed, disconnects>>
  BY DEF Store, MissedInv, Overtaken, liveVars, replayVars, consumerVars
<1>2. TypeOK'
  BY <1>1 DEF TypeOK
<1>3. /\ \A id \in EventIds : id \in Nat
      /\ page \subseteq ever /\ lastId \in ever \cup {0} /\ fanned \subseteq ever
      /\ ever \subseteq EventIds
  BY <1>1, InUse DEF TypeOK, MissedInv, Cursor, None
<1>4. ASSUME NEW id \in EventIds, Owed(id)' PROVE Owed(id) \/ (id = new /\ ~over)
  BY <1>1, <1>4 DEF Owed
<1>5. ~over => new > lastId /\ \A x \in page : x < new
  <2>1. ASSUME ~over, NEW x \in ever PROVE x < new
    BY <1>1, <1>3, <2>1
  <2>2. new > 0
    BY DeliveryAssumption DEF EventIds
  <2>. QED  BY <1>3, <2>1, <2>2
<1>. HIDE DEF over
<1>6. Ahead'
  BY <1>1, <1>4, <1>5 DEF MissedInv, Ahead
<1>7. Cursor' /\ Resting'
  BY <1>1 DEF MissedInv, Cursor, Resting
<1>8. Reachable'
  <2>1. new \notin fanned'
    BY <1>1, <1>3
  <2>. QED  BY <1>1, <1>4, <2>1 DEF MissedInv, Reachable, LastPage
<1>9. InOrder'
  BY <1>1 DEF MissedInv, InOrder
<1>. QED  BY <1>2, <1>6, <1>7, <1>8, <1>9 DEF MissedInv

\* The queue when a frame is put on it.
LEMMA Enqueued ==
    ASSUME TypeOK, NEW new \in EventIds, Enqueue(new)
    PROVE  /\ queue' \in Seq(EventIds) /\ Len(queue') <= QueueCap
           /\ Len(queue') \in Nat \ {0} /\ queue'[Len(queue')] = new
           /\ dropped \subseteq dropped' /\ dropped' \subseteq dropped \cup Range(queue)
           /\ Range(queue) \subseteq Range(queue') \cup dropped'
           /\ Range(queue') \subseteq Range(queue) \cup {new}
           /\ \E shift \in {0, 1} : \A j \in 1..(Len(queue') - 1) :
                 j + shift \in DOMAIN queue /\ queue'[j] = queue[j + shift]
<1>1. queue \in Seq(EventIds) /\ Len(queue) \in Nat /\ Len(queue) <= QueueCap
      /\ QueueCap \in Nat \ {0}
  BY DeliveryAssumption DEF TypeOK
<1>2. CASE Len(queue) = QueueCap
  <2>1. queue # <<>> /\ Len(queue) >= 1
    BY <1>1, <1>2
  <2>2. queue' = Append(Tail(queue), new) /\ dropped' = dropped \cup {Head(queue)}
    BY <1>2 DEF Enqueue
  <2>3. /\ Tail(queue) \in Seq(EventIds) /\ Len(Tail(queue)) = Len(queue) - 1
        /\ \A j \in 1..(Len(queue) - 1) : Tail(queue)[j] = queue[j + 1]
        /\ Head(queue) = queue[1]
    BY <1>1, <2>1
  <2>4. /\ queue' \in Seq(EventIds) /\ Len(queue') = Len(queue)
        /\ queue'[Len(queue)] = new
        /\ \A j \in 1..(Len(queue) - 1) : queue'[j] = queue[j + 1]
    BY <1>1, <2>1, <2>2, <2>3
  <2>5. DOMAIN queue = 1..Len(queue) /\ DOMAIN queue' = 1..Len(queue)
    BY <1>1, <2>4
  <2>6. Range(queue) \subseteq Range(queue') \cup dropped'
    <3>. SUFFICES ASSUME NEW j \in 1..Len(queue), queue[j] \notin dropped'
                  PROVE  queue[j] \in Range(queue')
      BY <2>5 DEF Range
    <3>1. j # 1
      BY <2>2, <2>3
    <3>2. j - 1 \in 1..(Len(queue) - 1) /\ (j - 1) + 1 = j
      BY <1>1, <3>1
    <3>3. queue'[j - 1] = queue[j] /\ j - 1 \in 1..Len(queue)
      BY <1>1, <2>4, <3>2
    <3>. QED  BY <2>5, <3>3 DEF Range
  <2>7. Range(queue') \subseteq Range(queue) \cup {new}
    <3>. SUFFICES ASSUME NEW j \in 1..Len(queue), j # Len(queue)
                  PROVE  queue'[j] \in Range(queue)
      BY <2>4, <2>5 DEF Range
    <3>1. j \in 1..(Len(queue) - 1) /\ j + 1 \in 1..Len(queue)
      BY <1>1
    <3>. QED  BY <2>4, <2>5, <3>1 DEF Range
  <2>8. dropped' \subseteq dropped \cup Range(queue)
    <3>1. 1 \in DOMAIN queue
      BY <1>1, <2>1, <2>5
    <3>. QED  BY <2>2, <2>3, <3>1 DEF Range
  <2>9. \A j \in 1..(Len(queue') - 1) :
           j + 1 \in DOMAIN queue /\ queue'[j] = queue[j + 1]
    BY <1>1, <2>4, <2>5
  <2>. QED  BY <1>1, <2>1, <2>2, <2>4, <2>6, <2>7, <2>8, <2>9
<1>3. CASE Len(queue) # QueueCap
  <2>1. queue' = Append(queue, new) /\ dropped' = dropped
    BY <1>3 DEF Enqueue
  <2>2. /\ queue' \in Seq(EventIds) /\ Len(queue') = Len(queue) + 1
        /\ queue'[Len(queue) + 1] = new
        /\ \A j \in 1..Len(queue) : queue'[j] = queue[j]
    BY <1>1, <2>1
  <2>3. DOMAIN queue = 1..Len(queue) /\ DOMAIN queue' = 1..(Len(queue) + 1)
    BY <1>1, <2>2
  <2>4. Len(queue') <= QueueCap
    BY <1>1, <1>3, <2>2
  <2>5. Range(queue) \subseteq Range(queue')
    BY <1>1, <2>2, <2>3 DEF Range
  <2>6. Range(queue') \subseteq Range(queue) \cup {new}
    <3>. SUFFICES ASSUME NEW j \in 1..(Len(queue) + 1), j # Len(queue) + 1
                  PROVE  queue'[j] \in Range(queue)
      BY <2>2, <2>3 DEF Range
    <3>1. j \in 1..Len(queue)
      BY <1>1
    <3>. QED  BY <2>2, <2>3, <3>1 DEF Range
  <2>7. \A j \in 1..(Len(queue') - 1) :
           j + 0 \in DOMAIN queue /\ queue'[j] = queue[j + 0]
    BY <1>1, <2>2, <2>3
  <2>. QED  BY <1>1, <2>1, <2>2, <2>4, <2>5, <2>6, <2>7
<1>. QED  BY <1>2, <1>3

LEMMA FanoutKeeps ==
    ASSUME MissedInv, NEW new \in EventIds, Fanout(new)
    PROVE  MissedInv'
<1>. DEFINE over == \E x \in fanned : x > new
<1>1. /\ TypeOK /\ new \in ever \ fanned
      /\ fanned' = fanned \cup {new}
      /\ tardy' = (IF over THEN tardy \cup {new} ELSE tardy)
      /\ UNCHANGED <<stored, ever, rp, since, oldest, page, answer,
                     link, aside, lastId, processed, disconnects>>
      /\ IF link = "down" THEN UNCHANGED <<queue, dropped>> ELSE Enqueue(new)
  BY DEF Fanout, MissedInv, Overtaken, liveVars, replayVars, consumerVars
<1>2. /\ \A id \in EventIds : id \in Nat
      /\ fanned \subseteq EventIds /\ queue \in Seq(EventIds) /\ aside \in Seq(EventIds)
  BY <1>1, InUse
<1>3. ~over => \A x \in fanned : x < new
  BY <1>1, <1>2
<1>. HIDE DEF over
<1>4. dropped \subseteq dropped' /\ tardy \subseteq tardy'
  BY <1>1, Enqueued
<1>5. ASSUME NEW id \in EventIds, Owed(id)' PROVE Owed(id)
  <2>1. CASE id = new
    BY <1>1, <1>3, <1>4, <1>5, <2>1 DEF Owed
  <2>2. CASE id # new
    BY <1>1, <1>4, <1>5, <2>2 DEF Owed
  <2>. QED  BY <2>1, <2>2
<1>6. Range(queue) \subseteq fanned /\ Range(aside) \subseteq fanned
  BY DEF MissedInv, InOrder
<1>7. TypeOK'
  <2>1. queue' \in Seq(EventIds) /\ Len(queue') <= QueueCap
    BY <1>1, Enqueued DEF TypeOK
  <2>2. dropped' \subseteq fanned'
    BY <1>1, <1>6, Enqueued DEF TypeOK
  <2>. QED  BY <1>1, <2>1, <2>2 DEF TypeOK
<1>8. Ahead'
  BY <1>1, <1>5 DEF MissedInv, Ahead
<1>9. Cursor' /\ Resting'
  BY <1>1 DEF MissedInv, Cursor, Resting
<1>10. Reachable'
  <2>. SUFFICES ASSUME LastPage', NEW id \in EventIds, Owed(id)', id \in fanned'
                PROVE  id \in page \cup Range(queue') \cup Range(aside)
    BY <1>1 DEF Reachable
  <2>1. LastPage /\ Owed(id) /\ link # "down" /\ id \notin dropped'
    BY <1>1, <1>5 DEF LastPage, Owed, TypeOK
  <2>2. Range(queue) \subseteq Range(queue') \cup dropped' /\ new \in Range(queue')
    <3>1. Len(queue') \in DOMAIN queue' /\ queue'[Len(queue')] = new
      BY <1>1, <2>1, Enqueued
    <3>. QED  BY <1>1, <2>1, <3>1, Enqueued DEF Range
  <2>3. CASE id = new
    BY <2>2, <2>3
  <2>4. CASE id # new
    BY <1>1, <2>1, <2>2, <2>4 DEF MissedInv, Reachable
  <2>. QED  BY <2>3, <2>4
<1>11. InOrder'
  <2>1. CASE link = "down"
    BY <1>1, <1>4, <2>1 DEF MissedInv, InOrder
  <2>2. CASE link # "down"
    <3>1. Range(queue') \subseteq fanned' /\ Range(aside') \subseteq fanned'
      BY <1>1, <1>6, <2>2, Enqueued
    <3>2. PICK shift \in {0, 1} : \A j \in 1..(Len(queue') - 1) :
                 j + shift \in DOMAIN queue /\ queue'[j] = queue[j + shift]
      BY <1>1, <2>2, Enqueued
    <3>3. /\ Len(queue') \in Nat \ {0} /\ queue'[Len(queue')] = new
          /\ DOMAIN queue' = 1..Len(queue') /\ DOMAIN queue = 1..Len(queue)
          /\ Len(queue) \in Nat
      BY <1>1, <1>2, <2>2, Enqueued
    <3>4. \A x \in fanned : x < new \/ new \in tardy'
      BY <1>1, <1>3
    <3>5. ASSUME NEW j \in DOMAIN queue', NEW i \in 1..(j - 1)
          PROVE  queue'[i] < queue'[j] \/ queue'[j] \in tardy'
      <4>1. i \in 1..(Len(queue') - 1) /\ queue'[i] = queue[i + shift]
            /\ i + shift \in DOMAIN queue
        BY <3>2, <3>3, <3>5
      <4>2. CASE j = Len(queue')
        <5>1. queue'[i] \in fanned
          BY <1>6, <4>1 DEF Range
        <5>. QED  BY <3>3, <3>4, <4>2, <5>1
      <4>3. CASE j # Len(queue')
        <5>1. j \in 1..(Len(queue') - 1)
          BY <3>3, <3>5, <4>3
        <5>2. j + shift \in DOMAIN queue /\ queue'[j] = queue[j + shift]
          BY <3>2, <5>1
        <5>3. i + shift \in 1..((j + shift) - 1)
          BY <3>3, <3>5
        <5>4. queue[i + shift] < queue[j + shift] \/ queue[j + shift] \in tardy
          BY <5>2, <5>3 DEF MissedInv, InOrder
        <5>. QED  BY <1>4, <4>1, <5>2, <5>4
      <4>. QED  BY <4>2, <4>3
    <3>6. ASSUME NEW i \in DOMAIN aside, NEW j \in DOMAIN queue'
          PROVE  aside[i] < queue'[j] \/ queue'[j] \in tardy'
      <4>1. CASE j = Len(queue')
        <5>1. aside[i] \in fanned
          BY <1>6 DEF Range
        <5>. QED  BY <3>3, <3>4, <4>1, <5>1
      <4>2. CASE j # Len(queue')
        <5>1. j \in 1..(Len(queue') - 1)
          BY <3>3, <4>2
        <5>2. j + shift \in DOMAIN queue /\ queue'[j] = queue[j + shift]
          BY <3>2, <5>1
        <5>. QED  BY <1>4, <5>2 DEF MissedInv, InOrder
      <4>. QED  BY <4>1, <4>2
    <3>. QED  BY <1>1, <3>1, <3>5, <3>6 DEF InOrder
  <2>. QED  BY <2>1, <2>2
<1>. QED  BY <1>7, <1>8, <1>9, <1>10, <1>11 DEF MissedInv

LEMMA PruneKeeps ==
    ASSUME MissedInv, PruneEvents
    PROVE  MissedInv'
<1>1. /\ TypeOK /\ stored' \subseteq stored
      /\ UNCHANGED <<tardy, ever, fanned, queue, dropped, rp, since, oldest, page,
                     answer, link, aside, lastId, processed, disconnects>>
  BY DEF PruneEvents, MissedInv, liveVars, replayVars, consumerVars
<1>2. TypeOK'
  BY <1>1 DEF TypeOK
<1>3. \A id \in EventIds : Owed(id)' => Owed(id)
  BY <1>1 DEF Owed
<1>. QED  BY <1>1, <1>2, <1>3, OwedKeeps

LEMMA QueryOldestKeeps ==
    ASSUME MissedInv, QueryOldest
    PROVE  MissedInv'
<1>1. /\ TypeOK /\ rp = "oldest" /\ rp' = "rows"
      /\ oldest' = IF stored = {} THEN None ELSE Least(stored)
      /\ UNCHANGED <<stored, tardy, ever, fanned, queue, dropped, since, page,
                     answer, link, aside, lastId, processed, disconnects>>
  BY DEF QueryOldest, MissedInv, storeVars, liveVars, consumerVars
<1>2. oldest' \in 0..N
  <2>1. stored \subseteq EventIds
    BY <1>1, InUse
  <2>2. stored # {} => Least(stored) \in EventIds
    BY <2>1, LeastIs
  <2>3. EventIds \subseteq 0..N /\ None \in 0..N
    BY DeliveryAssumption DEF EventIds, None
  <2>. QED  BY <1>1, <2>2, <2>3
<1>3. TypeOK'
  BY <1>1, <1>2 DEF TypeOK
<1>4. \A id \in EventIds : Owed(id)' => Owed(id)
  BY <1>1 DEF Owed
<1>5. Ahead' /\ Cursor' /\ InOrder' /\ Resting'
  BY <1>1, <1>4 DEF MissedInv, Ahead, Cursor, InOrder, Resting
<1>6. Reachable'
  BY <1>1 DEF MissedInv, TypeOK, Reachable, LastPage
<1>. QED  BY <1>3, <1>5, <1>6 DEF MissedInv

LEMMA QueryRowsKeeps ==
    ASSUME MissedInv, QueryRows
    PROVE  MissedInv'
<1>. DEFINE rows == First(ReplayLimit, Newer)
<1>1. /\ TypeOK /\ rp = "rows" /\ rp' = "send"
      /\ page' = rows /\ answer' = Answer(rows)
      /\ since' = None /\ oldest' = None
      /\ UNCHANGED <<stored, tardy, ever, fanned, queue, dropped, link, aside,
                     lastId, processed, disconnects>>
  BY DEF QueryRows, MissedInv, storeVars, liveVars, consumerVars
<1>2. /\ Newer \subseteq EventIds /\ Newer \subseteq ever /\ rows \subseteq Newer
      /\ ReplayLimit \in Nat \ {0} /\ \A id \in EventIds : id \in Nat /\ id # None
      /\ lastId = since /\ link = "replaying"
  BY <1>1, InUse DEF Newer, First, MissedInv, Cursor, TypeOK
<1>3. rows # Newer => rows # {} /\ Greatest(rows) \in rows
  <2>1. rows # Newer => rows # {}
    BY <1>2, FirstSome
  <2>. QED  BY <1>2, <2>1, GreatestIs
<1>4. Cardinality(rows) <= ReplayLimit
  BY <1>2, FirstCount
<1>5. \A x \in rows, y \in Newer : y < x => y \in rows
  BY <1>2, FirstBefore
<1>. HIDE DEF rows
<1>6. /\ answer'.next = IF rows # Newer THEN Greatest(rows) ELSE None
      /\ answer' \in [truncated : BOOLEAN, next : 0..N]
  BY <1>1, <1>2, <1>3, DeliveryAssumption DEF Answer, None, EventIds
<1>7. TypeOK'
  BY <1>1, <1>2, <1>4, <1>6, DeliveryAssumption DEF TypeOK, None
<1>8. ASSUME NEW id \in EventIds, Owed(id)' PROVE Owed(id) /\ id > lastId /\ id \in Newer
  BY <1>1, <1>2, <1>8 DEF Owed, MissedInv, Ahead, Newer
<1>9. Ahead'
  <2>. SUFFICES ASSUME NEW id \in EventIds, Owed(id)', id \notin rows, NEW x \in rows
                PROVE  x < id
    BY <1>1, <1>8 DEF Ahead
  <2>1. ~(id < x) /\ id # x /\ id \in Nat /\ x \in Nat
    BY <1>2, <1>5, <1>8
  <2>. QED  BY <2>1
<1>10. Cursor'
  BY <1>1, <1>3, <1>6 DEF MissedInv, Cursor
<1>11. Reachable'
  <2>1. LastPage' => rows = Newer
    BY <1>1, <1>2, <1>3, <1>6 DEF LastPage
  <2>. QED  BY <1>1, <1>8, <2>1 DEF Reachable
<1>12. InOrder' /\ Resting'
  BY <1>1, <1>2 DEF MissedInv, InOrder, Resting
<1>. QED  BY <1>7, <1>9, <1>10, <1>11, <1>12 DEF MissedInv

LEMMA SendReplayedKeeps ==
    ASSUME MissedInv, SendReplayed
    PROVE  MissedInv'
<1>. DEFINE row == Least(page)
<1>1. /\ TypeOK /\ rp = "send" /\ page # {} /\ page' = page \ {row}
      /\ lastId' = row /\ processed' = processed \cup {row}
      /\ UNCHANGED <<stored, tardy, ever, fanned, queue, dropped, rp, since,
                     oldest, answer, link, aside, disconnects>>
  BY DEF SendReplayed, Process, MissedInv, storeVars, liveVars
<1>2. /\ page \subseteq EventIds /\ page \subseteq ever
      /\ \A id \in EventIds : id \in Nat /\ id # None
  BY <1>1, InUse DEF TypeOK
<1>3. row \in page /\ \A x \in page : row <= x
  BY <1>1, <1>2, LeastIs
<1>. HIDE DEF row
<1>4. TypeOK'
  <2>1. row \in 0..N
    BY <1>2, <1>3, DeliveryAssumption DEF EventIds
  <2>2. page' \in SUBSET page /\ IsFiniteSet(page) /\ Cardinality(page) \in Nat
    BY <1>1, <1>2, IdSetsFinite
  <2>3. Cardinality(page') <= Cardinality(page) /\ Cardinality(page') \in Nat
    BY <2>2, FS_Subset, FS_CardinalityType
  <2>4. Cardinality(page') <= ReplayLimit
    BY <1>1, <2>2, <2>3, DeliveryAssumption DEF TypeOK
  <2>. QED  BY <1>1, <1>2, <1>3, <2>1, <2>4 DEF TypeOK
<1>5. ASSUME NEW id \in EventIds, Owed(id)' PROVE Owed(id) /\ id # row
  BY <1>1, <1>5 DEF Owed
<1>6. Ahead'
  <2>. SUFFICES ASSUME NEW id \in EventIds, Owed(id)'
                PROVE  id > row /\ (id \in page' \/ \A x \in page' : x < id)
    BY <1>1 DEF Ahead
  <2>1. id \in page \/ \A x \in page : x < id
    BY <1>5 DEF MissedInv, Ahead
  <2>2. id > row
    BY <1>2, <1>3, <1>5, <2>1
  <2>. QED  BY <1>1, <1>5, <2>1, <2>2
<1>7. Cursor'
  <2>. SUFFICES ASSUME answer.next # None
                PROVE  answer.next = IF page' = {} THEN row ELSE Greatest(page')
    BY <1>1 DEF Cursor
  <2>1. answer.next = Greatest(page)
    BY <1>1 DEF MissedInv, Cursor
  <2>2. Greatest(page) \in page /\ \A x \in page : x <= Greatest(page)
    BY <1>1, <1>2, GreatestIs
  <2>3. CASE page' = {}
    <3>1. page = {row}
      BY <1>1, <1>3, <2>3
    <3>. QED  BY <2>1, <2>2, <2>3, <3>1
  <2>4. CASE page' # {}
    <3>1. /\ Greatest(page') \in page' /\ \A x \in page' : x <= Greatest(page')
          /\ page' \subseteq EventIds
      BY <1>1, <1>2, <2>4, GreatestIs
    <3>2. Greatest(page) # row
      <4>1. PICK x \in page' : x # row
        BY <1>1, <2>4
      <4>. QED  BY <1>1, <1>2, <1>3, <2>2, <4>1
    <3>3. Greatest(page) \in page' /\ Greatest(page') \in page
      BY <1>1, <2>2, <3>1, <3>2
    <3>4. Greatest(page) <= Greatest(page') /\ Greatest(page') <= Greatest(page)
      BY <2>2, <3>1, <3>3
    <3>5. Greatest(page) \in Nat /\ Greatest(page') \in Nat
      BY <1>2, <2>2, <3>3
    <3>6. Greatest(page) = Greatest(page')
      BY <3>4, <3>5
    <3>. QED  BY <2>1, <2>4, <3>6
  <2>. QED  BY <2>3, <2>4
<1>8. Reachable'
  BY <1>1, <1>5 DEF MissedInv, Reachable, LastPage
<1>9. InOrder' /\ Resting'
  BY <1>1 DEF MissedInv, InOrder, Resting, TypeOK
<1>. QED  BY <1>4, <1>6, <1>7, <1>8, <1>9 DEF MissedInv

LEMMA SendDoneKeeps ==
    ASSUME MissedInv, SendDone
    PROVE  MissedInv'
<1>1. /\ TypeOK /\ rp = "send" /\ page = {} /\ link = "replaying"
      /\ since' = answer.next /\ answer' = NoAnswer
      /\ UNCHANGED <<stored, tardy, ever, fanned, queue, dropped, oldest, page,
                     disconnects>>
  BY DEF SendDone, MissedInv, storeVars, liveVars, TypeOK
<1>2. /\ \A id \in EventIds : id \in Nat /\ id # None
      /\ queue \in Seq(EventIds) /\ aside \in Seq(EventIds) /\ fanned \subseteq EventIds
      /\ answer.next \in 0..N /\ NoAnswer \in [truncated : BOOLEAN, next : 0..N]
  BY <1>1, InUse, DeliveryAssumption DEF TypeOK, NoAnswer, None
<1>3. CASE answer.next # None
  <2>1. rp' = "oldest" /\ UNCHANGED <<link, aside, lastId, processed>>
    BY <1>3 DEF SendDone
  <2>2. lastId = answer.next
    BY <1>1, <1>3 DEF MissedInv, Cursor
  <2>3. \A id \in EventIds : Owed(id)' => Owed(id)
    BY <1>1, <2>1 DEF Owed
  <2>4. TypeOK'
    BY <1>1, <1>2, <2>1 DEF TypeOK
  <2>5. Ahead' /\ InOrder' /\ Resting'
    BY <1>1, <2>1, <2>3 DEF MissedInv, Ahead, InOrder, Resting
  <2>6. Cursor'
    BY <1>1, <2>1, <2>2 DEF MissedInv, Cursor
  <2>7. Reachable'
    BY <1>1, <2>1 DEF Reachable, LastPage
  <2>. QED  BY <2>4, <2>5, <2>6, <2>7 DEF MissedInv
<1>4. CASE answer.next = None
  <2>1. /\ rp' = "idle" /\ link' = "live" /\ aside' = <<>>
        /\ lastId' = IF aside = <<>> THEN lastId ELSE aside[Len(aside)]
        /\ processed' = processed \cup Range(aside)
    BY <1>4 DEF SendDone
  <2>2. aside # <<>> => Len(aside) \in DOMAIN aside
    BY <1>2
  <2>3. Range(aside) \subseteq fanned /\ Range(queue) \subseteq fanned
    BY DEF MissedInv, InOrder
  <2>4. lastId' \in 0..N /\ lastId' \in processed' \cup {None}
    BY <1>1, <1>2, <2>1, <2>2, <2>3, DeliveryAssumption
    DEF MissedInv, Cursor, TypeOK, Range, EventIds
  <2>5. TypeOK'
    <3>1. processed' \subseteq ever
      BY <1>1, <2>1, <2>3 DEF TypeOK
    <3>2. aside' \in Seq(EventIds)
      BY <2>1
    <3>. QED  BY <1>1, <1>2, <2>1, <2>4, <3>1, <3>2 DEF TypeOK
  <2>6. ASSUME NEW id \in EventIds, Owed(id)'
        PROVE  Owed(id) /\ (id \in Range(queue) \/ id \notin fanned)
    <3>1. Owed(id) /\ id \notin Range(aside)
      BY <1>1, <2>1, <2>6 DEF Owed
    <3>. QED  BY <1>1, <1>4, <3>1 DEF MissedInv, Reachable, LastPage
  <2>7. ASSUME NEW id \in EventIds, Owed(id)' PROVE id > lastId'
    <3>1. CASE aside = <<>>
      BY <2>1, <2>6, <2>7, <3>1 DEF MissedInv, Ahead
    <3>2. CASE aside # <<>>
      <4>1. lastId' = aside[Len(aside)] /\ lastId' \in fanned /\ Len(aside) \in DOMAIN aside
        BY <2>1, <2>2, <2>3, <3>2 DEF Range
      <4>2. CASE id \in Range(queue)
        <5>1. PICK j \in DOMAIN queue : id = queue[j]
          BY <4>2 DEF Range
        <5>2. id \notin tardy
          BY <2>6, <2>7 DEF Owed
        <5>3. aside[Len(aside)] < id
          BY <4>1, <5>1, <5>2 DEF MissedInv, InOrder
        <5>. QED  BY <1>2, <4>1, <5>3
      <4>3. CASE id \notin fanned
        BY <1>2, <2>6, <2>7, <4>1, <4>3 DEF Owed
      <4>. QED  BY <2>6, <2>7, <4>2, <4>3
    <3>. QED  BY <3>1, <3>2
  <2>8. Ahead'
    BY <1>1, <2>7 DEF Ahead
  <2>9. Cursor' /\ Resting'
    BY <1>1, <2>1, <2>4 DEF Cursor, Resting
  <2>10. Reachable'
    BY <1>1, <2>6 DEF Reachable
  <2>11. InOrder'
    <3>1. DOMAIN aside' = {} /\ Range(aside') = {}
      BY <2>1 DEF Range
    <3>. QED  BY <1>1, <3>1 DEF MissedInv, InOrder
  <2>. QED  BY <2>5, <2>8, <2>9, <2>10, <2>11 DEF MissedInv
<1>. QED  BY <1>3, <1>4

LEMMA SendFrameKeeps ==
    ASSUME MissedInv, SendFrame
    PROVE  MissedInv'
<1>. DEFINE frame == Head(queue)
<1>1. /\ TypeOK /\ queue # <<>> /\ queue' = Tail(queue)
      /\ UNCHANGED <<stored, tardy, ever, fanned, dropped, rp, since, oldest,
                     page, answer, link, disconnects>>
      /\ IF link = "live"
         THEN /\ lastId' = frame /\ processed' = processed \cup {frame}
              /\ UNCHANGED aside
         ELSE aside' = Append(aside, frame) /\ UNCHANGED <<lastId, processed>>
  BY DEF SendFrame, Process, MissedInv, storeVars, replayVars
<1>2. /\ \A id \in EventIds : id \in Nat /\ id # None
      /\ queue \in Seq(EventIds) /\ aside \in Seq(EventIds) /\ fanned \subseteq EventIds
      /\ Len(queue) \in Nat \ {0} /\ Len(queue) <= QueueCap /\ QueueCap \in Nat
  BY <1>1, InUse, DeliveryAssumption DEF TypeOK
<1>3. /\ Tail(queue) \in Seq(EventIds) /\ Len(Tail(queue)) = Len(queue) - 1
      /\ \A j \in 1..(Len(queue) - 1) : Tail(queue)[j] = queue[j + 1]
      /\ frame = queue[1] /\ frame \in EventIds
      /\ DOMAIN queue = 1..Len(queue) /\ DOMAIN Tail(queue) = 1..(Len(queue) - 1)
  BY <1>1, <1>2
<1>. HIDE DEF frame
<1>4. frame \in fanned /\ Range(queue) \subseteq fanned /\ Range(aside) \subseteq fanned
  <2>1. 1 \in DOMAIN queue
    BY <1>2, <1>3
  <2>. QED  BY <1>3, <2>1 DEF MissedInv, InOrder, Range
<1>5. Range(queue) \subseteq Range(queue') \cup {frame} /\ Range(queue') \subseteq Range(queue)
  <2>1. ASSUME NEW j \in 1..Len(queue), j # 1 PROVE queue[j] \in Range(queue')
    <3>1. j - 1 \in 1..(Len(queue) - 1) /\ (j - 1) + 1 = j
      BY <1>2, <2>1
    <3>. QED  BY <1>1, <1>3, <3>1 DEF Range
  <2>2. ASSUME NEW j \in 1..(Len(queue) - 1) PROVE queue'[j] \in Range(queue)
    <3>1. j + 1 \in 1..Len(queue)
      BY <1>2, <2>2
    <3>. QED  BY <1>1, <1>3, <3>1 DEF Range
  <2>3. ASSUME NEW x \in Range(queue) PROVE x \in Range(queue') \cup {frame}
    <3>1. PICK j \in 1..Len(queue) : x = queue[j]
      BY <1>3, <2>3 DEF Range
    <3>. QED  BY <1>3, <2>1, <3>1
  <2>4. ASSUME NEW x \in Range(queue') PROVE x \in Range(queue)
    <3>1. PICK j \in 1..(Len(queue) - 1) : x = queue'[j]
      BY <1>1, <1>3, <2>4 DEF Range
    <3>. QED  BY <2>2, <3>1
  <2>. QED  BY <2>3, <2>4
<1>6. ASSUME NEW j \in DOMAIN queue'
      PROVE  /\ frame < queue'[j] \/ queue'[j] \in tardy
             /\ \A i \in 1..(j - 1) : queue'[i] < queue'[j] \/ queue'[j] \in tardy
             /\ \A i \in DOMAIN aside : aside[i] < queue'[j] \/ queue'[j] \in tardy
  <2>1. j \in 1..(Len(queue) - 1) /\ queue'[j] = queue[j + 1] /\ j + 1 \in DOMAIN queue
    BY <1>1, <1>2, <1>3, <1>6
  <2>2. 1 \in 1..((j + 1) - 1)
    BY <2>1
  <2>3. frame < queue'[j] \/ queue'[j] \in tardy
    BY <1>3, <2>1, <2>2 DEF MissedInv, InOrder
  <2>4. ASSUME NEW i \in 1..(j - 1) PROVE queue'[i] < queue'[j] \/ queue'[j] \in tardy
    <3>1. i + 1 \in 1..((j + 1) - 1) /\ queue'[i] = queue[i + 1]
      BY <1>1, <1>2, <1>3, <2>1, <2>4
    <3>. QED  BY <2>1, <3>1 DEF MissedInv, InOrder
  <2>. QED  BY <2>1, <2>3, <2>4 DEF MissedInv, InOrder
<1>7. queue' \in Seq(EventIds) /\ Len(queue') <= QueueCap
  BY <1>1, <1>2, <1>3
<1>8. CASE link = "live"
  <2>1. /\ lastId' = frame /\ processed' = processed \cup {frame} /\ aside' = aside
        /\ page = {} /\ aside = <<>> /\ Range(aside) = {} /\ rp = "idle"
    BY <1>1, <1>8 DEF MissedInv, Resting, Range, TypeOK
  <2>2. TypeOK'
    <3>1. frame \in 0..N
      BY <1>3, DeliveryAssumption DEF EventIds
    <3>2. processed' \subseteq ever
      BY <1>1, <1>4, <2>1 DEF TypeOK
    <3>. QED  BY <1>1, <1>7, <2>1, <3>1, <3>2 DEF TypeOK
  <2>3. ASSUME NEW id \in EventIds, Owed(id)'
        PROVE  Owed(id) /\ (id \in Range(queue') \/ id \notin fanned)
    <3>1. Owed(id) /\ id # frame
      BY <1>1, <2>1, <2>3 DEF Owed
    <3>. QED  BY <1>5, <1>8, <2>1, <3>1 DEF MissedInv, Reachable, LastPage
  <2>4. ASSUME NEW id \in EventIds, Owed(id)' PROVE id > frame
    <3>1. CASE id \in Range(queue')
      <4>1. PICK j \in DOMAIN queue' : id = queue'[j]
        BY <3>1 DEF Range
      <4>2. id \notin tardy
        BY <2>3, <2>4 DEF Owed
      <4>. QED  BY <1>2, <1>3, <1>6, <4>1, <4>2
    <3>2. CASE id \notin fanned
      BY <1>2, <1>3, <1>4, <2>3, <2>4, <3>2 DEF Owed
    <3>. QED  BY <2>3, <2>4, <3>1, <3>2
  <2>5. Ahead'
    BY <1>1, <2>1, <2>4 DEF Ahead
  <2>6. Cursor' /\ Resting'
    BY <1>1, <1>8, <2>1 DEF MissedInv, Cursor, Resting
  <2>7. Reachable'
    BY <1>1, <2>3 DEF Reachable
  <2>8. InOrder'
    BY <1>1, <1>4, <1>5, <1>6, <2>1 DEF InOrder
  <2>. QED  BY <2>2, <2>5, <2>6, <2>7, <2>8 DEF MissedInv
<1>9. CASE link # "live"
  <2>1. /\ aside' = Append(aside, frame) /\ UNCHANGED <<lastId, processed>>
        /\ link = "replaying"
    BY <1>1, <1>9 DEF MissedInv, Resting, TypeOK
  <2>2. /\ aside' \in Seq(EventIds) /\ DOMAIN aside' = 1..(Len(aside) + 1)
        /\ DOMAIN aside = 1..Len(aside) /\ Len(aside) \in Nat
        /\ aside'[Len(aside) + 1] = frame
        /\ \A i \in 1..Len(aside) : aside'[i] = aside[i]
    BY <1>2, <1>3, <2>1
  <2>3. \A i \in DOMAIN aside' : i \in DOMAIN aside \/ i = Len(aside) + 1
    BY <2>2
  <2>4. Range(aside') = Range(aside) \cup {frame}
    <3>1. Len(aside) + 1 \in DOMAIN aside' /\ DOMAIN aside \subseteq DOMAIN aside'
      BY <2>2
    <3>. QED  BY <2>2, <2>3, <3>1 DEF Range
  <2>5. TypeOK'
    BY <1>1, <1>7, <2>1, <2>2 DEF TypeOK
  <2>6. \A id \in EventIds : Owed(id)' => Owed(id)
    BY <1>1, <2>1 DEF Owed
  <2>7. Ahead' /\ Cursor' /\ Resting'
    BY <1>1, <2>1, <2>6 DEF MissedInv, Ahead, Cursor, Resting
  <2>8. Reachable'
    BY <1>1, <1>5, <2>1, <2>4, <2>6 DEF MissedInv, Reachable, LastPage
  <2>9. InOrder'
    <3>1. Range(queue') \subseteq fanned' /\ Range(aside') \subseteq fanned'
      BY <1>1, <1>4, <1>5, <2>4
    <3>2. \A i \in DOMAIN aside', j \in DOMAIN queue' :
             aside'[i] < queue'[j] \/ queue'[j] \in tardy'
      BY <1>1, <1>6, <2>2, <2>3
    <3>. QED  BY <1>1, <1>6, <3>1, <3>2 DEF InOrder
  <2>. QED  BY <2>5, <2>7, <2>8, <2>9 DEF MissedInv
<1>. QED  BY <1>8, <1>9

LEMMA ConnectionKeeps ==
    ASSUME MissedInv, Connect \/ Disconnect
    PROVE  MissedInv'
<1>1. /\ TypeOK
      /\ UNCHANGED <<stored, tardy, ever, fanned, dropped, lastId, processed>>
  BY DEF Connect, Disconnect, MissedInv, storeVars, liveVars
<1>2. \A id \in EventIds : Owed(id)' => Owed(id)
  BY <1>1 DEF Owed
<1>3. CASE Connect
  <2>1. /\ link = "down" /\ link' = "replaying" /\ rp' = "oldest" /\ since' = lastId
        /\ UNCHANGED <<queue, oldest, page, answer, aside, disconnects>>
    BY <1>3 DEF Connect, storeVars, liveVars
  <2>2. TypeOK'
    BY <1>1, <2>1 DEF TypeOK
  <2>3. Ahead' /\ Cursor' /\ InOrder' /\ Resting'
    BY <1>1, <1>2, <2>1 DEF MissedInv, Ahead, Cursor, InOrder, Resting
  <2>4. Reachable'
    BY <2>1 DEF Reachable, LastPage
  <2>. QED  BY <2>2, <2>3, <2>4 DEF MissedInv
<1>4. CASE Disconnect
  <2>1. /\ link' = "down" /\ rp' = "idle" /\ since' = None /\ oldest' = None
        /\ page' = {} /\ answer' = NoAnswer /\ queue' = <<>> /\ aside' = <<>>
        /\ disconnects' = disconnects + 1 /\ disconnects < MaxDisconnects
    BY <1>4 DEF Disconnect
  <2>2. TypeOK'
    <3>1. queue' \in Seq(EventIds) /\ aside' \in Seq(EventIds) /\ Len(queue') = 0
      BY <2>1
    <3>2. Cardinality(page') = 0
      BY <2>1, FS_EmptySet
    <3>. QED  BY <1>1, <2>1, <3>1, <3>2, DeliveryAssumption DEF TypeOK, None, NoAnswer
  <2>3. Ahead' /\ Cursor' /\ Resting'
    BY <1>1, <1>2, <2>1 DEF MissedInv, Ahead, Cursor, Resting
  <2>4. InOrder'
    <3>1. /\ DOMAIN queue' = {} /\ Range(queue') = {}
          /\ DOMAIN aside' = {} /\ Range(aside') = {}
      BY <2>1 DEF Range
    <3>. QED  BY <3>1 DEF InOrder
  <2>5. Reachable'
    BY <2>1 DEF Reachable, LastPage
  <2>. QED  BY <2>2, <2>3, <2>4, <2>5 DEF MissedInv
<1>. QED  BY <1>3, <1>4

LEMMA MissedInvariant == Spec => []MissedInv
<1>1. MissedInv /\ [Next]_vars => MissedInv'
  <2>. SUFFICES ASSUME MissedInv, [Next]_vars PROVE MissedInv'
    OBVIOUS
  <2>1. ASSUME NEW id \in EventIds, Store(id) \/ Fanout(id) PROVE MissedInv'
    BY <2>1, StoreKeeps, FanoutKeeps
  <2>2. CASE PruneEvents
    BY <2>2, PruneKeeps
  <2>3. CASE ServeReplay
    BY <2>3, QueryOldestKeeps, QueryRowsKeeps, SendReplayedKeeps, SendDoneKeeps DEF ServeReplay
  <2>4. CASE SendFrame
    BY <2>4, SendFrameKeeps
  <2>5. CASE Connect \/ Disconnect
    BY <2>5, ConnectionKeeps
  <2>6. CASE UNCHANGED vars
    <3>1. /\ UNCHANGED <<stored, tardy, ever, fanned, queue, dropped, rp, since,
                         oldest, page, answer, link, aside, lastId, processed,
                         disconnects>>
      BY <2>6 DEF vars, storeVars, liveVars, replayVars, consumerVars
    <3>2. TypeOK'
      BY <3>1 DEF MissedInv, TypeOK
    <3>3. \A id \in EventIds : Owed(id)' => Owed(id)
      BY <3>1 DEF Owed
    <3>. QED  BY <3>1, <3>2, <3>3, OwedKeeps
  <2>. QED  BY <2>1, <2>2, <2>3, <2>4, <2>5, <2>6 DEF Next, Publish
<1>. QED  BY <1>1, InitMissedInv, PTL DEF Spec

(* The shape of the state, for any number of events and connections: the    *)
(* peer's queue and the replay page stay within their bounds.              *)
THEOREM DeliveryTypes == Spec => []TypeOK
<1>1. MissedInv => TypeOK
  BY DEF MissedInv
<1>. QED  BY <1>1, MissedInvariant, PTL

(* docs/ARCHITECTURE.md section 3, README Delivery semantics: a consumer    *)
(* that replays from its last id after every reconnect misses no event the  *)
(* store holds, unless its queue shed it or it was late (replay.py,         *)
(* realtime/__init__.py _do_replay).                                       *)
THEOREM NothingMissed == Spec => []MissedExplained
<1>1. ASSUME MissedInv PROVE MissedExplained
  <2>. SUFFICES ASSUME CaughtUp, NEW id \in stored,
                       id \notin processed \cup dropped \cup tardy
                PROVE  FALSE
    BY DEF MissedExplained
  <2>1. link = "live" /\ queue = <<>> /\ ever = fanned /\ page = {} /\ aside = <<>>
    BY <1>1 DEF CaughtUp, MissedInv, Resting
  <2>2. id \in EventIds /\ id \in fanned
    BY <1>1, <2>1 DEF MissedInv, TypeOK
  <2>3. Owed(id)
    BY <2>2 DEF Owed
  <2>4. Range(queue) = {} /\ Range(aside) = {}
    BY <2>1 DEF Range
  <2>. QED  BY <1>1, <2>1, <2>2, <2>3, <2>4 DEF MissedInv, Reachable, LastPage
<1>. QED  BY <1>1, MissedInvariant, PTL

-----------------------------------------------------------------------------
(***************************************************************************)
(* Truncation.  What retention removed lies before everything the store     *)
(* will ever hold, so a cursor before a removed event is before the oldest. *)
(***************************************************************************)
PrunedPrefix ==
    \A id \in ever \ stored : /\ 1..id \subseteq ever
                              /\ \A x \in stored : id < x

LEMMA PrunedInvariant == Spec => [](TypeOK /\ PrunedPrefix)
<1>1. Init => PrunedPrefix
  BY DEF Init, PrunedPrefix
<1>2. TypeOK /\ PrunedPrefix /\ [Next]_vars => PrunedPrefix'
  <2>. SUFFICES ASSUME TypeOK, PrunedPrefix, [Next]_vars PROVE PrunedPrefix'
    OBVIOUS
  <2>1. /\ stored \subseteq EventIds /\ ever \subseteq EventIds /\ fanned \subseteq ever
        /\ \A id \in EventIds : id \in Nat /\ id \in 1..id
    BY InUse DEF TypeOK, EventIds
  <2>2. ASSUME NEW new \in EventIds, Store(new) PROVE PrunedPrefix'
    <3>1. /\ new \notin ever /\ stored' = stored \cup {new} /\ ever' = ever \cup {new}
      BY <2>2 DEF Store
    <3>2. ASSUME NEW id \in ever \ stored PROVE id < new
      <4>1. 1..id \subseteq ever /\ id \in Nat /\ new \in Nat /\ new >= 1
        BY <2>1, <3>2 DEF PrunedPrefix, EventIds
      <4>2. new \notin 1..id
        BY <3>1, <4>1
      <4>. QED  BY <4>1, <4>2
    <3>. QED  BY <3>1, <3>2 DEF PrunedPrefix
  <2>3. CASE PruneEvents
    <3>1. ever' = ever
      BY <2>3 DEF PruneEvents
    <3>2. PICK cutoff \in stored :
             1..cutoff \subseteq fanned /\ stored' = stored \ (1..cutoff)
      BY <2>3 DEF PruneEvents
    <3>3. ASSUME NEW id \in ever, id \notin stored'
          PROVE  1..id \subseteq ever /\ \A x \in stored' : id < x
      <4>1. CASE id \in stored
        <5>1. id \in 1..cutoff /\ cutoff \in Nat /\ id \in Nat
          BY <2>1, <3>2, <3>3, <4>1
        <5>2. 1..id \subseteq 1..cutoff
          BY <5>1
        <5>3. ASSUME NEW x \in stored' PROVE id < x
          <6>1. x \in Nat /\ x >= 1 /\ x \notin 1..cutoff
            BY <2>1, <3>2, <5>3 DEF EventIds
          <6>. QED  BY <5>1, <6>1
        <5>. QED  BY <2>1, <3>2, <5>2, <5>3
      <4>2. CASE id \notin stored
        BY <3>2, <3>3, <4>2 DEF PrunedPrefix
      <4>. QED  BY <4>1, <4>2
    <3>. QED  BY <3>1, <3>3 DEF PrunedPrefix
  <2>4. CASE \/ \E id \in EventIds : Fanout(id)
             \/ ServeReplay \/ SendFrame \/ Connect \/ Disconnect \/ UNCHANGED vars
    <3>1. UNCHANGED <<stored, ever>>
      BY <2>4
      DEF Fanout, ServeReplay, QueryOldest, QueryRows, SendReplayed, SendDone, SendFrame,
          Connect, Disconnect, vars, storeVars
    <3>. QED  BY <3>1 DEF PrunedPrefix
  <2>. QED  BY <2>2, <2>3, <2>4 DEF Next, Publish
<1>. QED  BY <1>1, <1>2, DeliveryTypes, PTL DEF Spec

(* replay.py:7-11: a replay whose cursor lies before a removed event says   *)
(* truncated, as long as the oldest row it asked for first is still there.  *)
THEOREM TruncationTold == Spec => TruncationIsTold
<1>1. ASSUME TypeOK, PrunedPrefix, [Next]_vars
      PROVE  [(/\ rp = "rows" /\ rp' = "send"
               /\ since # None /\ oldest \in stored
               /\ \E id \in ever \ stored : id > since)
                 => answer'.truncated]_vars
  <2>. SUFFICES ASSUME rp = "rows", rp' = "send", since # None, oldest \in stored,
                       NEW id \in ever \ stored, id > since
                PROVE  answer'.truncated
    OBVIOUS
  <2>1. QueryRows
    BY <1>1
    DEF Next, Publish, Store, Fanout, PruneEvents, ServeReplay, QueryOldest, SendReplayed,
        SendDone, SendFrame, Connect, Disconnect, vars, replayVars
  <2>2. PICK rows : answer' = Answer(rows)
    BY <2>1 DEF QueryRows
  <2>3. id < oldest /\ id \in Nat /\ oldest \in Nat /\ since \in Nat /\ oldest # None
    BY <1>1, InUse DEF PrunedPrefix
  <2>4. since < oldest
    BY <2>3
  <2>. QED  BY <2>2, <2>3, <2>4 DEF Answer
<1>. QED  BY <1>1, PrunedInvariant, PTL DEF TruncationIsTold, Spec
=============================================================================
