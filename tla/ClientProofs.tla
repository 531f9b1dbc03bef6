---------------------------- MODULE ClientProofs ----------------------------
(***************************************************************************)
(* The client libraries.  Python, each part by itself as in the run:        *)
(* listings page by page, for any number of rows, limits and changes        *)
(* between two pages; one publish call, for any batch, retry policy, losses *)
(* and crashes; the signals of one Celery task, for any number of runs; an  *)
(* iterator, for any topics, queues, pages and connections.                 *)
(* TypeScript: the connection, its requests and the calls that wait for      *)
(* them, for any channels, sockets and attempts.                            *)
(***************************************************************************)
EXTENDS History, PyPublish, CeleryTask, PyConsumer, TsClient, FiniteSetTheorems,
        WellFoundedInduction, TLAPS

-----------------------------------------------------------------------------
(* Listings.                                                               *)

HistSpec == HistInit /\ [][HistNext]_histVars

LEMMA Least ==
    ASSUME NEW S, S \subseteq Nat, S # {}
    PROVE  \E m \in S : \A n \in S : m <= n
<1> DEFINE R == OpToRel(<, Nat)
<1>1. IsWellFoundedOn(R, Nat)
  BY NatLessThanWellFounded
<1>2. \A x, y \in Nat : x < y => <<x, y>> \in R
  BY DEF OpToRel
<1> HIDE DEF R
<1>3. PICK m \in S : \A n \in S : ~ (<<n, m>> \in R)
  BY <1>1, WFMin
<1>4. ASSUME NEW n \in S PROVE m <= n
  <2>1. ~(n < m)
    BY <1>2, <1>3
  <2> QED  BY <2>1
<1> QED  BY <1>4

LEMMA Greatest ==
    ASSUME NEW S, S \subseteq RowIds, S # {}
    PROVE  \E m \in S : \A n \in S : n <= m
<1> DEFINE T == {Rows - n : n \in S}
<1>1. \A n \in S : n \in Nat /\ n <= Rows
  BY HistoryAssumption DEF RowIds
<1>2. T \subseteq Nat /\ T # {}
  BY <1>1, HistoryAssumption
<1> HIDE DEF T
<1>3. PICK t \in T : \A x \in T : t <= x
  BY <1>2, Least
<1>4. PICK m \in S : t = Rows - m
  BY <1>3 DEF T
<1>5. ASSUME NEW n \in S PROVE n <= m
  <2>1. t <= Rows - n
    BY <1>3 DEF T
  <2> QED  BY <1>1, <1>4, <2>1, HistoryAssumption
<1> QED  BY <1>5

(* A set of rows has a first one and a last one in the order of a listing. *)
LEMMA Ends ==
    ASSUME NEW S, S \subseteq RowIds, S # {}
    PROVE  /\ \E r \in S : \A s \in S : ~Precedes(s, r)
           /\ LastOf(S) \in S /\ \A s \in S : ~Precedes(LastOf(S), s)
<1>1. S \subseteq Nat
  BY DEF RowIds
<1>2. PICK low \in S : \A s \in S : low <= s
  BY <1>1, Least
<1>3. PICK high \in S : \A s \in S : s <= high
  BY Greatest
<1>4. \E r \in S : \A s \in S : ~Precedes(s, r)
  <2>1. CASE listing.order = "asc"
    BY <1>1, <1>2, <2>1 DEF Precedes
  <2>2. CASE listing.order # "asc"
    BY <1>1, <1>3, <2>2 DEF Precedes
  <2> QED  BY <2>1, <2>2
<1>5. \E r \in S : \A s \in S : ~Precedes(r, s)
  <2>1. CASE listing.order = "asc"
    BY <1>1, <1>3, <2>1 DEF Precedes
  <2>2. CASE listing.order # "asc"
    BY <1>1, <1>2, <2>2 DEF Precedes
  <2> QED  BY <2>1, <2>2
<1> QED  BY <1>4, <1>5 DEF LastOf

(* The order of a listing. *)
LEMMA Order ==
    /\ \A r \in RowIds : ~Precedes(r, r)
    /\ \A r, s \in RowIds : Precedes(r, s) \/ Precedes(s, r) \/ r = s
    /\ \A r, s, t \in RowIds : Precedes(r, s) /\ Precedes(s, t) => Precedes(r, t)
    /\ \A r, s \in RowIds : ~(Precedes(r, s) /\ Precedes(s, r))
BY DEF Precedes, RowIds

LEMMA Limits == \A l \in [kind : Kinds, order : {"asc", "desc"}, limit : Asked,
                          cursor : RowIds \cup {Start}, pc : {"fetch", "done"}] :
                    Limit(l) \in Nat /\ Limit(l) >= 1
<1>1. \A n \in Nat : Within(1, n, Most) \in Nat /\ Within(1, n, Most) >= 1
  BY HistoryAssumption DEF Within
<1> SUFFICES ASSUME NEW l, l.limit \in Nat PROVE Limit(l) \in Nat /\ Limit(l) >= 1
  BY HistoryAssumption
<1>2. EventsLimit(l.limit) \in Nat /\ EventsLimit(l.limit) >= 1
  <2>1. (IF l.limit = 0 THEN Default ELSE l.limit) \in Nat
    BY HistoryAssumption
  <2> QED  BY <1>1, <2>1 DEF EventsLimit
<1>3. RoutesLimit(l.limit) \in Nat /\ RoutesLimit(l.limit) >= 1
  BY <1>1 DEF RoutesLimit
<1> QED  BY <1>2, <1>3 DEF Limit

(* A page is a part of what lies beyond the cursor that leaves out nothing  *)
(* before any of its rows, and is not empty unless there is nothing.       *)
LEMMA Pages ==
    ASSUME NEW S, S \subseteq RowIds, NEW limit \in Nat, limit >= 1
    PROVE  /\ FirstOf(S, limit) \subseteq S
           /\ \A r, s \in S : s \in FirstOf(S, limit) /\ Precedes(r, s) => r \in FirstOf(S, limit)
           /\ S # {} => FirstOf(S, limit) # {}
<1>1. IsFiniteSet(S)
  <2>1. IsFiniteSet(RowIds) /\ S \in SUBSET RowIds
    BY FS_Interval, HistoryAssumption DEF RowIds
  <2> QED  BY <2>1, FS_Subset
<1> DEFINE Before(r) == {s \in S : Precedes(s, r)}
<1>2. ASSUME NEW r \in S, NEW s \in S, s \in FirstOf(S, limit), Precedes(r, s)
      PROVE  r \in FirstOf(S, limit)
  <2>1. Before(r) \subseteq Before(s)
    BY <1>2, Order
  <2>2. IsFiniteSet(Before(s)) /\ IsFiniteSet(Before(r))
    BY <1>1, FS_Subset
  <2>3. Cardinality(Before(r)) <= Cardinality(Before(s))
    BY <2>1, <2>2, FS_Subset
  <2>4. Cardinality(Before(s)) < limit
    BY <1>2 DEF FirstOf
  <2>5. Cardinality(Before(r)) \in Nat /\ Cardinality(Before(s)) \in Nat
    BY <2>2, FS_CardinalityType
  <2>6. Cardinality(Before(r)) < limit
    BY <2>3, <2>4, <2>5
  <2> QED  BY <2>6 DEF FirstOf
<1>3. ASSUME S # {} PROVE FirstOf(S, limit) # {}
  <2>1. PICK r \in S : \A s \in S : ~Precedes(s, r)
    BY <1>3, Ends
  <2>2. Before(r) = {}
    BY <2>1
  <2>3. Cardinality(Before(r)) = 0
    BY <2>2, FS_EmptySet
  <2> QED  BY <2>3 DEF FirstOf
<1> QED  BY <1>2, <1>3 DEF FirstOf

HistInv ==
    /\ HistTypeOK
    /\ CursorSeparates
    /\ ListsEachOnce

LEMMA FetchKeeps ==
    ASSUME HistInv, Fetch
    PROVE  HistInv'
<1> DEFINE beyond == Beyond(listing.cursor)
           page   == FirstOf(beyond, Limit(listing))
<1>1. beyond \subseteq matching /\ beyond \subseteq RowIds
  BY DEF Beyond, HistInv, HistTypeOK
<1>2. Limit(listing) \in Nat /\ Limit(listing) >= 1
  BY Limits DEF HistInv, HistTypeOK
<1>3. /\ page \subseteq beyond
      /\ \A r, s \in beyond : s \in page /\ Precedes(r, s) => r \in page
      /\ beyond # {} => page # {}
  BY <1>1, <1>2, Pages
<1>4. /\ listing.pc = "fetch" /\ UNCHANGED <<matching, kept>>
      /\ YieldPage(page) /\ Continue(page, beyond)
  BY DEF Fetch
<1>5. \A r \in RowIds : r \in beyond => times[r] = 0
  BY <1>4 DEF HistInv, CursorSeparates, Beyond
<1>6. \A r \in kept : r \in beyond \/ times[r] = 1
  BY DEF HistInv, HistTypeOK, CursorSeparates, Beyond
<1> HIDE DEF beyond, page
<1>7. /\ times' \in [RowIds -> Nat]
      /\ \A r \in RowIds : times'[r] = IF r \in page THEN times[r] + 1 ELSE times[r]
  BY <1>4 DEF YieldPage, HistInv, HistTypeOK
<1>8. \A r \in RowIds : times'[r] <= 1
  BY <1>1, <1>3, <1>5, <1>7 DEF HistInv, HistTypeOK, ListsEachOnce
<1>9. CASE page = beyond
  <2>1. listing' = [listing EXCEPT !.pc = "done"]
    BY <1>4, <1>9 DEF Continue
  <2>2. listing'.pc = "done" /\ listing'.cursor = listing.cursor /\ listing'.order = listing.order
        /\ listing' \in [kind : Kinds, order : {"asc", "desc"}, limit : Asked,
                         cursor : RowIds \cup {Start}, pc : {"fetch", "done"}]
    BY <2>1 DEF HistInv, HistTypeOK
  <2>3. \A r \in kept : times'[r] = 1
    BY <1>5, <1>6, <1>7, <1>9 DEF HistInv, HistTypeOK
  <2> QED  BY <1>4, <1>7, <1>8, <2>2, <2>3 DEF HistInv, HistTypeOK, CursorSeparates, ListsEachOnce
<1>10. CASE page # beyond
  <2> DEFINE final == LastOf(page)
  <2>1. listing' = [listing EXCEPT !.cursor = final]
    BY <1>4, <1>10 DEF Continue
  <2>2. final \in page /\ \A s \in page : ~Precedes(final, s)
    BY <1>1, <1>3, <1>10, Ends
  <2>3. final \in RowIds /\ final # Start /\ final \in beyond
    <3>1. final \in RowIds /\ final \in beyond
      BY <1>1, <1>3, <2>2
    <3> QED  BY <3>1, HistoryAssumption DEF RowIds, Start
  <2> HIDE DEF final
  <2>4. listing'.pc = "fetch" /\ listing'.cursor = final /\ listing'.order = listing.order
        /\ listing' \in [kind : Kinds, order : {"asc", "desc"}, limit : Asked,
                         cursor : RowIds \cup {Start}, pc : {"fetch", "done"}]
    BY <1>4, <2>1, <2>3 DEF HistInv, HistTypeOK
  <2>5. \A r, s : Precedes(r, s)' = Precedes(r, s)
    BY <2>4 DEF Precedes
  <2>6. ASSUME NEW r \in RowIds, Precedes(final, r) PROVE times'[r] = 0
    <3>1. r \notin page
      BY <2>2, <2>6
    <3>2. times[r] = 0
      <4>1. CASE listing.cursor = Start
        BY <1>4, <4>1 DEF HistInv, CursorSeparates
      <4>2. CASE listing.cursor # Start
        <5>1. listing.cursor \in RowIds /\ Precedes(listing.cursor, final)
          BY <2>3, <4>2 DEF beyond, Beyond, HistInv, HistTypeOK
        <5>2. Precedes(listing.cursor, r)
          BY <2>3, <2>6, <5>1, Order
        <5> QED  BY <1>4, <4>2, <5>2 DEF HistInv, CursorSeparates
      <4> QED  BY <4>1, <4>2
    <3> QED  BY <1>7, <3>1, <3>2
  <2>7. ASSUME NEW r \in kept, ~Precedes(final, r) PROVE times'[r] = 1
    <3>1. r \in RowIds
      BY DEF HistInv, HistTypeOK
    <3>2. CASE r \in beyond
      <4>1. r = final \/ Precedes(r, final)
        BY <2>3, <2>7, <3>1, Order
      <4>2. r \in page
        BY <1>3, <2>2, <2>3, <3>2, <4>1
      <4> QED  BY <1>5, <1>7, <3>1, <3>2, <4>2
    <3>3. CASE r \notin beyond
      BY <1>3, <1>6, <1>7, <3>1, <3>3
    <3> QED  BY <3>2, <3>3
  <2>8. CursorSeparates'
    BY <1>4, <2>3, <2>4, <2>5, <2>6, <2>7 DEF CursorSeparates
  <2> QED  BY <1>4, <1>7, <1>8, <2>4, <2>8 DEF HistInv, HistTypeOK, ListsEachOnce
<1> QED  BY <1>9, <1>10

LEMMA OthersKeep ==
    ASSUME HistInv, UNCHANGED histVars \/ \E r \in RowIds : Appear(r) \/ Disappear(r)
    PROVE  HistInv'
<1>1. UNCHANGED <<listing, times>> /\ kept' \subseteq kept
      /\ matching' \in SUBSET RowIds /\ kept' \subseteq matching'
  BY DEF Appear, Disappear, histVars, HistInv, HistTypeOK
<1> QED  BY <1>1 DEF HistInv, HistTypeOK, CursorSeparates, ListsEachOnce, Precedes

LEMMA HistStarts == HistInit => HistInv
<1> SUFFICES ASSUME HistInit PROVE HistInv
  OBVIOUS
<1>1. /\ listing \in [kind : Kinds, order : {"asc", "desc"}, limit : Asked,
                      cursor : RowIds \cup {Start}, pc : {"fetch", "done"}]
      /\ listing.cursor = Start /\ listing.pc = "fetch"
  BY DEF HistInit
<1>2. times \in [RowIds -> Nat] /\ \A r \in RowIds : times[r] = 0
  BY DEF HistInit
<1> QED  BY <1>1, <1>2 DEF HistInit, HistInv, HistTypeOK, CursorSeparates, ListsEachOnce

(* app/services/history.py, the list routes, Page.autopage: whatever is     *)
(* stored, pruned or changed between two pages, whatever limit is asked for *)
(* and in either order, no row is yielded twice and a row there throughout  *)
(* is yielded.                                                             *)
THEOREM HistoryListsEachOnce == HistSpec => []ListsEachOnce
<1>1. HistInv /\ [HistNext]_histVars => HistInv'
  BY FetchKeeps, OthersKeep DEF HistNext, QueryEvents, ListTasks, ListNotifications, AuditList
<1>2. HistInv => ListsEachOnce
  BY DEF HistInv
<1> QED  BY <1>1, <1>2, HistStarts, PTL DEF HistSpec

-----------------------------------------------------------------------------
(* A publish call.                                                         *)

PubSpec == PubInit /\ [][PubNext]_pubVars

PubPcs == {"ready", "waiting", "sleeping", "returned", "raised"}
RequestPcs == {"none", "lost", "arrived", "claim", "insert", "answered", "dead"}
Requests == [pc : RequestPcs, item : Items, status : {0, 201, 400, 429, 500}]

LEMMA CallType ==
    ASSUME PubTypeOK
    PROVE  /\ call.size \in Nat /\ call.size > 0
           /\ 1 \in Items
           /\ call.keyed \subseteq Items
           /\ requests \in [Attempts -> Requests]
  BY PyPublishAssumption DEF PubTypeOK, Items, Requests, RequestPcs

LEMMA PubTypeInit == PubInit => PubTypeOK
<1> SUFFICES ASSUME PubInit PROVE PubTypeOK
  OBVIOUS
<1>1. call \in Calls /\ 1 \in Items
  BY PyPublishAssumption DEF PubInit, Items
<1>2. pub \in [pc : {"ready", "waiting", "sleeping", "returned", "raised"},
               attempt : 0..MaxAttempts, until : Nat]
  BY PyPublishAssumption DEF PubInit
<1>3. requests \in [Attempts -> [pc : {"none", "lost", "arrived", "claim", "insert",
                                      "answered", "dead"},
                                item : Items, status : {0, 201, 400, 429, 500}]]
  BY <1>1 DEF PubInit, Pending
<1> QED  BY <1>1, <1>2, <1>3 DEF PubInit, PubTypeOK

(* What a failed attempt may lead to.                                       *)
LEMMA RetryType ==
    ASSUME PubTypeOK, NEW code \in {0, 201, 400, 429, 500}, RetryOrRaise(code)
    PROVE  /\ pub' \in [pc : PubPcs, attempt : 0..MaxAttempts, until : Nat]
           /\ pub'.attempt = pub.attempt
           /\ \/ /\ pub'.pc = "sleeping"
                 /\ Idempotent(call) /\ pub.attempt < MaxAttempts
                 /\ pub'.until <= MaxElapsed
              \/ pub'.pc = "raised"
<1>1. pub' = [pub EXCEPT !.pc = "raised"]
         => pub' \in [pc : PubPcs, attempt : 0..MaxAttempts, until : Nat]
  BY DEF PubTypeOK, PubPcs
<1>2. ASSUME ShouldRetry(code), NEW delay \in Delays(code), now + delay <= MaxElapsed,
             pub' = [pc |-> "sleeping", attempt |-> pub.attempt, until |-> now + delay]
      PROVE  /\ pub' \in [pc : PubPcs, attempt : 0..MaxAttempts, until : Nat]
             /\ pub'.attempt = pub.attempt
             /\ pub'.pc = "sleeping"
             /\ Idempotent(call) /\ pub.attempt < MaxAttempts
             /\ pub'.until <= MaxElapsed
  <2>1. delay \in Nat
    BY <1>2, PyPublishAssumption DEF Delays, Least2
  <2>2. now + delay \in Nat
    BY <2>1 DEF PubTypeOK
  <2> QED  BY <1>2, <2>2 DEF PubTypeOK, PubPcs, ShouldRetry
<1>3. CASE \E delay \in Delays(code) :
              /\ ShouldRetry(code) /\ now + delay <= MaxElapsed
              /\ pub' = [pc |-> "sleeping", attempt |-> pub.attempt,
                         until |-> now + delay]
  BY <1>2, <1>3
<1>4. CASE pub' = [pub EXCEPT !.pc = "raised"]
  <2>1. pub'.pc = "raised" /\ pub'.attempt = pub.attempt
    BY <1>4 DEF PubTypeOK
  <2> QED  BY <1>1, <1>4, <2>1
<1> QED  BY <1>3, <1>4 DEF RetryOrRaise

(* What the server does to the request it works on.                         *)
LEMMA OneRequest ==
    ASSUME NEW f \in [Attempts -> Requests], NEW a \in Attempts, NEW r \in Requests,
           NEW g, g = [f EXCEPT ![a] = r]
    PROVE  /\ g \in [Attempts -> Requests]
           /\ \A b \in Attempts \ {a} : g[b] = f[b]
           /\ g[a] = r
  OBVIOUS

LEMMA AnswerType ==
    ASSUME PubTypeOK, NEW a \in Attempts, NEW s \in {201, 400, 429, 500},
           AnswerRequest(a, s)
    PROVE  /\ requests' \in [Attempts -> Requests]
           /\ \A b \in Attempts \ {a} : requests'[b] = requests[b]
           /\ requests'[a].pc = "answered" /\ requests'[a].status = s
           /\ requests'[a].item = requests[a].item
<1>1. requests \in [Attempts -> Requests]
  BY CallType
<1> DEFINE r == [pc |-> "answered", item |-> requests[a].item, status |-> s]
<1>2. requests' = [requests EXCEPT ![a] = r]
  BY <1>1 DEF AnswerRequest
<1>3. requests[a] \in Requests
  BY <1>1
<1>4. r \in Requests /\ r.pc = "answered" /\ r.status = s /\ r.item = requests[a].item
  BY <1>3 DEF Requests, RequestPcs
<1> HIDE DEF r
<1> QED  BY <1>1, <1>2, <1>4, OneRequest

LEMMA NextItemType ==
    ASSUME PubTypeOK, NEW a \in Attempts, NextItem(a)
    PROVE  /\ requests' \in [Attempts -> Requests]
           /\ \A b \in Attempts \ {a} : requests'[b] = requests[b]
           /\ \/ /\ requests[a].item = call.size
                 /\ requests'[a].pc = "answered" /\ requests'[a].status = 201
                 /\ requests'[a].item = requests[a].item
              \/ /\ requests[a].item # call.size
                 /\ requests'[a].pc = "claim" /\ requests'[a].item = requests[a].item + 1
                 /\ requests'[a].status = requests[a].status
<1>1. requests \in [Attempts -> Requests] /\ call.size \in Nat
  BY CallType
<1>2. CASE requests[a].item = call.size
  BY <1>2, AnswerType DEF NextItem
<1>3. CASE requests[a].item # call.size
  <2> DEFINE r == [pc |-> "claim", item |-> requests[a].item + 1,
                   status |-> requests[a].status]
  <2>1. requests' = [requests EXCEPT ![a] = r]
    BY <1>1, <1>3 DEF NextItem
  <2>2. requests[a] \in Requests
    BY <1>1
  <2>3. requests[a].item + 1 \in Items
    BY <1>1, <1>3, <2>2 DEF Requests, Items
  <2>4. r \in Requests /\ r.pc = "claim" /\ r.item = requests[a].item + 1
        /\ r.status = requests[a].status
    BY <2>2, <2>3 DEF Requests, RequestPcs
  <2> HIDE DEF r
  <2> QED  BY <1>1, <1>3, <2>1, <2>4, OneRequest
<1> QED  BY <1>2, <1>3

LEMMA SetPcType ==
    ASSUME PubTypeOK, NEW a \in Attempts, NEW p \in RequestPcs,
           requests' = [requests EXCEPT ![a].pc = p]
    PROVE  /\ requests' \in [Attempts -> Requests]
           /\ \A b \in Attempts \ {a} : requests'[b] = requests[b]
           /\ requests'[a].pc = p /\ requests'[a].item = requests[a].item
           /\ requests'[a].status = requests[a].status
<1>1. requests \in [Attempts -> Requests]
  BY CallType
<1> DEFINE r == [requests[a] EXCEPT !.pc = p]
<1>2. requests' = [requests EXCEPT ![a] = r]
  BY <1>1
<1>3. requests[a] \in Requests
  BY <1>1
<1>4. r \in Requests /\ r.pc = p /\ r.item = requests[a].item /\ r.status = requests[a].status
  BY <1>3 DEF Requests
<1> HIDE DEF r
<1> QED  BY <1>1, <1>2, <1>4, OneRequest

-----------------------------------------------------------------------------
(* The loop of _request.  Only a call that may be repeated comes to a       *)
(* second attempt.                                                          *)
LoopInv ==
    /\ \A a \in Attempts : a > pub.attempt => requests[a] = Pending
    /\ pub.pc \in {"ready", "sleeping"} =>
          pub.attempt < MaxAttempts /\ (pub.attempt = 0 \/ Idempotent(call))
    /\ pub.attempt > 1 => Idempotent(call)
    /\ pub.pc \in {"waiting", "sleeping"} => pub.attempt \in Attempts

TimeInv ==
    /\ pub.pc = "waiting" => now <= pub.until /\ pub.until <= MaxElapsed + AttemptTime
    /\ pub.pc = "sleeping" => pub.until <= MaxElapsed
    /\ pub.pc = "ready" => now <= MaxElapsed
    /\ InTime

ClientInv == PubTypeOK /\ LoopInv /\ TimeInv

LEMMA ClientInit == PubInit => ClientInv
<1> SUFFICES ASSUME PubInit PROVE ClientInv
  OBVIOUS
<1>1. PubTypeOK
  BY PubTypeInit
<1>2. LoopInv
  BY PyPublishAssumption DEF PubInit, LoopInv, Attempts
<1>3. TimeInv
  BY PyPublishAssumption DEF PubInit, TimeInv, InTime
<1> QED  BY <1>1, <1>2, <1>3 DEF ClientInv

(* A request that was sent: only those are worked on.                       *)
LEMMA SentOnly ==
    ASSUME LoopInv, NEW a \in Attempts, PubTypeOK, requests[a].pc # "none"
    PROVE  a <= pub.attempt
  BY PyPublishAssumption DEF LoopInv, Pending, PubTypeOK, Attempts

LEMMA SendKeeps ==
    ASSUME ClientInv, Send
    PROVE  ClientInv' /\ pub.attempt + 1 \in Attempts
<1> USE PyPublishAssumption
<1> DEFINE n == pub.attempt + 1
<1>1. PubTypeOK /\ LoopInv /\ TimeInv /\ pub.pc = "ready"
  BY DEF ClientInv, Send
<1>2. pub.attempt \in 0..MaxAttempts /\ pub.attempt < MaxAttempts /\ now \in Nat
  BY <1>1 DEF PubTypeOK, LoopInv
<1>3. n \in Attempts /\ n \in 0..MaxAttempts /\ n > pub.attempt /\ n - 1 = pub.attempt
  BY <1>2 DEF Attempts
<1>4. PICK p \in {"arrived", "lost"} : requests' = [requests EXCEPT ![n].pc = p]
  BY DEF Send
<1>5. /\ pub' = [pc |-> "waiting", attempt |-> n, until |-> now + AttemptTime]
      /\ UNCHANGED <<call, markers, copies, now>>
  BY DEF Send
<1>6. /\ requests' \in [Attempts -> Requests]
      /\ \A b \in Attempts \ {n} : requests'[b] = requests[b]
  BY <1>1, <1>3, <1>4, SetPcType DEF RequestPcs
<1>7. PubTypeOK'
  <2>1. pub' \in [pc : PubPcs, attempt : 0..MaxAttempts, until : Nat]
    BY <1>2, <1>3, <1>5 DEF PubPcs
  <2> QED  BY <1>1, <1>5, <1>6, <2>1 DEF PubTypeOK, PubPcs, Requests, RequestPcs, Items
<1>8. LoopInv'
  <2>1. \A a \in Attempts : a > n => requests'[a] = Pending
    BY <1>1, <1>2, <1>3, <1>6 DEF LoopInv, Attempts
  <2>2. n > 1 => Idempotent(call)
    BY <1>1, <1>2, <1>3 DEF LoopInv
  <2> QED  BY <1>3, <1>5, <2>1, <2>2 DEF LoopInv, Idempotent
<1>9. TimeInv'
  BY <1>1, <1>2, <1>5 DEF TimeInv, InTime
<1> QED  BY <1>3, <1>7, <1>8, <1>9 DEF ClientInv

LEMMA RetryKeeps ==
    ASSUME ClientInv, NEW code \in {0, 201, 400, 429, 500}, RetryOrRaise(code),
           pub.pc = "waiting", UNCHANGED <<call, requests, markers, copies, now>>
    PROVE  ClientInv'
<1>1. PubTypeOK /\ LoopInv /\ TimeInv
  BY DEF ClientInv
<1>2. /\ pub' \in [pc : PubPcs, attempt : 0..MaxAttempts, until : Nat]
      /\ pub'.attempt = pub.attempt
      /\ \/ /\ pub'.pc = "sleeping"
            /\ Idempotent(call) /\ pub.attempt < MaxAttempts
            /\ pub'.until <= MaxElapsed
         \/ pub'.pc = "raised"
  BY <1>1, RetryType
<1>3. PubTypeOK'
  BY <1>1, <1>2 DEF PubTypeOK, PubPcs, Items
<1>4. LoopInv'
  BY <1>1, <1>2 DEF LoopInv, Idempotent
<1>5. TimeInv'
  BY <1>1, <1>2 DEF TimeInv, InTime
<1> QED  BY <1>3, <1>4, <1>5 DEF ClientInv

LEMMA StopKeeps ==
    ASSUME ClientInv, NEW p \in {"returned", "raised"},
           pub' = [pub EXCEPT !.pc = p], UNCHANGED <<call, requests, markers, copies, now>>
    PROVE  ClientInv'
<1>1. /\ pub' \in [pc : PubPcs, attempt : 0..MaxAttempts, until : Nat]
      /\ pub'.attempt = pub.attempt /\ pub'.pc = p
  BY DEF ClientInv, PubTypeOK, PubPcs
<1>2. PubTypeOK'
  BY <1>1 DEF ClientInv, PubTypeOK, PubPcs, Items
<1>3. LoopInv' /\ TimeInv'
  BY <1>1 DEF ClientInv, LoopInv, TimeInv, InTime, Idempotent
<1> QED  BY <1>2, <1>3 DEF ClientInv

LEMMA WakeKeeps ==
    ASSUME ClientInv, Wake
    PROVE  ClientInv'
<1>1. /\ pub' \in [pc : PubPcs, attempt : 0..MaxAttempts, until : Nat]
      /\ pub'.attempt = pub.attempt /\ pub'.pc = "ready"
  BY DEF ClientInv, PubTypeOK, PubPcs, Wake
<1>2. pub.pc = "sleeping" /\ now = pub.until /\ UNCHANGED <<call, requests, markers, copies, now>>
  BY DEF Wake
<1>3. PubTypeOK'
  BY <1>1, <1>2 DEF ClientInv, PubTypeOK, PubPcs, Items
<1>4. LoopInv' /\ TimeInv'
  BY <1>1, <1>2 DEF ClientInv, LoopInv, TimeInv, InTime, Idempotent
<1> QED  BY <1>3, <1>4 DEF ClientInv

LEMMA ElapseKeeps ==
    ASSUME ClientInv, Elapse
    PROVE  ClientInv'
<1> USE PyPublishAssumption
<1>1. /\ now \in Nat /\ pub.until \in Nat /\ now < pub.until /\ now' = now + 1
      /\ pub.pc \in {"waiting", "sleeping"}
      /\ UNCHANGED <<call, pub, requests, markers, copies>>
  BY DEF ClientInv, PubTypeOK, Elapse
<1>2. PubTypeOK'
  BY <1>1 DEF ClientInv, PubTypeOK, Items
<1>3. LoopInv'
  BY <1>1 DEF ClientInv, LoopInv, Idempotent
<1>4. TimeInv'
  BY <1>1 DEF ClientInv, TimeInv, InTime
<1> QED  BY <1>2, <1>3, <1>4 DEF ClientInv

(* The server leaves the client's loop alone.                               *)
LEMMA ServerKeeps ==
    ASSUME ClientInv, NEW a \in Attempts, requests[a].pc # "none",
           requests' \in [Attempts -> Requests],
           \A b \in Attempts \ {a} : requests'[b] = requests[b],
           markers' \subseteq call.keyed, copies' \in [Items -> Nat],
           UNCHANGED <<call, pub, now>>
    PROVE  ClientInv'
<1>1. PubTypeOK'
  BY DEF ClientInv, PubTypeOK, Requests, RequestPcs, Items
<1>2. a <= pub.attempt
  BY SentOnly DEF ClientInv
<1>3. \A b \in Attempts : b > pub.attempt => requests'[b] = Pending
  BY <1>2, PyPublishAssumption DEF ClientInv, LoopInv, PubTypeOK, Attempts
<1>4. LoopInv' /\ TimeInv'
  BY <1>3 DEF ClientInv, LoopInv, TimeInv, InTime, Idempotent
<1> QED  BY <1>1, <1>4 DEF ClientInv

-----------------------------------------------------------------------------
(* What is stored.  Two attempts can work on one event only if the call may *)
(* be repeated, when every event has a key; a key's marker keeps all but    *)
(* one from inserting.  An event behind a request's position is settled:    *)
(* stored, about to be stored, or given up by an attempt that broke there.  *)
Working(a) == requests[a].pc \in {"arrived", "claim", "insert"}
Inserts(a, i) == requests[a].pc = "insert" /\ requests[a].item = i
Excuses(a, i) == /\ requests[a].item = i
                 /\ requests[a].pc \in {"insert", "dead"} \/ requests[a].status = 500
Accounted(i) == copies[i] = 1 \/ \E a \in Attempts : Excuses(a, i)

ItemInv(i) ==
    /\ copies[i] <= 1
    /\ (i \in call.keyed /\ i \notin markers) =>
          copies[i] = 0 /\ \A a \in Attempts : ~Inserts(a, i)
    /\ \A a \in Attempts : Inserts(a, i) => copies[i] = 0
    /\ \A a, b \in Attempts : Inserts(a, i) /\ Inserts(b, i) => a = b
    /\ i \in markers => Accounted(i)

RequestInv(a) ==
    /\ Working(a) =>
          /\ requests[a].status = 0
          /\ \A i \in Items : i < requests[a].item => Accounted(i)
          /\ ~Idempotent(call) =>
                \A i \in Items : i >= requests[a].item => copies[i] = 0
    /\ requests[a].pc = "answered" =>
          /\ requests[a].status # 0
          /\ requests[a].status = 201 => \A i \in Items : Accounted(i)

StoreInv ==
    /\ \A i \in Items : ItemInv(i)
    /\ \A a \in Attempts : RequestInv(a)
    /\ pub.pc = "returned" => \A i \in Items : Accounted(i)
    /\ pub.attempt = 0 => \A i \in Items : copies[i] = 0

LEMMA StoreInit == PubInit => StoreInv
<1> SUFFICES ASSUME PubInit PROVE StoreInv
  OBVIOUS
<1>1. \A a \in Attempts : requests[a] = Pending
  BY DEF PubInit
<1>2. \A i \in Items : copies[i] = 0 /\ i \notin markers
  BY DEF PubInit
<1>3. \A i \in Items : ItemInv(i)
  BY <1>1, <1>2 DEF ItemInv, Inserts, Pending
<1>4. \A a \in Attempts : RequestInv(a)
  BY <1>1 DEF RequestInv, Working, Pending
<1>5. pub.pc # "returned"
  BY DEF PubInit
<1> QED  BY <1>2, <1>3, <1>4, <1>5 DEF StoreInv

(* A step of one request keeps settled what it does not itself unsettle.    *)
LEMMA AccountedKept ==
    ASSUME NEW i, Accounted(i), NEW a \in Attempts,
           \A b \in Attempts \ {a} : requests'[b] = requests[b],
           copies[i] = 1 => copies'[i] = 1,
           Excuses(a, i) => Excuses(a, i)' \/ copies'[i] = 1
    PROVE  Accounted(i)'
  BY DEF Accounted, Excuses

(* The requests that are not worked on, while more becomes settled.         *)
LEMMA RequestsKept ==
    ASSUME NEW b \in Attempts, RequestInv(b), requests'[b] = requests[b],
           \A i \in Items : Accounted(i) => Accounted(i)',
           Working(b) /\ ~Idempotent(call) => copies' = copies,
           UNCHANGED call
    PROVE  RequestInv(b)'
  BY DEF RequestInv, Working, Items, Idempotent

(* Only one request is ever sent for a call that may not be repeated.       *)
LEMMA OneAttempt ==
    ASSUME ClientInv, ~Idempotent(call), NEW a \in Attempts, NEW b \in Attempts,
           requests[a].pc # "none", requests[b].pc # "none"
    PROVE  a = b
<1>1. a <= pub.attempt /\ b <= pub.attempt
  BY SentOnly DEF ClientInv
<1>2. pub.attempt \in Nat /\ ~(pub.attempt > 1)
  BY PyPublishAssumption DEF ClientInv, PubTypeOK, LoopInv
<1> QED  BY <1>1, <1>2, PyPublishAssumption DEF Attempts

LEMMA KeyedOrSingle ==
    ASSUME PubTypeOK, NEW i \in Items, i \notin call.keyed
    PROVE  ~Idempotent(call)
  BY DEF Idempotent, Items

(* A request is refused, admitted or broken off: nothing is stored.         *)
LEMMA NothingStored ==
    ASSUME ClientInv, StoreInv, NEW a \in Attempts, Working(a),
           \A b \in Attempts \ {a} : requests'[b] = requests[b],
           requests'[a].item = requests[a].item,
           \/ requests[a].pc = "arrived" /\ requests'[a].pc = "claim"
                /\ requests'[a].status = requests[a].status
           \/ requests[a].pc = "arrived" /\ requests'[a].pc = "answered"
                /\ requests'[a].status \in {400, 429}
           \/ requests'[a].pc = "answered" /\ requests'[a].status = 500
           \/ requests'[a].pc = "dead",
           UNCHANGED <<call, pub, markers, copies, now>>
    PROVE  StoreInv'
<1>1. requests[a].status = 0
  BY DEF StoreInv, RequestInv
<1>2. \A i \in Items : Accounted(i) => Accounted(i)'
  <2>1. \A i \in Items : Excuses(a, i) => Excuses(a, i)'
    BY <1>1 DEF Excuses
  <2> QED  BY <2>1, AccountedKept
<1>3. \A b \in Attempts, i \in Items : Inserts(b, i)' => Inserts(b, i)
  BY DEF Inserts
<1>4. \A i \in Items : ItemInv(i)'
  BY <1>2, <1>3 DEF StoreInv, ItemInv, Items
<1>5. \A b \in Attempts \ {a} : RequestInv(b)'
  BY <1>2, RequestsKept DEF StoreInv
<1>6. RequestInv(a)'
  BY <1>1, <1>2 DEF StoreInv, RequestInv, Working, Items, Idempotent
<1> QED  BY <1>2, <1>4, <1>5, <1>6 DEF StoreInv, Items

(* A request goes on to the next item, or ends, when its item is settled.   *)
LEMMA GoesOn ==
    ASSUME ClientInv, StoreInv, NEW a \in Attempts, Working(a), NextItem(a),
           \A i \in Items : Accounted(i) => Accounted(i)',
           NEW k \in Items, k = requests[a].item, Accounted(k)',
           \A i \in Items : i # requests[a].item => copies'[i] = copies[i],
           UNCHANGED call
    PROVE  RequestInv(a)'
<1>1. /\ PubTypeOK /\ requests \in [Attempts -> Requests]
      /\ call.size \in Nat /\ requests[a].item \in 1..call.size
  BY CallType DEF ClientInv, Requests, Items
<1>2. \/ /\ requests[a].item = call.size
         /\ requests'[a].pc = "answered" /\ requests'[a].status = 201
         /\ requests'[a].item = requests[a].item
      \/ /\ requests[a].item # call.size
         /\ requests'[a].pc = "claim" /\ requests'[a].item = requests[a].item + 1
         /\ requests'[a].status = requests[a].status
  BY <1>1, NextItemType
<1>3. requests[a].status = 0 /\ \A i \in Items : i < requests[a].item => Accounted(i)
  BY DEF StoreInv, RequestInv
<1>4. ASSUME NEW i \in Items, i <= requests[a].item PROVE Accounted(i)'
  <2>1. i = k \/ i < requests[a].item
    BY <1>1, <1>4 DEF Items
  <2> QED  BY <1>3, <2>1
<1>5. CASE requests'[a].pc = "answered"
  <2>1. requests[a].item = call.size /\ requests'[a].status = 201
    BY <1>2, <1>5
  <2>2. \A i \in Items : Accounted(i)'
    BY <1>1, <1>4, <2>1 DEF Items
  <2> QED  BY <1>5, <2>1, <2>2 DEF RequestInv, Working, Items
<1>6. CASE requests'[a].pc = "claim"
  <2>1. requests'[a].item = requests[a].item + 1 /\ requests'[a].status = 0
    BY <1>2, <1>3, <1>6
  <2>2. \A i \in Items : i < requests'[a].item => Accounted(i)'
    BY <1>1, <1>4, <2>1 DEF Items
  <2>3. ~Idempotent(call) => \A i \in Items : i >= requests'[a].item => copies'[i] = 0
    BY <1>1, <2>1 DEF Items, StoreInv, RequestInv
  <2> QED  BY <1>6, <2>1, <2>2, <2>3 DEF RequestInv, Working, Items, Idempotent
<1> QED  BY <1>2, <1>5, <1>6

LEMMA ClaimStores ==
    ASSUME ClientInv, StoreInv, NEW a \in Attempts, Claim(a)
    PROVE  StoreInv' /\ ClientInv'
<1>0. requests[a] \in Requests
  BY CallType DEF ClientInv
<1> PICK i0 \in Items : i0 = requests[a].item
  BY <1>0 DEF Requests
<1>1. /\ PubTypeOK /\ requests \in [Attempts -> Requests]
      /\ i0 \in Items /\ requests[a].pc = "claim" /\ requests[a].status = 0
  BY CallType DEF ClientInv, Claim, Requests, StoreInv, RequestInv, Working
<1>2. UNCHANGED <<call, pub, copies, now>>
  BY DEF Claim
<1>3. CASE i0 \in markers
  <2>1. NextItem(a) /\ markers' = markers
    BY <1>3 DEF Claim
  <2>2. /\ requests' \in [Attempts -> Requests]
        /\ \A b \in Attempts \ {a} : requests'[b] = requests[b]
        /\ requests'[a].pc # "insert"
    BY <1>1, <2>1, NextItemType
  <2>3. \A i \in Items : Accounted(i) => Accounted(i)'
    <3>1. \A i \in Items : ~Excuses(a, i)
      BY <1>1 DEF Excuses
    <3> QED  BY <1>2, <2>2, <3>1, AccountedKept
  <2>4. Accounted(i0)'
    BY <1>1, <1>3, <2>3 DEF StoreInv, ItemInv
  <2>5. RequestInv(a)'
    BY <1>1, <1>2, <2>1, <2>3, <2>4, GoesOn DEF Working
  <2>6. \A b \in Attempts \ {a} : RequestInv(b)'
    BY <1>2, <2>2, <2>3, RequestsKept DEF StoreInv
  <2>7. \A b \in Attempts, i \in Items : Inserts(b, i)' => Inserts(b, i)
    BY <2>2 DEF Inserts
  <2>8. \A i \in Items : ItemInv(i)'
    BY <1>2, <2>1, <2>3, <2>7 DEF StoreInv, ItemInv, Items
  <2>9. StoreInv'
    BY <1>2, <2>3, <2>5, <2>6, <2>8 DEF StoreInv, Items
  <2>10. ClientInv'
    BY <1>1, <1>2, <2>1, <2>2, ServerKeeps DEF PubTypeOK, Items
  <2> QED  BY <2>9, <2>10
<1>4. CASE i0 \notin markers
  <2>1. /\ requests' = [requests EXCEPT ![a].pc = "insert"]
        /\ markers' = IF i0 \in call.keyed THEN markers \cup {i0} ELSE markers
    BY <1>4 DEF Claim
  <2>2. /\ requests' \in [Attempts -> Requests]
        /\ \A b \in Attempts \ {a} : requests'[b] = requests[b]
        /\ requests'[a].pc = "insert" /\ requests'[a].item = i0
        /\ requests'[a].status = 0
    BY <1>1, <2>1, SetPcType DEF RequestPcs
  <2>3. copies[i0] = 0 /\ \A b \in Attempts : ~Inserts(b, i0)
    <3>1. CASE i0 \in call.keyed
      BY <1>1, <1>4, <3>1 DEF StoreInv, ItemInv
    <3>2. CASE i0 \notin call.keyed
      <4>1. ~Idempotent(call)
        BY <1>1, <3>2, KeyedOrSingle
      <4>2. copies[i0] = 0
        BY <1>1, <4>1 DEF StoreInv, RequestInv, Working, Items
      <4>3. ASSUME NEW b \in Attempts, Inserts(b, i0) PROVE FALSE
        <5>1. b = a
          BY <1>1, <4>1, <4>3, OneAttempt DEF Inserts
        <5> QED  BY <1>1, <4>3, <5>1 DEF Inserts
      <4> QED  BY <4>2, <4>3
    <3> QED  BY <3>1, <3>2
  <2>4. \A i \in Items : Accounted(i) => Accounted(i)'
    <3>1. \A i \in Items : ~Excuses(a, i)
      BY <1>1 DEF Excuses
    <3> QED  BY <1>2, <2>2, <3>1, AccountedKept
  <2>5. Accounted(i0)'
    BY <2>2 DEF Accounted, Excuses
  <2>6. ItemInv(i0)'
    <3>1. \A b \in Attempts : Inserts(b, i0)' => b = a
      BY <2>2, <2>3 DEF Inserts
    <3>2. i0 \in call.keyed => i0 \in markers'
      BY <2>1
    <3> QED  BY <1>2, <2>3, <2>5, <3>1, <3>2 DEF ItemInv
  <2>7. ASSUME NEW i \in Items, i # i0 PROVE ItemInv(i)'
    <3>1. \A b \in Attempts : Inserts(b, i)' => Inserts(b, i)
      BY <2>2, <2>7 DEF Inserts
    <3>2. i \in markers' <=> i \in markers
      BY <2>1, <2>7
    <3> QED  BY <1>2, <2>4, <3>1, <3>2 DEF StoreInv, ItemInv
  <2>8. RequestInv(a)'
    BY <1>1, <1>2, <2>2, <2>4 DEF StoreInv, RequestInv, Working, Items, Idempotent
  <2>9. \A b \in Attempts \ {a} : RequestInv(b)'
    BY <1>2, <2>2, <2>4, RequestsKept DEF StoreInv
  <2>10. StoreInv'
    BY <1>2, <2>4, <2>6, <2>7, <2>8, <2>9 DEF StoreInv, Items
  <2>11. markers' \subseteq call.keyed
    BY <1>1, <2>1 DEF PubTypeOK
  <2>12. ClientInv'
    BY <1>1, <1>2, <2>2, <2>11, ServerKeeps DEF PubTypeOK, Items
  <2> QED  BY <2>10, <2>12
<1> QED  BY <1>3, <1>4

LEMMA InsertStores ==
    ASSUME ClientInv, StoreInv, NEW a \in Attempts, Insert(a)
    PROVE  StoreInv' /\ ClientInv'
<1>0. requests[a] \in Requests
  BY CallType DEF ClientInv
<1> PICK i0 \in Items : i0 = requests[a].item
  BY <1>0 DEF Requests
<1>1. /\ PubTypeOK /\ requests \in [Attempts -> Requests]
      /\ i0 \in Items /\ Inserts(a, i0) /\ requests[a].status = 0
  BY CallType DEF ClientInv, Insert, Requests, StoreInv, RequestInv, Working, Inserts
<1>2. /\ UNCHANGED <<call, pub, markers, now>> /\ NextItem(a)
      /\ copies' = [copies EXCEPT ![i0] = @ + 1]
  BY DEF Insert
<1>3. /\ requests' \in [Attempts -> Requests]
      /\ \A b \in Attempts \ {a} : requests'[b] = requests[b]
      /\ requests'[a].pc # "insert"
  BY <1>1, <1>2, NextItemType
<1>4. /\ copies' \in [Items -> Nat] /\ copies'[i0] = 1
      /\ \A i \in Items : i # i0 => copies'[i] = copies[i]
  <2>1. copies[i0] = 0
    BY <1>1 DEF StoreInv, ItemInv
  <2> QED  BY <1>1, <1>2, <2>1 DEF PubTypeOK
<1>5. \A i \in Items : Accounted(i) => Accounted(i)'
  <2>1. \A i \in Items : Excuses(a, i) => copies'[i] = 1
    BY <1>4 DEF Excuses
  <2>2. \A i \in Items : copies[i] = 1 => copies'[i] = 1
    BY <1>4
  <2> QED  BY <1>3, <2>1, <2>2, AccountedKept
<1>6. Accounted(i0)'
  BY <1>4 DEF Accounted
<1>7. RequestInv(a)'
  BY <1>1, <1>2, <1>4, <1>5, <1>6, GoesOn DEF Working, Inserts
<1>8. \A b \in Attempts \ {a} : RequestInv(b)'
  <2>1. ASSUME NEW b \in Attempts \ {a}, Working(b) PROVE Idempotent(call)
    BY <1>1, <2>1, OneAttempt DEF Working, Inserts
  <2> QED  BY <1>2, <1>3, <1>5, <2>1, RequestsKept DEF StoreInv
<1>9. ItemInv(i0)'
  <2>1. \A b \in Attempts : ~Inserts(b, i0)'
    BY <1>1, <1>3 DEF StoreInv, ItemInv, Inserts
  <2>2. i0 \in call.keyed => i0 \in markers
    BY <1>1 DEF StoreInv, ItemInv
  <2> QED  BY <1>2, <1>4, <1>6, <2>1, <2>2 DEF ItemInv
<1>10. ASSUME NEW i \in Items, i # i0 PROVE ItemInv(i)'
  <2>1. \A b \in Attempts : Inserts(b, i)' => Inserts(b, i)
    BY <1>3 DEF Inserts
  <2>2. copies'[i] = copies[i]
    BY <1>4, <1>10
  <2> QED  BY <1>2, <1>5, <2>1, <2>2 DEF StoreInv, ItemInv
<1>11. pub.attempt # 0
  <2>1. a <= pub.attempt
    BY <1>1, SentOnly DEF ClientInv, Inserts
  <2> QED  BY <2>1, PyPublishAssumption DEF Attempts
<1>12. StoreInv'
  BY <1>2, <1>5, <1>7, <1>8, <1>9, <1>10, <1>11 DEF StoreInv, Items
<1>13. ClientInv'
  BY <1>1, <1>2, <1>3, <1>4, ServerKeeps DEF PubTypeOK, Inserts
<1> QED  BY <1>12, <1>13

LEMMA ServerStores ==
    ASSUME ClientInv, StoreInv, NEW a \in Attempts, Server(a)
    PROVE  StoreInv' /\ ClientInv'
<1> DEFINE NothingElse == /\ Working(a)
                          /\ requests' \in [Attempts -> Requests]
                          /\ \A b \in Attempts \ {a} : requests'[b] = requests[b]
                          /\ requests'[a].item = requests[a].item
                          /\ UNCHANGED <<call, pub, markers, copies, now>>
<1>1. PubTypeOK
  BY DEF ClientInv
<1>2. ASSUME NothingElse PROVE ClientInv'
  BY <1>1, <1>2, ServerKeeps DEF Working, PubTypeOK
<1>3. CASE Throttle(a) \/ RefuseRequest(a)
  <2>1. PICK s \in {400, 429} : AnswerRequest(a, s)
    BY <1>3 DEF Throttle, RefuseRequest
  <2>2. NothingElse /\ requests[a].pc = "arrived" /\ requests'[a].pc = "answered"
        /\ requests'[a].status \in {400, 429}
    BY <1>1, <1>3, <2>1, AnswerType DEF Throttle, RefuseRequest, Working
  <2> HIDE DEF NothingElse
  <2>3. StoreInv'
    BY <2>2, NothingStored DEF NothingElse
  <2> QED  BY <1>2, <2>2, <2>3
<1>4. CASE AdmitRequest(a)
  <2>1. NothingElse /\ requests[a].pc = "arrived" /\ requests'[a].pc = "claim"
        /\ requests'[a].status = requests[a].status
    BY <1>1, <1>4, SetPcType DEF AdmitRequest, Working, RequestPcs
  <2>2. StoreInv'
    BY <2>1, NothingStored
  <2> QED  BY <1>2, <2>1, <2>2
<1>5. CASE Break(a)
  <2>1. CASE AnswerRequest(a, 500)
    <3>1. NothingElse /\ requests'[a].pc = "answered" /\ requests'[a].status = 500
      BY <1>1, <1>5, <2>1, AnswerType DEF Break, Working
    <3>2. StoreInv'
      BY <3>1, NothingStored
    <3> QED  BY <1>2, <3>1, <3>2
  <2>2. CASE requests' = [requests EXCEPT ![a].pc = "dead"]
    <3>1. NothingElse /\ requests'[a].pc = "dead"
      BY <1>1, <1>5, <2>2, SetPcType DEF Break, Working, RequestPcs
    <3>2. StoreInv'
      BY <3>1, NothingStored
    <3> QED  BY <1>2, <3>1, <3>2
  <2> QED  BY <1>5, <2>1, <2>2 DEF Break
<1> QED  BY <1>3, <1>4, <1>5, ClaimStores, InsertStores DEF Server

(* The client stores nothing itself: it sends, and reads answers.           *)
LEMMA ClientStores ==
    ASSUME ClientInv, StoreInv, Client \/ Elapse \/ UNCHANGED pubVars
    PROVE  StoreInv' /\ ClientInv'
<1> USE PyPublishAssumption
<1>0. /\ PubTypeOK /\ pub.attempt \in 0..MaxAttempts
      /\ requests \in [Attempts -> Requests]
  BY CallType DEF ClientInv, PubTypeOK
<1>1. ASSUME UNCHANGED <<call, requests, markers, copies>>,
             pub'.attempt = pub.attempt,
             pub'.pc = "returned" => \A i \in Items : Accounted(i)
      PROVE  StoreInv'
  BY <1>1 DEF StoreInv, ItemInv, RequestInv, Accounted, Excuses, Inserts, Working,
              Items, Idempotent
<1>2. CASE Send
  <2>1. ClientInv' /\ pub.attempt + 1 \in Attempts
    BY <1>2, SendKeeps
  <2> PICK n \in Attempts : n = pub.attempt + 1
    BY <2>1
  <2>2. PICK p \in {"arrived", "lost"} : requests' = [requests EXCEPT ![n].pc = p]
    BY <1>2 DEF Send
  <2>3. /\ UNCHANGED <<call, markers, copies>>
        /\ pub' = [pc |-> "waiting", attempt |-> n, until |-> now + AttemptTime]
        /\ pub.pc = "ready"
    BY <1>2 DEF Send
  <2>4. requests[n] = Pending
    BY <1>0, <2>1 DEF ClientInv, LoopInv
  <2>5. /\ \A b \in Attempts \ {n} : requests'[b] = requests[b]
        /\ requests'[n].pc = p /\ requests'[n].item = 1 /\ requests'[n].status = 0
    BY <1>0, <2>1, <2>2, <2>4, SetPcType DEF RequestPcs, Pending
  <2>6. \A i \in Items : Accounted(i) => Accounted(i)'
    <3>1. \A i \in Items : ~Excuses(n, i)
      BY <2>4 DEF Excuses, Pending
    <3> QED  BY <2>1, <2>3, <2>5, <3>1, AccountedKept
  <2>7. \A b \in Attempts, i \in Items : Inserts(b, i)' => Inserts(b, i)
    BY <2>5 DEF Inserts
  <2>8. \A i \in Items : ItemInv(i)'
    BY <2>3, <2>6, <2>7 DEF StoreInv, ItemInv, Items
  <2>9. \A b \in Attempts \ {n} : RequestInv(b)'
    BY <2>3, <2>5, <2>6, RequestsKept DEF StoreInv
  <2>10. RequestInv(n)'
    <3>1. ~Idempotent(call) => \A i \in Items : copies[i] = 0
      BY <2>3 DEF ClientInv, LoopInv, StoreInv
    <3>2. \A i \in Items : ~(i < 1)
      BY DEF Items
    <3> QED  BY <2>3, <2>5, <3>1, <3>2 DEF RequestInv, Working, Items, Idempotent
  <2>11. n # 0
    BY <1>0
  <2>12. \A b \in Attempts : RequestInv(b)'
    BY <2>9, <2>10
  <2>13. StoreInv'
    BY <2>3, <2>8, <2>11, <2>12 DEF StoreInv, Items
  <2> QED  BY <2>1, <2>13
<1>3. ASSUME NEW code \in {0, 201, 400, 429, 500}, RetryOrRaise(code),
             pub.pc = "waiting", UNCHANGED <<call, requests, markers, copies, now>>
      PROVE  StoreInv' /\ ClientInv'
  <2>1. pub'.attempt = pub.attempt /\ pub'.pc # "returned"
    BY <1>0, <1>3, RetryType
  <2> QED  BY <1>1, <1>3, <2>1, RetryKeeps
<1>4. CASE Answered
  <2> DEFINE r == requests[pub.attempt]
  <2>1. pub.attempt \in Attempts /\ r \in Requests
    BY <1>0, <1>4 DEF Answered, ClientInv, LoopInv
  <2>2. CASE r.status < 400
    <3>1. r.status = 201
      BY <1>4, <2>1, <2>2 DEF Answered, StoreInv, RequestInv, Requests
    <3>2. \A i \in Items : Accounted(i)
      BY <1>4, <2>1, <3>1 DEF Answered, StoreInv, RequestInv
    <3>3. /\ pub' = [pub EXCEPT !.pc = "returned"]
          /\ UNCHANGED <<call, requests, markers, copies, now>>
      BY <1>4, <2>2 DEF Answered
    <3>4. pub'.attempt = pub.attempt
      BY <1>0, <3>3 DEF PubTypeOK
    <3> QED  BY <1>1, <3>2, <3>3, <3>4, StopKeeps
  <2>3. CASE ~(r.status < 400)
    <3>1. r.status \in {0, 201, 400, 429, 500}
      BY <2>1 DEF Requests
    <3> QED  BY <1>3, <1>4, <2>3, <3>1 DEF Answered
  <2> QED  BY <2>2, <2>3
<1>5. CASE Interrupted \/ TimedOut
  BY <1>3, <1>5 DEF Interrupted, TimedOut
<1>6. CASE CutShort
  <2>1. /\ pub' = [pub EXCEPT !.pc = "raised"]
        /\ UNCHANGED <<call, requests, markers, copies, now>>
    BY <1>6 DEF CutShort
  <2>2. pub'.attempt = pub.attempt /\ pub'.pc = "raised"
    BY <1>0, <2>1 DEF PubTypeOK
  <2> QED  BY <1>1, <2>1, <2>2, StopKeeps
<1>7. CASE Wake
  <2>1. pub'.attempt = pub.attempt /\ pub'.pc = "ready"
        /\ UNCHANGED <<call, requests, markers, copies, now>>
    BY <1>0, <1>7 DEF Wake, PubTypeOK
  <2> QED  BY <1>1, <1>7, <2>1, WakeKeeps
<1>8. CASE Elapse
  BY <1>1, <1>8, ElapseKeeps DEF Elapse, StoreInv
<1>9. CASE UNCHANGED pubVars
  <2>1. ClientInv'
    BY <1>9 DEF pubVars, ClientInv, PubTypeOK, LoopInv, TimeInv, InTime, Items, Idempotent
  <2> QED  BY <1>1, <1>9, <2>1 DEF pubVars, StoreInv
<1> QED  BY <1>2, <1>4, <1>5, <1>6, <1>7, <1>8, <1>9 DEF Client

LEMMA PubStep == ClientInv /\ StoreInv /\ [PubNext]_pubVars => (ClientInv /\ StoreInv)'
  BY ServerStores, ClientStores DEF PubNext

(* One call stores an event at most once, whatever is lost, late or half    *)
(* done; a call that returns has its events stored but for those an attempt *)
(* broke at (beacn.py _request, RetryPolicy; ingest.py _dedupe).            *)
THEOREM CallStoresOnce == PubSpec => []PublishedOnce
<1>1. ClientInv /\ StoreInv => PublishedOnce
  BY DEF StoreInv, ItemInv, Accounted, Excuses, PublishedOnce
<1> QED  BY <1>1, ClientInit, StoreInit, PubStep, PTL DEF PubSpec

(* No call is out longer than max_elapsed and the time of one attempt: the  *)
(* safety half of CallReturns.                                              *)
THEOREM CallEndsInTime == PubSpec => []InTime
<1>1. ClientInv => InTime
  BY DEF ClientInv, TimeInv
<1> QED  BY <1>1, ClientInit, StoreInit, PubStep, PTL DEF PubSpec

-----------------------------------------------------------------------------
(* A Celery task.  What is claimed was sent; the only outcome sent, when    *)
(* its publish got through, is what the row shows.                          *)

TaskSpec == TaskInit /\ [][TaskNext]_taskVars

TaskInv ==
    /\ claimed \subseteq sent /\ late \subseteq unsure /\ unsure \subseteq sent
    /\ \A outcome \in Outcomes :
          (sent \cap Outcomes = {outcome} /\ outcome \notin unsure) => status = outcome

LEMMA EmitTells ==
    ASSUME TaskInv, NEW signal \in Signals, Emit(signal)
    PROVE  TaskInv'
<1>1. sent' = sent \cup {signal}
  BY DEF Emit
<1>2. CASE AcceptSignal(signal) /\ UNCHANGED <<unsure, late>>
  <2>1. CASE signal \in claimed
    BY <1>1, <1>2, <2>1 DEF AcceptSignal, Key, TaskInv, Outcomes
  <2>2. CASE signal \notin claimed
    <3>1. claimed' = claimed \cup {signal} /\ status' = StatusAfter(signal)
      BY <1>2, <2>2 DEF AcceptSignal, Key
    <3> QED  BY <1>1, <1>2, <3>1 DEF StatusAfter, TaskInv, Outcomes
  <2> QED  BY <2>1, <2>2
<1>3. CASE ~(AcceptSignal(signal) /\ UNCHANGED <<unsure, late>>)
  <2>1. /\ unsure' = unsure \cup {signal} /\ status' = status
        /\ late' \subseteq late \cup {signal}
        /\ claimed' \subseteq claimed \cup {signal}
    BY <1>3 DEF Emit, Key
  <2> QED  BY <1>1, <2>1 DEF TaskInv, Outcomes
<1> QED  BY <1>2, <1>3

LEMMA LateTells ==
    ASSUME TaskInv, NEW signal \in Signals, HandleLate(signal)
    PROVE  TaskInv'
<1>1. signal \in late /\ late' \subseteq late /\ UNCHANGED <<sent, unsure>>
  BY DEF HandleLate
<1>2. CASE signal \in claimed
  BY <1>1, <1>2 DEF HandleLate, AcceptSignal, Key, TaskInv
<1>3. CASE signal \notin claimed
  <2>1. claimed' = claimed \cup {signal} /\ status' = StatusAfter(signal)
    BY <1>3 DEF HandleLate, AcceptSignal, Key
  <2> QED  BY <1>1, <2>1 DEF StatusAfter, TaskInv, Outcomes
<1> QED  BY <1>2, <1>3

LEMMA TaskStep == TaskInv /\ [TaskNext]_taskVars => TaskInv'
<1> SUFFICES ASSUME TaskInv, [TaskNext]_taskVars PROVE TaskInv'
  OBVIOUS
<1>1. CASE \/ CallTask \/ Prerun \/ Resend \/ Retry \/ Succeed \/ Fail \/ Revoke
  <2>1. PICK signal \in Signals : Emit(signal)
    BY <1>1 DEF CallTask, Prerun, Resend, Retry, Succeed, Fail, Revoke, Signals, Outcomes
  <2> QED  BY <2>1, EmitTells
<1>2. CASE Redeliver \/ UNCHANGED taskVars
  BY <1>2 DEF Redeliver, taskVars, TaskInv
<1> QED  BY <1>1, <1>2, LateTells DEF TaskNext

(* The row shows how a task ended once the publish of that signal got       *)
(* through, whatever is repeated, lost or late (celery.py _emit,            *)
(* Task.apply_event).                                                       *)
THEOREM RowTellsOutcome == TaskSpec => []OutcomeTold
<1>1. TaskInit => TaskInv
  BY DEF TaskInit, TaskInv
<1>2. TaskInv => OutcomeTold
  BY DEF TaskInv, OutcomeTold
<1> QED  BY <1>1, <1>2, TaskStep, PTL DEF TaskSpec

-----------------------------------------------------------------------------
(***************************************************************************)
(* The TypeScript client is never stranded.  While a connection is wanted   *)
(* and the client has not given up, a reconnect timer runs or a socket is   *)
(* on its way, whichever of its sockets close and whoever opened them; the  *)
(* continuations still to run are not needed for it.                       *)
(***************************************************************************)
Retrying ==
    (KeepConnected /\ state # "FAILED") => timers > 0 \/ \E s \in Sockets : sock[s] \in Live

Pinging ==
    /\ state = "CONNECTED" => heartbeat
    /\ heartbeat => \E s \in welcomed : sock[s] = "open"

LinkTypes ==
    /\ sock \in [Sockets -> SocketStates]
    /\ welcomed \subseteq Sockets
    /\ timers \in Nat

LinkInv == LinkTypes /\ Retrying /\ Pinging

Mishaps == {"overlap", "crossed", "refused", "timeout", "disconnect", "gave up"}

\* What FAILED and _scheduleReconnect come to.
LEMMA GivesUp ==
    ASSUME GiveUp
    PROVE  /\ state' = "FAILED"
           /\ mishaps \subseteq mishaps' /\ mishaps' \subseteq mishaps \cup {"gave up"}
  BY DEF GiveUp

LEMMA Schedules ==
    ASSUME ScheduleReconnect
    PROVE  /\ \/ state' = "FAILED" /\ timers' = timers
              \/ state' = "RECONNECTING" /\ timers' = timers + 1
           /\ mishaps \subseteq mishaps' /\ mishaps' \subseteq mishaps \cup {"gave up"}
  BY GivesUp DEF ScheduleReconnect

LEMMA LinkInvInit == Init => LinkInv
<1>. SUFFICES ASSUME Init PROVE LinkInv
  OBVIOUS
<1>1. 1 \in Sockets
  BY TsClientAssumption DEF Sockets
<1>2. LinkTypes
  BY <1>1 DEF Init, LinkTypes, SocketStates, Live
<1>3. Retrying
  BY <1>1 DEF Init, Retrying, KeepConnected, Live
<1>4. Pinging
  BY <1>1 DEF Init, Pinging
<1>. QED  BY <1>2, <1>3, <1>4 DEF LinkInv

\* Nothing is said of the connection.
LEMMA LinkUnchanged ==
    ASSUME LinkInv, UNCHANGED <<state, closedByUser, sock, heartbeat, welcomed, timers>>
    PROVE  LinkInv'
  BY DEF LinkInv, LinkTypes, Retrying, Pinging, KeepConnected

\* _open: a socket is on its way.
LEMMA OpenKeepsLink ==
    ASSUME LinkInv, NEW who, Open(who), UNCHANGED <<heartbeat, welcomed>>,
           timers' \in Nat
    PROVE  LinkInv'
<1>1. PICK s \in Sockets : sock[s] = "none" /\ sock' = [sock EXCEPT ![s] = "token"]
  BY DEF Open
<1>2. state' \in {"CONNECTING", "RECONNECTING"}
  BY DEF Open
<1>3. sock \in [Sockets -> SocketStates] /\ sock'[s] = "token"
  BY <1>1 DEF LinkInv, LinkTypes
<1>4. LinkTypes'
  BY <1>1, <1>3 DEF LinkInv, LinkTypes, SocketStates, Live
<1>5. Retrying'
  BY <1>3 DEF Retrying, Live
<1>6. Pinging'
  <2>1. ASSUME NEW q \in welcomed, sock[q] = "open" PROVE sock'[q] = "open"
    BY <1>1, <1>3, <2>1 DEF LinkInv, LinkTypes
  <2>. QED  BY <1>2, <2>1 DEF LinkInv, Pinging
<1>. QED  BY <1>4, <1>5, <1>6 DEF LinkInv

LEMMA AwaitKeepsLink ==
    ASSUME LinkInv, NEW who, NEW k, NEW work, Await(who, k, work),
           UNCHANGED <<heartbeat, welcomed, timers>>
    PROVE  LinkInv'
  BY LinkUnchanged DEF Await, connVars

LEMMA SubscribeKeepsLink ==
    ASSUME LinkInv, NEW who, NEW t, NEW work, Subscribe(who, t, work),
           UNCHANGED <<heartbeat, welcomed, timers>>
    PROVE  LinkInv'
<1>1. CASE state = "CONNECTED"
  BY <1>1, AwaitKeepsLink DEF Subscribe
<1>2. CASE state # "CONNECTED"
  <2>1. Open(who) /\ timers' \in Nat
    BY <1>2 DEF Subscribe, LinkInv, LinkTypes
  <2>. QED  BY <2>1, OpenKeepsLink
<1>. QED  BY <1>1, <1>2

LEMMA ApplicationKeepsLink ==
    ASSUME LinkInv, Application
    PROVE  LinkInv'
<1>1. CASE Connect
  <2>1. Open(Me) /\ UNCHANGED <<heartbeat, welcomed, timers>> /\ timers' \in Nat
    BY <1>1 DEF Connect, sockVars, LinkInv, LinkTypes
  <2>. QED  BY <2>1, OpenKeepsLink
<1>2. CASE Disconnect
  <2>1. /\ state' = "DISCONNECTED" /\ heartbeat' = FALSE
        /\ UNCHANGED <<welcomed, timers>>
        /\ \/ sock' = sock
           \/ sock' = [sock EXCEPT ![ws] = "closing"]
    BY <1>2 DEF Disconnect
  <2>2. LinkTypes'
    BY <2>1 DEF LinkInv, LinkTypes, SocketStates, Live
  <2>. QED  BY <2>1, <2>2 DEF LinkInv, Retrying, Pinging, KeepConnected
<1>3. ASSUME NEW t \in Topics, ChannelSubscribe(t) PROVE LinkInv'
  BY <1>3, SubscribeKeepsLink DEF ChannelSubscribe, sockVars
<1>4. ASSUME NEW op, NEW t, ChannelRequest(op, t) PROVE LinkInv'
  BY <1>4, AwaitKeepsLink DEF ChannelRequest, sockVars
<1>. QED  BY <1>1, <1>2, <1>3, <1>4 DEF Application

LEMMA RescheduleKeepsLink ==
    ASSUME LinkInv, RescheduleReconnect
    PROVE  LinkInv'
<1>1. /\ UNCHANGED <<closedByUser, sock, heartbeat, welcomed>>
      /\ \/ state' = "FAILED" /\ timers' = timers
         \/ state' = "RECONNECTING" /\ timers' = timers + 1
  BY Schedules DEF RescheduleReconnect
<1>. QED  BY <1>1 DEF LinkInv, LinkTypes, Retrying, Pinging

LEMMA RunJobKeepsLink ==
    ASSUME LinkInv, RunJob
    PROVE  LinkInv'
<1>1. CASE RescheduleReconnect
  BY <1>1, RescheduleKeepsLink
<1>2. ASSUME NEW n, NEW ok, ResumeCall(n, ok) PROVE LinkInv'
  <2>1. UNCHANGED <<heartbeat, welcomed, timers>>
    BY <1>2 DEF ResumeCall, sockVars
  <2>2. \/ Await(AppCall(n), <<"sub", calls[n].topic>>, Tail(jobs))
        \/ UNCHANGED <<state, closedByUser, sock>>
    BY <1>2 DEF ResumeCall, connVars
  <2>. QED  BY <2>1, <2>2, AwaitKeepsLink, LinkUnchanged
<1>3. ASSUME NEW s, NEW ok, ResumePass(s, ok) PROVE LinkInv'
  <2>1. UNCHANGED <<heartbeat, welcomed, timers>>
    BY <1>3 DEF ResumePass, sockVars
  <2>2. \/ \E k : Await(Pass(s), k, Tail(jobs))
        \/ \E t : Subscribe(Pass(s), t, Tail(jobs))
        \/ UNCHANGED <<state, closedByUser, sock>>
    BY <1>3 DEF ResumePass, PassOn, connVars
  <2>. QED  BY <2>1, <2>2, AwaitKeepsLink, SubscribeKeepsLink, LinkUnchanged
<1>. QED  BY <1>1, <1>2, <1>3 DEF RunJob

LEMMA OnCloseKeepsLink ==
    ASSUME LinkInv, NEW s \in Sockets, OnClose(s)
    PROVE  LinkInv'
<1>1. /\ sock' = [sock EXCEPT ![s] = "closed"] /\ heartbeat' = FALSE
      /\ welcomed' = welcomed \ {s} /\ UNCHANGED closedByUser
      /\ \/ state' = "DISCONNECTED" /\ timers' = timers
         \/ state' = "FAILED" /\ timers' = timers
         \/ state' = "RECONNECTING" /\ timers' = timers + 1
  BY Schedules DEF OnClose
<1>2. LinkTypes'
  BY <1>1 DEF LinkInv, LinkTypes, SocketStates
<1>3. Retrying' /\ Pinging'
  BY <1>1 DEF LinkInv, LinkTypes, Retrying, Pinging, KeepConnected
<1>. QED  BY <1>2, <1>3 DEF LinkInv

LEMMA SocketKeepsLink ==
    ASSUME LinkInv, NEW s \in Sockets, SocketEvent(s)
    PROVE  LinkInv'
<1>1. sock \in [Sockets -> SocketStates] /\ welcomed \subseteq Sockets
  BY DEF LinkInv, LinkTypes
<1>2. ASSUME NEW next \in Live, sock[s] \in {"token", "dialing"},
             sock' = [sock EXCEPT ![s] = next],
             UNCHANGED <<state, closedByUser, heartbeat, welcomed, timers>>
      PROVE  LinkInv'
  <2>1. LinkTypes'
    BY <1>2 DEF LinkInv, LinkTypes, SocketStates
  <2>2. Retrying'
    BY <1>1, <1>2 DEF Retrying
  <2>3. ASSUME NEW q \in welcomed, sock[q] = "open" PROVE sock'[q] = "open"
    BY <1>1, <1>2, <2>3
  <2>4. Pinging'
    BY <1>2, <2>3 DEF LinkInv, Pinging
  <2>. QED  BY <2>1, <2>2, <2>4 DEF LinkInv
<1>3. CASE Dial(s)
  BY <1>2, <1>3 DEF Dial, Live
<1>4. CASE TokenFails(s)
  <2>1. /\ sock[s] = "token" /\ sock' = [sock EXCEPT ![s] = "closed"]
        /\ state' = "FAILED" /\ UNCHANGED <<heartbeat, welcomed, timers>>
    BY <1>4, GivesUp DEF TokenFails, sockVars
  <2>2. LinkTypes' /\ Retrying'
    BY <2>1 DEF LinkInv, LinkTypes, SocketStates, Retrying
  <2>3. ASSUME NEW q \in welcomed, sock[q] = "open" PROVE sock'[q] = "open"
    BY <1>1, <2>1, <2>3
  <2>4. Pinging'
    BY <2>1, <2>3 DEF LinkInv, Pinging
  <2>. QED  BY <2>2, <2>4 DEF LinkInv
<1>5. CASE Opened(s)
  BY <1>2, <1>5 DEF Opened, Live, sockVars
<1>6. CASE Welcome(s)
  <2>1. /\ sock[s] = "open" /\ welcomed' = welcomed \cup {s}
        /\ state' = "CONNECTED" /\ heartbeat' = TRUE
        /\ UNCHANGED <<sock, timers>>
    BY <1>6 DEF Welcome
  <2>. QED  BY <1>1, <2>1 DEF LinkInv, LinkTypes, Retrying, Pinging, Live
<1>7. CASE Answer(s) \/ Refuse(s) \/ \E t \in Topics : Event(s, t)
  <2>1. UNCHANGED <<state, closedByUser, sock, heartbeat, welcomed, timers>>
    BY <1>7 DEF Answer, Refuse, Event, connVars, sockVars
  <2>. QED  BY <2>1, LinkUnchanged
<1>8. CASE Lost(s) \/ Closed(s)
  BY <1>8, OnCloseKeepsLink DEF Lost, Closed
<1>. QED  BY <1>3, <1>4, <1>5, <1>6, <1>7, <1>8 DEF SocketEvent

LEMMA TimersKeepLink ==
    ASSUME LinkInv, \/ ReconnectTimer
                    \/ \E d \in deadlines : Deadline(d[1], d[2])
    PROVE  LinkInv'
<1>1. CASE ReconnectTimer
  <2>1. /\ timers > 0 /\ timers' = timers - 1
        /\ IF closedByUser THEN UNCHANGED <<state, sock>> ELSE Open(Timer)
        /\ UNCHANGED <<closedByUser, heartbeat, welcomed>>
    BY <1>1 DEF ReconnectTimer, ReconnectUnless
  <2>2. timers' \in Nat
    BY <2>1 DEF LinkInv, LinkTypes
  <2>3. CASE closedByUser
    BY <2>1, <2>2, <2>3 DEF LinkInv, LinkTypes, Retrying, Pinging, KeepConnected
  <2>4. CASE ~closedByUser
    BY <2>1, <2>2, <2>4, OpenKeepsLink
  <2>. QED  BY <2>3, <2>4
<1>2. CASE \E d \in deadlines : Deadline(d[1], d[2])
  <2>1. UNCHANGED <<state, closedByUser, sock, heartbeat, welcomed, timers>>
    BY <1>2 DEF Deadline, connVars, sockVars
  <2>. QED  BY <2>1, LinkUnchanged
<1>. QED  BY <1>1, <1>2

LEMMA LinkInvNext == LinkInv /\ [Next]_vars => LinkInv'
<1>1. ASSUME LinkInv, UNCHANGED vars PROVE LinkInv'
  <2>1. UNCHANGED <<state, closedByUser, sock, heartbeat, welcomed, timers>>
    BY <1>1 DEF vars, connVars, sockVars
  <2>. QED  BY <1>1, <2>1, LinkUnchanged
<1>. QED
  BY <1>1, RunJobKeepsLink, ApplicationKeepsLink, SocketKeepsLink, TimersKeepLink DEF Next

(* docs/SDK_TYPESCRIPT.md, Connection state: the client is never left with a *)
(* state that promises a connection and nothing under way to get one, or    *)
(* connected without pings, and its pings never outlive its sockets         *)
(* (beacn.ts, _open, _scheduleReconnect and the handlers of a socket).      *)
THEOREM ClientNeverStranded == Spec => []NeverStranded
<1>1. LinkInv => NeverStranded
  BY DEF LinkInv, Retrying, Pinging, NeverStranded
<1>. QED  BY <1>1, LinkInvInit, LinkInvNext, PTL DEF Spec

-----------------------------------------------------------------------------
(***************************************************************************)
(* The TypeScript client's types.  Who waits for a promise is a call the    *)
(* application has made, a pass or the timer; a socket has an opener until   *)
(* it is welcomed or gone; and a pass that waits is at a channel.            *)
(***************************************************************************)
Callers == {AppCall(n) : n \in DOMAIN calls} \cup {Pass(s) : s \in Sockets}
JobRow == [who : Callers \cup {Timer}, ok : BOOLEAN]
CallRow == [op : {"connect", "disconnect", "sub", "unsub", "replay"},
            topic : Topics,
            at : {"connect", "sub", "unsub", "replay", "over"}]
PassRow == [n : 0..Len(Channels), at : {"none", "connect", "sub", "replay"}]

ConnFits ==
    /\ state \in ConnectionStates
    /\ closedByUser \in BOOLEAN
    /\ attempts \in Nat
    /\ sock \in [Sockets -> SocketStates]
    /\ opener \in [Sockets -> Callers \cup {Timer, NoOne}]
SockFits ==
    /\ heartbeat \in BOOLEAN
    /\ ws \in Sockets \cup {0}
    /\ timers \in Nat
    /\ granted \in [Sockets -> SUBSET Topics]
ReqsFit ==
    /\ wire \in [Sockets -> Seq(Keys)]
    /\ pending \in [Keys -> Callers \cup {NoOne}]
    /\ deadlines \subseteq Callers \X Keys
    /\ mishaps \subseteq Mishaps
AppFits ==
    /\ subscribed \subseteq Topics /\ seen \subseteq Topics
    /\ calls \in Seq(CallRow)
    /\ faults \in Nat /\ Len(calls) + faults <= MaxUpsets
PassFits ==
    /\ pass \in [Sockets -> PassRow]
    /\ \A s \in Sockets : pass[s].at # "none" => pass[s].n >= 1
JobsFit == jobs \in Seq(JobRow)

\* A socket that is welcomed is open, and one that is on its way to it, and no
\* other, has somebody who waits for it.
Opening ==
    /\ welcomed \subseteq Sockets
    /\ \A s \in welcomed : sock[s] \in {"open", "closing"}
    /\ \A s \in Sockets : opener[s] # NoOne <=> (sock[s] \in Live /\ s \notin welcomed)

ClientFits == /\ ConnFits /\ SockFits /\ ReqsFit /\ AppFits /\ PassFits
             /\ JobsFit /\ Opening

LEMMA Apart ==
    /\ Timer # NoOne
    /\ \A n : AppCall(n) # NoOne /\ AppCall(n) # Timer
    /\ \A s : Pass(s) # NoOne /\ Pass(s) # Timer
    /\ \A n, s : AppCall(n) # Pass(s)
    /\ \A n, m : AppCall(n) = AppCall(m) => n = m
<1>1. \A n : AppCall(n)[1] = "call" /\ AppCall(n)[2] = n
  BY DEF AppCall
<1>2. \A s : Pass(s)[1] = "pass"
  BY DEF Pass
<1>3. Timer[1] = "timer" /\ NoOne[1] = "none"
  BY DEF Timer, NoOne
<1>. QED  BY <1>1, <1>2, <1>3

LEMMA SeqWiden ==
    ASSUME NEW S, NEW T, S \subseteq T, NEW list \in Seq(S)
    PROVE  list \in Seq(T)
OBVIOUS

LEMMA SeqAppend ==
    ASSUME NEW S, NEW list \in Seq(S), NEW x \in S
    PROVE  Append(list, x) \in Seq(S)
OBVIOUS

LEMMA SeqOne ==
    ASSUME NEW S, NEW x \in S
    PROVE  <<x>> \in Seq(S)
OBVIOUS

LEMMA SeqJoin ==
    ASSUME NEW S, NEW list \in Seq(S), NEW more \in Seq(S)
    PROVE  list \o more \in Seq(S)
OBVIOUS

LEMMA CallersKnown == AppFits => Callers \subseteq Waiters
<1>. SUFFICES ASSUME AppFits PROVE Callers \subseteq Waiters
  OBVIOUS
<1>1. DOMAIN calls \subseteq 1..MaxUpsets
  <2>1. Len(calls) \in Nat /\ DOMAIN calls = 1..Len(calls) /\ faults \in Nat
    BY DEF AppFits
  <2>2. Len(calls) <= MaxUpsets
    BY <2>1, TsClientAssumption DEF AppFits
  <2>. QED  BY <2>1, <2>2, TsClientAssumption
<1>. QED  BY <1>1 DEF Callers, Waiters

LEMMA ClientFitsTypes == ClientFits => TypeOK
<1>. SUFFICES ASSUME ClientFits PROVE TypeOK
  OBVIOUS
<1>1. Callers \subseteq Waiters
  BY CallersKnown DEF ClientFits
<1>2. /\ state \in ConnectionStates /\ closedByUser \in BOOLEAN /\ heartbeat \in BOOLEAN
      /\ attempts \in Nat /\ timers \in Nat /\ ws \in Sockets \cup {0}
      /\ sock \in [Sockets -> SocketStates] /\ welcomed \subseteq Sockets
      /\ wire \in [Sockets -> Seq(Keys)] /\ granted \in [Sockets -> SUBSET Topics]
      /\ subscribed \subseteq Topics /\ seen \subseteq Topics
      /\ mishaps \subseteq Mishaps
      /\ pass \in [Sockets -> PassRow] /\ calls \in Seq(CallRow)
  BY DEF ClientFits, ConnFits, SockFits, ReqsFit, AppFits, PassFits, Opening
<1>3. faults \in 0..MaxUpsets
  BY TsClientAssumption DEF ClientFits, AppFits
<1>4. opener \in [Sockets -> Waiters \cup {Timer, NoOne}]
  BY <1>1 DEF ClientFits, ConnFits
<1>5. /\ pending \in [Keys -> Waiters \cup {NoOne}]
      /\ deadlines \subseteq Waiters \X Keys
  BY <1>1 DEF ClientFits, ReqsFit
<1>6. jobs \in Seq([who : Waiters \cup {Timer}, ok : BOOLEAN])
  <2>1. JobRow \subseteq [who : Waiters \cup {Timer}, ok : BOOLEAN]
    BY <1>1 DEF JobRow
  <2>. QED  BY <2>1, SeqWiden DEF ClientFits, JobsFit
<1>. QED
  BY <1>2, <1>3, <1>4, <1>5, <1>6 DEF TypeOK, PassRow, CallRow, Mishaps

LEMMA ClientFitsInit == Init => ClientFits
<1>. SUFFICES ASSUME Init PROVE ClientFits
  OBVIOUS
<1>. USE TsClientAssumption
<1>1. 1 \in Sockets /\ Len(Channels) \in Nat
  BY DEF Sockets
<1>2. ConnFits
  BY <1>1 DEF Init, ConnFits, ConnectionStates, SocketStates, Live
<1>3. SockFits
  BY <1>1 DEF Init, SockFits
<1>4. ReqsFit
  BY DEF Init, ReqsFit
<1>5. AppFits
  BY DEF Init, AppFits
<1>6. PassFits
  BY <1>1 DEF Init, PassFits, PassRow, NoPass
<1>7. JobsFit
  BY DEF Init, JobsFit
<1>8. Opening
  BY <1>1 DEF Init, Opening, Live
<1>. QED  BY <1>2, <1>3, <1>4, <1>5, <1>6, <1>7, <1>8 DEF ClientFits

(* The application only ever adds calls, and a call keeps what it is.       *)
LEMMA CallersGrow ==
    ASSUME DOMAIN calls \subseteq DOMAIN calls'
    PROVE  Callers \subseteq Callers' /\ JobRow \subseteq JobRow'
  BY DEF Callers, JobRow

LEMMA EnterCall ==
    ASSUME ClientFits, ~Quiet, NEW op \in {"connect", "disconnect", "sub", "unsub", "replay"},
           NEW t \in Topics, NEW at \in {"connect", "sub", "unsub", "replay", "over"},
           Enter(op, t, at), UNCHANGED <<subscribed, seen, faults>>
    PROVE  /\ AppFits' /\ Me \in Callers' /\ DOMAIN calls \subseteq DOMAIN calls'
           /\ Callers \subseteq Callers' /\ JobRow \subseteq JobRow'
<1>1. calls \in Seq(CallRow) /\ calls' = Append(calls, [op |-> op, topic |-> t, at |-> at])
  BY DEF ClientFits, AppFits, Enter
<1>2. [op |-> op, topic |-> t, at |-> at] \in CallRow
  BY DEF CallRow
<1>3. /\ calls' \in Seq(CallRow) /\ Len(calls') = Len(calls) + 1
      /\ DOMAIN calls = 1..Len(calls) /\ DOMAIN calls' = 1..(Len(calls) + 1)
      /\ Len(calls) \in Nat
  BY <1>1, <1>2
<1>4. Len(calls') + faults' <= MaxUpsets
  BY <1>3, TsClientAssumption DEF ClientFits, AppFits, Quiet
<1>5. AppFits'
  BY <1>3, <1>4 DEF ClientFits, AppFits
<1>6. Me \in Callers'
  <2>1. Len(calls) + 1 \in DOMAIN calls'
    BY <1>3
  <2>. QED  BY <2>1 DEF Me, Callers
<1>. QED  BY <1>3, <1>5, <1>6, CallersGrow

LEMMA OpenFits ==
    ASSUME ClientFits, NEW who \in Callers' \cup {Timer}, who # NoOne, Open(who),
           Callers \subseteq Callers', closedByUser' \in BOOLEAN,
           UNCHANGED <<attempts, welcomed>>
    PROVE  ConnFits' /\ Opening'
<1>1. PICK s \in Sockets : /\ sock[s] = "none"
                           /\ sock' = [sock EXCEPT ![s] = "token"]
                           /\ opener' = [opener EXCEPT ![s] = who]
  BY DEF Open
<1>2. state' \in {"CONNECTING", "RECONNECTING"}
  BY DEF Open
<1>3. /\ sock \in [Sockets -> SocketStates] /\ attempts \in Nat
      /\ opener \in [Sockets -> Callers \cup {Timer, NoOne}]
  BY DEF ClientFits, ConnFits
<1>4. opener' \in [Sockets -> Callers' \cup {Timer, NoOne}]
  BY <1>1, <1>3
<1>5. ConnFits'
  BY <1>1, <1>2, <1>3, <1>4 DEF ConnFits, ConnectionStates, SocketStates, Live
<1>6. Opening'
  BY <1>1, <1>3 DEF ClientFits, Opening, Live
<1>. QED  BY <1>5, <1>6

LEMMA ConnStays ==
    ASSUME ClientFits, Callers \subseteq Callers', UNCHANGED connVars, UNCHANGED welcomed
    PROVE  ConnFits' /\ Opening'
<1>1. ConnFits'
  BY DEF ClientFits, ConnFits, connVars
<1>2. Opening'
  BY DEF ClientFits, Opening, connVars
<1>. QED  BY <1>1, <1>2

LEMMA ReqsStay ==
    ASSUME ClientFits, Callers \subseteq Callers', UNCHANGED reqVars,
           mishaps' \subseteq Mishaps
    PROVE  ReqsFit'
  BY DEF ClientFits, ReqsFit, reqVars

LEMMA SockStays ==
    ASSUME ClientFits, UNCHANGED <<heartbeat, ws, timers, granted>>
    PROVE  SockFits'
  BY DEF ClientFits, SockFits

LEMMA AppStays ==
    ASSUME ClientFits, UNCHANGED <<subscribed, seen, calls, faults>>
    PROVE  AppFits' /\ Callers \subseteq Callers' /\ JobRow \subseteq JobRow'
  BY DEF ClientFits, AppFits, Callers, JobRow

LEMMA PassStays ==
    ASSUME ClientFits, UNCHANGED pass
    PROVE  PassFits'
  BY DEF ClientFits, PassFits

LEMMA AwaitFits ==
    ASSUME ClientFits, Callers \subseteq Callers', NEW who \in Callers', NEW k \in Keys,
           NEW work \in Seq(JobRow'), Await(who, k, work), UNCHANGED welcomed
    PROVE  ConnFits' /\ Opening' /\ ReqsFit' /\ JobsFit'
<1>1. ConnFits' /\ Opening'
  BY ConnStays DEF Await
<1>2. mishaps' \subseteq Mishaps
  <2>1. mishaps' \subseteq mishaps \cup {"overlap", "crossed"}
    BY DEF Await
  <2>. QED  BY <2>1 DEF ClientFits, ReqsFit, Mishaps
<1>3. CASE CanSend
  <2>1. /\ pending' = [pending EXCEPT ![k] = who]
        /\ wire' = [wire EXCEPT ![ws] = Append(@, k)]
        /\ deadlines' = deadlines \cup {<<who, k>>}
        /\ jobs' = work
    BY <1>3 DEF Await
  <2>2. ws \in Sockets /\ wire[ws] \in Seq(Keys)
    BY <1>3 DEF CanSend, ClientFits, SockFits, ReqsFit
  <2>3. Append(wire[ws], k) \in Seq(Keys)
    BY <2>2
  <2>4. wire' \in [Sockets -> Seq(Keys)]
    BY <2>1, <2>2, <2>3 DEF ClientFits, ReqsFit
  <2>5. pending' \in [Keys -> Callers' \cup {NoOne}] /\ deadlines' \subseteq Callers' \X Keys
    BY <2>1 DEF ClientFits, ReqsFit
  <2>. QED  BY <1>1, <1>2, <2>1, <2>4, <2>5 DEF ReqsFit, JobsFit
<1>4. CASE ~CanSend
  <2>1. /\ pending' = [pending EXCEPT ![k] = NoOne]
        /\ jobs' = Append(work, Settled(who, FALSE))
        /\ UNCHANGED <<wire, deadlines>>
    BY <1>4 DEF Await
  <2>2. Settled(who, FALSE) \in JobRow'
    BY DEF Settled, JobRow
  <2>3. jobs' \in Seq(JobRow')
    BY <2>1, <2>2, SeqAppend
  <2>4. pending' \in [Keys -> Callers' \cup {NoOne}] /\ deadlines' \subseteq Callers' \X Keys
    BY <2>1 DEF ClientFits, ReqsFit
  <2>. QED  BY <1>1, <1>2, <2>1, <2>3, <2>4 DEF ClientFits, ReqsFit, JobsFit
<1>. QED  BY <1>3, <1>4

LEMMA SubscribeFits ==
    ASSUME ClientFits, Callers \subseteq Callers', NEW who \in Callers', who # NoOne,
           NEW t \in Topics, NEW work \in Seq(JobRow'), Subscribe(who, t, work),
           UNCHANGED welcomed
    PROVE  ConnFits' /\ Opening' /\ ReqsFit' /\ JobsFit'
<1>1. CASE state = "CONNECTED"
  <2>1. <<"sub", t>> \in Keys
    BY DEF Keys
  <2>. QED  BY <1>1, <2>1, AwaitFits DEF Subscribe
<1>2. CASE state # "CONNECTED"
  <2>1. /\ closedByUser' = FALSE /\ Open(who) /\ jobs' = work
        /\ UNCHANGED <<attempts, reqVars, mishaps>>
    BY <1>2 DEF Subscribe
  <2>2. ConnFits' /\ Opening'
    BY <2>1, OpenFits
  <2>3. ReqsFit'
    BY <2>1, ReqsStay DEF ClientFits, ReqsFit
  <2>. QED  BY <2>1, <2>2, <2>3 DEF JobsFit
<1>. QED  BY <1>1, <1>2

LEMMA JobsStay ==
    ASSUME ClientFits, JobRow \subseteq JobRow', UNCHANGED jobs
    PROVE  JobsFit'
<1>1. jobs \in Seq(JobRow')
  BY SeqWiden DEF ClientFits, JobsFit
<1>. QED  BY <1>1 DEF JobsFit

LEMMA NoJobs ==
    ASSUME NEW S
    PROVE  <<>> \in Seq(S)
OBVIOUS

LEMMA ApplicationFits ==
    ASSUME ClientFits, Application
    PROVE  ClientFits'
<1>. USE TsClientAssumption
<1>1. Head(Channels) \in Topics /\ jobs \in Seq(JobRow)
  BY DEF ClientFits, JobsFit
<1>2. Me # NoOne
  BY Apart DEF Me
<1>3. CASE Connect
  <2>1. /\ ~Quiet /\ closedByUser' = FALSE /\ Open(Me)
        /\ Enter("connect", Head(Channels), "connect")
        /\ UNCHANGED <<attempts, subscribed, seen, faults, pass, jobs, mishaps, reqVars>>
        /\ UNCHANGED <<heartbeat, ws, welcomed, timers, granted>>
    BY <1>3 DEF Connect, MayCall, sockVars
  <2>2. /\ AppFits' /\ Me \in Callers' /\ Callers \subseteq Callers'
        /\ JobRow \subseteq JobRow'
    BY <1>1, <2>1, EnterCall
  <2>3. ConnFits' /\ Opening'
    BY <1>2, <2>1, <2>2, OpenFits
  <2>4. SockFits' /\ PassFits' /\ JobsFit'
    BY <2>1, <2>2, SockStays, PassStays, JobsStay
  <2>5. ReqsFit'
    BY <2>1, <2>2, ReqsStay DEF ClientFits, ReqsFit
  <2>. QED  BY <2>2, <2>3, <2>4, <2>5 DEF ClientFits
<1>4. CASE Disconnect
  <2>1. /\ ~Quiet /\ closedByUser' = TRUE /\ heartbeat' = FALSE /\ state' = "DISCONNECTED"
        /\ \/ sock' = sock
           \/ ws # 0 /\ sock[ws] \in {"dialing", "open"} /\ sock' = [sock EXCEPT ![ws] = "closing"]
        /\ mishaps' = mishaps \cup {"disconnect"}
        /\ Enter("disconnect", Head(Channels), "over")
        /\ UNCHANGED <<attempts, opener, ws, welcomed, timers, granted, reqVars,
                       subscribed, seen, pass, jobs, faults>>
    BY <1>4 DEF Disconnect, MayCall
  <2>2. /\ AppFits' /\ Callers \subseteq Callers' /\ JobRow \subseteq JobRow'
    BY <1>1, <2>1, EnterCall
  <2>3. ConnFits'
    BY <2>1, <2>2 DEF ClientFits, ConnFits, ConnectionStates, SocketStates, Live
  <2>4. Opening'
    <3>1. CASE sock' = sock
      BY <2>1, <3>1 DEF ClientFits, Opening
    <3>2. CASE sock' # sock
      <4>1. ws \in Sockets /\ sock \in [Sockets -> SocketStates]
        BY <2>1, <3>2 DEF ClientFits, ConnFits, SockFits
      <4>. QED  BY <2>1, <3>2, <4>1 DEF ClientFits, Opening, Live
    <3>. QED  BY <3>1, <3>2
  <2>5. SockFits'
    BY <2>1 DEF ClientFits, SockFits
  <2>6. PassFits' /\ JobsFit'
    BY <2>1, <2>2, PassStays, JobsStay
  <2>7. ReqsFit'
    BY <2>1, <2>2, ReqsStay DEF ClientFits, ReqsFit, Mishaps
  <2>. QED  BY <2>2, <2>3, <2>4, <2>5, <2>6, <2>7 DEF ClientFits
<1>5. ASSUME NEW t \in Topics, ChannelSubscribe(t) PROVE ClientFits'
  <2>1. /\ ~Quiet /\ Subscribe(Me, t, <<>>) /\ Enter("sub", t, Subscribing)
        /\ UNCHANGED <<heartbeat, ws, welcomed, timers, granted>>
        /\ UNCHANGED <<subscribed, seen, pass, faults>>
    BY <1>5 DEF ChannelSubscribe, MayCall, sockVars
  <2>2. /\ AppFits' /\ Me \in Callers' /\ Callers \subseteq Callers'
        /\ JobRow \subseteq JobRow'
    <3>1. Subscribing \in {"connect", "sub"}
      BY DEF Subscribing
    <3>. QED  BY <2>1, <3>1, EnterCall
  <2>3. <<>> \in Seq(JobRow')
    BY NoJobs
  <2>4. ConnFits' /\ Opening' /\ ReqsFit' /\ JobsFit'
    BY <1>2, <2>1, <2>2, <2>3, SubscribeFits
  <2>5. SockFits' /\ PassFits'
    BY <2>1, SockStays, PassStays
  <2>. QED  BY <2>2, <2>4, <2>5 DEF ClientFits
<1>6. ASSUME NEW k \in Keys, k[1] # "sub", ChannelRequest(k[1], k[2]) PROVE ClientFits'
  <2>1. k[1] \in {"unsub", "replay"} /\ k[2] \in Topics /\ <<k[1], k[2]>> \in Keys
    BY <1>6 DEF Keys
  <2>2. /\ ~Quiet /\ Await(Me, <<k[1], k[2]>>, <<>>) /\ Enter(k[1], k[2], k[1])
        /\ UNCHANGED <<heartbeat, ws, welcomed, timers, granted>>
        /\ UNCHANGED <<subscribed, seen, pass, faults>>
    BY <1>6 DEF ChannelRequest, MayCall, sockVars
  <2>3. /\ AppFits' /\ Me \in Callers' /\ Callers \subseteq Callers'
        /\ JobRow \subseteq JobRow'
    BY <2>1, <2>2, EnterCall
  <2>4. <<>> \in Seq(JobRow')
    BY NoJobs
  <2>5. ConnFits' /\ Opening' /\ ReqsFit' /\ JobsFit'
    BY <2>1, <2>2, <2>3, <2>4, AwaitFits
  <2>6. SockFits' /\ PassFits'
    BY <2>2, SockStays, PassStays
  <2>. QED  BY <2>3, <2>5, <2>6 DEF ClientFits
<1>. QED  BY <1>3, <1>4, <1>5, <1>6 DEF Application

\* The job at the head of the queue.
LEMMA NextJob ==
    ASSUME ClientFits, ~Idle
    PROVE  Head(jobs) \in JobRow /\ Tail(jobs) \in Seq(JobRow)
  BY DEF ClientFits, JobsFit, Idle

LEMMA CallerIs ==
    ASSUME NEW who \in Callers \cup {Timer}
    PROVE  /\ who[1] = "call" => who[2] \in DOMAIN calls /\ who = AppCall(who[2])
           /\ who[1] = "pass" => who[2] \in Sockets /\ who = Pass(who[2])
  BY DEF Callers, AppCall, Pass, Timer

LEMMA ResumeCallFits ==
    ASSUME ClientFits, ~Idle, NEW n \in DOMAIN calls, NEW ok, ResumeCall(n, ok)
    PROVE  ClientFits'
<1>1. Tail(jobs) \in Seq(JobRow)
  BY NextJob
<1>2. /\ calls \in Seq(CallRow) /\ calls[n] \in CallRow
      /\ subscribed \subseteq Topics
  BY DEF ClientFits, AppFits
<1>3. /\ UNCHANGED <<heartbeat, ws, welcomed, timers, granted>>
      /\ UNCHANGED <<seen, pass, faults>>
  BY DEF ResumeCall, sockVars
<1>4. SockFits' /\ PassFits'
  BY <1>3, SockStays, PassStays
<1>5. ASSUME NEW at \in {"over", "sub"}, calls' = [calls EXCEPT ![n].at = at]
      PROVE  /\ calls' \in Seq(CallRow) /\ Len(calls') = Len(calls)
             /\ Callers = Callers' /\ JobRow = JobRow'
  <2>. DEFINE row == [calls[n] EXCEPT !.at = at]
  <2>1. row \in CallRow
    BY <1>2 DEF CallRow
  <2>2. calls' = [calls EXCEPT ![n] = row]
    BY <1>5
  <2>. HIDE DEF row
  <2>3. calls' \in Seq(CallRow) /\ Len(calls') = Len(calls) /\ DOMAIN calls' = DOMAIN calls
    BY <1>2, <2>1, <2>2
  <2>. QED  BY <2>3 DEF Callers, JobRow
<1>6. CASE calls[n].op = "sub" /\ calls[n].at = "connect" /\ ok
  <2>1. /\ Await(AppCall(n), <<"sub", calls[n].topic>>, Tail(jobs))
        /\ calls' = [calls EXCEPT ![n].at = "sub"] /\ UNCHANGED subscribed
    BY <1>6 DEF ResumeCall
  <2>2. /\ calls' \in Seq(CallRow) /\ Len(calls') = Len(calls)
        /\ Callers = Callers' /\ JobRow = JobRow'
    BY <1>5, <2>1
  <2>3. AppFits'
    BY <1>2, <1>3, <2>1, <2>2 DEF ClientFits, AppFits
  <2>4. <<"sub", calls[n].topic>> \in Keys /\ AppCall(n) \in Callers'
    BY <1>2, <2>2 DEF CallRow, Keys, Callers
  <2>5. ConnFits' /\ Opening' /\ ReqsFit' /\ JobsFit'
    BY <1>1, <1>3, <2>1, <2>2, <2>4, AwaitFits
  <2>. QED  BY <1>4, <2>3, <2>5 DEF ClientFits
<1>7. CASE ~(calls[n].op = "sub" /\ calls[n].at = "connect" /\ ok)
  <2>1. /\ calls' = [calls EXCEPT ![n].at = "over"]
        /\ subscribed' = CASE ok /\ calls[n].op = "sub" -> subscribed \cup {calls[n].topic}
                           [] ok /\ calls[n].op = "unsub" -> subscribed \ {calls[n].topic}
                           [] OTHER -> subscribed
        /\ jobs' = Tail(jobs) /\ UNCHANGED <<connVars, reqVars, mishaps>>
    BY <1>7 DEF ResumeCall
  <2>2. /\ calls' \in Seq(CallRow) /\ Len(calls') = Len(calls)
        /\ Callers = Callers' /\ JobRow = JobRow'
    BY <1>5, <2>1
  <2>3. subscribed' \subseteq Topics
    BY <1>2, <2>1 DEF CallRow
  <2>4. AppFits'
    BY <1>3, <2>2, <2>3 DEF ClientFits, AppFits
  <2>5. ConnFits' /\ Opening'
    BY <1>3, <2>1, <2>2, ConnStays
  <2>6. ReqsFit'
    BY <2>1, <2>2, ReqsStay DEF ClientFits, ReqsFit
  <2>7. JobsFit'
    BY <1>1, <2>1, <2>2 DEF JobsFit
  <2>. QED  BY <1>4, <2>4, <2>5, <2>6, <2>7 DEF ClientFits
<1>. QED  BY <1>6, <1>7

LEMMA PassMoves ==
    ASSUME ClientFits, NEW s \in Sockets, NEW row \in PassRow,
           row.at # "none" => row.n >= 1, pass' = [pass EXCEPT ![s] = row]
    PROVE  PassFits'
  BY DEF ClientFits, PassFits

LEMMA PassOnFits ==
    ASSUME ClientFits, ~Idle, NEW s \in Sockets, NEW left, left \subseteq DOMAIN Channels,
           PassOn(s, left), UNCHANGED <<welcomed, calls>>
    PROVE  ConnFits' /\ Opening' /\ ReqsFit' /\ JobsFit' /\ PassFits'
<1>. USE TsClientAssumption
<1>1. Tail(jobs) \in Seq(JobRow)
  BY NextJob
<1>2. Callers = Callers' /\ JobRow = JobRow'
  BY DEF Callers, JobRow
<1>3. CASE left = {}
  <2>1. /\ pass' = [pass EXCEPT ![s] = NoPass] /\ jobs' = Tail(jobs)
        /\ UNCHANGED <<connVars, reqVars, mishaps>>
    BY <1>3 DEF PassOn
  <2>2. NoPass \in PassRow /\ NoPass.at = "none"
    BY DEF NoPass, PassRow
  <2>3. PassFits'
    BY <2>1, <2>2, PassMoves
  <2>4. ConnFits' /\ Opening'
    BY <1>2, <2>1, ConnStays
  <2>5. ReqsFit'
    BY <1>2, <2>1, ReqsStay DEF ClientFits, ReqsFit
  <2>. QED  BY <1>1, <1>2, <2>1, <2>3, <2>4, <2>5 DEF JobsFit
<1>4. CASE left # {}
  <2>. DEFINE m == CHOOSE x \in left : \A j \in left : x <= j
              row == [n |-> m, at |-> Subscribing]
  <2>1. DOMAIN Channels = 1..Len(Channels) /\ Len(Channels) \in Nat
    OBVIOUS
  <2>2. left \subseteq Nat
    BY <2>1
  <2>3. \E x \in left : \A j \in left : x <= j
    BY <1>4, <2>2, Least
  <2>4. m \in left
    BY <2>3
  <2>5. /\ pass' = [pass EXCEPT ![s] = row]
        /\ Subscribe(Pass(s), Channels[m], Tail(jobs))
    BY <1>4 DEF PassOn
  <2>. HIDE DEF m
  <2>6. m \in 1..Len(Channels) /\ Channels[m] \in Topics
    BY <2>1, <2>4
  <2>7. row \in PassRow /\ row.n >= 1
    BY <2>1, <2>6 DEF PassRow, Subscribing
  <2>. HIDE DEF row
  <2>8. PassFits'
    BY <2>5, <2>7, PassMoves
  <2>9. Pass(s) \in Callers' /\ Pass(s) # NoOne
    BY Apart DEF Callers
  <2>10. ConnFits' /\ Opening' /\ ReqsFit' /\ JobsFit'
    BY <1>1, <1>2, <2>5, <2>6, <2>9, SubscribeFits
  <2>. QED  BY <2>8, <2>10
<1>. QED  BY <1>3, <1>4

LEMMA ResumePassFits ==
    ASSUME ClientFits, ~Idle, NEW s \in Sockets, NEW ok, ResumePass(s, ok)
    PROVE  ClientFits'
<1>. USE TsClientAssumption
<1>1. Tail(jobs) \in Seq(JobRow)
  BY NextJob
<1>2. /\ UNCHANGED <<heartbeat, ws, welcomed, timers, granted>>
      /\ UNCHANGED <<subscribed, seen, calls, faults>>
  BY DEF ResumePass, sockVars
<1>3. SockFits' /\ AppFits' /\ Callers = Callers' /\ JobRow = JobRow'
  BY <1>2, SockStays, AppStays DEF Callers, JobRow
<1>4. pass[s] \in PassRow /\ (pass[s].at # "none" => pass[s].n >= 1)
  BY DEF ClientFits, PassFits
<1>5. ASSUME NEW at \in {"sub", "replay"}, pass[s].at # "none",
             pass' = [pass EXCEPT ![s].at = at],
             Await(Pass(s), <<at, Channels[pass[s].n]>>, Tail(jobs))
      PROVE  ClientFits'
  <2>. DEFINE row == [pass[s] EXCEPT !.at = at]
  <2>1. row \in PassRow /\ row.n >= 1
    BY <1>4, <1>5 DEF PassRow
  <2>2. pass' = [pass EXCEPT ![s] = row]
    BY <1>5 DEF ClientFits, PassFits
  <2>. HIDE DEF row
  <2>3. PassFits'
    BY <2>1, <2>2, PassMoves
  <2>4. pass[s].n \in DOMAIN Channels
    BY <1>4, <1>5 DEF PassRow
  <2>5. <<at, Channels[pass[s].n]>> \in Keys /\ Pass(s) \in Callers'
    BY <2>4 DEF Keys, Callers, Topics
  <2>6. ConnFits' /\ Opening' /\ ReqsFit' /\ JobsFit'
    BY <1>1, <1>2, <1>3, <1>5, <2>5, AwaitFits
  <2>. QED  BY <1>3, <2>3, <2>6 DEF ClientFits
<1>6. CASE PassOn(s, ChannelsAfter(pass[s].n))
  <2>1. ChannelsAfter(pass[s].n) \subseteq DOMAIN Channels
    BY DEF ChannelsAfter
  <2>2. ConnFits' /\ Opening' /\ ReqsFit' /\ JobsFit' /\ PassFits'
    BY <1>2, <1>6, <2>1, PassOnFits
  <2>. QED  BY <1>3, <2>2 DEF ClientFits
<1>7. \/ PassOn(s, ChannelsAfter(pass[s].n))
      \/ \E at \in {"sub", "replay"} :
            /\ pass[s].at # "none" /\ pass' = [pass EXCEPT ![s].at = at]
            /\ Await(Pass(s), <<at, Channels[pass[s].n]>>, Tail(jobs))
  BY DEF ResumePass
<1>. QED  BY <1>5, <1>6, <1>7

LEMMA ScheduleFits ==
    ASSUME ClientFits, ScheduleReconnect
    PROVE  /\ state' \in ConnectionStates /\ attempts' \in Nat /\ timers' \in Nat
           /\ mishaps' \subseteq Mishaps
<1>1. /\ \/ state' = "FAILED" /\ timers' = timers
         \/ state' = "RECONNECTING" /\ timers' = timers + 1
      /\ mishaps' \subseteq mishaps \cup {"gave up"}
  BY Schedules
<1>2. attempts' \in Nat
  BY DEF ClientFits, ConnFits, ScheduleReconnect
<1>3. timers \in Nat /\ mishaps \subseteq Mishaps
  BY DEF ClientFits, SockFits, ReqsFit
<1>4. state' \in ConnectionStates
  <2>1. state' \in {"FAILED", "RECONNECTING"}
    BY <1>1
  <2>. QED  BY <2>1 DEF ConnectionStates
<1>5. timers' \in Nat
  <2>1. timers' = timers \/ timers' = timers + 1
    BY <1>1
  <2>. QED  BY <1>3, <2>1
<1>6. mishaps' \subseteq Mishaps
  BY <1>1, <1>3 DEF Mishaps
<1>. QED  BY <1>2, <1>4, <1>5, <1>6

\* this.pending, what is on the wire and the timers of requests stay.
LEMMA MishapsFit ==
    ASSUME ReqsFit, Callers \subseteq Callers', UNCHANGED reqVars, mishaps' \subseteq Mishaps
    PROVE  ReqsFit'
  BY DEF ReqsFit, reqVars

LEMMA RunJobFits ==
    ASSUME ClientFits, RunJob
    PROVE  ClientFits'
<1>1. ~Idle /\ Head(jobs) \in JobRow /\ Tail(jobs) \in Seq(JobRow)
  BY NextJob DEF RunJob
<1>2. Head(jobs).who \in Callers \cup {Timer}
  BY <1>1 DEF JobRow
<1>3. CASE RescheduleReconnect
  <2>1. /\ ScheduleReconnect /\ jobs' = Tail(jobs)
        /\ UNCHANGED <<closedByUser, sock, opener, heartbeat, ws, welcomed, granted,
                       reqVars, subscribed, seen, calls, pass, faults>>
    BY <1>3 DEF RescheduleReconnect, appVars
  <2>2. AppFits' /\ Callers = Callers' /\ JobRow = JobRow'
    BY <2>1, AppStays DEF Callers, JobRow
  <2>3. /\ state' \in ConnectionStates /\ attempts' \in Nat /\ timers' \in Nat
        /\ mishaps' \subseteq Mishaps
    BY <2>1, ScheduleFits
  <2>4. ConnFits' /\ SockFits' /\ Opening'
    BY <2>1, <2>2, <2>3 DEF ClientFits, ConnFits, SockFits, Opening
  <2>5. ReqsFit' /\ PassFits'
    BY <2>1, <2>2, <2>3, MishapsFit, PassStays DEF ClientFits
  <2>6. JobsFit'
    BY <1>1, <2>1, <2>2 DEF JobsFit
  <2>. QED  BY <2>2, <2>4, <2>5, <2>6 DEF ClientFits
<1>4. CASE Head(jobs).who[1] = "call" /\ ResumeCall(Head(jobs).who[2], Head(jobs).ok)
  <2>1. Head(jobs).who[2] \in DOMAIN calls
    BY <1>2, <1>4, CallerIs
  <2>. QED  BY <1>1, <1>4, <2>1, ResumeCallFits
<1>5. CASE Head(jobs).who[1] = "pass" /\ ResumePass(Head(jobs).who[2], Head(jobs).ok)
  <2>1. Head(jobs).who[2] \in Sockets
    BY <1>2, <1>5, CallerIs
  <2>. QED  BY <1>1, <1>5, <2>1, ResumePassFits
<1>. QED  BY <1>3, <1>4, <1>5 DEF RunJob

LEMMA RangeFinite ==
    ASSUME NEW S, IsFiniteSet(S), NEW f, DOMAIN f = S, f = [x \in S |-> f[x]]
    PROVE  IsFiniteSet({f[x] : x \in S})
<1>1. f \in Surjection(S, {f[x] : x \in S})
  BY DEF Surjection
<1>. QED  BY <1>1, FS_Surjection

\* Rejecting everything: the promises rejected are those of this.pending.
LEMMA RejectedAre ==
    ASSUME ClientFits, NEW rejected \in SetToSeqs({pending[k] : k \in Keys} \ {NoOne})
    PROVE  /\ rejected \in Seq(Callers)
           /\ \A k \in Keys : pending[k] # NoOne =>
                 \E j \in DOMAIN rejected : rejected[j] = pending[k]
           /\ \A j \in DOMAIN rejected : \E k \in Keys : rejected[j] = pending[k]
           /\ \A i, j \in DOMAIN rejected : rejected[i] = rejected[j] => i = j
<1>. DEFINE S == {pending[k] : k \in Keys} \ {NoOne}
            n == Cardinality(S)
<1>1. IsFiniteSet(Keys)
  <2>1. IsFiniteSet(Topics)
    <3>1. Channels \in [1..Len(Channels) -> Topics] /\ Len(Channels) \in Nat
      BY TsClientAssumption
    <3>2. IsFiniteSet(1..Len(Channels))
      BY <3>1, FS_Interval
    <3>3. Topics = {Channels[i] : i \in 1..Len(Channels)}
      BY <3>1 DEF Topics, ToSet
    <3>. QED  BY <3>1, <3>2, <3>3, RangeFinite
  <2>2. IsFiniteSet({"sub", "unsub", "replay"})
    <3>1. IsFiniteSet({"sub"})
      BY FS_Singleton
    <3>2. IsFiniteSet({"sub"} \cup {"unsub"})
      BY <3>1, FS_AddElement
    <3>3. IsFiniteSet(({"sub"} \cup {"unsub"}) \cup {"replay"})
      BY <3>2, FS_AddElement
    <3>4. {"sub", "unsub", "replay"} = ({"sub"} \cup {"unsub"}) \cup {"replay"}
      OBVIOUS
    <3>. QED  BY <3>3, <3>4
  <2>. QED  BY <2>1, <2>2, FS_Product DEF Keys
<1>2. IsFiniteSet({pending[k] : k \in Keys})
  <2>1. pending = [k \in Keys |-> pending[k]] /\ DOMAIN pending = Keys
    BY DEF ClientFits, ReqsFit
  <2>. QED  BY <1>1, <2>1, RangeFinite
<1>3. IsFiniteSet(S) /\ n \in Nat
  BY <1>2, FS_RemoveElement, FS_CardinalityType
<1>4. S \subseteq Callers
  BY DEF ClientFits, ReqsFit
<1>. HIDE DEF S
<1>5. /\ rejected \in [1..n -> S]
      /\ \A i, j \in 1..n : i # j => rejected[i] # rejected[j]
  BY DEF SetToSeqs, S
<1>6. rejected \in Injection(1..n, S)
  BY <1>5 DEF Injection, IsInjective
<1>7. Cardinality(1..n) = n
  BY <1>3, FS_Interval
<1>8. rejected \in Surjection(1..n, S)
  BY <1>3, <1>6, <1>7, FS_Injection
<1>9. \A w \in S : \E j \in 1..n : rejected[j] = w
  BY <1>8 DEF Surjection
<1>10. DOMAIN rejected = 1..n /\ rejected \in Seq(Callers)
  BY <1>3, <1>4, <1>5
<1>11. \A k \in Keys : pending[k] # NoOne => pending[k] \in S
  BY DEF S
<1>12. \A j \in DOMAIN rejected : \E k \in Keys : rejected[j] = pending[k]
  <2>1. \A w \in S : \E k \in Keys : w = pending[k]
    BY DEF S
  <2>. QED  BY <1>5, <1>10, <2>1
<1>. QED  BY <1>5, <1>9, <1>10, <1>11, <1>12

LEMMA OnCloseFits ==
    ASSUME ClientFits, NEW s \in Sockets, sock[s] \in Live, OnClose(s), faults' \in Nat,
           Len(calls) + faults' <= MaxUpsets
    PROVE  ClientFits'
<1>1. /\ sock' = [sock EXCEPT ![s] = "closed"]
      /\ heartbeat' = FALSE
      /\ wire' = [wire EXCEPT ![s] = <<>>]
      /\ granted' = [granted EXCEPT ![s] = {}]
      /\ pending' = [k \in Keys |-> NoOne]
      /\ welcomed' = welcomed \ {s}
      /\ opener' = [opener EXCEPT ![s] = NoOne]
      /\ UNCHANGED <<closedByUser, ws, deadlines, subscribed, seen, calls, pass>>
  BY DEF OnClose, appVars
<1>2. /\ sock \in [Sockets -> SocketStates]
      /\ opener \in [Sockets -> Callers \cup {Timer, NoOne}]
  BY DEF ClientFits, ConnFits
<1>3. Callers = Callers' /\ JobRow = JobRow'
  BY <1>1 DEF Callers, JobRow
<1>4. /\ state' \in ConnectionStates /\ attempts' \in Nat /\ timers' \in Nat
      /\ mishaps' \subseteq Mishaps
  <2>1. CASE closedByUser
    BY <2>1 DEF OnClose, ClientFits, ConnFits, SockFits, ReqsFit, ConnectionStates
  <2>2. CASE ~closedByUser
    BY <2>2, ScheduleFits DEF OnClose
  <2>. QED  BY <2>1, <2>2
<1>5. ConnFits' /\ SockFits'
  BY <1>1, <1>2, <1>3, <1>4 DEF ClientFits, ConnFits, SockFits, SocketStates
<1>6. Opening'
  BY <1>1, <1>2 DEF ClientFits, Opening, Live
<1>7. ReqsFit'
  BY <1>1, <1>3, <1>4 DEF ClientFits, ReqsFit
<1>8. AppFits' /\ PassFits'
  BY <1>1, PassStays DEF ClientFits, AppFits
<1>9. JobsFit'
  <2>. DEFINE failed == IF closedByUser \/ s \in welcomed THEN <<>>
                        ELSE <<Settled(opener[s], FALSE)>>
              closed(rejected) == [j \in DOMAIN rejected |-> Settled(rejected[j], FALSE)]
  <2>1. PICK rejected \in SetToSeqs({pending[k] : k \in Keys} \ {NoOne}) :
           jobs' = closed(rejected) \o failed
    BY DEF OnClose
  <2>2. rejected \in Seq(Callers)
    BY RejectedAre
  <2>3. failed \in Seq(JobRow)
    <3>1. CASE closedByUser \/ s \in welcomed
      BY <3>1, NoJobs
    <3>2. CASE ~(closedByUser \/ s \in welcomed)
      <4>1. opener[s] \in Callers \cup {Timer}
        BY <1>2, <3>2 DEF ClientFits, Opening
      <4>2. Settled(opener[s], FALSE) \in JobRow
        BY <4>1 DEF Settled, JobRow
      <4>. QED  BY <3>2, <4>2, SeqOne
    <3>. QED  BY <3>1, <3>2
  <2>4. closed(rejected) \in Seq(JobRow)
    <3>1. \A w \in Callers : Settled(w, FALSE) \in JobRow
      BY DEF Settled, JobRow
    <3>2. DOMAIN rejected = 1..Len(rejected) /\ Len(rejected) \in Nat
          /\ \A j \in 1..Len(rejected) : rejected[j] \in Callers
      BY <2>2
    <3>3. closed(rejected) \in [1..Len(rejected) -> JobRow]
      BY <3>1, <3>2
    <3>. HIDE DEF closed
    <3>. QED  BY <3>2, <3>3
  <2>. HIDE DEF failed, closed
  <2>5. jobs' \in Seq(JobRow)
    BY <2>1, <2>3, <2>4, SeqJoin
  <2>. QED  BY <1>3, <2>5 DEF JobsFit
<1>. QED  BY <1>5, <1>6, <1>7, <1>8, <1>9 DEF ClientFits

LEMMA SocketFits ==
    ASSUME ClientFits, NEW s \in Sockets, SocketEvent(s)
    PROVE  ClientFits'
<1>. USE TsClientAssumption
<1>1. /\ sock \in [Sockets -> SocketStates]
      /\ opener \in [Sockets -> Callers \cup {Timer, NoOne}]
      /\ wire \in [Sockets -> Seq(Keys)]
  BY DEF ClientFits, ConnFits, ReqsFit
<1>2. ASSUME NEW next \in {"dialing", "open"}, sock[s] \in {"token", "dialing"},
             sock' = [sock EXCEPT ![s] = next], ws' \in Sockets \cup {0},
             UNCHANGED <<state, closedByUser, attempts, opener, heartbeat, welcomed,
                         timers, granted>>,
             UNCHANGED <<reqVars, appVars, jobs, faults, mishaps>>
      PROVE  ClientFits'
  <2>1. AppFits' /\ PassFits' /\ Callers = Callers' /\ JobRow = JobRow'
    BY <1>2, PassStays DEF appVars, ClientFits, AppFits, Callers, JobRow
  <2>2. ConnFits' /\ SockFits'
    BY <1>1, <1>2, <2>1 DEF ClientFits, ConnFits, SockFits, SocketStates, Live
  <2>3. Opening'
    BY <1>1, <1>2 DEF ClientFits, Opening, Live
  <2>4. ReqsFit' /\ JobsFit'
    BY <1>2, <2>1, ReqsStay, JobsStay DEF ClientFits, ReqsFit
  <2>. QED  BY <2>1, <2>2, <2>3, <2>4 DEF ClientFits
<1>3. CASE Dial(s)
  <2>1. ws' = s
    BY <1>3 DEF Dial
  <2>. QED  BY <1>2, <1>3, <2>1 DEF Dial
<1>4. CASE Opened(s)
  <2>1. ws' \in Sockets \cup {0}
    BY <1>4 DEF Opened, sockVars, ClientFits, SockFits
  <2>. QED  BY <1>2, <1>4, <2>1 DEF Opened, sockVars
<1>5. CASE TokenFails(s)
  <2>1. /\ sock[s] = "token" /\ sock' = [sock EXCEPT ![s] = "closed"]
        /\ ~Quiet /\ faults' = faults + 1
        /\ state' = "FAILED" /\ jobs' = <<Settled(opener[s], FALSE)>>
        /\ opener' = [opener EXCEPT ![s] = NoOne]
        /\ UNCHANGED <<closedByUser, attempts, heartbeat, ws, welcomed, timers, granted>>
        /\ mishaps' \subseteq mishaps \cup {"gave up"}
        /\ UNCHANGED <<reqVars, subscribed, seen, calls, pass>>
    BY <1>5, GivesUp DEF TokenFails, Fault, sockVars, appVars
  <2>2. Callers = Callers' /\ JobRow = JobRow'
    BY <2>1 DEF Callers, JobRow
  <2>3. ConnFits' /\ SockFits'
    BY <1>1, <2>1, <2>2 DEF ClientFits, ConnFits, SockFits, SocketStates, ConnectionStates
  <2>4. Opening'
    BY <1>1, <2>1 DEF ClientFits, Opening, Live
  <2>5. ReqsFit' /\ PassFits'
    <3>1. mishaps' \subseteq Mishaps
      BY <2>1 DEF ClientFits, ReqsFit, Mishaps
    <3>. QED  BY <2>1, <2>2, <3>1, MishapsFit, PassStays DEF ClientFits
  <2>6. AppFits'
    <3>1. Len(calls) \in Nat /\ faults \in Nat /\ Len(calls) + faults <= MaxUpsets
      BY DEF ClientFits, AppFits
    <3>2. UNCHANGED <<subscribed, seen, calls>>
      BY <2>1
    <3>3. ~Quiet /\ faults' = faults + 1
      BY <2>1
    <3>4. faults' \in Nat /\ Len(calls') + faults' <= MaxUpsets
      BY <3>1, <3>2, <3>3 DEF Quiet
    <3>. QED  BY <3>2, <3>4 DEF ClientFits, AppFits
  <2>7. JobsFit'
    <3>1. opener[s] \in Callers \cup {Timer}
      BY <1>1, <2>1 DEF ClientFits, Opening, Live
    <3>2. Settled(opener[s], FALSE) \in JobRow
      BY <3>1 DEF Settled, JobRow
    <3>3. jobs' \in Seq(JobRow)
      BY <2>1, <3>2, SeqOne
    <3>. QED  BY <2>2, <3>3 DEF JobsFit
  <2>. QED  BY <2>3, <2>4, <2>5, <2>6, <2>7 DEF ClientFits
<1>6. CASE Welcome(s)
  <2>. DEFINE rest == IF opener[s] = Timer THEN <<>> ELSE <<Settled(opener[s], TRUE)>>
  <2>1. /\ sock[s] = "open" /\ s \notin welcomed /\ welcomed' = welcomed \cup {s}
        /\ attempts' = 0 /\ state' = "CONNECTED" /\ heartbeat' = TRUE
        /\ jobs' = <<Settled(Pass(s), TRUE)>> \o rest
        /\ opener' = [opener EXCEPT ![s] = NoOne]
        /\ UNCHANGED <<closedByUser, sock, ws, timers, granted, reqVars, appVars>>
        /\ UNCHANGED <<faults, mishaps>>
    BY <1>6 DEF Welcome
  <2>2. AppFits' /\ PassFits' /\ Callers = Callers' /\ JobRow = JobRow'
    BY <2>1, PassStays DEF appVars, ClientFits, AppFits, Callers, JobRow
  <2>3. ConnFits' /\ SockFits'
    BY <1>1, <2>1, <2>2 DEF ClientFits, ConnFits, SockFits, ConnectionStates
  <2>4. Opening'
    BY <1>1, <2>1 DEF ClientFits, Opening, Live
  <2>5. ReqsFit'
    BY <2>1, <2>2, ReqsStay DEF ClientFits, ReqsFit
  <2>6. JobsFit'
    <3>1. opener[s] \in Callers \cup {Timer}
      BY <1>1, <2>1 DEF ClientFits, Opening, Live
    <3>2. Settled(opener[s], TRUE) \in JobRow /\ Settled(Pass(s), TRUE) \in JobRow
      BY <3>1 DEF Settled, JobRow, Callers
    <3>3. rest \in Seq(JobRow) /\ <<Settled(Pass(s), TRUE)>> \in Seq(JobRow)
      BY <3>2, SeqOne, NoJobs
    <3>. HIDE DEF rest
    <3>4. jobs' \in Seq(JobRow)
      BY <2>1, <3>3, SeqJoin
    <3>. QED  BY <2>2, <3>4 DEF JobsFit
  <2>. QED  BY <2>2, <2>3, <2>4, <2>5, <2>6 DEF ClientFits
<1>7. \A k \in Keys, ok \in BOOLEAN : Outcome(k, ok) \in Seq(JobRow)
  <2>1. ASSUME NEW k \in Keys, NEW ok \in BOOLEAN, pending[k] # NoOne
        PROVE  Settled(pending[k], ok) \in JobRow
    BY <2>1 DEF ClientFits, ReqsFit, Settled, JobRow
  <2>. QED  BY <2>1, SeqOne, NoJobs DEF Outcome
<1>8. CASE Answer(s)
  <2>. DEFINE k == Head(wire[s])
              t == k[2]
  <2>1. wire[s] \in Seq(Keys) /\ wire[s] # <<>>
    BY <1>1, <1>8 DEF Answer
  <2>2. k \in Keys /\ Tail(wire[s]) \in Seq(Keys)
    BY <2>1
  <2>3. t \in Topics
    BY <2>2 DEF Keys
  <2>4. /\ wire' = [wire EXCEPT ![s] = Tail(wire[s])]
        /\ granted' \in {granted, [granted EXCEPT ![s] = granted[s] \cup {t}],
                         [granted EXCEPT ![s] = granted[s] \ {t}]}
        /\ jobs' = Outcome(k, TRUE)
        /\ pending' = [pending EXCEPT ![k] = NoOne]
        /\ seen' \in {seen, seen \cup {t}}
        /\ UNCHANGED connVars
        /\ UNCHANGED <<heartbeat, ws, welcomed, timers, deadlines, subscribed, calls,
                       pass, faults, mishaps>>
    BY <1>8, <1>1 DEF Answer, ClientFits, SockFits
  <2>. HIDE DEF k, t
  <2>5. Callers = Callers' /\ JobRow = JobRow'
    BY <2>4 DEF Callers, JobRow
  <2>6. ConnFits' /\ Opening'
    BY <2>4, <2>5, ConnStays
  <2>7. SockFits' /\ PassFits'
    BY <2>3, <2>4, PassStays DEF ClientFits, SockFits
  <2>8. AppFits'
    BY <2>3, <2>4 DEF ClientFits, AppFits
  <2>9. ReqsFit'
    BY <2>2, <2>4, <2>5 DEF ClientFits, ReqsFit
  <2>10. JobsFit'
    BY <1>7, <2>2, <2>4, <2>5 DEF JobsFit
  <2>. QED  BY <2>6, <2>7, <2>8, <2>9, <2>10 DEF ClientFits
<1>9. CASE Refuse(s)
  <2>. DEFINE t == Head(wire[s])[2]
  <2>1. wire[s] \in Seq(Keys) /\ wire[s] # <<>>
    BY <1>1, <1>9 DEF Refuse
  <2>2. Head(wire[s]) \in Keys /\ Tail(wire[s]) \in Seq(Keys)
    BY <2>1
  <2>3. <<"sub", t>> \in Keys /\ <<"replay", t>> \in Keys
    BY <2>2 DEF Keys
  <2>4. /\ wire' = [wire EXCEPT ![s] = Tail(wire[s])]
        /\ ~Quiet /\ faults' = faults + 1
        /\ RejectTopic(t)
        /\ mishaps' = mishaps \cup {"refused"}
        /\ UNCHANGED <<connVars, deadlines, pass, welcomed>>
        /\ UNCHANGED <<heartbeat, ws, timers, granted>>
        /\ UNCHANGED <<subscribed, seen, calls>>
    BY <1>9 DEF Refuse, Fault, sockVars, appVars
  <2>. HIDE DEF t
  <2>5. Callers = Callers' /\ JobRow = JobRow'
    BY <2>4 DEF Callers, JobRow
  <2>6. ConnFits' /\ Opening'
    BY <2>4, <2>5, ConnStays
  <2>7. SockFits' /\ PassFits'
    BY <2>4, PassStays, SockStays
  <2>8. AppFits'
    BY <2>4 DEF ClientFits, AppFits, Quiet
  <2>9. ReqsFit'
    BY <2>2, <2>3, <2>4, <2>5 DEF ClientFits, ReqsFit, RejectTopic, Mishaps
  <2>10. JobsFit'
    <3>1. jobs' = Outcome(<<"sub", t>>, FALSE) \o Outcome(<<"replay", t>>, FALSE)
      BY <2>4 DEF RejectTopic
    <3>2. jobs' \in Seq(JobRow)
      BY <1>7, <2>3, <3>1, SeqJoin
    <3>. QED  BY <2>5, <3>2 DEF JobsFit
  <2>. QED  BY <2>6, <2>7, <2>8, <2>9, <2>10 DEF ClientFits
<1>10. ASSUME NEW t \in Topics, Event(s, t) PROVE ClientFits'
  <2>1. /\ seen' = seen \cup {t}
        /\ UNCHANGED <<connVars, reqVars, pass, jobs, welcomed, mishaps>>
        /\ UNCHANGED <<heartbeat, ws, timers, granted>>
        /\ UNCHANGED <<subscribed, calls, faults>>
    BY <1>10 DEF Event, sockVars
  <2>2. AppFits' /\ Callers = Callers' /\ JobRow = JobRow'
    BY <2>1 DEF ClientFits, AppFits, Callers, JobRow
  <2>3. ConnFits' /\ Opening' /\ SockFits' /\ PassFits' /\ JobsFit'
    BY <2>1, <2>2, ConnStays, SockStays, PassStays, JobsStay
  <2>4. ReqsFit'
    BY <2>1, <2>2, ReqsStay DEF ClientFits, ReqsFit
  <2>. QED  BY <2>2, <2>3, <2>4 DEF ClientFits
<1>11. CASE Lost(s)
  <2>1. sock[s] \in Live /\ OnClose(s) /\ ~Quiet /\ faults' = faults + 1
    BY <1>11 DEF Lost, Fault, Live
  <2>2. faults' \in Nat /\ Len(calls) + faults' <= MaxUpsets
    BY <2>1 DEF ClientFits, AppFits, Quiet
  <2>. QED  BY <2>1, <2>2, OnCloseFits
<1>12. CASE Closed(s)
  <2>1. sock[s] \in Live /\ OnClose(s) /\ faults' = faults
    BY <1>12 DEF Closed, Live
  <2>2. faults' \in Nat /\ Len(calls) + faults' <= MaxUpsets
    BY <2>1 DEF ClientFits, AppFits
  <2>. QED  BY <2>1, <2>2, OnCloseFits
<1>. QED
  BY <1>3, <1>4, <1>5, <1>6, <1>8, <1>9, <1>10, <1>11, <1>12 DEF SocketEvent

LEMMA TimersFit ==
    ASSUME ClientFits, \/ ReconnectTimer
                      \/ \E d \in deadlines : Deadline(d[1], d[2])
    PROVE  ClientFits'
<1>. USE TsClientAssumption
<1>1. CASE ReconnectTimer
  <2>1. /\ timers > 0 /\ timers' = timers - 1
        /\ IF closedByUser THEN UNCHANGED <<state, sock, opener>> ELSE Open(Timer)
        /\ UNCHANGED <<closedByUser, attempts, heartbeat, ws, welcomed, granted, jobs>>
        /\ UNCHANGED <<reqVars, pass, mishaps>>
        /\ UNCHANGED <<subscribed, seen, calls, faults>>
    BY <1>1 DEF ReconnectTimer, ReconnectUnless, appVars
  <2>2. /\ AppFits' /\ PassFits' /\ Callers = Callers' /\ JobRow = JobRow'
    BY <2>1, AppStays, PassStays DEF Callers, JobRow
  <2>3. JobsFit' /\ SockFits'
    BY <2>1, <2>2, JobsStay DEF ClientFits, SockFits
  <2>4. ReqsFit'
    BY <2>1, <2>2, ReqsStay DEF ClientFits, ReqsFit
  <2>5. ConnFits' /\ Opening'
    <3>1. CASE closedByUser
      BY <2>1, <2>2, <3>1, ConnStays DEF connVars
    <3>2. CASE ~closedByUser
      <4>1. Timer # NoOne /\ closedByUser' \in BOOLEAN
        BY <2>1, Apart DEF ClientFits, ConnFits
      <4>. QED  BY <2>1, <2>2, <3>2, <4>1, OpenFits
    <3>. QED  BY <3>1, <3>2
  <2>. QED  BY <2>2, <2>3, <2>4, <2>5 DEF ClientFits
<1>2. ASSUME NEW d \in deadlines, Deadline(d[1], d[2]) PROVE ClientFits'
  <2>1. d[1] \in Callers /\ d[2] \in Keys
    BY DEF ClientFits, ReqsFit
  <2>2. /\ ~Quiet /\ faults' = faults + 1
        /\ deadlines' \subseteq deadlines
        /\ pending' = [pending EXCEPT ![d[2]] = NoOne]
        /\ jobs' = <<Settled(d[1], FALSE)>> \/ jobs' = <<>>
        /\ mishaps' \subseteq mishaps \cup {"timeout", "overlap"}
        /\ UNCHANGED <<connVars, wire, pass, welcomed>>
        /\ UNCHANGED <<heartbeat, ws, timers, granted>>
        /\ UNCHANGED <<subscribed, seen, calls>>
    BY <1>2 DEF Deadline, Fault, sockVars, appVars
  <2>3. Callers = Callers' /\ JobRow = JobRow'
    BY <2>2 DEF Callers, JobRow
  <2>4. ConnFits' /\ Opening' /\ SockFits' /\ PassFits'
    BY <2>2, <2>3, ConnStays, SockStays, PassStays
  <2>5. AppFits'
    BY <2>2 DEF ClientFits, AppFits, Quiet
  <2>6. ReqsFit'
    BY <2>2, <2>3 DEF ClientFits, ReqsFit, Mishaps
  <2>7. JobsFit'
    <3>1. Settled(d[1], FALSE) \in JobRow
      BY <2>1 DEF Settled, JobRow
    <3>2. jobs' \in Seq(JobRow)
      BY <2>2, <3>1, SeqOne, NoJobs
    <3>. QED  BY <2>3, <3>2 DEF JobsFit
  <2>. QED  BY <2>4, <2>5, <2>6, <2>7 DEF ClientFits
<1>. QED  BY <1>1, <1>2

LEMMA ClientFitsNext == ClientFits /\ [Next]_vars => ClientFits'
<1>. SUFFICES ASSUME ClientFits, [Next]_vars PROVE ClientFits'
  OBVIOUS
<1>1. CASE UNCHANGED vars
  <2>1. /\ UNCHANGED <<connVars, welcomed, reqVars, pass, jobs, mishaps>>
        /\ UNCHANGED <<heartbeat, ws, timers, granted>>
        /\ UNCHANGED <<subscribed, seen, calls, faults>>
    BY <1>1 DEF vars, sockVars, appVars
  <2>2. AppFits' /\ Callers \subseteq Callers' /\ JobRow \subseteq JobRow'
    BY <2>1, AppStays
  <2>3. ConnFits' /\ Opening' /\ SockFits' /\ PassFits' /\ JobsFit'
    BY <2>1, <2>2, ConnStays, SockStays, PassStays, JobsStay
  <2>4. ReqsFit'
    BY <2>1, <2>2, ReqsStay DEF ClientFits, ReqsFit
  <2>. QED  BY <2>2, <2>3, <2>4 DEF ClientFits
<1>. QED
  BY <1>1, RunJobFits, ApplicationFits, SocketFits, TimersFit DEF Next

(* Whoever beacn.ts keeps, in this.pending, as a socket's opener or in the   *)
(* queue of continuations, is a call the application made, a resubscribe    *)
(* pass or the reconnect timer, and every variable keeps its type.          *)
THEOREM ClientTypes == Spec => []TypeOK
  BY ClientFitsInit, ClientFitsNext, ClientFitsTypes, PTL DEF Spec

-----------------------------------------------------------------------------
(***************************************************************************)
(* No call of the application is forgotten.  What a call waits for is in    *)
(* the queue of continuations, in a socket's opener or in this.pending, and *)
(* every entry of this.pending has its request on the wire of a socket that *)
(* will answer or close: an entry leaves with its request, never without.   *)
(***************************************************************************)
HeardIn(list, n) == \E j \in DOMAIN list : list[j].who = AppCall(n)
HeardElse(n) == \/ \E s \in Sockets : opener[s] = AppCall(n)
                \/ \E k \in Keys : pending[k] = AppCall(n)
Heard(n) == HeardIn(jobs, n) \/ HeardElse(n)

AllHeard ==
    ~ExcusesCalls => \A n \in DOMAIN calls : calls[n].at = "over" \/ Heard(n)

OnWire(s, k) == \E i \in DOMAIN wire[s] : wire[s][i] = k

Carried ==
    \A k \in Keys : pending[k] # NoOne =>
        \E s \in Sockets : sock[s] \in {"open", "closing"} /\ OnWire(s, k)

SaidDisconnect == closedByUser => "disconnect" \in mishaps

\* A call whose entry is in this.pending waits for that request, or is over.
EntryFits ==
    \A k \in Keys : \A n \in DOMAIN calls :
        pending[k] = AppCall(n) => calls[n].at \in {k[1], "over"}

HeardInv == AllHeard /\ Carried /\ SaidDisconnect /\ EntryFits

LEMMA HeardInvInit == Init => HeardInv
  BY TsClientAssumption DEF Init, HeardInv, AllHeard, Carried, SaidDisconnect, EntryFits

LEMMA HeardInvHears == ClientFits /\ HeardInv => NoneForgotten
<1>. SUFFICES ASSUME ClientFits, HeardInv, NEW n \in DOMAIN calls, Unanswered(n)
              PROVE  Awaited(n)
  BY DEF NoneForgotten
<1>1. Heard(n)
  BY DEF HeardInv, AllHeard, Unanswered
<1>2. CASE HeardIn(jobs, n)
  BY <1>2 DEF HeardIn, Awaited
<1>3. ASSUME NEW s \in Sockets, opener[s] = AppCall(n) PROVE Awaited(n)
  BY <1>3, Apart DEF ClientFits, Opening, Awaited
<1>4. ASSUME NEW k \in Keys, pending[k] = AppCall(n) PROVE Awaited(n)
  <2>1. PICK s \in Sockets : sock[s] \in {"open", "closing"} /\ OnWire(s, k)
    BY <1>4, Apart DEF HeardInv, Carried
  <2>2. k \in ToSet(wire[s])
    BY <2>1 DEF OnWire, ToSet
  <2>. QED  BY <1>4, <2>1, <2>2 DEF Awaited
<1>. QED  BY <1>1, <1>2, <1>3, <1>4 DEF Heard, HeardElse

\* What is known of mishaps is not forgotten.
LEMMA Unexcused ==
    ASSUME mishaps \subseteq mishaps', ~ExcusesCalls'
    PROVE  ~ExcusesCalls
  BY DEF ExcusesCalls

LEMMA CarriedStays ==
    ASSUME Carried, UNCHANGED <<sock, wire>>,
           \A k \in Keys : pending'[k] # NoOne => pending[k] # NoOne
    PROVE  Carried'
  BY DEF Carried, OnWire

LEMMA OpenHeard ==
    ASSUME ClientFits, NEW who, Open(who)
    PROVE  /\ \A n : (\E s \in Sockets : opener[s] = AppCall(n)) =>
                        \E s \in Sockets : opener'[s] = AppCall(n)
           /\ \E s \in Sockets : opener'[s] = who
           /\ (Carried /\ UNCHANGED reqVars) => Carried'
<1>1. PICK s \in Sockets : /\ sock[s] = "none"
                           /\ sock' = [sock EXCEPT ![s] = "token"]
                           /\ opener' = [opener EXCEPT ![s] = who]
  BY DEF Open
<1>2. sock \in [Sockets -> SocketStates] /\ DOMAIN opener = Sockets
  BY DEF ClientFits, ConnFits
<1>3. opener[s] = NoOne
  BY <1>1 DEF ClientFits, Opening, Live
<1>4. ASSUME NEW n, \E r \in Sockets : opener[r] = AppCall(n)
      PROVE  \E r \in Sockets : opener'[r] = AppCall(n)
  <2>1. PICK r \in Sockets : opener[r] = AppCall(n)
    BY <1>4
  <2>2. opener'[r] = AppCall(n)
    BY <1>1, <1>2, <1>3, <2>1, Apart
  <2>. QED  BY <2>2
<1>5. ASSUME Carried, UNCHANGED reqVars PROVE Carried'
  <2>1. \A r \in Sockets : sock[r] \in {"open", "closing"} => sock'[r] = sock[r]
    BY <1>1, <1>2
  <2>. QED  BY <1>5, <2>1 DEF Carried, OnWire, reqVars
<1>. QED  BY <1>1, <1>2, <1>4, <1>5

LEMMA AwaitHeard ==
    ASSUME ClientFits, Carried, NEW who, NEW k \in Keys, NEW T, NEW work \in Seq(T),
           Await(who, k, work)
    PROVE  /\ \A n : ~ExcusesCalls' /\ (HeardIn(work, n) \/ HeardElse(n)) => Heard(n)'
           /\ \A n : who = AppCall(n) => Heard(n)'
           /\ Carried'
           /\ mishaps \subseteq mishaps'
<1>1. /\ pending \in [Keys -> Callers \cup {NoOne}] /\ wire \in [Sockets -> Seq(Keys)]
      /\ ws \in Sockets \cup {0}
  BY DEF ClientFits, ReqsFit, SockFits
<1>2. mishaps \subseteq mishaps' /\ UNCHANGED <<opener, sock>>
  BY DEF Await, connVars
<1>3. ~ExcusesCalls' => pending[k] = NoOne
  BY DEF Await, ExcusesCalls
<1>4. CASE CanSend
  <2>1. /\ pending' = [pending EXCEPT ![k] = who]
        /\ wire' = [wire EXCEPT ![ws] = Append(@, k)]
        /\ jobs' = work
    BY <1>4 DEF Await
  <2>2. ws \in Sockets /\ sock[ws] = "open" /\ wire[ws] \in Seq(Keys)
    BY <1>1, <1>4 DEF CanSend
  <2>3. ASSUME NEW n, ~ExcusesCalls', HeardIn(work, n) \/ HeardElse(n) PROVE Heard(n)'
    <3>1. CASE HeardIn(work, n)
      BY <2>1, <3>1 DEF Heard, HeardIn
    <3>2. CASE \E s \in Sockets : opener[s] = AppCall(n)
      BY <1>2, <3>2 DEF Heard, HeardElse
    <3>3. ASSUME NEW q \in Keys, pending[q] = AppCall(n) PROVE Heard(n)'
      <4>1. pending'[q] = AppCall(n)
        BY <1>1, <1>3, <2>1, <2>3, <3>3, Apart
      <4>. QED  BY <4>1 DEF Heard, HeardElse
    <3>. QED  BY <2>3, <3>1, <3>2, <3>3 DEF HeardElse
  <2>4. \A n : who = AppCall(n) => Heard(n)'
    <3>1. pending'[k] = who
      BY <1>1, <2>1
    <3>. QED  BY <3>1 DEF Heard, HeardElse
  <2>5. Carried'
    <3>1. \A s \in Sockets : \A q : OnWire(s, q) => OnWire(s, q)'
      <4>. SUFFICES ASSUME NEW s \in Sockets, NEW q, OnWire(s, q) PROVE OnWire(s, q)'
        OBVIOUS
      <4>1. PICK i \in DOMAIN wire[s] : wire[s][i] = q
        BY DEF OnWire
      <4>2. wire[s] \in Seq(Keys)
        BY <1>1
      <4>3. i \in DOMAIN wire'[s] /\ wire'[s][i] = q
        BY <1>1, <2>1, <2>2, <4>1, <4>2
      <4>. QED  BY <4>3 DEF OnWire
    <3>2. ASSUME NEW s \in Sockets, s = ws PROVE OnWire(s, k)'
      <4>1. wire'[s] = Append(wire[s], k) /\ wire[s] \in Seq(Keys)
        BY <1>1, <2>1, <2>2, <3>2
      <4>2. Len(wire[s]) + 1 \in DOMAIN wire'[s] /\ wire'[s][Len(wire[s]) + 1] = k
        BY <4>1
      <4>. QED  BY <4>2 DEF OnWire
    <3>3. ASSUME NEW q \in Keys, pending'[q] # NoOne, q # k
          PROVE  \E s \in Sockets : sock'[s] \in {"open", "closing"} /\ OnWire(s, q)'
      <4>1. pending[q] # NoOne
        BY <1>1, <2>1, <3>3
      <4>. QED  BY <1>2, <3>1, <4>1 DEF Carried
    <3>4. \E s \in Sockets : sock'[s] \in {"open", "closing"} /\ OnWire(s, k)'
      BY <1>2, <2>2, <3>2
    <3>. QED  BY <3>3, <3>4 DEF Carried
  <2>. QED  BY <1>2, <2>3, <2>4, <2>5
<1>5. CASE ~CanSend
  <2>1. /\ pending' = [pending EXCEPT ![k] = NoOne]
        /\ jobs' = Append(work, Settled(who, FALSE))
        /\ UNCHANGED wire
    BY <1>5 DEF Await
  <2>2. /\ \A j \in DOMAIN work : j \in DOMAIN jobs' /\ jobs'[j] = work[j]
        /\ Len(work) + 1 \in DOMAIN jobs' /\ jobs'[Len(work) + 1] = Settled(who, FALSE)
    <3>. DEFINE row == Settled(who, FALSE)
                U == T \cup {row}
    <3>1. jobs' = Append(work, row)
      BY <2>1
    <3>2. work \in Seq(U) /\ row \in U
      BY SeqWiden
    <3>. HIDE DEF row, U
    <3>3. Len(work) \in Nat /\ DOMAIN work = 1..Len(work)
      BY <3>2
    <3>4. DOMAIN jobs' = 1..(Len(work) + 1) /\ jobs'[Len(work) + 1] = row
      BY <3>1, <3>2
    <3>5. \A j \in 1..Len(work) : jobs'[j] = work[j]
      BY <3>1, <3>2
    <3>. QED  BY <3>3, <3>4, <3>5 DEF row
  <2>3. ASSUME NEW n, ~ExcusesCalls', HeardIn(work, n) \/ HeardElse(n) PROVE Heard(n)'
    <3>1. CASE HeardIn(work, n)
      BY <2>2, <3>1 DEF Heard, HeardIn
    <3>2. CASE \E s \in Sockets : opener[s] = AppCall(n)
      BY <1>2, <3>2 DEF Heard, HeardElse
    <3>3. ASSUME NEW q \in Keys, pending[q] = AppCall(n) PROVE Heard(n)'
      <4>1. pending'[q] = AppCall(n)
        BY <1>1, <1>3, <2>1, <2>3, <3>3, Apart
      <4>. QED  BY <4>1 DEF Heard, HeardElse
    <3>. QED  BY <2>3, <3>1, <3>2, <3>3 DEF HeardElse
  <2>4. \A n : who = AppCall(n) => Heard(n)'
    <3>1. jobs'[Len(work) + 1].who = who
      BY <2>2 DEF Settled
    <3>. QED  BY <2>2, <3>1 DEF Heard, HeardIn
  <2>5. \A q \in Keys : pending'[q] # NoOne => pending[q] # NoOne
    BY <1>1, <2>1
  <2>6. Carried'
    BY <1>2, <2>1, <2>5, CarriedStays
  <2>. QED  BY <1>2, <2>3, <2>4, <2>6
<1>. QED  BY <1>4, <1>5

LEMMA SubscribeHeard ==
    ASSUME ClientFits, Carried, NEW who, NEW t \in Topics, NEW T, NEW work \in Seq(T),
           Subscribe(who, t, work)
    PROVE  /\ \A n : ~ExcusesCalls' /\ (HeardIn(work, n) \/ HeardElse(n)) => Heard(n)'
           /\ \A n : who = AppCall(n) => Heard(n)'
           /\ Carried'
           /\ mishaps \subseteq mishaps'
<1>1. CASE state = "CONNECTED"
  <2>1. Await(who, <<"sub", t>>, work) /\ <<"sub", t>> \in Keys
    BY <1>1 DEF Subscribe, Keys
  <2>. QED  BY <2>1, AwaitHeard
<1>2. CASE state # "CONNECTED"
  <2>1. /\ Open(who) /\ jobs' = work /\ UNCHANGED <<reqVars, mishaps>>
    BY <1>2 DEF Subscribe
  <2>2. /\ \A n : (\E s \in Sockets : opener[s] = AppCall(n)) =>
                     \E s \in Sockets : opener'[s] = AppCall(n)
        /\ \E s \in Sockets : opener'[s] = who
        /\ Carried'
    BY <2>1, OpenHeard
  <2>3. \A n : (HeardIn(work, n) \/ HeardElse(n)) => Heard(n)'
    BY <2>1, <2>2 DEF Heard, HeardIn, HeardElse, reqVars
  <2>4. \A n : who = AppCall(n) => Heard(n)'
    BY <2>2 DEF Heard, HeardElse
  <2>. QED  BY <2>1, <2>2, <2>3, <2>4
<1>. QED  BY <1>1, <1>2

\* Where entries of this.pending come from.
LEMMA AwaitEntries ==
    ASSUME ClientFits, NEW who, NEW k \in Keys, NEW work, Await(who, k, work)
    PROVE  \A q \in Keys : pending'[q] \in {pending[q], NoOne}
                           \/ (q = k /\ pending'[q] = who)
  BY DEF Await, ClientFits, ReqsFit

LEMMA EnterIs ==
    ASSUME ClientFits, NEW op, NEW t, NEW at, Enter(op, t, at)
    PROVE  /\ DOMAIN calls' = 1..(Len(calls) + 1) /\ DOMAIN calls = 1..Len(calls)
           /\ Len(calls) \in Nat
           /\ \A n \in DOMAIN calls : calls'[n] = calls[n]
           /\ calls'[Len(calls) + 1] = [op |-> op, topic |-> t, at |-> at]
           /\ Me = AppCall(Len(calls) + 1)
           /\ \A k \in Keys : pending[k] # Me
<1>1. calls \in Seq(CallRow) /\ calls' = Append(calls, [op |-> op, topic |-> t, at |-> at])
  BY DEF ClientFits, AppFits, Enter
<1>. DEFINE row == [op |-> op, topic |-> t, at |-> at]
            U == CallRow \cup {row}
<1>2. calls \in Seq(U) /\ row \in U
  BY <1>1, SeqWiden
<1>3. calls' = Append(calls, row)
  BY <1>1
<1>. HIDE DEF row, U
<1>4. DOMAIN calls = 1..Len(calls) /\ Len(calls) \in Nat
  BY <1>2
<1>5. DOMAIN calls' = 1..(Len(calls) + 1) /\ calls'[Len(calls) + 1] = row
  BY <1>2, <1>3
<1>6. \A n \in 1..Len(calls) : calls'[n] = calls[n]
  BY <1>2, <1>3
<1>7. ASSUME NEW k \in Keys, pending[k] = Me PROVE FALSE
  <2>1. Me \in Callers
    BY <1>7, Apart DEF ClientFits, ReqsFit, Me
  <2>2. Len(calls) + 1 \in DOMAIN calls
    BY <2>1, Apart DEF Callers, Me
  <2>. QED  BY <1>4, <2>2
<1>. QED  BY <1>4, <1>5, <1>6, <1>7 DEF row, Me

LEMMA EntryFitsNew ==
    ASSUME ClientFits, EntryFits, NEW op, NEW t, NEW at, Enter(op, t, at),
           \A k \in Keys : pending'[k] \in {pending[k], NoOne}
                           \/ (k[1] = at /\ pending'[k] = Me)
    PROVE  EntryFits'
<1>0. /\ DOMAIN calls' = 1..(Len(calls) + 1) /\ DOMAIN calls = 1..Len(calls)
      /\ Len(calls) \in Nat
      /\ \A n \in DOMAIN calls : calls'[n] = calls[n]
      /\ calls'[Len(calls) + 1] = [op |-> op, topic |-> t, at |-> at]
      /\ Me = AppCall(Len(calls) + 1)
      /\ \A k \in Keys : pending[k] # Me
  BY EnterIs
<1>. SUFFICES ASSUME NEW k \in Keys, NEW n \in DOMAIN calls', pending'[k] = AppCall(n)
              PROVE  calls'[n].at \in {k[1], "over"}
  BY DEF EntryFits
<1>1. CASE n \in DOMAIN calls
  <2>1. pending[k] = AppCall(n)
    BY <1>0, <1>1, Apart
  <2>. QED  BY <1>0, <1>1, <2>1 DEF EntryFits
<1>2. CASE n \notin DOMAIN calls
  <2>1. n = Len(calls) + 1 /\ AppCall(n) = Me
    BY <1>0, <1>2
  <2>2. k[1] = at
    BY <1>0, <2>1, Apart
  <2>. QED  BY <1>0, <2>1, <2>2
<1>. QED  BY <1>1, <1>2

\* The new call is heard, and so is every other that was.
LEMMA AllHeardNew ==
    ASSUME ClientFits, HeardInv, NEW op, NEW t, NEW at, Enter(op, t, at),
           mishaps \subseteq mishaps',
           \A n : ~ExcusesCalls' /\ Heard(n) => Heard(n)',
           \A n : Me = AppCall(n) => Heard(n)'
    PROVE  AllHeard'
<1>0. /\ DOMAIN calls' = 1..(Len(calls) + 1) /\ DOMAIN calls = 1..Len(calls)
      /\ Len(calls) \in Nat
      /\ \A n \in DOMAIN calls : calls'[n] = calls[n]
      /\ calls'[Len(calls) + 1] = [op |-> op, topic |-> t, at |-> at]
      /\ Me = AppCall(Len(calls) + 1)
      /\ \A k \in Keys : pending[k] # Me
  BY EnterIs
<1>. SUFFICES ASSUME ~ExcusesCalls', NEW n \in DOMAIN calls', calls'[n].at # "over"
              PROVE  Heard(n)'
  BY DEF AllHeard
<1>1. ~ExcusesCalls
  BY Unexcused
<1>2. CASE n \in DOMAIN calls
  <2>1. calls[n].at # "over"
    BY <1>0, <1>2
  <2>. QED  BY <1>1, <1>2, <2>1 DEF HeardInv, AllHeard
<1>3. CASE n \notin DOMAIN calls
  <2>1. Me = AppCall(n)
    BY <1>0, <1>3
  <2>. QED  BY <2>1
<1>. QED  BY <1>2, <1>3

LEMMA ApplicationHeard ==
    ASSUME ClientFits, HeardInv, Application
    PROVE  HeardInv'
<1>1. Carried /\ EntryFits /\ SaidDisconnect
  BY DEF HeardInv
<1>2. CASE Connect
  <2>1. /\ closedByUser' = FALSE /\ Open(Me)
        /\ Enter("connect", Head(Channels), "connect")
        /\ UNCHANGED <<jobs, mishaps, reqVars>>
    BY <1>2 DEF Connect
  <2>2. /\ \A n : (\E s \in Sockets : opener[s] = AppCall(n)) =>
                     \E s \in Sockets : opener'[s] = AppCall(n)
        /\ \E s \in Sockets : opener'[s] = Me
        /\ Carried'
    BY <1>1, <2>1, OpenHeard
  <2>3. /\ \A n : Heard(n) => Heard(n)'
        /\ \A n : Me = AppCall(n) => Heard(n)'
    BY <2>1, <2>2 DEF Heard, HeardIn, HeardElse, reqVars
  <2>4. AllHeard'
    BY <2>1, <2>3, AllHeardNew
  <2>5. EntryFits'
    BY <1>1, <2>1, EntryFitsNew DEF reqVars
  <2>. QED  BY <2>1, <2>2, <2>4, <2>5 DEF HeardInv, SaidDisconnect
<1>3. CASE Disconnect
  <2>1. /\ \/ sock' = sock
           \/ ws # 0 /\ sock[ws] \in {"dialing", "open"} /\ sock' = [sock EXCEPT ![ws] = "closing"]
        /\ mishaps' = mishaps \cup {"disconnect"}
        /\ Enter("disconnect", Head(Channels), "over")
        /\ UNCHANGED reqVars
    BY <1>3 DEF Disconnect
  <2>2. AllHeard' /\ SaidDisconnect'
    BY <2>1 DEF AllHeard, SaidDisconnect, ExcusesCalls
  <2>3. Carried'
    <3>1. \A s \in Sockets : sock[s] \in {"open", "closing"} =>
             sock'[s] \in {"open", "closing"}
      BY <2>1 DEF ClientFits, ConnFits
    <3>. QED  BY <1>1, <2>1, <3>1 DEF Carried, OnWire, reqVars
  <2>4. EntryFits'
    BY <1>1, <2>1, EntryFitsNew DEF reqVars
  <2>. QED  BY <2>2, <2>3, <2>4 DEF HeardInv
<1>4. ASSUME NEW t \in Topics, ChannelSubscribe(t) PROVE HeardInv'
  <2>1. Idle /\ Subscribe(Me, t, <<>>) /\ Enter("sub", t, Subscribing)
    BY <1>4 DEF ChannelSubscribe, MayCall
  <2>2. <<>> \in Seq(JobRow)
    BY NoJobs
  <2>3. /\ \A n : ~ExcusesCalls' /\ (HeardIn(<<>>, n) \/ HeardElse(n)) => Heard(n)'
        /\ \A n : Me = AppCall(n) => Heard(n)'
        /\ Carried' /\ mishaps \subseteq mishaps'
    BY <1>1, <2>1, <2>2, SubscribeHeard
  <2>4. \A n : ~ExcusesCalls' /\ Heard(n) => Heard(n)'
    BY <2>1, <2>3 DEF Heard, HeardIn, Idle
  <2>5. AllHeard'
    BY <2>1, <2>3, <2>4, AllHeardNew
  <2>6. SaidDisconnect'
    BY <1>1, <2>1, <2>3 DEF Subscribe, Await, connVars, SaidDisconnect
  <2>7. EntryFits'
    <3>1. CASE state = "CONNECTED"
      <4>1. Await(Me, <<"sub", t>>, <<>>) /\ <<"sub", t>> \in Keys /\ Subscribing = "sub"
        BY <2>1, <3>1 DEF Subscribe, Subscribing, Keys
      <4>2. \A q \in Keys : pending'[q] \in {pending[q], NoOne}
                            \/ (q[1] = Subscribing /\ pending'[q] = Me)
        <5>1. \A q \in Keys : pending'[q] \in {pending[q], NoOne}
                              \/ (q = <<"sub", t>> /\ pending'[q] = Me)
          BY <4>1, AwaitEntries
        <5>. QED  BY <4>1, <5>1
      <4>. QED  BY <1>1, <2>1, <4>2, EntryFitsNew
    <3>2. CASE state # "CONNECTED"
      <4>1. pending' = pending
        BY <2>1, <3>2 DEF Subscribe, reqVars
      <4>. QED  BY <1>1, <2>1, <4>1, EntryFitsNew
    <3>. QED  BY <3>1, <3>2
  <2>. QED  BY <2>3, <2>5, <2>6, <2>7 DEF HeardInv
<1>5. ASSUME NEW k \in Keys, k[1] # "sub", ChannelRequest(k[1], k[2]) PROVE HeardInv'
  <2>1. <<k[1], k[2]>> \in Keys
    BY <1>5 DEF Keys
  <2>2. Idle /\ Await(Me, <<k[1], k[2]>>, <<>>) /\ Enter(k[1], k[2], k[1])
    BY <1>5 DEF ChannelRequest, MayCall
  <2>3. <<>> \in Seq(JobRow)
    BY NoJobs
  <2>4. /\ \A n : ~ExcusesCalls' /\ (HeardIn(<<>>, n) \/ HeardElse(n)) => Heard(n)'
        /\ \A n : Me = AppCall(n) => Heard(n)'
        /\ Carried' /\ mishaps \subseteq mishaps'
    BY <1>1, <2>1, <2>2, <2>3, AwaitHeard
  <2>5. \A n : ~ExcusesCalls' /\ Heard(n) => Heard(n)'
    BY <2>2, <2>4 DEF Heard, HeardIn, Idle
  <2>6. AllHeard'
    BY <2>2, <2>4, <2>5, AllHeardNew
  <2>7. SaidDisconnect'
    BY <1>1, <2>2, <2>4 DEF Await, connVars, SaidDisconnect
  <2>8. \A q \in Keys : pending'[q] \in {pending[q], NoOne}
                        \/ (q[1] = k[1] /\ pending'[q] = Me)
    <3>1. \A q \in Keys : pending'[q] \in {pending[q], NoOne}
                          \/ (q = <<k[1], k[2]>> /\ pending'[q] = Me)
      BY <2>1, <2>2, AwaitEntries
    <3>. QED  BY <3>1
  <2>9. EntryFits'
    BY <1>1, <2>2, <2>8, EntryFitsNew
  <2>. QED  BY <2>4, <2>6, <2>7, <2>9 DEF HeardInv
<1>. QED  BY <1>2, <1>3, <1>4, <1>5 DEF Application

\* What a step that makes no call has to show of the calls.
LEMMA AllHeardStays ==
    ASSUME HeardInv, calls' = calls, mishaps \subseteq mishaps',
           \A n \in DOMAIN calls :
              ~ExcusesCalls' /\ calls[n].at # "over" /\ Heard(n) => Heard(n)'
    PROVE  AllHeard'
<1>. SUFFICES ASSUME ~ExcusesCalls', NEW n \in DOMAIN calls, calls[n].at # "over"
              PROVE  Heard(n)'
  BY DEF AllHeard
<1>1. ~ExcusesCalls
  BY Unexcused
<1>. QED  BY <1>1 DEF HeardInv, AllHeard

LEMMA EntriesStay ==
    ASSUME EntryFits, calls' = calls,
           \A k \in Keys : \/ pending'[k] = pending[k]
                           \/ \A n : pending'[k] # AppCall(n)
    PROVE  EntryFits'
  BY DEF EntryFits

\* A step that settles nothing and opens nothing.
LEMMA QuietHeard ==
    ASSUME HeardInv, UNCHANGED <<opener, reqVars, calls, jobs, mishaps, closedByUser>>,
           \A s \in Sockets : sock[s] \in {"open", "closing"} =>
              sock'[s] \in {"open", "closing"}
    PROVE  HeardInv'
<1>1. \A n : Heard(n) => Heard(n)'
  BY DEF Heard, HeardIn, HeardElse, reqVars
<1>2. AllHeard'
  BY <1>1, AllHeardStays
<1>3. Carried'
  BY DEF HeardInv, Carried, OnWire, reqVars
<1>4. EntryFits' /\ SaidDisconnect'
  BY DEF HeardInv, EntryFits, SaidDisconnect, reqVars
<1>. QED  BY <1>2, <1>3, <1>4 DEF HeardInv

\* Whoever else was heard is heard without the job that runs.
LEMMA OthersHeard ==
    ASSUME ClientFits, ~Idle, NEW n, AppCall(n) # Head(jobs).who, Heard(n)
    PROVE  HeardIn(Tail(jobs), n) \/ HeardElse(n)
<1>1. jobs \in Seq(JobRow) /\ jobs # <<>>
  BY DEF ClientFits, JobsFit, Idle
<1>2. CASE HeardIn(jobs, n)
  <2>1. PICK j \in DOMAIN jobs : jobs[j].who = AppCall(n)
    BY <1>2 DEF HeardIn
  <2>2. DOMAIN jobs = 1..Len(jobs) /\ Len(jobs) \in Nat /\ Head(jobs) = jobs[1]
    BY <1>1
  <2>3. j \in 1..Len(jobs) /\ j # 1
    BY <2>1, <2>2
  <2>4. j - 1 \in 1..(Len(jobs) - 1) /\ DOMAIN Tail(jobs) = 1..(Len(jobs) - 1)
    BY <1>1, <2>2, <2>3
  <2>5. Tail(jobs)[j - 1] = jobs[j]
    BY <1>1, <2>2, <2>3, <2>4
  <2>. QED  BY <2>1, <2>4, <2>5 DEF HeardIn
<1>. QED  BY <1>2 DEF Heard

LEMMA CallMoves ==
    ASSUME ClientFits, NEW n \in DOMAIN calls, NEW at, calls' = [calls EXCEPT ![n].at = at]
    PROVE  /\ DOMAIN calls' = DOMAIN calls /\ calls'[n].at = at
           /\ \A m \in DOMAIN calls : m # n => calls'[m] = calls[m]
<1>1. calls[n] \in CallRow
  BY DEF ClientFits, AppFits
<1>2. [calls[n] EXCEPT !.at = at].at = at
  BY <1>1 DEF CallRow
<1>. QED  BY <1>2

LEMMA ResumeCallHeard ==
    ASSUME ClientFits, HeardInv, ~Idle, NEW n \in DOMAIN calls, NEW ok,
           ResumeCall(n, ok), Head(jobs).who = AppCall(n)
    PROVE  HeardInv'
<1>1. Carried /\ EntryFits /\ SaidDisconnect /\ Tail(jobs) \in Seq(JobRow)
  BY NextJob DEF HeardInv
<1>2. \A m : m # n /\ Heard(m) => HeardIn(Tail(jobs), m) \/ HeardElse(m)
  <2>. SUFFICES ASSUME NEW m, m # n, Heard(m)
                PROVE  HeardIn(Tail(jobs), m) \/ HeardElse(m)
    OBVIOUS
  <2>1. AppCall(m) # Head(jobs).who
    BY Apart
  <2>. QED  BY <2>1, OthersHeard
<1>3. CASE calls[n].op = "sub" /\ calls[n].at = "connect" /\ ok
  <2>. DEFINE k == <<"sub", calls[n].topic>>
  <2>1. /\ Await(AppCall(n), k, Tail(jobs))
        /\ calls' = [calls EXCEPT ![n].at = "sub"]
    BY <1>3 DEF ResumeCall
  <2>2. k \in Keys
    <3>1. calls[n] \in CallRow
      BY DEF ClientFits, AppFits
    <3>. QED  BY <3>1 DEF CallRow, Keys
  <2>. HIDE DEF k
  <2>3. /\ DOMAIN calls' = DOMAIN calls /\ calls'[n].at = "sub"
        /\ \A m \in DOMAIN calls : m # n => calls'[m] = calls[m]
    BY <2>1, CallMoves
  <2>4. /\ \A m : ~ExcusesCalls' /\ (HeardIn(Tail(jobs), m) \/ HeardElse(m)) => Heard(m)'
        /\ \A m : AppCall(n) = AppCall(m) => Heard(m)'
        /\ Carried' /\ mishaps \subseteq mishaps'
    BY <1>1, <2>1, <2>2, AwaitHeard
  <2>5. AllHeard'
    <3>. SUFFICES ASSUME ~ExcusesCalls', NEW m \in DOMAIN calls', calls'[m].at # "over"
                  PROVE  Heard(m)'
      BY DEF AllHeard
    <3>1. CASE m = n
      BY <2>4, <3>1
    <3>2. CASE m # n
      <4>1. Heard(m)
        BY <2>3, <2>4, <3>2, Unexcused DEF HeardInv, AllHeard
      <4>. QED  BY <1>2, <2>4, <3>2, <4>1
    <3>. QED  BY <3>1, <3>2
  <2>6. SaidDisconnect'
    BY <1>1, <2>1, <2>4 DEF Await, connVars, SaidDisconnect
  <2>7. EntryFits'
    <3>. SUFFICES ASSUME NEW q \in Keys, NEW m \in DOMAIN calls', pending'[q] = AppCall(m)
                  PROVE  calls'[m].at \in {q[1], "over"}
      BY DEF EntryFits
    <3>1. \A r \in Keys : pending'[r] \in {pending[r], NoOne}
                          \/ (r = k /\ pending'[r] = AppCall(n))
      BY <2>1, <2>2, AwaitEntries
    <3>2. CASE pending[q] = AppCall(m)
      <4>1. calls[m].at \in {q[1], "over"} /\ q[1] # "connect"
        BY <1>1, <2>3, <3>2 DEF EntryFits, Keys
      <4>2. m # n
        BY <1>3, <4>1
      <4>. QED  BY <2>3, <4>1, <4>2
    <3>3. CASE pending[q] # AppCall(m)
      <4>1. q = k /\ AppCall(m) = AppCall(n)
        BY <3>1, <3>3, Apart
      <4>2. m = n /\ q[1] = "sub"
        BY <4>1, Apart DEF k
      <4>. QED  BY <2>3, <4>2
    <3>. QED  BY <3>2, <3>3
  <2>. QED  BY <2>4, <2>5, <2>6, <2>7 DEF HeardInv
<1>4. CASE ~(calls[n].op = "sub" /\ calls[n].at = "connect" /\ ok)
  <2>1. /\ calls' = [calls EXCEPT ![n].at = "over"]
        /\ jobs' = Tail(jobs) /\ UNCHANGED <<connVars, reqVars, mishaps>>
    BY <1>4 DEF ResumeCall
  <2>2. /\ DOMAIN calls' = DOMAIN calls /\ calls'[n].at = "over"
        /\ \A m \in DOMAIN calls : m # n => calls'[m] = calls[m]
    BY <2>1, CallMoves
  <2>3. AllHeard'
    <3>. SUFFICES ASSUME ~ExcusesCalls', NEW m \in DOMAIN calls', calls'[m].at # "over"
                  PROVE  Heard(m)'
      BY DEF AllHeard
    <3>1. m # n /\ calls[m].at # "over"
      BY <2>2
    <3>2. Heard(m)
      BY <2>1, <2>2, <3>1 DEF HeardInv, AllHeard, ExcusesCalls
    <3>3. HeardIn(Tail(jobs), m) \/ HeardElse(m)
      BY <1>2, <3>1, <3>2
    <3>. QED  BY <2>1, <3>3 DEF Heard, HeardIn, HeardElse, connVars, reqVars
  <2>4. Carried'
    BY <1>1, <2>1 DEF Carried, OnWire, connVars, reqVars
  <2>5. SaidDisconnect'
    BY <1>1, <2>1 DEF SaidDisconnect, connVars
  <2>6. EntryFits'
    BY <1>1, <2>1, <2>2 DEF EntryFits, reqVars
  <2>. QED  BY <2>3, <2>4, <2>5, <2>6 DEF HeardInv
<1>. QED  BY <1>3, <1>4

LEMMA ResumePassHeard ==
    ASSUME ClientFits, HeardInv, ~Idle, NEW s \in Sockets, NEW ok,
           ResumePass(s, ok), Head(jobs).who = Pass(s)
    PROVE  HeardInv'
<1>. USE TsClientAssumption
<1>1. /\ Carried /\ EntryFits /\ SaidDisconnect /\ Tail(jobs) \in Seq(JobRow)
      /\ calls' = calls
  BY NextJob DEF HeardInv, ResumePass
<1>2. \A n : Heard(n) => HeardIn(Tail(jobs), n) \/ HeardElse(n)
  <2>. SUFFICES ASSUME NEW n, Heard(n)
                PROVE  HeardIn(Tail(jobs), n) \/ HeardElse(n)
    OBVIOUS
  <2>1. AppCall(n) # Head(jobs).who
    BY Apart
  <2>. QED  BY <2>1, OthersHeard
<1>3. ASSUME NEW k \in Keys, Await(Pass(s), k, Tail(jobs))
      PROVE  HeardInv'
  <2>1. /\ \A n : ~ExcusesCalls' /\ (HeardIn(Tail(jobs), n) \/ HeardElse(n)) => Heard(n)'
        /\ Carried' /\ mishaps \subseteq mishaps'
    BY <1>1, <1>3, AwaitHeard
  <2>2. AllHeard'
    BY <1>1, <1>2, <2>1, AllHeardStays
  <2>3. SaidDisconnect'
    BY <1>1, <1>3, <2>1 DEF Await, connVars, SaidDisconnect
  <2>4. \A q \in Keys : pending'[q] \in {pending[q], NoOne}
                        \/ (q = k /\ pending'[q] = Pass(s))
    BY <1>3, AwaitEntries
  <2>5. EntryFits'
    BY <1>1, <2>4, EntriesStay, Apart
  <2>. QED  BY <2>1, <2>2, <2>3, <2>5 DEF HeardInv
<1>4. ASSUME NEW t \in Topics, Subscribe(Pass(s), t, Tail(jobs))
      PROVE  HeardInv'
  <2>1. CASE state = "CONNECTED"
    <3>1. Await(Pass(s), <<"sub", t>>, Tail(jobs)) /\ <<"sub", t>> \in Keys
      BY <1>4, <2>1 DEF Subscribe, Keys
    <3>. QED  BY <1>3, <3>1
  <2>2. CASE state # "CONNECTED"
    <3>1. /\ closedByUser' = FALSE /\ UNCHANGED <<reqVars, mishaps>>
      BY <1>4, <2>2 DEF Subscribe
    <3>2. /\ \A n : ~ExcusesCalls' /\ (HeardIn(Tail(jobs), n) \/ HeardElse(n)) => Heard(n)'
          /\ Carried' /\ mishaps \subseteq mishaps'
      BY <1>1, <1>4, SubscribeHeard
    <3>3. AllHeard'
      BY <1>1, <1>2, <3>2, AllHeardStays
    <3>4. EntryFits' /\ SaidDisconnect'
      BY <1>1, <3>1 DEF EntryFits, SaidDisconnect, reqVars
    <3>. QED  BY <3>2, <3>3, <3>4 DEF HeardInv
  <2>. QED  BY <2>1, <2>2
<1>5. ASSUME UNCHANGED <<connVars, reqVars, mishaps>>, jobs' = Tail(jobs)
      PROVE  HeardInv'
  <2>1. \A n : HeardIn(Tail(jobs), n) \/ HeardElse(n) => Heard(n)'
    BY <1>5 DEF Heard, HeardIn, HeardElse, connVars, reqVars
  <2>2. AllHeard'
    BY <1>1, <1>2, <1>5, <2>1, AllHeardStays
  <2>3. Carried' /\ EntryFits' /\ SaidDisconnect'
    BY <1>1, <1>5 DEF Carried, OnWire, EntryFits, SaidDisconnect, connVars, reqVars
  <2>. QED  BY <2>2, <2>3 DEF HeardInv
<1>6. CASE PassOn(s, ChannelsAfter(pass[s].n))
  <2>. DEFINE left == ChannelsAfter(pass[s].n)
              m == CHOOSE x \in left : \A j \in left : x <= j
  <2>1. CASE left = {}
    BY <1>5, <1>6, <2>1 DEF PassOn
  <2>2. CASE left # {}
    <3>1. DOMAIN Channels = 1..Len(Channels) /\ Len(Channels) \in Nat
      OBVIOUS
    <3>2. left \subseteq Nat /\ left \subseteq DOMAIN Channels
      BY <3>1 DEF ChannelsAfter
    <3>3. \E x \in left : \A j \in left : x <= j
      BY <2>2, <3>2, Least
    <3>4. m \in left
      BY <3>3
    <3>5. Subscribe(Pass(s), Channels[m], Tail(jobs))
      BY <1>6, <2>2 DEF PassOn
    <3>. HIDE DEF m
    <3>6. Channels[m] \in Topics
      BY <3>1, <3>2, <3>4
    <3>. QED  BY <1>4, <3>5, <3>6
  <2>. QED  BY <2>1, <2>2
<1>7. \/ PassOn(s, ChannelsAfter(pass[s].n))
      \/ \E at \in {"sub", "replay"} :
            /\ pass[s].at # "none"
            /\ Await(Pass(s), <<at, Channels[pass[s].n]>>, Tail(jobs))
  BY DEF ResumePass
<1>8. ASSUME NEW at \in {"sub", "replay"}, pass[s].at # "none",
             Await(Pass(s), <<at, Channels[pass[s].n]>>, Tail(jobs))
      PROVE  HeardInv'
  <2>1. pass[s].n \in DOMAIN Channels
    BY <1>8 DEF ClientFits, PassFits, PassRow
  <2>2. <<at, Channels[pass[s].n]>> \in Keys
    BY <2>1 DEF Keys, Topics
  <2>. QED  BY <1>3, <1>8, <2>2
<1>. QED  BY <1>6, <1>7, <1>8

LEMMA RunJobHeard ==
    ASSUME ClientFits, HeardInv, RunJob
    PROVE  HeardInv'
<1>1. ~Idle /\ Head(jobs) \in JobRow /\ Tail(jobs) \in Seq(JobRow)
  BY NextJob DEF RunJob
<1>2. Head(jobs).who \in Callers \cup {Timer}
  BY <1>1 DEF JobRow
<1>3. CASE Head(jobs).who = Timer /\ RescheduleReconnect
  <2>1. /\ jobs' = Tail(jobs) /\ calls' = calls /\ mishaps \subseteq mishaps'
        /\ UNCHANGED <<closedByUser, sock, opener, reqVars>>
    BY <1>3, Schedules DEF RescheduleReconnect, appVars
  <2>2. \A n : Heard(n) => Heard(n)'
    <3>. SUFFICES ASSUME NEW n, Heard(n) PROVE Heard(n)'
      OBVIOUS
    <3>1. AppCall(n) # Head(jobs).who
      BY <1>3, Apart
    <3>2. HeardIn(Tail(jobs), n) \/ HeardElse(n)
      BY <1>1, <3>1, OthersHeard
    <3>. QED  BY <2>1, <3>2 DEF Heard, HeardIn, HeardElse, reqVars
  <2>3. AllHeard'
    BY <2>1, <2>2, AllHeardStays
  <2>4. Carried' /\ EntryFits' /\ SaidDisconnect'
    BY <2>1 DEF HeardInv, Carried, OnWire, EntryFits, SaidDisconnect, reqVars
  <2>. QED  BY <2>3, <2>4 DEF HeardInv
<1>4. CASE Head(jobs).who[1] = "call" /\ ResumeCall(Head(jobs).who[2], Head(jobs).ok)
  <2>1. Head(jobs).who[2] \in DOMAIN calls /\ Head(jobs).who = AppCall(Head(jobs).who[2])
    BY <1>2, <1>4, CallerIs
  <2>. QED  BY <1>1, <1>4, <2>1, ResumeCallHeard
<1>5. CASE Head(jobs).who[1] = "pass" /\ ResumePass(Head(jobs).who[2], Head(jobs).ok)
  <2>1. Head(jobs).who[2] \in Sockets /\ Head(jobs).who = Pass(Head(jobs).who[2])
    BY <1>2, <1>5, CallerIs
  <2>. QED  BY <1>1, <1>5, <2>1, ResumePassHeard
<1>. QED  BY <1>3, <1>4, <1>5 DEF RunJob

LEMMA JoinHeard ==
    ASSUME NEW T, NEW list \in Seq(T), NEW more \in Seq(T), NEW n,
           HeardIn(list, n) \/ HeardIn(more, n)
    PROVE  HeardIn(list \o more, n)
<1>1. /\ DOMAIN list = 1..Len(list) /\ DOMAIN more = 1..Len(more)
      /\ DOMAIN (list \o more) = 1..(Len(list) + Len(more))
      /\ Len(list) \in Nat /\ Len(more) \in Nat
  OBVIOUS
<1>2. CASE HeardIn(list, n)
  <2>1. PICK j \in DOMAIN list : list[j].who = AppCall(n)
    BY <1>2 DEF HeardIn
  <2>2. j \in DOMAIN (list \o more) /\ (list \o more)[j] = list[j]
    BY <1>1
  <2>. QED  BY <2>1, <2>2 DEF HeardIn
<1>3. CASE HeardIn(more, n)
  <2>1. PICK j \in DOMAIN more : more[j].who = AppCall(n)
    BY <1>3 DEF HeardIn
  <2>2. Len(list) + j \in 1..(Len(list) + Len(more))
    BY <1>1
  <2>3. (list \o more)[Len(list) + j] = more[j]
    BY <1>1, <2>2
  <2>. QED  BY <1>1, <2>1, <2>2, <2>3 DEF HeardIn
<1>. QED  BY <1>2, <1>3

LEMMA OneHeard ==
    ASSUME NEW n, NEW ok
    PROVE  HeardIn(<<Settled(AppCall(n), ok)>>, n)
<1>1. 1 \in DOMAIN <<Settled(AppCall(n), ok)>>
  OBVIOUS
<1>2. <<Settled(AppCall(n), ok)>>[1].who = AppCall(n)
  BY DEF Settled
<1>. QED  BY <1>1, <1>2 DEF HeardIn

\* A request leaves the wire, and no entry stays for it.
LEMMA TailCarries ==
    ASSUME ClientFits, Carried, NEW s \in Sockets, wire[s] # <<>>,
           wire' = [wire EXCEPT ![s] = Tail(wire[s])], sock' = sock,
           \A k \in Keys : pending'[k] # NoOne => pending[k] # NoOne /\ k # Head(wire[s])
    PROVE  Carried'
<1>1. wire \in [Sockets -> Seq(Keys)] /\ wire[s] \in Seq(Keys)
  BY DEF ClientFits, ReqsFit
<1>. SUFFICES ASSUME NEW k \in Keys, pending'[k] # NoOne
              PROVE  \E r \in Sockets : sock'[r] \in {"open", "closing"} /\ OnWire(r, k)'
  BY DEF Carried
<1>2. PICK r \in Sockets : sock[r] \in {"open", "closing"} /\ OnWire(r, k)
  BY DEF Carried
<1>3. OnWire(r, k)'
  <2>1. CASE r # s
    BY <1>1, <1>2, <2>1 DEF OnWire
  <2>2. CASE r = s
    <3>. DEFINE list == wire[s]
    <3>1. list \in Seq(Keys) /\ list # <<>> /\ wire'[s] = Tail(list) /\ Head(list) # k
      BY <1>1
    <3>2. PICK i \in DOMAIN list : list[i] = k
      BY <1>2, <2>2 DEF OnWire
    <3>. HIDE DEF list
    <3>3. DOMAIN list = 1..Len(list) /\ Len(list) \in Nat /\ Head(list) = list[1]
      BY <3>1
    <3>4. i \in 1..Len(list) /\ i # 1
      BY <3>1, <3>2, <3>3
    <3>5. i - 1 \in 1..(Len(list) - 1) /\ DOMAIN Tail(list) = 1..(Len(list) - 1)
      BY <3>1, <3>3, <3>4
    <3>6. Tail(list)[i - 1] = list[i]
      BY <3>1, <3>3, <3>4, <3>5
    <3>7. i - 1 \in DOMAIN wire'[s] /\ wire'[s][i - 1] = k
      BY <3>1, <3>2, <3>5, <3>6
    <3>. QED  BY <2>2, <3>7 DEF OnWire
  <2>. QED  BY <2>1, <2>2
<1>. QED  BY <1>2, <1>3

LEMMA OutcomeHeard ==
    ASSUME ClientFits, NEW k \in Keys, NEW ok, NEW n, pending[k] = AppCall(n)
    PROVE  HeardIn(Outcome(k, ok), n)
<1>1. Outcome(k, ok) = <<Settled(AppCall(n), ok)>>
  BY Apart DEF Outcome
<1>. QED  BY <1>1, OneHeard

LEMMA OutcomeRow ==
    ASSUME ClientFits, NEW k \in Keys, NEW ok \in BOOLEAN
    PROVE  Outcome(k, ok) \in Seq(JobRow)
<1>1. CASE pending[k] = NoOne
  BY <1>1, NoJobs DEF Outcome
<1>2. CASE pending[k] # NoOne
  <2>1. Settled(pending[k], ok) \in JobRow
    BY <1>2 DEF ClientFits, ReqsFit, Settled, JobRow
  <2>. QED  BY <1>2, <2>1, SeqOne DEF Outcome
<1>. QED  BY <1>1, <1>2

LEMMA TokenFailsHeard ==
    ASSUME ClientFits, HeardInv, NEW s \in Sockets, TokenFails(s)
    PROVE  HeardInv'
<1>1. /\ sock[s] = "token" /\ sock' = [sock EXCEPT ![s] = "closed"]
      /\ jobs = <<>> /\ jobs' = <<Settled(opener[s], FALSE)>>
      /\ opener' = [opener EXCEPT ![s] = NoOne]
      /\ UNCHANGED <<closedByUser, reqVars, calls>> /\ mishaps \subseteq mishaps'
  BY GivesUp DEF TokenFails, Idle, appVars
<1>2. \A n : Heard(n) => Heard(n)'
  <2>. SUFFICES ASSUME NEW n, Heard(n) PROVE Heard(n)'
    OBVIOUS
  <2>1. HeardElse(n)
    BY <1>1 DEF Heard, HeardIn
  <2>2. ASSUME NEW r \in Sockets, opener[r] = AppCall(n) PROVE Heard(n)'
    <3>1. CASE r = s
      <4>1. HeardIn(jobs', n)
        BY <1>1, <2>2, <3>1, OneHeard
      <4>. QED  BY <4>1 DEF Heard, HeardIn
    <3>2. CASE r # s
      <4>1. opener'[r] = AppCall(n)
        BY <1>1, <2>2, <3>2
      <4>. QED  BY <4>1 DEF Heard, HeardElse
    <3>. QED  BY <3>1, <3>2
  <2>3. ASSUME NEW k \in Keys, pending[k] = AppCall(n) PROVE Heard(n)'
    BY <1>1, <2>3 DEF Heard, HeardElse, reqVars
  <2>. QED  BY <2>1, <2>2, <2>3 DEF HeardElse
<1>3. AllHeard'
  BY <1>1, <1>2, AllHeardStays
<1>4. Carried'
  <2>1. \A r \in Sockets : sock[r] \in {"open", "closing"} => sock'[r] = sock[r]
    BY <1>1 DEF ClientFits, ConnFits
  <2>. QED  BY <1>1, <2>1 DEF HeardInv, Carried, OnWire, reqVars
<1>5. EntryFits' /\ SaidDisconnect'
  BY <1>1 DEF HeardInv, EntryFits, SaidDisconnect, reqVars
<1>. QED  BY <1>3, <1>4, <1>5 DEF HeardInv

LEMMA WelcomeHeard ==
    ASSUME ClientFits, HeardInv, NEW s \in Sockets, Welcome(s)
    PROVE  HeardInv'
<1>. DEFINE rest == IF opener[s] = Timer THEN <<>> ELSE <<Settled(opener[s], TRUE)>>
<1>1. /\ sock[s] = "open" /\ s \notin welcomed
      /\ jobs = <<>> /\ jobs' = <<Settled(Pass(s), TRUE)>> \o rest
      /\ opener' = [opener EXCEPT ![s] = NoOne]
      /\ UNCHANGED <<closedByUser, sock, reqVars, calls, mishaps>>
  BY DEF Welcome, Idle, appVars
<1>2. opener[s] \in Callers \cup {Timer}
  BY <1>1 DEF ClientFits, ConnFits, Opening, Live
<1>3. Settled(opener[s], TRUE) \in JobRow /\ Settled(Pass(s), TRUE) \in JobRow
  BY <1>2 DEF Settled, JobRow, Callers
<1>4. rest \in Seq(JobRow) /\ <<Settled(Pass(s), TRUE)>> \in Seq(JobRow)
  BY <1>3, SeqOne, NoJobs
<1>5. \A n : Heard(n) => Heard(n)'
  <2>. SUFFICES ASSUME NEW n, Heard(n) PROVE Heard(n)'
    OBVIOUS
  <2>1. HeardElse(n)
    BY <1>1 DEF Heard, HeardIn
  <2>2. ASSUME NEW r \in Sockets, opener[r] = AppCall(n) PROVE Heard(n)'
    <3>1. CASE r = s
      <4>1. rest = <<Settled(AppCall(n), TRUE)>>
        BY <2>2, <3>1, Apart
      <4>2. HeardIn(rest, n)
        BY <4>1, OneHeard
      <4>. HIDE DEF rest
      <4>3. HeardIn(jobs', n)
        BY <1>1, <1>4, <4>2, JoinHeard
      <4>. QED  BY <4>3 DEF Heard, HeardIn
    <3>2. CASE r # s
      <4>1. opener'[r] = AppCall(n)
        BY <1>1, <2>2, <3>2
      <4>. QED  BY <4>1 DEF Heard, HeardElse
    <3>. QED  BY <3>1, <3>2
  <2>3. ASSUME NEW k \in Keys, pending[k] = AppCall(n) PROVE Heard(n)'
    BY <1>1, <2>3 DEF Heard, HeardElse, reqVars
  <2>. QED  BY <2>1, <2>2, <2>3 DEF HeardElse
<1>6. AllHeard'
  BY <1>1, <1>5, AllHeardStays
<1>7. Carried' /\ EntryFits' /\ SaidDisconnect'
  BY <1>1 DEF HeardInv, Carried, OnWire, EntryFits, SaidDisconnect, reqVars
<1>. QED  BY <1>6, <1>7 DEF HeardInv

LEMMA AnswerHeard ==
    ASSUME ClientFits, HeardInv, NEW s \in Sockets, Answer(s)
    PROVE  HeardInv'
<1>. DEFINE k == Head(wire[s])
<1>1. /\ wire[s] # <<>> /\ wire' = [wire EXCEPT ![s] = Tail(wire[s])]
      /\ jobs = <<>> /\ jobs' = Outcome(k, TRUE)
      /\ pending' = [pending EXCEPT ![k] = NoOne]
      /\ UNCHANGED <<closedByUser, sock, opener, calls, mishaps>>
  BY DEF Answer, Idle, connVars, ClientFits, ReqsFit
<1>2. wire[s] \in Seq(Keys) /\ pending \in [Keys -> Callers \cup {NoOne}]
  BY DEF ClientFits, ReqsFit
<1>3. k \in Keys
  BY <1>1, <1>2
<1>4. \A q \in Keys : pending'[q] # NoOne => pending[q] # NoOne /\ q # k
  BY <1>1, <1>2, <1>3
<1>5. Carried'
  BY <1>1, <1>4, TailCarries DEF HeardInv
<1>. HIDE DEF k
<1>6. \A n : Heard(n) => Heard(n)'
  <2>. SUFFICES ASSUME NEW n, Heard(n) PROVE Heard(n)'
    OBVIOUS
  <2>1. HeardElse(n)
    BY <1>1 DEF Heard, HeardIn
  <2>2. ASSUME NEW q \in Keys, pending[q] = AppCall(n) PROVE Heard(n)'
    <3>1. CASE q = k
      <4>1. HeardIn(jobs', n)
        BY <1>1, <1>3, <2>2, <3>1, OutcomeHeard
      <4>. QED  BY <4>1 DEF Heard, HeardIn
    <3>2. CASE q # k
      <4>1. pending'[q] = AppCall(n)
        BY <1>1, <1>2, <2>2, <3>2
      <4>. QED  BY <4>1 DEF Heard, HeardElse
    <3>. QED  BY <3>1, <3>2
  <2>3. ASSUME NEW r \in Sockets, opener[r] = AppCall(n) PROVE Heard(n)'
    BY <1>1, <2>3 DEF Heard, HeardElse
  <2>. QED  BY <2>1, <2>2, <2>3 DEF HeardElse
<1>7. AllHeard'
  BY <1>1, <1>6, AllHeardStays
<1>8. EntryFits'
  <2>1. \A q \in Keys : pending'[q] \in {pending[q], NoOne}
    BY <1>1, <1>2
  <2>. QED  BY <1>1, <2>1, EntriesStay, Apart DEF HeardInv
<1>9. SaidDisconnect'
  BY <1>1 DEF HeardInv, SaidDisconnect
<1>. QED  BY <1>5, <1>7, <1>8, <1>9 DEF HeardInv

LEMMA RefuseHeard ==
    ASSUME ClientFits, HeardInv, NEW s \in Sockets, Refuse(s)
    PROVE  HeardInv'
<1>. DEFINE t == Head(wire[s])[2]
            sub == <<"sub", t>>
            replay == <<"replay", t>>
<1>1. /\ wire[s] # <<>> /\ wire' = [wire EXCEPT ![s] = Tail(wire[s])]
      /\ Head(wire[s])[1] # "unsub"
      /\ jobs = <<>> /\ jobs' = Outcome(sub, FALSE) \o Outcome(replay, FALSE)
      /\ pending' = [pending EXCEPT ![sub] = NoOne, ![replay] = NoOne]
      /\ mishaps' = mishaps \cup {"refused"}
      /\ UNCHANGED <<closedByUser, sock, opener, calls>>
  BY DEF Refuse, RejectTopic, Idle, connVars, appVars, ClientFits, ReqsFit
<1>2. wire[s] \in Seq(Keys) /\ pending \in [Keys -> Callers \cup {NoOne}]
  BY DEF ClientFits, ReqsFit
<1>3. Head(wire[s]) \in Keys
  BY <1>1, <1>2
<1>4. sub \in Keys /\ replay \in Keys /\ Head(wire[s]) \in {sub, replay}
  BY <1>1, <1>3 DEF Keys
<1>. HIDE DEF t, sub, replay
<1>5. \A q \in Keys : pending'[q] # NoOne => pending[q] # NoOne /\ q \notin {sub, replay}
  BY <1>1, <1>2, <1>4
<1>6. Carried'
  BY <1>1, <1>4, <1>5, TailCarries DEF HeardInv
<1>7. \A n : Heard(n) => Heard(n)'
  <2>. SUFFICES ASSUME NEW n, Heard(n) PROVE Heard(n)'
    OBVIOUS
  <2>1. HeardElse(n)
    BY <1>1 DEF Heard, HeardIn
  <2>2. ASSUME NEW q \in Keys, pending[q] = AppCall(n) PROVE Heard(n)'
    <3>1. CASE q \in {sub, replay}
      <4>1. HeardIn(Outcome(sub, FALSE), n) \/ HeardIn(Outcome(replay, FALSE), n)
        BY <1>4, <2>2, <3>1, OutcomeHeard
      <4>2. Outcome(sub, FALSE) \in Seq(JobRow) /\ Outcome(replay, FALSE) \in Seq(JobRow)
        BY <1>4, OutcomeRow
      <4>3. HeardIn(jobs', n)
        BY <1>1, <4>1, <4>2, JoinHeard
      <4>. QED  BY <4>3 DEF Heard, HeardIn
    <3>2. CASE q \notin {sub, replay}
      <4>1. pending'[q] = AppCall(n)
        BY <1>1, <1>2, <2>2, <3>2
      <4>. QED  BY <4>1 DEF Heard, HeardElse
    <3>. QED  BY <3>1, <3>2
  <2>3. ASSUME NEW r \in Sockets, opener[r] = AppCall(n) PROVE Heard(n)'
    BY <1>1, <2>3 DEF Heard, HeardElse
  <2>. QED  BY <2>1, <2>2, <2>3 DEF HeardElse
<1>8. AllHeard'
  BY <1>1, <1>7, AllHeardStays
<1>9. EntryFits'
  <2>1. \A q \in Keys : pending'[q] \in {pending[q], NoOne}
    BY <1>1, <1>2
  <2>. QED  BY <1>1, <2>1, EntriesStay, Apart DEF HeardInv
<1>10. SaidDisconnect'
  BY <1>1 DEF HeardInv, SaidDisconnect
<1>. QED  BY <1>6, <1>8, <1>9, <1>10 DEF HeardInv

LEMMA OnCloseHeard ==
    ASSUME ClientFits, HeardInv, NEW s \in Sockets, OnClose(s)
    PROVE  HeardInv'
<1>. DEFINE failed == IF closedByUser \/ s \in welcomed THEN <<>>
                      ELSE <<Settled(opener[s], FALSE)>>
            closed(rejected) == [j \in DOMAIN rejected |-> Settled(rejected[j], FALSE)]
<1>1. /\ jobs = <<>> /\ pending' = [k \in Keys |-> NoOne]
      /\ opener' = [opener EXCEPT ![s] = NoOne]
      /\ UNCHANGED <<closedByUser, calls>> /\ mishaps \subseteq mishaps'
  BY Schedules DEF OnClose, Idle, appVars
<1>2. PICK rejected \in SetToSeqs({pending[k] : k \in Keys} \ {NoOne}) :
         jobs' = closed(rejected) \o failed
  BY DEF OnClose
<1>3. /\ rejected \in Seq(Callers)
      /\ \A k \in Keys : pending[k] # NoOne =>
            \E j \in DOMAIN rejected : rejected[j] = pending[k]
  BY RejectedAre
<1>. DEFINE U == JobRow \cup {Settled(opener[s], FALSE)}
<1>4. failed \in Seq(U)
  BY SeqOne, NoJobs
<1>5. closed(rejected) \in Seq(U)
  <2>1. \A w \in Callers : Settled(w, FALSE) \in U
    BY DEF Settled, JobRow
  <2>2. DOMAIN rejected = 1..Len(rejected) /\ Len(rejected) \in Nat
        /\ \A j \in 1..Len(rejected) : rejected[j] \in Callers
    BY <1>3
  <2>3. closed(rejected) \in [1..Len(rejected) -> U]
    BY <2>1, <2>2
  <2>. HIDE DEF closed, U
  <2>. QED  BY <2>2, <2>3
<1>6. \A n : ~ExcusesCalls' /\ Heard(n) => Heard(n)'
  <2>. SUFFICES ASSUME NEW n, ~ExcusesCalls', Heard(n) PROVE Heard(n)'
    OBVIOUS
  <2>1. HeardElse(n)
    BY <1>1 DEF Heard, HeardIn
  <2>2. ASSUME NEW k \in Keys, pending[k] = AppCall(n) PROVE Heard(n)'
    <3>1. PICK j \in DOMAIN rejected : rejected[j] = AppCall(n)
      BY <1>3, <2>2, Apart
    <3>2. j \in DOMAIN closed(rejected) /\ closed(rejected)[j].who = AppCall(n)
      BY <3>1 DEF Settled
    <3>3. HeardIn(closed(rejected), n)
      BY <3>2 DEF HeardIn
    <3>. HIDE DEF closed, failed, U
    <3>4. HeardIn(jobs', n)
      BY <1>2, <1>4, <1>5, <3>3, JoinHeard
    <3>. QED  BY <3>4 DEF Heard, HeardIn
  <2>3. ASSUME NEW r \in Sockets, opener[r] = AppCall(n) PROVE Heard(n)'
    <3>1. CASE r = s
      <4>1. ~closedByUser
        BY <1>1 DEF HeardInv, SaidDisconnect, ExcusesCalls
      <4>2. s \notin welcomed
        BY <2>3, <3>1, Apart DEF ClientFits, Opening
      <4>3. failed = <<Settled(AppCall(n), FALSE)>>
        BY <2>3, <3>1, <4>1, <4>2
      <4>4. HeardIn(failed, n)
        BY <4>3, OneHeard
      <4>. HIDE DEF closed, failed, U
      <4>5. HeardIn(jobs', n)
        BY <1>2, <1>4, <1>5, <4>4, JoinHeard
      <4>. QED  BY <4>5 DEF Heard, HeardIn
    <3>2. CASE r # s
      <4>1. opener'[r] = AppCall(n)
        BY <1>1, <2>3, <3>2
      <4>. QED  BY <4>1 DEF Heard, HeardElse
    <3>. QED  BY <3>1, <3>2
  <2>. QED  BY <2>1, <2>2, <2>3 DEF HeardElse
<1>7. AllHeard'
  BY <1>1, <1>6, AllHeardStays
<1>8. Carried' /\ EntryFits'
  BY <1>1, Apart DEF Carried, EntryFits
<1>9. SaidDisconnect'
  BY <1>1 DEF HeardInv, SaidDisconnect
<1>. QED  BY <1>7, <1>8, <1>9 DEF HeardInv

LEMMA SocketHeard ==
    ASSUME ClientFits, HeardInv, NEW s \in Sockets, SocketEvent(s)
    PROVE  HeardInv'
<1>1. sock \in [Sockets -> SocketStates]
  BY DEF ClientFits, ConnFits
<1>2. CASE Dial(s) \/ Opened(s)
  <2>1. /\ UNCHANGED <<opener, reqVars, calls, jobs, mishaps, closedByUser>>
        /\ sock[s] \in {"token", "dialing"}
        /\ \E next \in {"dialing", "open"} : sock' = [sock EXCEPT ![s] = next]
    BY <1>2 DEF Dial, Opened, appVars
  <2>2. \A r \in Sockets : sock[r] \in {"open", "closing"} =>
           sock'[r] \in {"open", "closing"}
    BY <1>1, <2>1
  <2>. QED  BY <2>1, <2>2, QuietHeard
<1>3. ASSUME NEW t \in Topics, Event(s, t) PROVE HeardInv'
  <2>1. UNCHANGED <<opener, reqVars, calls, jobs, mishaps, closedByUser>> /\ sock' = sock
    BY <1>3 DEF Event, connVars
  <2>. QED  BY <2>1, QuietHeard
<1>4. CASE Lost(s) \/ Closed(s)
  BY <1>4, OnCloseHeard DEF Lost, Closed
<1>. QED
  BY <1>2, <1>3, <1>4, TokenFailsHeard, WelcomeHeard, AnswerHeard, RefuseHeard
     DEF SocketEvent

LEMMA ReconnectHeard ==
    ASSUME ClientFits, HeardInv, ReconnectTimer
    PROVE  HeardInv'
<1>1. /\ IF closedByUser THEN UNCHANGED <<state, sock, opener>> ELSE Open(Timer)
      /\ UNCHANGED <<reqVars, calls, jobs, mishaps, closedByUser>>
  BY DEF ReconnectTimer, ReconnectUnless, appVars
<1>2. CASE closedByUser
  BY <1>1, <1>2, QuietHeard
<1>3. CASE ~closedByUser
  <2>1. /\ \A n : (\E s \in Sockets : opener[s] = AppCall(n)) =>
                     \E s \in Sockets : opener'[s] = AppCall(n)
        /\ Carried'
    BY <1>1, <1>3, OpenHeard DEF HeardInv
  <2>2. \A n : Heard(n) => Heard(n)'
    BY <1>1, <2>1 DEF Heard, HeardIn, HeardElse, reqVars
  <2>3. AllHeard'
    BY <1>1, <2>2, AllHeardStays
  <2>4. EntryFits' /\ SaidDisconnect'
    BY <1>1 DEF HeardInv, EntryFits, SaidDisconnect, reqVars
  <2>. QED  BY <2>1, <2>3, <2>4 DEF HeardInv
<1>. QED  BY <1>2, <1>3

LEMMA DeadlineHeard ==
    ASSUME ClientFits, HeardInv, NEW who \in Callers, NEW k \in Keys, Deadline(who, k)
    PROVE  HeardInv'
<1>1. /\ jobs = <<>> /\ pending' = [pending EXCEPT ![k] = NoOne]
      /\ WaitsFor(who, k) => jobs' = <<Settled(who, FALSE)>>
      /\ mishaps \subseteq mishaps' /\ (pending[k] # who => "overlap" \in mishaps')
      /\ UNCHANGED <<closedByUser, sock, opener, wire, calls>>
  BY DEF Deadline, Idle, connVars, appVars
<1>2. pending \in [Keys -> Callers \cup {NoOne}]
  BY DEF ClientFits, ReqsFit
<1>3. ASSUME NEW n \in DOMAIN calls, ~ExcusesCalls', calls[n].at # "over", Heard(n)
      PROVE  Heard(n)'
  <2>1. HeardElse(n)
    BY <1>1, <1>3 DEF Heard, HeardIn
  <2>2. ASSUME NEW q \in Keys, pending[q] = AppCall(n) PROVE Heard(n)'
    <3>1. CASE q = k
      <4>1. who = AppCall(n)
        BY <1>1, <1>3, <2>2, <3>1 DEF ExcusesCalls
      <4>2. calls[n].at = k[1]
        BY <1>3, <2>2, <3>1 DEF HeardInv, EntryFits
      <4>3. WaitsFor(who, k)
        BY <4>1, <4>2 DEF WaitsFor, AppCall
      <4>4. HeardIn(jobs', n)
        BY <1>1, <4>1, <4>3, OneHeard
      <4>. QED  BY <4>4 DEF Heard, HeardIn
    <3>2. CASE q # k
      <4>1. pending'[q] = AppCall(n)
        BY <1>1, <1>2, <2>2, <3>2
      <4>. QED  BY <4>1 DEF Heard, HeardElse
    <3>. QED  BY <3>1, <3>2
  <2>3. ASSUME NEW r \in Sockets, opener[r] = AppCall(n) PROVE Heard(n)'
    BY <1>1, <2>3 DEF Heard, HeardElse
  <2>. QED  BY <2>1, <2>2, <2>3 DEF HeardElse
<1>4. AllHeard'
  BY <1>1, <1>3, AllHeardStays
<1>5. \A q \in Keys : pending'[q] \in {pending[q], NoOne}
  BY <1>1, <1>2
<1>6. Carried'
  BY <1>1, <1>5, CarriedStays DEF HeardInv
<1>7. EntryFits'
  BY <1>1, <1>5, EntriesStay, Apart DEF HeardInv
<1>8. SaidDisconnect'
  BY <1>1 DEF HeardInv, SaidDisconnect
<1>. QED  BY <1>4, <1>6, <1>7, <1>8 DEF HeardInv

LEMMA HeardInvNext == ClientFits /\ HeardInv /\ [Next]_vars => HeardInv'
<1>. SUFFICES ASSUME ClientFits, HeardInv, [Next]_vars PROVE HeardInv'
  OBVIOUS
<1>1. CASE UNCHANGED vars
  <2>1. /\ UNCHANGED <<opener, reqVars, calls, jobs, mishaps, closedByUser>>
        /\ sock' = sock
    BY <1>1 DEF vars, connVars, appVars
  <2>. QED  BY <2>1, QuietHeard
<1>2. ASSUME NEW d \in deadlines, Deadline(d[1], d[2]) PROVE HeardInv'
  <2>1. d[1] \in Callers /\ d[2] \in Keys
    BY DEF ClientFits, ReqsFit
  <2>. QED  BY <1>2, <2>1, DeadlineHeard
<1>. QED
  BY <1>1, <1>2, RunJobHeard, ApplicationHeard, SocketHeard, ReconnectHeard DEF Next

(* No call of the application is forgotten: beacn.ts settles or rejects the *)
(* promise of every request it holds.  A call that is not over has its      *)
(* continuation queued, a socket on its way, or its request on the wire of  *)
(* one that is open or closing, unless its entry of this.pending was        *)
(* replaced or the user disconnected.                                       *)
THEOREM NoCallForgotten == Spec => []NoneForgotten
<1>1. Init => ClientFits /\ HeardInv
  BY ClientFitsInit, HeardInvInit
<1>2. ClientFits /\ HeardInv /\ [Next]_vars => (ClientFits /\ HeardInv)'
  BY ClientFitsNext, HeardInvNext
<1>3. ClientFits /\ HeardInv => NoneForgotten
  BY HeardInvHears
<1>. QED  BY <1>1, <1>2, <1>3, PTL DEF Spec

-----------------------------------------------------------------------------
(***************************************************************************)
(* The TypeScript client comes to rest connected.  A state that says it is  *)
(* connecting has a timer or a socket that will be welcomed, and as long as *)
(* any socket is being opened or is open, this.ws is one too or will be     *)
(* replaced, except after the client has said FAILED while others lived.    *)
(***************************************************************************)
OnItsWay ==
    (state \in {"CONNECTING", "RECONNECTING"} /\ ~closedByUser) =>
        timers > 0 \/ \E s \in Sockets : sock[s] \in Live /\ s \notin welcomed

WsLives ==
    (/\ "gave up" \notin mishaps /\ ~closedByUser
     /\ \E s \in Sockets : sock[s] \in {"dialing", "open"}) =>
        \/ timers > 0
        \/ \E s \in Sockets : sock[s] = "token"
        \/ ws # 0 /\ sock[ws] \in {"dialing", "open"}

RestInv == OnItsWay /\ WsLives

LEMMA RestInvInit == Init => RestInv
<1>. SUFFICES ASSUME Init PROVE RestInv
  OBVIOUS
<1>1. 1 \in Sockets
  BY TsClientAssumption DEF Sockets
<1>. QED  BY <1>1 DEF Init, RestInv, OnItsWay, WsLives

LEMMA RestStays ==
    ASSUME RestInv, UNCHANGED <<state, closedByUser, sock, welcomed, timers, ws>>,
           mishaps \subseteq mishaps'
    PROVE  RestInv'
  BY DEF RestInv, OnItsWay, WsLives

\* _open: its token is on the way.
LEMMA OpenRests ==
    ASSUME ClientFits, NEW who, Open(who), UNCHANGED welcomed
    PROVE  RestInv'
<1>1. PICK s \in Sockets : sock[s] = "none" /\ sock' = [sock EXCEPT ![s] = "token"]
  BY DEF Open
<1>2. sock'[s] = "token"
  BY <1>1 DEF ClientFits, ConnFits
<1>3. s \notin welcomed'
  BY <1>1 DEF ClientFits, Opening
<1>. QED  BY <1>2, <1>3 DEF RestInv, OnItsWay, WsLives, Live

LEMMA AwaitRests ==
    ASSUME RestInv, NEW who, NEW k, NEW work, Await(who, k, work),
           UNCHANGED <<welcomed, timers, ws>>
    PROVE  RestInv'
  BY RestStays DEF Await, connVars

LEMMA SubscribeRests ==
    ASSUME ClientFits, RestInv, NEW who, NEW t, NEW work, Subscribe(who, t, work),
           UNCHANGED <<welcomed, timers, ws>>
    PROVE  RestInv'
<1>1. CASE state = "CONNECTED"
  BY <1>1, AwaitRests DEF Subscribe
<1>2. CASE state # "CONNECTED"
  BY <1>2, OpenRests DEF Subscribe
<1>. QED  BY <1>1, <1>2

\* FAILED is said of the last socket, or while another one lives.
LEMMA GiveUpRests == ASSUME GiveUp PROVE RestInv'
<1>1. "gave up" \in mishaps' \/ \A s \in Sockets : sock'[s] \notin Live
  BY DEF GiveUp
<1>2. state' = "FAILED"
  BY DEF GiveUp
<1>. QED  BY <1>1, <1>2 DEF RestInv, OnItsWay, WsLives, Live

LEMMA ScheduleRests ==
    ASSUME ClientFits, ScheduleReconnect
    PROVE  RestInv'
<1>1. CASE GiveUp
  BY <1>1, GiveUpRests
<1>2. CASE timers' = timers + 1
  <2>1. timers' > 0
    BY <1>2 DEF ClientFits, SockFits
  <2>. QED  BY <2>1 DEF RestInv, OnItsWay, WsLives
<1>. QED  BY <1>1, <1>2 DEF ScheduleReconnect

LEMMA ApplicationRests ==
    ASSUME ClientFits, RestInv, Application
    PROVE  RestInv'
<1>1. CASE Connect
  BY <1>1, OpenRests DEF Connect, sockVars
<1>2. CASE Disconnect
  <2>1. closedByUser' = TRUE
    BY <1>2 DEF Disconnect
  <2>. QED  BY <2>1 DEF RestInv, OnItsWay, WsLives
<1>3. ASSUME NEW t \in Topics, ChannelSubscribe(t) PROVE RestInv'
  BY <1>3, SubscribeRests DEF ChannelSubscribe, sockVars
<1>4. ASSUME NEW op, NEW t, ChannelRequest(op, t) PROVE RestInv'
  BY <1>4, AwaitRests DEF ChannelRequest, sockVars
<1>. QED  BY <1>1, <1>2, <1>3, <1>4 DEF Application

LEMMA RunJobRests ==
    ASSUME ClientFits, RestInv, RunJob
    PROVE  RestInv'
<1>1. CASE RescheduleReconnect
  BY <1>1, ScheduleRests DEF RescheduleReconnect
<1>2. ASSUME NEW n, NEW ok, ResumeCall(n, ok) PROVE RestInv'
  <2>1. UNCHANGED <<welcomed, timers, ws>>
    BY <1>2 DEF ResumeCall, sockVars
  <2>2. \/ Await(AppCall(n), <<"sub", calls[n].topic>>, Tail(jobs))
        \/ UNCHANGED <<state, closedByUser, sock>> /\ mishaps' = mishaps
    BY <1>2 DEF ResumeCall, connVars
  <2>. QED  BY <2>1, <2>2, AwaitRests, RestStays
<1>3. ASSUME NEW s, NEW ok, ResumePass(s, ok) PROVE RestInv'
  <2>1. UNCHANGED <<welcomed, timers, ws>>
    BY <1>3 DEF ResumePass, sockVars
  <2>2. \/ \E k : Await(Pass(s), k, Tail(jobs))
        \/ \E t : Subscribe(Pass(s), t, Tail(jobs))
        \/ UNCHANGED <<state, closedByUser, sock>> /\ mishaps' = mishaps
    BY <1>3 DEF ResumePass, PassOn, connVars
  <2>. QED  BY <2>1, <2>2, AwaitRests, SubscribeRests, RestStays
<1>. QED  BY <1>1, <1>2, <1>3 DEF RunJob

LEMMA SocketRests ==
    ASSUME ClientFits, RestInv, NEW s \in Sockets, SocketEvent(s)
    PROVE  RestInv'
<1>1. sock \in [Sockets -> SocketStates] /\ ws \in Sockets \cup {0} /\ 0 \notin Sockets
  BY DEF ClientFits, ConnFits, SockFits, Sockets
<1>2. ASSUME NEW next \in {"dialing", "open"}, sock[s] \in {"token", "dialing"},
             sock' = [sock EXCEPT ![s] = next],
             UNCHANGED <<state, closedByUser, welcomed, timers, mishaps>>
      PROVE  OnItsWay'
  <2>1. s \notin welcomed'
    BY <1>2 DEF ClientFits, Opening
  <2>2. sock'[s] \in Live
    BY <1>1, <1>2 DEF Live
  <2>. QED  BY <2>1, <2>2 DEF OnItsWay
<1>3. CASE Dial(s)
  <2>1. ws' = s /\ sock'[s] = "dialing"
    BY <1>1, <1>3 DEF Dial
  <2>2. WsLives'
    BY <1>1, <2>1 DEF WsLives
  <2>. QED  BY <1>2, <1>3, <2>2 DEF Dial, RestInv
<1>4. CASE Opened(s)
  <2>1. /\ sock[s] = "dialing" /\ sock' = [sock EXCEPT ![s] = "open"]
        /\ UNCHANGED <<closedByUser, timers, ws, mishaps>>
    BY <1>4 DEF Opened, sockVars
  <2>2. /\ \A r \in Sockets : sock[r] = "token" => sock'[r] = "token"
        /\ ws # 0 /\ sock[ws] \in {"dialing", "open"} =>
              sock'[ws] \in {"dialing", "open"}
    BY <1>1, <2>1
  <2>3. WsLives'
    BY <2>1, <2>2 DEF RestInv, WsLives
  <2>. QED  BY <1>2, <1>4, <2>3 DEF Opened, sockVars, RestInv
<1>5. CASE TokenFails(s)
  BY <1>5, GiveUpRests DEF TokenFails
<1>6. CASE Welcome(s)
  <2>1. state' = "CONNECTED" /\ UNCHANGED <<closedByUser, sock, ws, timers, mishaps>>
    BY <1>6 DEF Welcome
  <2>. QED  BY <2>1 DEF RestInv, OnItsWay, WsLives
<1>7. CASE Answer(s) \/ Refuse(s) \/ \E t \in Topics : Event(s, t)
  <2>1. /\ UNCHANGED <<state, closedByUser, sock, welcomed, timers, ws>>
        /\ mishaps \subseteq mishaps'
    BY <1>7 DEF Answer, Refuse, Event, connVars, sockVars
  <2>. QED  BY <2>1, RestStays
<1>8. CASE Lost(s) \/ Closed(s)
  <2>1. OnClose(s)
    BY <1>8 DEF Lost, Closed
  <2>2. CASE closedByUser
    <3>1. closedByUser' = closedByUser
      BY <2>1 DEF OnClose
    <3>. QED  BY <2>2, <3>1 DEF RestInv, OnItsWay, WsLives
  <2>3. CASE ~closedByUser
    BY <2>1, <2>3, ScheduleRests DEF OnClose
  <2>. QED  BY <2>2, <2>3
<1>. QED  BY <1>3, <1>4, <1>5, <1>6, <1>7, <1>8 DEF SocketEvent

LEMMA TimersRest ==
    ASSUME ClientFits, RestInv, \/ ReconnectTimer
                                \/ \E d \in deadlines : Deadline(d[1], d[2])
    PROVE  RestInv'
<1>1. CASE ReconnectTimer
  <2>1. IF closedByUser THEN TRUE ELSE Open(Timer)
    BY <1>1 DEF ReconnectTimer, ReconnectUnless
  <2>2. UNCHANGED <<closedByUser, welcomed>>
    BY <1>1 DEF ReconnectTimer, ReconnectUnless
  <2>3. CASE closedByUser
    BY <2>2, <2>3 DEF RestInv, OnItsWay, WsLives
  <2>4. CASE ~closedByUser
    BY <2>1, <2>2, <2>4, OpenRests
  <2>. QED  BY <2>3, <2>4
<1>2. CASE \E d \in deadlines : Deadline(d[1], d[2])
  <2>1. /\ UNCHANGED <<state, closedByUser, sock, welcomed, timers, ws>>
        /\ mishaps \subseteq mishaps'
    BY <1>2 DEF Deadline, connVars, sockVars
  <2>. QED  BY <2>1, RestStays
<1>. QED  BY <1>1, <1>2

LEMMA RestInvNext == ClientFits /\ RestInv /\ [Next]_vars => RestInv'
<1>. SUFFICES ASSUME ClientFits, RestInv, [Next]_vars PROVE RestInv'
  OBVIOUS
<1>1. CASE UNCHANGED vars
  <2>1. /\ UNCHANGED <<state, closedByUser, sock, welcomed, timers, ws>>
        /\ mishaps' = mishaps
    BY <1>1 DEF vars, connVars, sockVars
  <2>. QED  BY <2>1, RestStays
<1>. QED  BY <1>1, RunJobRests, ApplicationRests, SocketRests, TimersRest DEF Next

LEMMA RestsWhereItSends == ClientFits /\ LinkInv /\ RestInv => RestsConnected
<1>. SUFFICES ASSUME ClientFits, LinkInv, RestInv, AtRest, KeepConnected, state # "FAILED"
              PROVE  state = "CONNECTED"
                     /\ ("gave up" \in mishaps \/ (CanSend /\ ws \in welcomed))
  BY DEF RestsConnected
<1>1. /\ timers = 0 /\ ~closedByUser
      /\ \A s \in Sockets : sock[s] \in Live => sock[s] = "open" /\ s \in welcomed
  BY DEF AtRest, KeepConnected
<1>2. ~(timers > 0)
  BY <1>1
<1>3. state = "CONNECTED"
  <2>1. state \notin {"CONNECTING", "RECONNECTING"}
    BY <1>1, <1>2 DEF RestInv, OnItsWay
  <2>2. state \in ConnectionStates /\ state # "DISCONNECTED"
    BY DEF ClientFits, ConnFits, KeepConnected
  <2>. QED  BY <2>1, <2>2 DEF ConnectionStates
<1>4. CASE "gave up" \notin mishaps
  <2>1. PICK s \in Sockets : sock[s] = "open"
    BY <1>1, <1>2 DEF LinkInv, Retrying
  <2>2. \A r \in Sockets : sock[r] # "token"
    BY <1>1 DEF Live
  <2>3. ws # 0 /\ sock[ws] \in {"dialing", "open"}
    BY <1>1, <1>2, <1>4, <2>1, <2>2 DEF RestInv, WsLives
  <2>4. ws \in Sockets
    BY <2>3 DEF ClientFits, SockFits
  <2>. QED  BY <1>1, <1>3, <2>3, <2>4 DEF Live, CanSend
<1>. QED  BY <1>3, <1>4

(* docs/SDK_TYPESCRIPT.md, Connection state: when nothing is under way any  *)
(* more, a client that wants a connection and does not say FAILED is        *)
(* connected, however its sockets and timers crossed; and if it never said  *)
(* FAILED while another socket lived, this.ws, the socket it sends on, is   *)
(* open and welcomed (beacn.ts, _open and _scheduleReconnect).              *)
THEOREM ClientRestsConnected == Spec => []RestsConnected
<1>1. Init => ClientFits /\ LinkInv /\ RestInv
  BY ClientFitsInit, LinkInvInit, RestInvInit
<1>2. ClientFits /\ LinkInv /\ RestInv /\ [Next]_vars => (ClientFits /\ LinkInv /\ RestInv)'
  BY ClientFitsNext, LinkInvNext, RestInvNext
<1>3. ClientFits /\ LinkInv /\ RestInv => RestsConnected
  BY RestsWhereItSends
<1>. QED  BY <1>1, <1>2, <1>3, PTL DEF Spec

-----------------------------------------------------------------------------
(***************************************************************************)
(* The TypeScript client comes to rest subscribed.  As long as nothing      *)
(* excuses it, a channel that says it is subscribed is served: a connection *)
(* is on its way; or an open socket has the subscription or will answer the *)
(* subscribe, and nothing after it on the wire leaves the topic; or a pass  *)
(* is going on and has yet to come to the channel; or an unsubscribe is out *)
(* or its caller has yet to hear of it.  At rest only the second is left.   *)
(*                                                                         *)
(* Four facts carry that over every step.  On the wire: no two requests     *)
(* that are out are the same, and a subscribe that is awaited is there.     *)
(* Of the calls: each waits in one place.  Of the passes: one begins at the *)
(* welcome of its socket and never unsubscribes.  And a call that hears     *)
(* that its subscribe was answered is alone in the queue: its channel is    *)
(* provided, or is being left, when it is marked.                           *)
(***************************************************************************)
SubOf(t) == <<"sub", t>>
UnsubOf(t) == <<"unsub", t>>

\* No two requests that are out are the same.
OnceOnWire ==
    \A s, r \in Sockets : \A i \in DOMAIN wire[s], j \in DOMAIN wire[r] :
        wire[s][i] = wire[r][j] => s = r /\ i = j

\* The requests of a socket after the i-th do not leave the topic.
NotLeft(s, t, i) == \A j \in DOMAIN wire[s] : j > i => wire[s][j] # UnsubOf(t)

\* A subscribe that is awaited will be answered, and holds after that unless
\* somebody awaits the end of the subscription.
SubHeld ==
    \A t \in Topics : pending[SubOf(t)] # NoOne =>
        \E r \in Sockets :
            /\ sock[r] \in {"open", "closing"}
            /\ \E i \in DOMAIN wire[r] :
                  wire[r][i] = SubOf(t) /\ (NotLeft(r, t, i) \/ pending[UnsubOf(t)] # NoOne)

WireInv == OnceOnWire /\ SubHeld

LEMMA TheKeys ==
    ASSUME NEW t \in Topics
    PROVE  SubOf(t) \in Keys /\ UnsubOf(t) \in Keys /\ SubOf(t) # UnsubOf(t)
           /\ \A x : SubOf(x) = SubOf(t) => x = t
  BY DEF Keys, SubOf, UnsubOf

\* A request that no mishap is told of: its key is not out.
LEMMA AwaitFresh ==
    ASSUME NEW who, NEW k, NEW work, Await(who, k, work), ~ExcusesChannels'
    PROVE  /\ pending[k] = NoOne
           /\ \A s \in Sockets : \A i \in DOMAIN wire[s] : wire[s][i] # k
<1>1. mishaps' = mishaps
         \cup (IF pending[k] # NoOne THEN {"overlap"} ELSE {})
         \cup (IF \E s \in Sockets : k \in ToSet(wire[s]) THEN {"crossed"} ELSE {})
  BY DEF Await
<1>2. "overlap" \notin mishaps' /\ "crossed" \notin mishaps'
  BY DEF ExcusesChannels
<1>3. \A s \in Sockets : k \notin ToSet(wire[s])
  BY <1>1, <1>2
<1>. QED  BY <1>1, <1>2, <1>3 DEF ToSet

LEMMA AwaitSends ==
    ASSUME ClientFits, NEW who, NEW k \in Keys, NEW work, Await(who, k, work), CanSend
    PROVE  /\ ws \in Sockets /\ sock[ws] = "open" /\ jobs' = work
           /\ pending' = [pending EXCEPT ![k] = who]
           /\ Len(wire[ws]) \in Nat /\ DOMAIN wire[ws] = 1..Len(wire[ws])
           /\ DOMAIN wire'[ws] = 1..(Len(wire[ws]) + 1)
           /\ \A i \in DOMAIN wire[ws] : wire'[ws][i] = wire[ws][i]
           /\ wire'[ws][Len(wire[ws]) + 1] = k
           /\ \A r \in Sockets : r # ws => wire'[r] = wire[r]
<1>1. /\ pending' = [pending EXCEPT ![k] = who]
      /\ wire' = [wire EXCEPT ![ws] = Append(@, k)]
      /\ jobs' = work
  BY DEF Await
<1>2. ws \in Sockets /\ sock[ws] = "open" /\ wire \in [Sockets -> Seq(Keys)]
  BY DEF CanSend, ClientFits, SockFits, ReqsFit
<1>3. wire[ws] \in Seq(Keys) /\ wire'[ws] = Append(wire[ws], k)
      /\ \A r \in Sockets : r # ws => wire'[r] = wire[r]
  BY <1>1, <1>2
<1>. DEFINE list == wire[ws]
            more == wire'[ws]
<1>4. list \in Seq(Keys) /\ more = Append(list, k)
  BY <1>3
<1>. HIDE DEF list, more
<1>5. Len(list) \in Nat /\ DOMAIN list = 1..Len(list)
  BY <1>4
<1>6. DOMAIN more = 1..(Len(list) + 1) /\ more[Len(list) + 1] = k
  BY <1>4
<1>7. \A i \in 1..Len(list) : more[i] = list[i]
  BY <1>4
<1>. QED  BY <1>1, <1>2, <1>3, <1>5, <1>6, <1>7 DEF list, more

LEMMA AwaitFails ==
    ASSUME ClientFits, NEW who, NEW k \in Keys, NEW work, Await(who, k, work), ~CanSend,
           pending[k] = NoOne
    PROVE  UNCHANGED <<wire, pending>> /\ jobs' = Append(work, Settled(who, FALSE))
<1>1. pending' = [pending EXCEPT ![k] = NoOne] /\ wire' = wire
      /\ jobs' = Append(work, Settled(who, FALSE))
  BY DEF Await
<1>2. pending' = pending
  BY <1>1 DEF ClientFits, ReqsFit
<1>. QED  BY <1>1, <1>2

LEMMA WireStays ==
    ASSUME WireInv, UNCHANGED <<wire, pending>>,
           \A r \in Sockets : sock[r] \in {"open", "closing"} =>
              sock'[r] \in {"open", "closing"}
    PROVE  WireInv'
<1>1. OnceOnWire'
  BY DEF WireInv, OnceOnWire
<1>2. SubHeld'
  BY DEF WireInv, SubHeld, NotLeft
<1>. QED  BY <1>1, <1>2 DEF WireInv

LEMMA AwaitWire ==
    ASSUME ClientFits, WireInv, NEW who, who # NoOne, NEW k \in Keys, NEW work,
           Await(who, k, work), ~ExcusesChannels'
    PROVE  WireInv'
<1>1. /\ pending[k] = NoOne
      /\ \A s \in Sockets : \A i \in DOMAIN wire[s] : wire[s][i] # k
  BY AwaitFresh
<1>2. sock' = sock
  BY DEF Await, connVars
<1>3. CASE ~CanSend
  <2>1. UNCHANGED <<wire, pending>>
    BY <1>1, <1>3, AwaitFails
  <2>. QED  BY <1>2, <2>1, WireStays
<1>4. CASE CanSend
  <2>. DEFINE end == Len(wire[ws]) + 1
  <2>1. /\ ws \in Sockets /\ sock[ws] = "open"
        /\ pending' = [pending EXCEPT ![k] = who]
        /\ Len(wire[ws]) \in Nat /\ DOMAIN wire[ws] = 1..Len(wire[ws])
        /\ DOMAIN wire'[ws] = 1..end
        /\ \A i \in DOMAIN wire[ws] : wire'[ws][i] = wire[ws][i]
        /\ wire'[ws][end] = k
        /\ \A r \in Sockets : r # ws => wire'[r] = wire[r]
    BY <1>4, AwaitSends
  <2>2. /\ end \in DOMAIN wire'[ws] /\ \A i \in DOMAIN wire'[ws] : i <= end
        /\ \A i \in DOMAIN wire'[ws] : i = end \/ i \in DOMAIN wire[ws]
        /\ \A i \in DOMAIN wire[ws] : i \in DOMAIN wire'[ws]
    BY <2>1
  <2>. HIDE DEF end
  <2>3. \A s \in Sockets : \A i \in DOMAIN wire'[s] :
           \/ i \in DOMAIN wire[s] /\ wire'[s][i] = wire[s][i]
           \/ s = ws /\ i = end /\ wire'[s][i] = k
    BY <2>1, <2>2
  <2>4. \A s \in Sockets : \A i \in DOMAIN wire[s] :
           i \in DOMAIN wire'[s] /\ wire'[s][i] = wire[s][i]
    BY <2>1, <2>2
  <2>5. OnceOnWire'
    <3>. SUFFICES ASSUME NEW s \in Sockets, NEW r \in Sockets, NEW i \in DOMAIN wire'[s],
                         NEW j \in DOMAIN wire'[r], wire'[s][i] = wire'[r][j]
                  PROVE  s = r /\ i = j
      BY DEF OnceOnWire
    <3>1. \/ i \in DOMAIN wire[s] /\ wire'[s][i] = wire[s][i]
          \/ s = ws /\ i = end /\ wire'[s][i] = k
      BY <2>3
    <3>2. \/ j \in DOMAIN wire[r] /\ wire'[r][j] = wire[r][j]
          \/ r = ws /\ j = end /\ wire'[r][j] = k
      BY <2>3
    <3>3. CASE i \in DOMAIN wire[s] /\ wire'[s][i] = wire[s][i]
      <4>1. wire'[r][j] # k
        BY <1>1, <3>3
      <4>2. j \in DOMAIN wire[r] /\ wire[s][i] = wire[r][j]
        BY <3>2, <3>3, <4>1
      <4>. QED  BY <3>3, <4>2 DEF WireInv, OnceOnWire
    <3>4. CASE s = ws /\ i = end /\ wire'[s][i] = k
      <4>1. ~(j \in DOMAIN wire[r] /\ wire'[r][j] = wire[r][j])
        BY <1>1, <3>4
      <4>. QED  BY <3>2, <3>4, <4>1
    <3>. QED  BY <3>1, <3>3, <3>4
  <2>6. SubHeld'
    <3>. SUFFICES ASSUME NEW t \in Topics, pending'[SubOf(t)] # NoOne
                  PROVE  \E r \in Sockets :
                            /\ sock'[r] \in {"open", "closing"}
                            /\ \E i \in DOMAIN wire'[r] :
                                  /\ wire'[r][i] = SubOf(t)
                                  /\ NotLeft(r, t, i)' \/ pending'[UnsubOf(t)] # NoOne
      BY DEF SubHeld
    <3>1. SubOf(t) \in Keys /\ UnsubOf(t) \in Keys /\ SubOf(t) # UnsubOf(t)
      BY TheKeys
    <3>2. \A q \in Keys : pending'[q] = IF q = k THEN who ELSE pending[q]
      BY <2>1 DEF ClientFits, ReqsFit
    <3>3. CASE k = SubOf(t)
      <4>1. \A j \in DOMAIN wire'[ws] : ~(j > end)
        BY <2>1 DEF end
      <4>2. PICK r \in Sockets, i \in DOMAIN wire'[ws] : r = ws /\ i = end
        BY <2>1, <2>2
      <4>3. NotLeft(r, t, i)'
        BY <4>1, <4>2 DEF NotLeft
      <4>. QED  BY <1>2, <2>1, <3>3, <4>2, <4>3
    <3>4. CASE k # SubOf(t)
      <4>1. pending[SubOf(t)] # NoOne
        BY <3>1, <3>2, <3>4
      <4>0. PICK r \in Sockets :
               /\ sock[r] \in {"open", "closing"}
               /\ \E i \in DOMAIN wire[r] :
                     /\ wire[r][i] = SubOf(t)
                     /\ NotLeft(r, t, i) \/ pending[UnsubOf(t)] # NoOne
        BY <4>1 DEF WireInv, SubHeld
      <4>2. PICK i \in DOMAIN wire[r] :
               /\ wire[r][i] = SubOf(t)
               /\ NotLeft(r, t, i) \/ pending[UnsubOf(t)] # NoOne
        BY <4>0
      <4>3. i \in DOMAIN wire'[r] /\ wire'[r][i] = SubOf(t)
        BY <2>4, <4>2
      <4>4. NotLeft(r, t, i)' \/ pending'[UnsubOf(t)] # NoOne
        <5>1. CASE k = UnsubOf(t) \/ pending[UnsubOf(t)] # NoOne
          BY <3>1, <3>2, <5>1
        <5>2. CASE k # UnsubOf(t) /\ NotLeft(r, t, i)
          BY <2>3, <5>2 DEF NotLeft
        <5>. QED  BY <4>2, <5>1, <5>2
      <4>. QED  BY <1>2, <4>0, <4>3, <4>4
    <3>. QED  BY <3>3, <3>4
  <2>. QED  BY <2>5, <2>6 DEF WireInv
<1>. QED  BY <1>3, <1>4

\* The oldest request leaves the wire.
LEMMA AnswerTakes ==
    ASSUME ClientFits, NEW s \in Sockets, Answer(s)
    PROVE  /\ sock[s] = "open" /\ s \in welcomed /\ jobs = <<>>
           /\ 1 \in DOMAIN wire[s] /\ Head(wire[s]) = wire[s][1] /\ Head(wire[s]) \in Keys
           /\ \A i \in DOMAIN wire[s] : i \in Nat /\ i >= 1
           /\ \A r \in Sockets : r # s => wire'[r] = wire[r]
           /\ \A i \in DOMAIN wire'[s] : i \in Nat /\ i >= 1 /\ i + 1 \in DOMAIN wire[s]
                                         /\ wire'[s][i] = wire[s][i + 1]
           /\ \A i \in DOMAIN wire[s] : i > 1 => i - 1 \in DOMAIN wire'[s]
                                         /\ wire'[s][i - 1] = wire[s][i]
           /\ \A q \in Keys : pending'[q] = IF q = Head(wire[s]) THEN NoOne ELSE pending[q]
           /\ jobs' = Outcome(Head(wire[s]), TRUE)
           /\ sock' = sock /\ welcomed' = welcomed
<1>1. /\ sock[s] = "open" /\ s \in welcomed /\ jobs = <<>> /\ wire[s] # <<>>
      /\ wire' = [wire EXCEPT ![s] = Tail(wire[s])]
      /\ pending' = [pending EXCEPT ![Head(wire[s])] = NoOne]
      /\ jobs' = Outcome(Head(wire[s]), TRUE)
      /\ sock' = sock /\ welcomed' = welcomed
  BY DEF Answer, Idle, connVars, ClientFits, ReqsFit
<1>2. /\ wire \in [Sockets -> Seq(Keys)] /\ wire[s] \in Seq(Keys)
      /\ pending \in [Keys -> Callers \cup {NoOne}]
  BY DEF ClientFits, ReqsFit
<1>3. wire'[s] = Tail(wire[s]) /\ \A r \in Sockets : r # s => wire'[r] = wire[r]
  BY <1>1, <1>2
<1>. DEFINE list == wire[s]
            less == wire'[s]
<1>4. list \in Seq(Keys) /\ list # <<>> /\ less = Tail(list)
  BY <1>1, <1>2, <1>3
<1>. HIDE DEF list, less
<1>5. /\ Len(list) \in Nat /\ DOMAIN list = 1..Len(list) /\ Len(list) >= 1
      /\ Head(list) = list[1] /\ Head(list) \in Keys
      /\ DOMAIN less = 1..(Len(list) - 1)
  BY <1>4
<1>6. \A i \in 1..(Len(list) - 1) : less[i] = list[i + 1]
  BY <1>4
<1>7. \A i \in DOMAIN less : i \in Nat /\ i >= 1 /\ i + 1 \in DOMAIN list
                             /\ less[i] = list[i + 1]
  BY <1>5, <1>6
<1>8. \A i \in DOMAIN list : i > 1 => i - 1 \in DOMAIN less /\ less[i - 1] = list[i]
  BY <1>5, <1>6
<1>9. 1 \in DOMAIN list /\ \A i \in DOMAIN list : i \in Nat /\ i >= 1
  BY <1>5
<1>10. \A q \in Keys : pending'[q] = IF q = Head(wire[s]) THEN NoOne ELSE pending[q]
  BY <1>1, <1>2
<1>. QED  BY <1>1, <1>3, <1>5, <1>7, <1>8, <1>9, <1>10 DEF list, less

LEMMA AnswerLeaves ==
    ASSUME ClientFits, NEW s \in Sockets, Answer(s), NEW t
    PROVE  /\ NotLeft(s, t, 0) => NotLeft(s, t, 0)'
           /\ \A i \in DOMAIN wire[s] : NotLeft(s, t, i) => NotLeft(s, t, i - 1)'
<1>1. /\ \A i \in DOMAIN wire'[s] : i \in Nat /\ i >= 1 /\ i + 1 \in DOMAIN wire[s]
                                    /\ wire'[s][i] = wire[s][i + 1]
      /\ \A i \in DOMAIN wire[s] : i \in Nat
  BY AnswerTakes
<1>2. ASSUME NotLeft(s, t, 0) PROVE NotLeft(s, t, 0)'
  BY <1>1, <1>2 DEF NotLeft
<1>3. ASSUME NEW i \in DOMAIN wire[s], NotLeft(s, t, i), NEW j \in DOMAIN wire'[s], j > i - 1
      PROVE  wire'[s][j] # UnsubOf(t)
  <2>1. i \in Nat /\ j \in Nat /\ j + 1 \in DOMAIN wire[s] /\ wire'[s][j] = wire[s][j + 1]
    BY <1>1
  <2>2. j + 1 > i
    BY <1>3, <2>1
  <2>. QED  BY <1>3, <2>1, <2>2 DEF NotLeft
<1>. QED  BY <1>2, <1>3 DEF NotLeft

LEMMA AnswerWire ==
    ASSUME ClientFits, WireInv, NEW s \in Sockets, Answer(s)
    PROVE  WireInv'
<1>. DEFINE k == Head(wire[s])
<1>1. /\ sock' = sock
      /\ 1 \in DOMAIN wire[s] /\ k = wire[s][1] /\ k \in Keys
      /\ \A i \in DOMAIN wire[s] : i \in Nat /\ i >= 1
      /\ \A r \in Sockets : r # s => wire'[r] = wire[r]
      /\ \A i \in DOMAIN wire'[s] : i \in Nat /\ i >= 1 /\ i + 1 \in DOMAIN wire[s]
                                    /\ wire'[s][i] = wire[s][i + 1]
      /\ \A i \in DOMAIN wire[s] : i > 1 => i - 1 \in DOMAIN wire'[s]
                                    /\ wire'[s][i - 1] = wire[s][i]
      /\ \A q \in Keys : pending'[q] = IF q = k THEN NoOne ELSE pending[q]
  BY AnswerTakes
<1>. HIDE DEF k
<1>2. OnceOnWire'
  <2>. SUFFICES ASSUME NEW q \in Sockets, NEW r \in Sockets, NEW i \in DOMAIN wire'[q],
                       NEW j \in DOMAIN wire'[r], wire'[q][i] = wire'[r][j]
                PROVE  q = r /\ i = j
    BY DEF OnceOnWire
  <2>. DEFINE from(p, x) == IF p = s THEN x + 1 ELSE x
  <2>1. from(q, i) \in DOMAIN wire[q] /\ wire'[q][i] = wire[q][from(q, i)]
    BY <1>1
  <2>2. from(r, j) \in DOMAIN wire[r] /\ wire'[r][j] = wire[r][from(r, j)]
    BY <1>1
  <2>. HIDE DEF from
  <2>3. wire[q][from(q, i)] = wire[r][from(r, j)]
    BY <2>1, <2>2
  <2>4. q = r /\ from(q, i) = from(r, j)
    BY <2>1, <2>2, <2>3 DEF WireInv, OnceOnWire
  <2>5. CASE q = s
    <3>1. i \in Nat /\ j \in Nat
      BY <1>1, <2>4, <2>5
    <3>2. i + 1 = j + 1
      BY <2>4, <2>5 DEF from
    <3>. QED  BY <2>4, <3>1, <3>2
  <2>6. CASE q # s
    BY <2>4, <2>6 DEF from
  <2>. QED  BY <2>5, <2>6
<1>3. SubHeld'
  <2>. SUFFICES ASSUME NEW t \in Topics, pending'[SubOf(t)] # NoOne
                PROVE  \E r \in Sockets :
                          /\ sock'[r] \in {"open", "closing"}
                          /\ \E i \in DOMAIN wire'[r] :
                                /\ wire'[r][i] = SubOf(t)
                                /\ NotLeft(r, t, i)' \/ pending'[UnsubOf(t)] # NoOne
    BY DEF SubHeld
  <2>1. SubOf(t) \in Keys /\ UnsubOf(t) \in Keys
    BY TheKeys
  <2>2. pending[SubOf(t)] # NoOne /\ k # SubOf(t)
    BY <1>1, <2>1
  <2>0. PICK r \in Sockets :
           /\ sock[r] \in {"open", "closing"}
           /\ \E i \in DOMAIN wire[r] :
                 /\ wire[r][i] = SubOf(t)
                 /\ NotLeft(r, t, i) \/ pending[UnsubOf(t)] # NoOne
    BY <2>2 DEF WireInv, SubHeld
  <2>3. PICK i \in DOMAIN wire[r] :
           /\ wire[r][i] = SubOf(t)
           /\ NotLeft(r, t, i) \/ pending[UnsubOf(t)] # NoOne
    BY <2>0
  <2>4. NotLeft(r, t, i) \/ pending'[UnsubOf(t)] # NoOne
    <3>1. CASE k # UnsubOf(t)
      BY <1>1, <2>1, <2>3, <3>1
    <3>2. CASE k = UnsubOf(t)
      <4>1. ASSUME NEW j \in DOMAIN wire[r], j > i, wire[r][j] = UnsubOf(t) PROVE FALSE
        <5>1. 1 \in DOMAIN wire[s] /\ wire[r][j] = wire[s][1]
          BY <1>1, <3>2, <4>1
        <5>2. r = s /\ j = 1
          BY <5>1 DEF WireInv, OnceOnWire
        <5>3. i \in Nat /\ i >= 1
          BY <1>1, <5>2
        <5>. QED  BY <4>1, <5>2, <5>3
      <4>. QED  BY <4>1 DEF NotLeft
    <3>. QED  BY <3>1, <3>2
  <2>5. CASE r # s
    <3>1. wire'[r] = wire[r]
      BY <1>1, <2>5
    <3>2. NotLeft(r, t, i) => NotLeft(r, t, i)'
      BY <3>1 DEF NotLeft
    <3>. QED  BY <1>1, <2>0, <2>3, <2>4, <3>1, <3>2
  <2>6. CASE r = s
    <3>1. i # 1
      BY <1>1, <2>2, <2>3, <2>6
    <3>2. i > 1
      BY <1>1, <2>6, <3>1
    <3>3. i - 1 \in DOMAIN wire'[r] /\ wire'[r][i - 1] = SubOf(t)
      BY <1>1, <2>3, <2>6, <3>2
    <3>4. NotLeft(r, t, i) => NotLeft(r, t, i - 1)'
      BY <2>6, AnswerLeaves
    <3>. QED  BY <1>1, <2>0, <2>3, <2>4, <3>3, <3>4
  <2>. QED  BY <2>5, <2>6
<1>. QED  BY <1>2, <1>3 DEF WireInv

LEMMA OnCloseWire ==
    ASSUME ClientFits, WireInv, NEW s \in Sockets, OnClose(s)
    PROVE  WireInv'
<1>1. wire' = [wire EXCEPT ![s] = <<>>] /\ pending' = [k \in Keys |-> NoOne]
  BY DEF OnClose
<1>2. \A r \in Sockets : \A i \in DOMAIN wire'[r] :
         r # s /\ i \in DOMAIN wire[r] /\ wire'[r][i] = wire[r][i]
  BY <1>1 DEF ClientFits, ReqsFit
<1>3. OnceOnWire'
  BY <1>2 DEF WireInv, OnceOnWire
<1>4. SubHeld'
  BY <1>1, TheKeys DEF SubHeld
<1>. QED  BY <1>3, <1>4 DEF WireInv

LEMMA OpenWire ==
    ASSUME ClientFits, WireInv, NEW who, Open(who), UNCHANGED <<wire, pending>>
    PROVE  WireInv'
<1>1. \A r \in Sockets : sock[r] \in {"open", "closing"} => sock'[r] = sock[r]
  BY DEF Open, ClientFits, ConnFits
<1>. QED  BY <1>1, WireStays

LEMMA SubscribeWire ==
    ASSUME ClientFits, WireInv, NEW who, who # NoOne, NEW t \in Topics, NEW work,
           Subscribe(who, t, work), ~ExcusesChannels'
    PROVE  WireInv'
<1>1. CASE state = "CONNECTED"
  BY <1>1, AwaitWire DEF Subscribe, Keys
<1>2. CASE state # "CONNECTED"
  BY <1>2, OpenWire DEF Subscribe, reqVars
<1>. QED  BY <1>1, <1>2

\* What a resubscribe pass does next.
LEMMA PassAsks ==
    ASSUME ClientFits, NEW s \in Sockets, NEW ok, ResumePass(s, ok)
    PROVE  \/ \E k \in Keys : /\ k[1] # "unsub" /\ Await(Pass(s), k, Tail(jobs))
                              /\ \A r \in Sockets : pass'[r].n = pass[r].n
                              /\ \A r \in Sockets : r # s => pass'[r] = pass[r]
           \/ PassOn(s, ChannelsAfter(pass[s].n))
<1>. USE TsClientAssumption
<1>1. pass \in [Sockets -> PassRow]
  BY DEF ClientFits, PassFits
<1>2. ASSUME NEW at \in {"sub", "replay"}, pass[s].at # "none",
             pass' = [pass EXCEPT ![s].at = at],
             Await(Pass(s), <<at, Channels[pass[s].n]>>, Tail(jobs))
      PROVE  \E k \in Keys : /\ k[1] # "unsub" /\ Await(Pass(s), k, Tail(jobs))
                             /\ \A r \in Sockets : pass'[r].n = pass[r].n
                             /\ \A r \in Sockets : r # s => pass'[r] = pass[r]
  <2>1. pass[s].n \in DOMAIN Channels
    BY <1>2 DEF ClientFits, PassFits, PassRow
  <2>. DEFINE k == <<at, Channels[pass[s].n]>>
  <2>2. k \in Keys /\ k[1] # "unsub"
    BY <1>2, <2>1 DEF Keys, Topics
  <2>3. pass[s] \in [n : 0..Len(Channels), at : {"none", "connect", "sub", "replay"}]
    BY <1>1 DEF PassRow
  <2>4. \A r \in Sockets : pass'[r].n = pass[r].n /\ (r # s => pass'[r] = pass[r])
    BY <1>1, <1>2, <2>3
  <2>. QED  BY <1>2, <2>2, <2>4
<1>3. \/ \E at \in {"sub", "replay"} :
            /\ pass[s].at # "none"
            /\ pass' = [pass EXCEPT ![s].at = at]
            /\ Await(Pass(s), <<at, Channels[pass[s].n]>>, Tail(jobs))
      \/ PassOn(s, ChannelsAfter(pass[s].n))
  BY DEF ResumePass
<1>. QED  BY <1>2, <1>3

\* The channel the pass goes on with is the first of those left.
LEMMA PassGoesOn ==
    ASSUME ClientFits, NEW s \in Sockets, PassOn(s, ChannelsAfter(pass[s].n))
    PROVE  \/ /\ ChannelsAfter(pass[s].n) = {}
              /\ pass' = [pass EXCEPT ![s] = NoPass] /\ jobs' = Tail(jobs)
              /\ UNCHANGED <<connVars, reqVars, mishaps>>
           \/ \E m \in ChannelsAfter(pass[s].n) :
                 /\ \A j \in ChannelsAfter(pass[s].n) : m <= j
                 /\ m \in DOMAIN Channels /\ Channels[m] \in Topics
                 /\ pass' = [pass EXCEPT ![s] = [n |-> m, at |-> Subscribing]]
                 /\ Subscribe(Pass(s), Channels[m], Tail(jobs))
<1>. USE TsClientAssumption
<1>. DEFINE left == ChannelsAfter(pass[s].n)
            m == CHOOSE x \in left : \A j \in left : x <= j
<1>1. CASE left = {}
  BY <1>1 DEF PassOn
<1>2. CASE left # {}
  <2>1. DOMAIN Channels = 1..Len(Channels) /\ Len(Channels) \in Nat
    OBVIOUS
  <2>2. left \subseteq Nat /\ left \subseteq DOMAIN Channels
    BY <2>1 DEF ChannelsAfter
  <2>3. \E x \in left : \A j \in left : x <= j
    BY <1>2, <2>2, Least
  <2>4. m \in left /\ \A j \in left : m <= j
    BY <2>3
  <2>5. /\ Subscribe(Pass(s), Channels[m], Tail(jobs))
        /\ pass' = [pass EXCEPT ![s] = [n |-> m, at |-> Subscribing]]
    BY <1>2 DEF PassOn
  <2>. HIDE DEF m
  <2>6. m \in DOMAIN Channels /\ Channels[m] \in Topics
    BY <2>1, <2>2, <2>4 DEF Topics, ToSet
  <2>. HIDE DEF left
  <2>. QED  BY <2>4, <2>5, <2>6 DEF left
<1>. QED  BY <1>1, <1>2

\* Whose continuation runs.
LEMMA RunJobIs ==
    ASSUME ClientFits, RunJob
    PROVE  /\ ~Idle /\ Head(jobs) \in JobRow /\ Tail(jobs) \in Seq(JobRow)
           /\ \/ Head(jobs).who = Timer /\ RescheduleReconnect
              \/ \E n \in DOMAIN calls :
                    Head(jobs).who = AppCall(n) /\ ResumeCall(n, Head(jobs).ok)
              \/ \E s \in Sockets :
                    Head(jobs).who = Pass(s) /\ ResumePass(s, Head(jobs).ok)
<1>1. ~Idle /\ Head(jobs) \in JobRow /\ Tail(jobs) \in Seq(JobRow)
  BY NextJob DEF RunJob
<1>2. Head(jobs).who \in Callers \cup {Timer}
  BY <1>1 DEF JobRow
<1>3. /\ Head(jobs).who[1] = "call" =>
            Head(jobs).who[2] \in DOMAIN calls /\ Head(jobs).who = AppCall(Head(jobs).who[2])
      /\ Head(jobs).who[1] = "pass" =>
            Head(jobs).who[2] \in Sockets /\ Head(jobs).who = Pass(Head(jobs).who[2])
  BY <1>2, CallerIs
<1>. QED  BY <1>1, <1>3 DEF RunJob

\* What a call does next.
LEMMA CallAsks ==
    ASSUME ClientFits, NEW n \in DOMAIN calls, NEW ok, ResumeCall(n, ok)
    PROVE  \/ /\ calls[n].op = "sub" /\ calls[n].at = "connect" /\ ok
              /\ SubOf(calls[n].topic) \in Keys
              /\ Await(AppCall(n), SubOf(calls[n].topic), Tail(jobs))
              /\ calls' = [calls EXCEPT ![n].at = "sub"]
              /\ UNCHANGED subscribed
           \/ /\ ~(calls[n].op = "sub" /\ calls[n].at = "connect" /\ ok)
              /\ calls' = [calls EXCEPT ![n].at = "over"]
              /\ jobs' = Tail(jobs)
              /\ subscribed' = CASE ok /\ calls[n].op = "sub" -> subscribed \cup {calls[n].topic}
                                 [] ok /\ calls[n].op = "unsub" -> subscribed \ {calls[n].topic}
                                 [] OTHER -> subscribed
              /\ UNCHANGED <<connVars, reqVars, mishaps>>
<1>1. calls[n] \in CallRow
  BY DEF ClientFits, AppFits
<1>2. SubOf(calls[n].topic) \in Keys
  BY <1>1, TheKeys DEF CallRow
<1>. QED  BY <1>2 DEF ResumeCall, SubOf

\* The steps that mishaps tell of.
LEMMA Excused ==
    ASSUME ~ExcusesChannels'
    PROVE  /\ \A s : ~Refuse(s)
           /\ \A d : ~Deadline(d[1], d[2])
<1>1. {"refused", "timeout", "overlap"} \cap mishaps' = {}
  BY DEF ExcusesChannels
<1>2. \A s : Refuse(s) => "refused" \in mishaps'
  BY DEF Refuse
<1>3. ASSUME NEW d, Deadline(d[1], d[2])
      PROVE  "timeout" \in mishaps' \/ "overlap" \in mishaps'
  BY <1>3 DEF Deadline
<1>. QED  BY <1>1, <1>2, <1>3

LEMMA ApplicationWire ==
    ASSUME ClientFits, WireInv, Application, ~ExcusesChannels'
    PROVE  WireInv'
<1>1. Me # NoOne
  BY Apart DEF Me
<1>2. CASE Connect
  BY <1>2, OpenWire DEF Connect, reqVars
<1>3. CASE Disconnect
  <2>1. /\ UNCHANGED <<wire, pending>>
        /\ sock' = sock \/ (sock[ws] \in {"dialing", "open"}
                            /\ sock' = [sock EXCEPT ![ws] = "closing"])
    BY <1>3 DEF Disconnect, reqVars
  <2>2. \A r \in Sockets : sock[r] \in {"open", "closing"} => sock'[r] \in {"open", "closing"}
    BY <2>1 DEF ClientFits, ConnFits
  <2>. QED  BY <2>1, <2>2, WireStays
<1>4. ASSUME NEW t \in Topics, ChannelSubscribe(t) PROVE WireInv'
  <2>1. Subscribe(Me, t, <<>>)
    BY <1>4 DEF ChannelSubscribe
  <2>. QED  BY <1>1, <2>1, SubscribeWire
<1>5. ASSUME NEW k \in Keys, ChannelRequest(k[1], k[2]) PROVE WireInv'
  <2>1. Await(Me, <<k[1], k[2]>>, <<>>) /\ <<k[1], k[2]>> \in Keys
    BY <1>5 DEF ChannelRequest, Keys
  <2>. QED  BY <1>1, <2>1, AwaitWire
<1>. QED  BY <1>2, <1>3, <1>4, <1>5 DEF Application

LEMMA RunJobWire ==
    ASSUME ClientFits, WireInv, RunJob, ~ExcusesChannels'
    PROVE  WireInv'
<1>1. CASE RescheduleReconnect
  <2>1. UNCHANGED <<wire, pending, sock>>
    BY <1>1 DEF RescheduleReconnect, reqVars
  <2>. QED  BY <2>1, WireStays
<1>2. ASSUME NEW n \in DOMAIN calls, NEW ok, ResumeCall(n, ok) PROVE WireInv'
  <2>1. AppCall(n) # NoOne
    BY Apart
  <2>2. CASE UNCHANGED <<connVars, reqVars, mishaps>>
    <3>1. UNCHANGED <<wire, pending, sock>>
      BY <2>2 DEF connVars, reqVars
    <3>. QED  BY <3>1, WireStays
  <2>. QED  BY <1>2, <2>1, <2>2, CallAsks, AwaitWire
<1>3. ASSUME NEW s \in Sockets, NEW ok, ResumePass(s, ok) PROVE WireInv'
  <2>1. Pass(s) # NoOne
    BY Apart
  <2>2. CASE \E k \in Keys : Await(Pass(s), k, Tail(jobs))
    BY <2>1, <2>2, AwaitWire
  <2>3. CASE PassOn(s, ChannelsAfter(pass[s].n))
    <3>1. CASE UNCHANGED <<connVars, reqVars, mishaps>>
      <4>1. UNCHANGED <<wire, pending, sock>>
        BY <3>1 DEF connVars, reqVars
      <4>. QED  BY <4>1, WireStays
    <3>2. ASSUME NEW t \in Topics, Subscribe(Pass(s), t, Tail(jobs)) PROVE WireInv'
      BY <2>1, <3>2, SubscribeWire
    <3>. QED  BY <2>3, <3>1, <3>2, PassGoesOn
  <2>. QED  BY <1>3, <2>2, <2>3, PassAsks
<1>. QED  BY <1>1, <1>2, <1>3, RunJobIs

LEMMA SocketWire ==
    ASSUME ClientFits, WireInv, NEW s \in Sockets, SocketEvent(s), ~ExcusesChannels'
    PROVE  WireInv'
<1>1. CASE Dial(s) \/ TokenFails(s) \/ Opened(s)
  <2>1. /\ UNCHANGED <<wire, pending>> /\ sock[s] \in {"token", "dialing"}
        /\ \E x \in {"dialing", "closed", "open"} : sock' = [sock EXCEPT ![s] = x]
    BY <1>1 DEF Dial, TokenFails, Opened, reqVars
  <2>2. \A r \in Sockets : sock[r] \in {"open", "closing"} => sock'[r] = sock[r]
    BY <2>1 DEF ClientFits, ConnFits
  <2>. QED  BY <2>1, <2>2, WireStays
<1>2. CASE Welcome(s) \/ \E t \in Topics : Event(s, t)
  <2>1. UNCHANGED <<wire, pending, sock>>
    BY <1>2 DEF Welcome, Event, reqVars, connVars
  <2>. QED  BY <2>1, WireStays
<1>3. CASE Lost(s) \/ Closed(s)
  BY <1>3, OnCloseWire DEF Lost, Closed
<1>. QED  BY <1>1, <1>2, <1>3, AnswerWire, Excused DEF SocketEvent

LEMMA WireInvNext == ClientFits /\ WireInv /\ [Next]_vars /\ ~ExcusesChannels' => WireInv'
<1>. SUFFICES ASSUME ClientFits, WireInv, [Next]_vars, ~ExcusesChannels' PROVE WireInv'
  OBVIOUS
<1>1. CASE UNCHANGED vars
  <2>1. UNCHANGED <<wire, pending, sock>>
    BY <1>1 DEF vars, reqVars, connVars
  <2>. QED  BY <2>1, WireStays
<1>2. CASE ReconnectTimer
  <2>1. /\ UNCHANGED <<wire, pending>>
        /\ IF closedByUser THEN UNCHANGED <<state, sock, opener>> ELSE Open(Timer)
    BY <1>2 DEF ReconnectTimer, ReconnectUnless, reqVars
  <2>2. CASE closedByUser
    BY <2>1, <2>2, WireStays
  <2>3. CASE ~closedByUser
    BY <2>1, <2>3, OpenWire
  <2>. QED  BY <2>2, <2>3
<1>. QED  BY <1>1, <1>2, RunJobWire, ApplicationWire, SocketWire, Excused DEF Next

\* A call waits in one place: it has one job to run, or one socket opens for it,
\* or one entry is its own.
ReqOf(n) == <<calls[n].at, calls[n].topic>>
CalledOnce(list) ==
    \A n : \A i, j \in DOMAIN list :
        list[i].who = AppCall(n) /\ list[j].who = AppCall(n) => i = j
CallWaits ==
    \A n \in DOMAIN calls :
        /\ \A k \in Keys : pending[k] = AppCall(n) => k = ReqOf(n)
        /\ \A s \in Sockets : opener[s] = AppCall(n) => calls[n].at = "connect"
        /\ \A s, r \in Sockets : opener[s] = AppCall(n) /\ opener[r] = AppCall(n) => s = r
        /\ HeardIn(jobs, n) => calls[n].at # "over" /\ ~HeardElse(n)
CallOps ==
    \A n \in DOMAIN calls : \/ calls[n].at \in {calls[n].op, "over"}
                            \/ calls[n].op = "sub" /\ calls[n].at = "connect"

CallInv == CallWaits /\ CalledOnce(jobs) /\ CallOps

LEMMA TailHeard ==
    ASSUME NEW T, NEW list \in Seq(T), list # <<>>
    PROVE  /\ \A n : HeardIn(Tail(list), n) => HeardIn(list, n)
           /\ CalledOnce(list) => CalledOnce(Tail(list))
           /\ \A n : CalledOnce(list) /\ Head(list).who = AppCall(n) => ~HeardIn(Tail(list), n)
<1>1. /\ Len(list) \in Nat /\ Len(list) >= 1 /\ DOMAIN list = 1..Len(list)
      /\ DOMAIN Tail(list) = 1..(Len(list) - 1) /\ Head(list) = list[1]
  OBVIOUS
<1>2. \A i \in 1..(Len(list) - 1) : Tail(list)[i] = list[i + 1]
  OBVIOUS
<1>3. \A i \in DOMAIN Tail(list) : i \in Nat /\ i >= 1 /\ i + 1 \in DOMAIN list
                                   /\ Tail(list)[i] = list[i + 1]
  BY <1>1, <1>2
<1>4. \A n : HeardIn(Tail(list), n) => HeardIn(list, n)
  BY <1>3 DEF HeardIn
<1>5. ASSUME CalledOnce(list) PROVE CalledOnce(Tail(list))
  <2>. SUFFICES ASSUME NEW n, NEW i \in DOMAIN Tail(list), NEW j \in DOMAIN Tail(list),
                       Tail(list)[i].who = AppCall(n), Tail(list)[j].who = AppCall(n)
                PROVE  i = j
    BY DEF CalledOnce
  <2>1. /\ i + 1 \in DOMAIN list /\ list[i + 1].who = AppCall(n)
        /\ j + 1 \in DOMAIN list /\ list[j + 1].who = AppCall(n)
    BY <1>3
  <2>2. i + 1 = j + 1
    BY <1>5, <2>1 DEF CalledOnce
  <2>. QED  BY <1>3, <2>2
<1>6. ASSUME NEW n, CalledOnce(list), Head(list).who = AppCall(n), HeardIn(Tail(list), n)
      PROVE  FALSE
  <2>1. PICK i \in DOMAIN Tail(list) : Tail(list)[i].who = AppCall(n)
    BY <1>6 DEF HeardIn
  <2>2. i \in Nat /\ i >= 1 /\ i + 1 \in DOMAIN list /\ list[i + 1].who = AppCall(n)
    BY <1>3, <2>1
  <2>3. 1 \in DOMAIN list /\ list[1].who = AppCall(n)
    BY <1>1, <1>6
  <2>4. i + 1 = 1
    BY <1>6, <2>2, <2>3 DEF CalledOnce
  <2>. QED  BY <2>2, <2>4
<1>. QED  BY <1>4, <1>5, <1>6

LEMMA AppendHeard ==
    ASSUME NEW T, NEW list \in Seq(T), NEW row
    PROVE  /\ \A n : HeardIn(Append(list, row), n) =>
                        HeardIn(list, n) \/ row.who = AppCall(n)
           /\ (CalledOnce(list) /\ \A n : row.who = AppCall(n) => ~HeardIn(list, n))
                  => CalledOnce(Append(list, row))
<1>. DEFINE U == T \cup {row}
            more == Append(list, row)
<1>1. list \in Seq(U) /\ row \in U
  BY SeqWiden
<1>. HIDE DEF U
<1>2. /\ Len(list) \in Nat /\ DOMAIN list = 1..Len(list)
      /\ DOMAIN more = 1..(Len(list) + 1) /\ more[Len(list) + 1] = row
  BY <1>1
<1>3. \A i \in 1..Len(list) : more[i] = list[i]
  BY <1>1
<1>. HIDE DEF more
<1>4. \A i \in DOMAIN more : \/ i \in DOMAIN list /\ more[i] = list[i]
                             \/ i = Len(list) + 1 /\ more[i] = row
  BY <1>2, <1>3
<1>5. \A n : HeardIn(more, n) => HeardIn(list, n) \/ row.who = AppCall(n)
  BY <1>4 DEF HeardIn
<1>6. ASSUME CalledOnce(list), \A n : row.who = AppCall(n) => ~HeardIn(list, n)
      PROVE  CalledOnce(more)
  <2>. SUFFICES ASSUME NEW n, NEW i \in DOMAIN more, NEW j \in DOMAIN more,
                       more[i].who = AppCall(n), more[j].who = AppCall(n)
                PROVE  i = j
    BY DEF CalledOnce
  <2>1. CASE row.who = AppCall(n)
    <3>1. \A x \in DOMAIN list : list[x].who # AppCall(n)
      BY <1>6, <2>1 DEF HeardIn
    <3>. QED  BY <1>4, <3>1
  <2>2. CASE row.who # AppCall(n)
    <3>1. i \in DOMAIN list /\ list[i].who = AppCall(n)
          /\ j \in DOMAIN list /\ list[j].who = AppCall(n)
      BY <1>4, <2>2
    <3>. QED  BY <1>6, <3>1 DEF CalledOnce
  <2>. QED  BY <2>1, <2>2
<1>. QED  BY <1>5, <1>6 DEF more

LEMMA JoinOnce ==
    ASSUME NEW T, NEW list \in Seq(T), NEW more \in Seq(T)
    PROVE  /\ \A n : HeardIn(list \o more, n) => HeardIn(list, n) \/ HeardIn(more, n)
           /\ (/\ CalledOnce(list) /\ CalledOnce(more)
               /\ \A n : ~(HeardIn(list, n) /\ HeardIn(more, n))) => CalledOnce(list \o more)
<1>. DEFINE all == list \o more
<1>1. /\ DOMAIN list = 1..Len(list) /\ DOMAIN more = 1..Len(more)
      /\ DOMAIN all = 1..(Len(list) + Len(more))
      /\ Len(list) \in Nat /\ Len(more) \in Nat
  OBVIOUS
<1>2. \A i \in 1..Len(list) : all[i] = list[i]
  OBVIOUS
<1>3. \A i \in 1..Len(more) : all[Len(list) + i] = more[i]
  OBVIOUS
<1>. HIDE DEF all
<1>4. \A i \in DOMAIN all : \/ i \in DOMAIN list /\ all[i] = list[i]
                            \/ /\ i - Len(list) \in DOMAIN more
                               /\ all[i] = more[i - Len(list)]
  <2>. SUFFICES ASSUME NEW i \in DOMAIN all, i \notin DOMAIN list
                PROVE  i - Len(list) \in DOMAIN more /\ all[i] = more[i - Len(list)]
    BY <1>1, <1>2
  <2>1. i - Len(list) \in 1..Len(more) /\ Len(list) + (i - Len(list)) = i
    BY <1>1
  <2>. QED  BY <1>1, <1>3, <2>1
<1>5. \A n : HeardIn(all, n) => HeardIn(list, n) \/ HeardIn(more, n)
  BY <1>4 DEF HeardIn
<1>6. ASSUME CalledOnce(list), CalledOnce(more),
             \A n : ~(HeardIn(list, n) /\ HeardIn(more, n))
      PROVE  CalledOnce(all)
  <2>. SUFFICES ASSUME NEW n, NEW i \in DOMAIN all, NEW j \in DOMAIN all,
                       all[i].who = AppCall(n), all[j].who = AppCall(n)
                PROVE  i = j
    BY DEF CalledOnce
  <2>1. CASE HeardIn(list, n)
    <3>1. \A x \in DOMAIN more : more[x].who # AppCall(n)
      BY <1>6, <2>1 DEF HeardIn
    <3>2. i \in DOMAIN list /\ list[i].who = AppCall(n)
          /\ j \in DOMAIN list /\ list[j].who = AppCall(n)
      BY <1>4, <3>1
    <3>. QED  BY <1>6, <3>2 DEF CalledOnce
  <2>2. CASE ~HeardIn(list, n)
    <3>1. \A x \in DOMAIN list : list[x].who # AppCall(n)
      BY <2>2 DEF HeardIn
    <3>2. /\ i - Len(list) \in DOMAIN more /\ more[i - Len(list)].who = AppCall(n)
          /\ j - Len(list) \in DOMAIN more /\ more[j - Len(list)].who = AppCall(n)
      BY <1>4, <3>1
    <3>3. i - Len(list) = j - Len(list)
      BY <1>6, <3>2 DEF CalledOnce
    <3>. QED  BY <1>1, <3>3
  <2>. QED  BY <2>1, <2>2
<1>. QED  BY <1>5, <1>6 DEF all

LEMMA NoneCalled ==
    /\ CalledOnce(<<>>) /\ \A n : ~HeardIn(<<>>, n)
    /\ \A row : CalledOnce(<<row>>)
    /\ \A row, n : HeardIn(<<row>>, n) => row.who = AppCall(n)
<1>1. \A row : DOMAIN <<row>> = {1} /\ <<row>>[1] = row
  OBVIOUS
<1>. QED  BY <1>1 DEF CalledOnce, HeardIn

LEMMA CallerCalls ==
    ASSUME ClientFits, NEW n,
           \/ \E k \in Keys : pending[k] = AppCall(n)
           \/ \E s \in Sockets : opener[s] = AppCall(n)
           \/ HeardIn(jobs, n)
    PROVE  n \in DOMAIN calls
<1>1. AppCall(n) \in Callers => n \in DOMAIN calls
  BY Apart DEF Callers
<1>2. ASSUME NEW k \in Keys, pending[k] = AppCall(n) PROVE AppCall(n) \in Callers
  BY <1>2, Apart DEF ClientFits, ReqsFit
<1>3. ASSUME NEW s \in Sockets, opener[s] = AppCall(n) PROVE AppCall(n) \in Callers
  BY <1>3, Apart DEF ClientFits, ConnFits
<1>4. ASSUME NEW j \in DOMAIN jobs, jobs[j].who = AppCall(n) PROVE AppCall(n) \in Callers
  <2>1. jobs[j] \in JobRow
    BY DEF ClientFits, JobsFit
  <2>. QED  BY <1>4, <2>1, Apart DEF JobRow
<1>. QED  BY <1>1, <1>2, <1>3, <1>4 DEF HeardIn

LEMMA ReqIs ==
    ASSUME NEW n, NEW k \in Keys, k = ReqOf(n)
    PROVE  /\ k[1] = calls[n].at /\ k[2] = calls[n].topic
           /\ calls[n].at \in {"sub", "unsub", "replay"}
  BY DEF ReqOf, Keys

\* A step in which no call is made or goes on.
LEMMA CallKeeps ==
    ASSUME CallInv, calls' = calls,
           \A n \in DOMAIN calls : \A k \in Keys :
              pending'[k] = AppCall(n) => pending[k] = AppCall(n),
           \A n \in DOMAIN calls : \A s \in Sockets :
              opener'[s] = AppCall(n) => opener[s] = AppCall(n),
           \A n \in DOMAIN calls : HeardIn(jobs', n) =>
              HeardIn(jobs, n) \/ (calls[n].at # "over" /\ ~HeardElse(n)'),
           CalledOnce(jobs')
    PROVE  CallInv'
<1>1. \A n \in DOMAIN calls : ~HeardElse(n) => ~HeardElse(n)'
  BY DEF HeardElse
<1>2. CallWaits'
  <2>. SUFFICES ASSUME NEW n \in DOMAIN calls
                PROVE  /\ \A k \in Keys : pending'[k] = AppCall(n) => k = ReqOf(n)'
                       /\ \A s \in Sockets : opener'[s] = AppCall(n) => calls'[n].at = "connect"
                       /\ \A s, r \in Sockets :
                             opener'[s] = AppCall(n) /\ opener'[r] = AppCall(n) => s = r
                       /\ HeardIn(jobs', n) => calls'[n].at # "over" /\ ~HeardElse(n)'
    BY DEF CallWaits
  <2>1. \A k \in Keys : pending'[k] = AppCall(n) => k = ReqOf(n)'
    BY DEF CallInv, CallWaits, ReqOf
  <2>2. /\ \A s \in Sockets : opener'[s] = AppCall(n) => calls'[n].at = "connect"
        /\ \A s, r \in Sockets : opener'[s] = AppCall(n) /\ opener'[r] = AppCall(n) => s = r
    BY DEF CallInv, CallWaits
  <2>3. HeardIn(jobs', n) => calls'[n].at # "over" /\ ~HeardElse(n)'
    BY <1>1 DEF CallInv, CallWaits
  <2>. QED  BY <2>1, <2>2, <2>3
<1>3. CallOps'
  BY DEF CallInv, CallOps
<1>4. CalledOnce(jobs)'
  BY DEF CalledOnce
<1>. QED  BY <1>2, <1>3, <1>4 DEF CallInv

LEMMA NotYetCalled ==
    ASSUME ClientFits
    PROVE  /\ Me = AppCall(Len(calls) + 1) /\ Len(calls) + 1 \notin DOMAIN calls
           /\ \A k \in Keys : pending[k] # Me
           /\ \A s \in Sockets : opener[s] # Me
<1>1. calls \in Seq(CallRow)
  BY DEF ClientFits, AppFits
<1>2. DOMAIN calls = 1..Len(calls) /\ Len(calls) \in Nat
  BY <1>1
<1>3. Me = AppCall(Len(calls) + 1)
  BY DEF Me
<1>4. Len(calls) + 1 \notin DOMAIN calls
  BY <1>2
<1>. QED  BY <1>3, <1>4, CallerCalls

\* What a call that is made waits for.
LEMMA NewCall ==
    ASSUME ClientFits, CallInv, jobs = <<>>, NEW op, NEW t, NEW at, Enter(op, t, at),
           at \in {op, "over"} \/ (op = "sub" /\ at = "connect"),
           \A k \in Keys : pending'[k] = pending[k] \/ (pending'[k] = Me /\ k = <<at, t>>),
           \A s \in Sockets : opener'[s] = opener[s] \/ (opener'[s] = Me /\ at = "connect"),
           \A s, r \in Sockets : opener'[s] = Me /\ opener'[r] = Me => s = r,
           \/ jobs' = <<>>
           \/ /\ jobs' = <<Settled(Me, FALSE)>> /\ at # "over"
              /\ \A k \in Keys : pending'[k] # Me
              /\ \A s \in Sockets : opener'[s] # Me
    PROVE  CallInv'
<1>. DEFINE new == Len(calls) + 1
<1>1. /\ DOMAIN calls' = 1..new /\ DOMAIN calls = 1..Len(calls)
      /\ Len(calls) \in Nat
      /\ \A n \in DOMAIN calls : calls'[n] = calls[n]
      /\ calls'[new] = [op |-> op, topic |-> t, at |-> at]
      /\ Me = AppCall(new)
  BY EnterIs
<1>2. new \notin DOMAIN calls /\ \A n \in DOMAIN calls' : n \in DOMAIN calls \/ n = new
  BY <1>1
<1>. HIDE DEF new
<1>3. /\ \A k \in Keys : pending[k] # Me
      /\ \A s \in Sockets : opener[s] # Me
  BY <1>1, <1>2, CallerCalls
<1>4. \A n \in DOMAIN calls : Me # AppCall(n)
  BY <1>1, <1>2, Apart
<1>5. /\ \A n : HeardIn(jobs', n) => AppCall(n) = Me
      /\ CalledOnce(jobs')
  BY NoneCalled DEF Settled
<1>6. CallWaits'
  <2>. SUFFICES ASSUME NEW n \in DOMAIN calls'
                PROVE  /\ \A k \in Keys : pending'[k] = AppCall(n) => k = ReqOf(n)'
                       /\ \A s \in Sockets : opener'[s] = AppCall(n) => calls'[n].at = "connect"
                       /\ \A s, r \in Sockets :
                             opener'[s] = AppCall(n) /\ opener'[r] = AppCall(n) => s = r
                       /\ HeardIn(jobs', n) => calls'[n].at # "over" /\ ~HeardElse(n)'
    BY DEF CallWaits
  <2>1. CASE n \in DOMAIN calls
    <3>1. calls'[n] = calls[n] /\ Me # AppCall(n)
      BY <1>1, <1>4, <2>1
    <3>2. \A k \in Keys : pending'[k] = AppCall(n) => k = ReqOf(n)'
      BY <2>1, <3>1 DEF CallInv, CallWaits, ReqOf
    <3>3. /\ \A s \in Sockets : opener'[s] = AppCall(n) => calls'[n].at = "connect"
          /\ \A s, r \in Sockets : opener'[s] = AppCall(n) /\ opener'[r] = AppCall(n) => s = r
      BY <2>1, <3>1 DEF CallInv, CallWaits
    <3>4. ~HeardIn(jobs', n)
      BY <1>5, <3>1
    <3>. QED  BY <3>2, <3>3, <3>4
  <2>2. CASE n = new
    <3>1. calls'[n].at = at /\ calls'[n].topic = t /\ AppCall(n) = Me
      BY <1>1, <2>2
    <3>2. \A k \in Keys : pending'[k] = AppCall(n) => k = ReqOf(n)'
      BY <1>3, <3>1 DEF ReqOf
    <3>3. \A s \in Sockets : opener'[s] = AppCall(n) => calls'[n].at = "connect"
      BY <1>3, <3>1
    <3>4. HeardIn(jobs', n) => calls'[n].at # "over" /\ ~HeardElse(n)'
      BY <3>1, NoneCalled DEF HeardElse
    <3>. QED  BY <3>1, <3>2, <3>3, <3>4
  <2>. QED  BY <1>2, <2>1, <2>2
<1>7. CallOps'
  BY <1>1, <1>2 DEF CallInv, CallOps
<1>8. CalledOnce(jobs)'
  BY <1>5 DEF CalledOnce
<1>. QED  BY <1>6, <1>7, <1>8 DEF CallInv

LEMMA OpensOnce ==
    ASSUME ClientFits, NEW who, Open(who)
    PROVE  \E s \in Sockets : /\ opener[s] = NoOne /\ opener'[s] = who
                              /\ \A r \in Sockets : r # s => opener'[r] = opener[r]
<1>1. PICK s \in Sockets : sock[s] = "none" /\ opener' = [opener EXCEPT ![s] = who]
  BY DEF Open
<1>2. opener[s] = NoOne
  BY <1>1 DEF ClientFits, Opening, Live
<1>. QED  BY <1>1, <1>2 DEF ClientFits, ConnFits

\* The new call waits for a socket.
LEMMA NewOpens ==
    ASSUME ClientFits, CallInv, jobs = <<>>, NEW op, NEW t, Enter(op, t, "connect"),
           op \in {"connect", "sub"}, Open(Me), pending' = pending, jobs' = <<>>
    PROVE  CallInv'
<1>1. PICK s \in Sockets : /\ opener'[s] = Me
                           /\ \A r \in Sockets : r # s => opener'[r] = opener[r]
  BY OpensOnce
<1>2. \A r \in Sockets : opener[r] # Me
  BY NotYetCalled
<1>. QED  BY <1>1, <1>2, NewCall

\* The new call waits for an answer.
LEMMA NewAsks ==
    ASSUME ClientFits, CallInv, jobs = <<>>, NEW op, NEW t, <<op, t>> \in Keys,
           Enter(op, t, op), Await(Me, <<op, t>>, <<>>), ~ExcusesChannels'
    PROVE  CallInv'
<1>. DEFINE k == <<op, t>>
<1>2. /\ \A r \in Sockets : opener[r] # Me
      /\ \A q \in Keys : pending[q] # Me
  BY NotYetCalled
<1>3. opener' = opener
  BY DEF Await, connVars
<1>4. op # "over"
  BY DEF Keys
<1>5. pending[k] = NoOne
  BY AwaitFresh
<1>6. CASE CanSend
  <2>1. pending' = [pending EXCEPT ![k] = Me] /\ jobs' = <<>>
    BY <1>6, AwaitSends
  <2>2. \A q \in Keys : pending'[q] = pending[q] \/ (pending'[q] = Me /\ q = <<op, t>>)
    BY <2>1 DEF ClientFits, ReqsFit
  <2>. QED  BY <1>2, <1>3, <2>1, <2>2, NewCall
<1>7. CASE ~CanSend
  <2>1. pending' = pending /\ jobs' = Append(<<>>, Settled(Me, FALSE))
    BY <1>5, <1>7, AwaitFails
  <2>2. jobs' = <<Settled(Me, FALSE)>>
    BY <2>1
  <2>. QED  BY <1>2, <1>3, <1>4, <2>1, <2>2, NewCall
<1>. QED  BY <1>6, <1>7

LEMMA ApplicationCalls ==
    ASSUME ClientFits, CallInv, Application, ~ExcusesChannels'
    PROVE  CallInv'
<1>1. jobs = <<>>
  BY DEF Application, Connect, Disconnect, ChannelSubscribe, ChannelRequest, MayCall, Idle
<1>2. CASE Connect
  <2>1. /\ Enter("connect", Head(Channels), "connect") /\ Open(Me)
        /\ pending' = pending /\ jobs' = <<>>
    BY <1>1, <1>2 DEF Connect, reqVars
  <2>. QED  BY <1>1, <2>1, NewOpens
<1>3. CASE Disconnect
  <2>1. /\ Enter("disconnect", Head(Channels), "over")
        /\ UNCHANGED <<pending, opener>> /\ jobs' = <<>>
    BY <1>1, <1>3 DEF Disconnect, reqVars
  <2>3. \A r \in Sockets : opener[r] # Me
    BY NotYetCalled
  <2>. QED  BY <1>1, <2>1, <2>3, NewCall
<1>4. ASSUME NEW t \in Topics, ChannelSubscribe(t) PROVE CallInv'
  <2>1. Subscribe(Me, t, <<>>) /\ Enter("sub", t, Subscribing)
    BY <1>4 DEF ChannelSubscribe
  <2>2. CASE state = "CONNECTED"
    <3>1. Await(Me, <<"sub", t>>, <<>>) /\ Enter("sub", t, "sub")
      BY <2>1, <2>2 DEF Subscribe, Subscribing
    <3>2. <<"sub", t>> \in Keys
      BY DEF Keys
    <3>. QED  BY <1>1, <3>1, <3>2, NewAsks
  <2>3. CASE state # "CONNECTED"
    <3>1. Open(Me) /\ Enter("sub", t, "connect") /\ pending' = pending /\ jobs' = <<>>
      BY <2>1, <2>3 DEF Subscribe, Subscribing, reqVars
    <3>. QED  BY <1>1, <3>1, NewOpens
  <2>. QED  BY <2>2, <2>3
<1>5. ASSUME NEW k \in Keys, ChannelRequest(k[1], k[2]) PROVE CallInv'
  <2>1. /\ Await(Me, <<k[1], k[2]>>, <<>>) /\ Enter(k[1], k[2], k[1])
        /\ <<k[1], k[2]>> \in Keys
    BY <1>5 DEF ChannelRequest, Keys
  <2>. QED  BY <1>1, <2>1, NewAsks
<1>. QED  BY <1>2, <1>3, <1>4, <1>5 DEF Application

\* What a call that goes on waits for.
LEMMA CallGoesOn ==
    ASSUME ClientFits, CallInv, NEW n \in DOMAIN calls, ~HeardElse(n),
           NEW at, calls' = [calls EXCEPT ![n].at = at],
           at \in {calls[n].op, "over"}, opener' = opener,
           \A k \in Keys : \/ pending'[k] = pending[k]
                           \/ pending'[k] = AppCall(n) /\ k = <<at, calls[n].topic>>,
           \A m : m # n /\ HeardIn(jobs', m) => HeardIn(jobs, m),
           HeardIn(jobs', n) => at # "over" /\ \A k \in Keys : pending'[k] # AppCall(n),
           CalledOnce(jobs')
    PROVE  CallInv'
<1>1. /\ DOMAIN calls' = DOMAIN calls /\ calls'[n].at = at
      /\ \A m \in DOMAIN calls : m # n => calls'[m] = calls[m]
  BY CallMoves
<1>2. calls'[n].op = calls[n].op /\ calls'[n].topic = calls[n].topic
  <2>1. calls[n] \in CallRow
    BY DEF ClientFits, AppFits
  <2>. QED  BY <2>1 DEF CallRow
<1>3. /\ \A k \in Keys : pending[k] # AppCall(n)
      /\ \A s \in Sockets : opener[s] # AppCall(n)
  BY DEF HeardElse
<1>4. CallWaits'
  <2>. SUFFICES ASSUME NEW m \in DOMAIN calls
                PROVE  /\ \A k \in Keys : pending'[k] = AppCall(m) => k = ReqOf(m)'
                       /\ \A s \in Sockets : opener'[s] = AppCall(m) => calls'[m].at = "connect"
                       /\ \A s, r \in Sockets :
                             opener'[s] = AppCall(m) /\ opener'[r] = AppCall(m) => s = r
                       /\ HeardIn(jobs', m) => calls'[m].at # "over" /\ ~HeardElse(m)'
    BY <1>1 DEF CallWaits
  <2>1. CASE m # n
    <3>1. calls'[m] = calls[m] /\ AppCall(n) # AppCall(m)
      BY <1>1, <2>1, Apart
    <3>2. \A k \in Keys : pending'[k] = AppCall(m) => k = ReqOf(m)'
      BY <3>1 DEF CallInv, CallWaits, ReqOf
    <3>3. /\ \A s \in Sockets : opener'[s] = AppCall(m) => calls'[m].at = "connect"
          /\ \A s, r \in Sockets : opener'[s] = AppCall(m) /\ opener'[r] = AppCall(m) => s = r
      BY <3>1 DEF CallInv, CallWaits
    <3>4. ASSUME HeardIn(jobs', m) PROVE calls'[m].at # "over" /\ ~HeardElse(m)'
      <4>1. calls[m].at # "over" /\ ~HeardElse(m)
        BY <2>1, <3>4 DEF CallInv, CallWaits
      <4>. QED  BY <3>1, <4>1 DEF HeardElse
    <3>. QED  BY <3>2, <3>3, <3>4
  <2>2. CASE m = n
    <3>1. \A k \in Keys : pending'[k] = AppCall(m) => k = ReqOf(m)'
      BY <1>1, <1>2, <1>3, <2>2 DEF ReqOf
    <3>. QED  BY <1>1, <1>3, <2>2, <3>1 DEF HeardElse
  <2>. QED  BY <2>1, <2>2
<1>5. CallOps'
  BY <1>1, <1>2 DEF CallInv, CallOps
<1>6. CalledOnce(jobs)'
  BY DEF CalledOnce
<1>. QED  BY <1>4, <1>5, <1>6 DEF CallInv

LEMMA ResumeCalls ==
    ASSUME ClientFits, CallInv, ~Idle, NEW n \in DOMAIN calls, Head(jobs).who = AppCall(n),
           NEW ok, ResumeCall(n, ok), ~ExcusesChannels'
    PROVE  CallInv'
<1>1. jobs \in Seq(JobRow) /\ jobs # <<>> /\ Tail(jobs) \in Seq(JobRow)
  BY NextJob DEF ClientFits, JobsFit, Idle
<1>2. /\ \A m : HeardIn(Tail(jobs), m) => HeardIn(jobs, m)
      /\ CalledOnce(Tail(jobs)) /\ ~HeardIn(Tail(jobs), n)
  BY <1>1, TailHeard DEF CallInv
<1>3. HeardIn(jobs, n)
  <2>1. 1 \in DOMAIN jobs /\ Head(jobs) = jobs[1]
    BY <1>1
  <2>. QED  BY <2>1 DEF HeardIn
<1>4. ~HeardElse(n)
  BY <1>3 DEF CallInv, CallWaits
<1>5. CASE /\ calls' = [calls EXCEPT ![n].at = "over"] /\ jobs' = Tail(jobs)
           /\ UNCHANGED <<connVars, reqVars, mishaps>>
  <2>1. opener' = opener /\ pending' = pending
    BY <1>5 DEF connVars, reqVars
  <2>. QED  BY <1>2, <1>4, <1>5, <2>1, CallGoesOn
<1>6. CASE /\ calls[n].op = "sub" /\ SubOf(calls[n].topic) \in Keys
           /\ Await(AppCall(n), SubOf(calls[n].topic), Tail(jobs))
           /\ calls' = [calls EXCEPT ![n].at = "sub"]
  <2>. DEFINE k == SubOf(calls[n].topic)
  <2>1. opener' = opener
    BY <1>6 DEF Await, connVars
  <2>2. pending[k] = NoOne
    BY <1>6, AwaitFresh
  <2>3. CASE CanSend
    <3>1. pending' = [pending EXCEPT ![k] = AppCall(n)] /\ jobs' = Tail(jobs)
      BY <1>6, <2>3, AwaitSends
    <3>2. \A q \in Keys : \/ pending'[q] = pending[q]
                          \/ pending'[q] = AppCall(n) /\ q = <<"sub", calls[n].topic>>
      BY <3>1 DEF ClientFits, ReqsFit, SubOf
    <3>. QED  BY <1>2, <1>4, <1>6, <2>1, <3>1, <3>2, CallGoesOn
  <2>4. CASE ~CanSend
    <3>. DEFINE row == Settled(AppCall(n), FALSE)
    <3>1. pending' = pending /\ jobs' = Append(Tail(jobs), row)
      BY <1>6, <2>2, <2>4, AwaitFails
    <3>2. row.who = AppCall(n)
      BY DEF Settled
    <3>. HIDE DEF row
    <3>3. /\ \A m : HeardIn(jobs', m) => HeardIn(Tail(jobs), m) \/ row.who = AppCall(m)
          /\ CalledOnce(jobs')
      <4>1. \A m : row.who = AppCall(m) => ~HeardIn(Tail(jobs), m)
        BY <1>2, <3>2, Apart
      <4>. QED  BY <1>1, <1>2, <3>1, <4>1, AppendHeard
    <3>4. \A m : m # n /\ HeardIn(jobs', m) => HeardIn(jobs, m)
      BY <1>2, <3>2, <3>3, Apart
    <3>5. \A q \in Keys : pending'[q] # AppCall(n)
      BY <1>4, <3>1 DEF HeardElse
    <3>. QED  BY <1>4, <1>6, <2>1, <3>1, <3>3, <3>4, <3>5, CallGoesOn
  <2>. QED  BY <2>3, <2>4
<1>. QED  BY <1>5, <1>6, CallAsks

\* What a pass waits for is nobody else's.
LEMMA PassAwaits ==
    ASSUME ClientFits, CallInv, NEW T, NEW work \in Seq(T), NEW s, NEW k \in Keys,
           Await(Pass(s), k, work), ~ExcusesChannels', calls' = calls,
           \A n : HeardIn(work, n) => HeardIn(jobs, n), CalledOnce(work)
    PROVE  CallInv'
<1>1. opener' = opener
  BY DEF Await, connVars
<1>2. pending[k] = NoOne
  BY AwaitFresh
<1>3. CASE CanSend
  <2>1. pending' = [pending EXCEPT ![k] = Pass(s)] /\ jobs' = work
    BY <1>3, AwaitSends
  <2>2. \A q \in Keys : \A n : pending'[q] = AppCall(n) => pending[q] = AppCall(n)
    BY <2>1, Apart DEF ClientFits, ReqsFit
  <2>. QED  BY <1>1, <2>1, <2>2, CallKeeps
<1>4. CASE ~CanSend
  <2>. DEFINE row == Settled(Pass(s), FALSE)
  <2>1. pending' = pending /\ jobs' = Append(work, row)
    BY <1>2, <1>4, AwaitFails
  <2>2. \A n : row.who # AppCall(n)
    BY Apart DEF Settled
  <2>. HIDE DEF row
  <2>3. /\ \A n : HeardIn(jobs', n) => HeardIn(work, n) \/ row.who = AppCall(n)
        /\ CalledOnce(jobs')
    BY <2>1, <2>2, AppendHeard
  <2>4. \A n : HeardIn(jobs', n) => HeardIn(jobs, n)
    BY <2>2, <2>3
  <2>. QED  BY <1>1, <2>1, <2>3, <2>4, CallKeeps
<1>. QED  BY <1>3, <1>4

\* Nobody's call opens a socket.
LEMMA OthersOpen ==
    ASSUME ClientFits, CallInv, NEW who, Open(who), \A n : who # AppCall(n),
           calls' = calls, pending' = pending,
           \A n : HeardIn(jobs', n) => HeardIn(jobs, n), CalledOnce(jobs')
    PROVE  CallInv'
<1>1. \A n : \A s \in Sockets : opener'[s] = AppCall(n) => opener[s] = AppCall(n)
  BY OpensOnce
<1>. QED  BY <1>1, CallKeeps

LEMMA PassCalls ==
    ASSUME ClientFits, CallInv, ~Idle, NEW s \in Sockets, NEW ok, ResumePass(s, ok),
           ~ExcusesChannels'
    PROVE  CallInv'
<1>1. jobs \in Seq(JobRow) /\ jobs # <<>> /\ Tail(jobs) \in Seq(JobRow)
  BY NextJob DEF ClientFits, JobsFit, Idle
<1>2. (\A m : HeardIn(Tail(jobs), m) => HeardIn(jobs, m)) /\ CalledOnce(Tail(jobs))
  BY <1>1, TailHeard DEF CallInv
<1>3. calls' = calls
  BY DEF ResumePass
<1>4. ASSUME NEW k \in Keys, Await(Pass(s), k, Tail(jobs)) PROVE CallInv'
  BY <1>1, <1>2, <1>3, <1>4, PassAwaits
<1>5. CASE jobs' = Tail(jobs) /\ UNCHANGED <<connVars, reqVars, mishaps>>
  <2>1. UNCHANGED <<pending, opener>>
    BY <1>5 DEF connVars, reqVars
  <2>. QED  BY <1>2, <1>3, <1>5, <2>1, CallKeeps
<1>6. ASSUME NEW t \in Topics, Subscribe(Pass(s), t, Tail(jobs)) PROVE CallInv'
  <2>1. CASE state = "CONNECTED"
    <3>1. Await(Pass(s), <<"sub", t>>, Tail(jobs)) /\ <<"sub", t>> \in Keys
      BY <1>6, <2>1 DEF Subscribe, Keys
    <3>. QED  BY <1>4, <3>1
  <2>2. CASE state # "CONNECTED"
    <3>1. Open(Pass(s)) /\ pending' = pending /\ jobs' = Tail(jobs)
      BY <1>6, <2>2 DEF Subscribe, reqVars
    <3>2. \A n : Pass(s) # AppCall(n)
      BY Apart
    <3>. QED  BY <1>2, <1>3, <3>1, <3>2, OthersOpen
  <2>. QED  BY <2>1, <2>2
<1>. QED  BY <1>4, <1>5, <1>6, PassAsks, PassGoesOn

LEMMA RunJobCalls ==
    ASSUME ClientFits, CallInv, RunJob, ~ExcusesChannels'
    PROVE  CallInv'
<1>1. CASE RescheduleReconnect
  <2>1. jobs \in Seq(JobRow) /\ jobs # <<>>
    BY RunJobIs DEF ClientFits, JobsFit, Idle
  <2>2. (\A m : HeardIn(Tail(jobs), m) => HeardIn(jobs, m)) /\ CalledOnce(Tail(jobs))
    BY <2>1, TailHeard DEF CallInv
  <2>3. UNCHANGED <<pending, opener, calls>> /\ jobs' = Tail(jobs)
    BY <1>1 DEF RescheduleReconnect, reqVars, appVars
  <2>. QED  BY <2>2, <2>3, CallKeeps
<1>. QED  BY <1>1, RunJobIs, ResumeCalls, PassCalls

\* The socket's opener hears that it is welcomed, or that it is not.
LEMMA OpenerHears ==
    ASSUME CallInv, ClientFits, NEW s \in Sockets, NEW n, opener[s] = AppCall(n),
           opener' = [opener EXCEPT ![s] = NoOne],
           \A k \in Keys : pending'[k] \in {pending[k], NoOne}
    PROVE  n \in DOMAIN calls /\ calls[n].at = "connect" /\ ~HeardElse(n)'
<1>1. n \in DOMAIN calls
  BY CallerCalls
<1>2. /\ calls[n].at = "connect"
      /\ \A r \in Sockets : opener[r] = AppCall(n) => r = s
      /\ \A k \in Keys : pending[k] = AppCall(n) => k = ReqOf(n)
  BY <1>1 DEF CallInv, CallWaits
<1>3. \A k \in Keys : pending[k] # AppCall(n)
  BY <1>2, ReqIs
<1>4. \A r \in Sockets : opener'[r] # AppCall(n)
  BY <1>2, Apart DEF ClientFits, ConnFits
<1>. QED  BY <1>1, <1>2, <1>3, <1>4, Apart DEF HeardElse

\* The entry's request is answered.
LEMMA EntryHears ==
    ASSUME CallInv, ClientFits, NEW k \in Keys, NEW n, pending[k] = AppCall(n),
           \A s \in Sockets : opener'[s] \in {opener[s], NoOne},
           \A q \in Keys : pending'[q] \in {pending[q], NoOne}, pending'[k] = NoOne
    PROVE  /\ n \in DOMAIN calls /\ calls[n].at = k[1] /\ calls[n].topic = k[2]
           /\ calls[n].at \notin {"connect", "over"} /\ ~HeardElse(n)'
<1>1. n \in DOMAIN calls
  BY CallerCalls
<1>2. /\ \A q \in Keys : pending[q] = AppCall(n) => q = ReqOf(n)
      /\ \A r \in Sockets : opener[r] = AppCall(n) => calls[n].at = "connect"
  BY <1>1 DEF CallInv, CallWaits
<1>3. k = ReqOf(n)
  BY <1>2
<1>4. calls[n].at = k[1] /\ calls[n].topic = k[2] /\ calls[n].at \notin {"connect", "over"}
  BY <1>3, ReqIs
<1>5. \A q \in Keys : pending'[q] # AppCall(n)
  BY <1>2, <1>3, Apart
<1>6. \A r \in Sockets : opener'[r] # AppCall(n)
  BY <1>2, <1>4, Apart
<1>. QED  BY <1>1, <1>4, <1>5, <1>6 DEF HeardElse

LEMMA WelcomeCalls ==
    ASSUME ClientFits, CallInv, NEW s \in Sockets, Welcome(s)
    PROVE  CallInv'
<1>. DEFINE rest == IF opener[s] = Timer THEN <<>> ELSE <<Settled(opener[s], TRUE)>>
            first == <<Settled(Pass(s), TRUE)>>
<1>1. /\ sock[s] = "open" /\ s \notin welcomed /\ jobs' = first \o rest
      /\ opener' = [opener EXCEPT ![s] = NoOne]
      /\ pending' = pending /\ calls' = calls
  BY DEF Welcome, reqVars, appVars
<1>2. opener[s] \in Callers \cup {Timer}
  BY <1>1 DEF ClientFits, ConnFits, Opening, Live
<1>3. Settled(opener[s], TRUE) \in JobRow /\ Settled(Pass(s), TRUE) \in JobRow
  BY <1>2 DEF Settled, JobRow, Callers
<1>4. rest \in Seq(JobRow) /\ first \in Seq(JobRow)
  BY <1>3, SeqOne, NoJobs
<1>5. CalledOnce(rest) /\ \A n : HeardIn(rest, n) => opener[s] = AppCall(n)
  BY NoneCalled DEF Settled
<1>6. CalledOnce(first) /\ \A n : ~HeardIn(first, n)
  BY NoneCalled, Apart DEF Settled
<1>. HIDE DEF rest, first
<1>7. CalledOnce(jobs') /\ \A n : HeardIn(jobs', n) => opener[s] = AppCall(n)
  BY <1>1, <1>4, <1>5, <1>6, JoinOnce
<1>8. \A n : HeardIn(jobs', n) => calls[n].at # "over" /\ ~HeardElse(n)'
  <2>. SUFFICES ASSUME NEW n, HeardIn(jobs', n) PROVE calls[n].at # "over" /\ ~HeardElse(n)'
    OBVIOUS
  <2>1. opener[s] = AppCall(n)
    BY <1>7
  <2>. QED  BY <1>1, <2>1, OpenerHears
<1>9. \A n : \A r \in Sockets : opener'[r] = AppCall(n) => opener[r] = AppCall(n)
  BY <1>1, Apart DEF ClientFits, ConnFits
<1>. QED  BY <1>1, <1>7, <1>8, <1>9, CallKeeps

LEMMA TokenFailsCalls ==
    ASSUME ClientFits, CallInv, NEW s \in Sockets, TokenFails(s)
    PROVE  CallInv'
<1>1. /\ jobs' = <<Settled(opener[s], FALSE)>>
      /\ opener' = [opener EXCEPT ![s] = NoOne]
      /\ pending' = pending /\ calls' = calls
  BY DEF TokenFails, reqVars, appVars
<1>2. CalledOnce(jobs') /\ \A n : HeardIn(jobs', n) => opener[s] = AppCall(n)
  BY <1>1, NoneCalled DEF Settled
<1>3. \A n : HeardIn(jobs', n) => calls[n].at # "over" /\ ~HeardElse(n)'
  <2>. SUFFICES ASSUME NEW n, HeardIn(jobs', n) PROVE calls[n].at # "over" /\ ~HeardElse(n)'
    OBVIOUS
  <2>1. opener[s] = AppCall(n)
    BY <1>2
  <2>. QED  BY <1>1, <2>1, OpenerHears
<1>4. \A n : \A r \in Sockets : opener'[r] = AppCall(n) => opener[r] = AppCall(n)
  BY <1>1, Apart DEF ClientFits, ConnFits
<1>. QED  BY <1>1, <1>2, <1>3, <1>4, CallKeeps

LEMMA AnswerCalls ==
    ASSUME ClientFits, CallInv, NEW s \in Sockets, Answer(s)
    PROVE  CallInv'
<1>. DEFINE k == Head(wire[s])
<1>1. /\ k \in Keys /\ jobs' = Outcome(k, TRUE)
      /\ \A q \in Keys : pending'[q] = IF q = k THEN NoOne ELSE pending[q]
  BY AnswerTakes
<1>2. opener' = opener /\ calls' = calls
  BY DEF Answer, connVars
<1>. HIDE DEF k
<1>3. CalledOnce(jobs') /\ \A n : HeardIn(jobs', n) => pending[k] = AppCall(n)
  BY <1>1, NoneCalled DEF Outcome, Settled
<1>4. \A n : HeardIn(jobs', n) => calls[n].at # "over" /\ ~HeardElse(n)'
  <2>. SUFFICES ASSUME NEW n, HeardIn(jobs', n) PROVE calls[n].at # "over" /\ ~HeardElse(n)'
    OBVIOUS
  <2>1. pending[k] = AppCall(n)
    BY <1>3
  <2>2. \A q \in Keys : pending'[q] \in {pending[q], NoOne}
    BY <1>1
  <2>. QED  BY <1>1, <1>2, <2>1, <2>2, EntryHears
<1>5. \A q \in Keys : \A n : pending'[q] = AppCall(n) => pending[q] = AppCall(n)
  BY <1>1, Apart
<1>. QED  BY <1>2, <1>3, <1>4, <1>5, CallKeeps

LEMMA OnCloseCalls ==
    ASSUME ClientFits, CallInv, NEW s \in Sockets, OnClose(s)
    PROVE  CallInv'
<1>. DEFINE failed == IF closedByUser \/ s \in welcomed THEN <<>>
                      ELSE <<Settled(opener[s], FALSE)>>
            closed(rejected) == [j \in DOMAIN rejected |-> Settled(rejected[j], FALSE)]
<1>1. /\ pending' = [k \in Keys |-> NoOne]
      /\ opener' = [opener EXCEPT ![s] = NoOne] /\ calls' = calls
  BY DEF OnClose, appVars
<1>2. PICK rejected \in SetToSeqs({pending[k] : k \in Keys} \ {NoOne}) :
         jobs' = closed(rejected) \o failed
  BY DEF OnClose
<1>3. /\ rejected \in Seq(Callers)
      /\ \A j \in DOMAIN rejected : \E k \in Keys : rejected[j] = pending[k]
      /\ \A i, j \in DOMAIN rejected : rejected[i] = rejected[j] => i = j
  BY RejectedAre
<1>. DEFINE U == JobRow \cup {Settled(opener[s], FALSE)}
            list == closed(rejected)
<1>4. failed \in Seq(U)
  BY SeqOne, NoJobs
<1>5. list \in Seq(U)
  <2>1. \A w \in Callers : Settled(w, FALSE) \in U
    BY DEF Settled, JobRow
  <2>2. DOMAIN rejected = 1..Len(rejected) /\ Len(rejected) \in Nat
        /\ \A j \in 1..Len(rejected) : rejected[j] \in Callers
    BY <1>3
  <2>3. list \in [1..Len(rejected) -> U]
    BY <2>1, <2>2
  <2>. HIDE DEF list, U
  <2>. QED  BY <2>2, <2>3
<1>6. CalledOnce(failed) /\ \A n : HeardIn(failed, n) => opener[s] = AppCall(n)
  BY NoneCalled DEF Settled
<1>7. \A j \in DOMAIN list : j \in DOMAIN rejected /\ list[j].who = rejected[j]
  BY DEF Settled
<1>. HIDE DEF failed, list, U
<1>8. CalledOnce(list)
  BY <1>3, <1>7 DEF CalledOnce
<1>9. \A n : HeardIn(list, n) => \E k \in Keys : pending[k] = AppCall(n)
  BY <1>3, <1>7 DEF HeardIn
<1>10. \A q \in Keys : pending'[q] = NoOne
  BY <1>1
<1>11. ASSUME NEW n, NEW k \in Keys, pending[k] = AppCall(n)
       PROVE  calls[n].at \notin {"connect", "over"} /\ ~HeardElse(n)'
  <2>1. \A r \in Sockets : opener'[r] \in {opener[r], NoOne}
    BY <1>1 DEF ClientFits, ConnFits
  <2>. QED  BY <1>10, <1>11, <2>1, EntryHears
<1>12. ASSUME NEW n, opener[s] = AppCall(n)
       PROVE  calls[n].at = "connect" /\ ~HeardElse(n)'
  BY <1>1, <1>10, <1>12, OpenerHears
<1>13. \A n : ~(HeardIn(list, n) /\ HeardIn(failed, n))
  BY <1>6, <1>9, <1>11, <1>12
<1>14. /\ CalledOnce(jobs')
       /\ \A n : HeardIn(jobs', n) => HeardIn(list, n) \/ HeardIn(failed, n)
  <2>1. jobs' = list \o failed
    BY <1>2 DEF list, failed
  <2>. QED  BY <1>4, <1>5, <1>6, <1>8, <1>13, <2>1, JoinOnce
<1>15. \A n : HeardIn(jobs', n) => calls[n].at # "over" /\ ~HeardElse(n)'
  BY <1>6, <1>9, <1>11, <1>12, <1>14
<1>16. \A n : \A r \in Sockets : opener'[r] = AppCall(n) => opener[r] = AppCall(n)
  BY <1>1, Apart DEF ClientFits, ConnFits
<1>17. \A n : \A q \in Keys : pending'[q] # AppCall(n)
  BY <1>10, Apart
<1>. QED  BY <1>1, <1>14, <1>15, <1>16, <1>17, CallKeeps

\* A step that nobody waits for.
LEMMA CallsQuiet ==
    ASSUME CallInv, UNCHANGED <<calls, pending, opener, jobs>>
    PROVE  CallInv'
<1>1. CalledOnce(jobs')
  BY DEF CallInv, CalledOnce
<1>. QED  BY <1>1, CallKeeps

LEMMA SocketCalls ==
    ASSUME ClientFits, CallInv, NEW s \in Sockets, SocketEvent(s), ~ExcusesChannels'
    PROVE  CallInv'
<1>1. CASE Dial(s) \/ Opened(s) \/ \E t \in Topics : Event(s, t)
  <2>1. UNCHANGED <<calls, pending, opener, jobs>>
    BY <1>1 DEF Dial, Opened, Event, connVars, reqVars, appVars
  <2>. QED  BY <2>1, CallsQuiet
<1>2. CASE Lost(s) \/ Closed(s)
  BY <1>2, OnCloseCalls DEF Lost, Closed
<1>. QED  BY <1>1, <1>2, TokenFailsCalls, WelcomeCalls, AnswerCalls, Excused DEF SocketEvent

LEMMA CallInvNext == ClientFits /\ CallInv /\ [Next]_vars /\ ~ExcusesChannels' => CallInv'
<1>. SUFFICES ASSUME ClientFits, CallInv, [Next]_vars, ~ExcusesChannels' PROVE CallInv'
  OBVIOUS
<1>1. CASE UNCHANGED vars
  <2>1. UNCHANGED <<calls, pending, opener, jobs>>
    BY <1>1 DEF vars, connVars, reqVars, appVars
  <2>. QED  BY <2>1, CallsQuiet
<1>2. CASE ReconnectTimer
  <2>1. /\ UNCHANGED <<calls, pending, jobs>>
        /\ IF closedByUser THEN UNCHANGED <<state, sock, opener>> ELSE Open(Timer)
    BY <1>2 DEF ReconnectTimer, ReconnectUnless, reqVars, appVars
  <2>2. CASE closedByUser
    BY <2>1, <2>2, CallsQuiet
  <2>3. CASE ~closedByUser
    <3>1. CalledOnce(jobs') /\ \A n : Timer # AppCall(n)
      BY <2>1, Apart DEF CallInv, CalledOnce
    <3>. QED  BY <2>1, <2>3, <3>1, OthersOpen
  <2>. QED  BY <2>2, <2>3
<1>. QED  BY <1>1, <1>2, RunJobCalls, ApplicationCalls, SocketCalls, Excused DEF Next

RowIn(list, row) == \E j \in DOMAIN list : list[j] = row
PassIn(list, s) == \E ok \in BOOLEAN : RowIn(list, Settled(Pass(s), ok))

LEMMA RowsApart ==
    /\ \A a, b, x, y : Settled(a, x) = Settled(b, y) <=> a = b /\ x = y
    /\ \A s, r : Pass(s) = Pass(r) <=> s = r
<1>1. \A a, x : Settled(a, x).who = a /\ Settled(a, x).ok = x
  BY DEF Settled
<1>2. \A s : Pass(s)[2] = s
  BY DEF Pass
<1>. QED  BY <1>1, <1>2

LEMMA RowOfPass ==
    ASSUME NEW s, NEW ok, NEW w, NEW x, Settled(Pass(s), ok) = Settled(w, x)
    PROVE  w = Pass(s)
  BY RowsApart

LEMMA NoRows ==
    /\ \A row : ~RowIn(<<>>, row)
    /\ \A x, row : RowIn(<<x>>, row) <=> row = x
<1>1. \A x : DOMAIN <<x>> = {1} /\ <<x>>[1] = x
  OBVIOUS
<1>. QED  BY <1>1 DEF RowIn

LEMMA TailRows ==
    ASSUME NEW T, NEW list \in Seq(T), list # <<>>
    PROVE  /\ \A row : RowIn(list, row) <=> row = Head(list) \/ RowIn(Tail(list), row)
           /\ \A row : RowIn(Tail(list), row) => Len(list) # 1
<1>1. /\ Len(list) \in Nat /\ Len(list) >= 1 /\ DOMAIN list = 1..Len(list)
      /\ DOMAIN Tail(list) = 1..(Len(list) - 1) /\ Head(list) = list[1]
  OBVIOUS
<1>2. \A i \in 1..(Len(list) - 1) : Tail(list)[i] = list[i + 1]
  OBVIOUS
<1>. DEFINE less == Tail(list)
<1>. HIDE DEF less
<1>3. /\ \A i \in DOMAIN less : i + 1 \in DOMAIN list /\ less[i] = list[i + 1]
      /\ \A i \in DOMAIN list : i = 1 \/ (i - 1 \in DOMAIN less /\ less[i - 1] = list[i])
  BY <1>1, <1>2 DEF less
<1>4. \A row : RowIn(list, row) <=> row = Head(list) \/ RowIn(less, row)
  BY <1>1, <1>3 DEF RowIn
<1>5. \A row : RowIn(less, row) => Len(list) # 1
  BY <1>1 DEF RowIn, less
<1>. QED  BY <1>4, <1>5 DEF less

LEMMA AppendRows ==
    ASSUME NEW T, NEW list \in Seq(T), NEW x
    PROVE  \A row : RowIn(Append(list, x), row) <=> RowIn(list, row) \/ row = x
<1>. DEFINE U == T \cup {x}
            more == Append(list, x)
<1>1. list \in Seq(U) /\ x \in U
  BY SeqWiden
<1>. HIDE DEF U
<1>2. /\ Len(list) \in Nat /\ DOMAIN list = 1..Len(list)
      /\ DOMAIN more = 1..(Len(list) + 1) /\ more[Len(list) + 1] = x
  BY <1>1
<1>3. \A i \in 1..Len(list) : more[i] = list[i]
  BY <1>1
<1>. HIDE DEF more
<1>4. /\ \A i \in DOMAIN more : (i \in DOMAIN list /\ more[i] = list[i]) \/ more[i] = x
      /\ \A i \in DOMAIN list : i \in DOMAIN more /\ more[i] = list[i]
      /\ \E i \in DOMAIN more : more[i] = x
  BY <1>2, <1>3
<1>5. \A row : RowIn(more, row) <=> RowIn(list, row) \/ row = x
  BY <1>4 DEF RowIn
<1>. QED  BY <1>5 DEF more

LEMMA JoinRows ==
    ASSUME NEW T, NEW list \in Seq(T), NEW more \in Seq(T)
    PROVE  \A row : RowIn(list \o more, row) <=> RowIn(list, row) \/ RowIn(more, row)
<1>. DEFINE all == list \o more
<1>1. /\ DOMAIN list = 1..Len(list) /\ DOMAIN more = 1..Len(more)
      /\ DOMAIN all = 1..(Len(list) + Len(more))
      /\ Len(list) \in Nat /\ Len(more) \in Nat
  OBVIOUS
<1>2. \A i \in 1..Len(list) : all[i] = list[i]
  OBVIOUS
<1>3. \A i \in 1..Len(more) : all[Len(list) + i] = more[i]
  OBVIOUS
<1>. HIDE DEF all
<1>4. \A i \in DOMAIN all : \/ i \in DOMAIN list /\ all[i] = list[i]
                            \/ /\ i - Len(list) \in DOMAIN more
                               /\ all[i] = more[i - Len(list)]
  <2>. SUFFICES ASSUME NEW i \in DOMAIN all, i \notin DOMAIN list
                PROVE  i - Len(list) \in DOMAIN more /\ all[i] = more[i - Len(list)]
    BY <1>1, <1>2
  <2>1. i - Len(list) \in 1..Len(more) /\ Len(list) + (i - Len(list)) = i
    BY <1>1
  <2>. QED  BY <1>1, <1>3, <2>1
<1>5. /\ \A i \in DOMAIN list : i \in DOMAIN all /\ all[i] = list[i]
      /\ \A i \in DOMAIN more : Len(list) + i \in DOMAIN all /\ all[Len(list) + i] = more[i]
  BY <1>1, <1>2, <1>3
<1>6. \A row : RowIn(all, row) <=> RowIn(list, row) \/ RowIn(more, row)
  BY <1>4, <1>5 DEF RowIn
<1>. QED  BY <1>6 DEF all

-----------------------------------------------------------------------------
\* What a close settles.
LEMMA OnCloseRows ==
    ASSUME ClientFits, NEW s \in Sockets, OnClose(s)
    PROVE  \A row : RowIn(jobs', row) =>
              \/ row = Settled(opener[s], FALSE)
              \/ \E k \in Keys : row = Settled(pending[k], FALSE)
<1>. DEFINE failed == IF closedByUser \/ s \in welcomed THEN <<>>
                      ELSE <<Settled(opener[s], FALSE)>>
            closed(rejected) == [j \in DOMAIN rejected |-> Settled(rejected[j], FALSE)]
<1>1. PICK rejected \in SetToSeqs({pending[k] : k \in Keys} \ {NoOne}) :
         jobs' = closed(rejected) \o failed
  BY DEF OnClose
<1>2. /\ rejected \in Seq(Callers)
      /\ \A j \in DOMAIN rejected : \E k \in Keys : rejected[j] = pending[k]
  BY RejectedAre
<1>. DEFINE U == JobRow \cup {Settled(opener[s], FALSE)}
            list == closed(rejected)
<1>3. failed \in Seq(U)
  BY SeqOne, NoJobs
<1>4. list \in Seq(U)
  <2>1. \A w \in Callers : Settled(w, FALSE) \in U
    BY DEF Settled, JobRow
  <2>2. DOMAIN rejected = 1..Len(rejected) /\ Len(rejected) \in Nat
        /\ \A j \in 1..Len(rejected) : rejected[j] \in Callers
    BY <1>2
  <2>3. list \in [1..Len(rejected) -> U]
    BY <2>1, <2>2
  <2>. HIDE DEF list, U
  <2>. QED  BY <2>2, <2>3
<1>5. \A row : RowIn(failed, row) => row = Settled(opener[s], FALSE)
  BY NoRows
<1>6. \A row : RowIn(list, row) => \E k \in Keys : row = Settled(pending[k], FALSE)
  BY <1>2 DEF RowIn
<1>7. jobs' = list \o failed
  BY <1>1
<1>. HIDE DEF list, failed, U
<1>. QED  BY <1>3, <1>4, <1>5, <1>6, <1>7, JoinRows

-----------------------------------------------------------------------------
\* A pass goes on from the queue or from this.pending, or waits for a socket.
PassToken(s) == PassIn(jobs, s) \/ \E k \in Keys : pending[k] = Pass(s)
PassHeard(s) == PassToken(s) \/ \E r \in Sockets : opener[r] = Pass(s)

\* A socket that may yet be welcomed.
Fresh(s) == s \notin welcomed /\ sock[s] \in {"none", "token", "dialing", "open"}

\* A pass begins when its socket is welcomed, and never unsubscribes.
PassWaits ==
    \A s \in Sockets : /\ \A k \in Keys : pending[k] = Pass(s) => k[1] # "unsub"
                       /\ Fresh(s) => pass[s] = NoPass /\ ~PassHeard(s)

LEMMA PassKeeps ==
    ASSUME PassWaits,
           \A s \in Sockets : \A k \in Keys :
              pending'[k] = Pass(s) => pending[k] = Pass(s) \/ k[1] # "unsub",
           \A s \in Sockets : Fresh(s)' =>
              Fresh(s) /\ pass'[s] = pass[s] /\ (PassHeard(s)' => PassHeard(s))
    PROVE  PassWaits'
  BY DEF PassWaits

LEMMA AwaitPass ==
    ASSUME ClientFits, PassWaits, NEW T, NEW work \in Seq(T), NEW who, NEW k \in Keys,
           Await(who, k, work), ~ExcusesChannels', welcomed' = welcomed,
           \A s \in Sockets : who = Pass(s) => k[1] # "unsub" /\ ~Fresh(s),
           \A s \in Sockets : Fresh(s) => pass'[s] = pass[s],
           \A s \in Sockets : PassIn(work, s) => PassIn(jobs, s)
    PROVE  PassWaits'
<1>1. sock' = sock /\ opener' = opener
  BY DEF Await, connVars
<1>2. pending[k] = NoOne
  BY AwaitFresh
<1>3. \A q \in Keys : pending'[q] = pending[q] \/ (q = k /\ pending'[q] = who)
  <2>1. CASE CanSend
    <3>1. pending' = [pending EXCEPT ![k] = who]
      BY <2>1, AwaitSends
    <3>. QED  BY <3>1 DEF ClientFits, ReqsFit
  <2>2. CASE ~CanSend
    BY <1>2, <2>2, AwaitFails
  <2>. QED  BY <2>1, <2>2
<1>4. \A row : RowIn(jobs', row) => RowIn(work, row) \/ row = Settled(who, FALSE)
  <2>1. CASE CanSend
    <3>1. jobs' = work
      BY <2>1, AwaitSends
    <3>. QED  BY <3>1
  <2>2. CASE ~CanSend
    <3>. DEFINE x == Settled(who, FALSE)
    <3>1. jobs' = Append(work, x)
      BY <1>2, <2>2, AwaitFails
    <3>. HIDE DEF x
    <3>2. \A row : RowIn(Append(work, x), row) <=> RowIn(work, row) \/ row = x
      BY AppendRows
    <3>3. \A row : RowIn(jobs', row) => RowIn(work, row) \/ row = x
      BY <3>1, <3>2
    <3>. QED  BY <3>3 DEF x
  <2>. QED  BY <2>1, <2>2
<1>5. \A s \in Sockets : Fresh(s) /\ PassHeard(s)' => PassHeard(s)
  <2>. SUFFICES ASSUME NEW s \in Sockets, Fresh(s), PassHeard(s)' PROVE PassHeard(s)
    OBVIOUS
  <2>1. who # Pass(s)
    OBVIOUS
  <2>2. ASSUME PassIn(jobs', s) PROVE PassIn(jobs, s)
    <3>1. PICK ok \in BOOLEAN : RowIn(jobs', Settled(Pass(s), ok))
      BY <2>2 DEF PassIn
    <3>2. Settled(Pass(s), ok) # Settled(who, FALSE)
      BY <2>1, RowOfPass
    <3>3. RowIn(work, Settled(Pass(s), ok))
      BY <1>4, <3>1, <3>2
    <3>. QED  BY <3>3 DEF PassIn
  <2>3. \A q \in Keys : pending'[q] = Pass(s) => pending[q] = Pass(s)
    BY <1>3, <2>1
  <2>4. PassIn(jobs, s)' => PassIn(jobs', s)
    BY DEF PassIn
  <2>. QED  BY <1>1, <2>2, <2>3, <2>4 DEF PassHeard, PassToken
<1>6. \A s \in Sockets : Fresh(s)' => Fresh(s)
  BY <1>1 DEF Fresh
<1>. QED  BY <1>3, <1>5, <1>6, PassKeeps

LEMMA OpenPass ==
    ASSUME ClientFits, PassWaits, NEW who, Open(who), UNCHANGED <<welcomed, pending>>,
           \A s \in Sockets : who = Pass(s) => ~Fresh(s),
           \A s \in Sockets : Fresh(s) => pass'[s] = pass[s],
           \A s \in Sockets : PassIn(jobs', s) => PassIn(jobs, s)
    PROVE  PassWaits'
<1>1. \A s \in Sockets : Fresh(s)' => Fresh(s)
  BY DEF Open, Fresh, ClientFits, ConnFits
<1>2. \A s, r \in Sockets : opener'[r] = Pass(s) => opener[r] = Pass(s) \/ who = Pass(s)
  BY OpensOnce
<1>3. \A s \in Sockets : Fresh(s) /\ PassHeard(s)' => PassHeard(s)
  BY <1>2 DEF PassHeard, PassToken, PassIn
<1>. QED  BY <1>1, <1>3, PassKeeps

LEMMA SubscribePass ==
    ASSUME ClientFits, PassWaits, NEW T, NEW work \in Seq(T), NEW who, NEW t \in Topics,
           Subscribe(who, t, work), ~ExcusesChannels', welcomed' = welcomed,
           \A s \in Sockets : who = Pass(s) => ~Fresh(s),
           \A s \in Sockets : Fresh(s) => pass'[s] = pass[s],
           \A s \in Sockets : PassIn(work, s) => PassIn(jobs, s)
    PROVE  PassWaits'
<1>1. CASE state = "CONNECTED"
  <2>1. Await(who, <<"sub", t>>, work) /\ <<"sub", t>> \in Keys
    BY <1>1 DEF Subscribe, Keys
  <2>. QED  BY <2>1, AwaitPass
<1>2. CASE state # "CONNECTED"
  <2>1. Open(who) /\ pending' = pending /\ jobs' = work
    BY <1>2 DEF Subscribe, reqVars
  <2>. QED  BY <2>1, OpenPass
<1>. QED  BY <1>1, <1>2

\* A step in which no pass moves.
LEMMA PassesQuiet ==
    ASSUME PassWaits, \A s \in Sockets : Fresh(s)' => Fresh(s), pass' = pass,
           \A k \in Keys : pending'[k] \in {pending[k], NoOne},
           \A s \in Sockets : opener'[s] \in {opener[s], NoOne},
           \A s \in Sockets : PassIn(jobs', s) => PassHeard(s)
    PROVE  PassWaits'
<1>1. \A s \in Sockets : PassHeard(s)' => PassHeard(s)
  BY Apart DEF PassHeard, PassToken, PassIn
<1>2. \A s \in Sockets : \A k \in Keys : pending'[k] = Pass(s) => pending[k] = Pass(s)
  BY Apart
<1>. QED  BY <1>1, <1>2, PassKeeps

LEMMA ApplicationPass ==
    ASSUME ClientFits, PassWaits, Application, ~ExcusesChannels'
    PROVE  PassWaits'
<1>1. pass' = pass /\ welcomed' = welcomed /\ jobs \in Seq(JobRow)
  BY DEF Application, Connect, Disconnect, ChannelSubscribe, ChannelRequest, sockVars,
         ClientFits, JobsFit
<1>2. \A s : Me # Pass(s)
  BY Apart DEF Me
<1>3. /\ \A s : ~PassIn(<<>>, s)
      /\ <<>> \in Seq(JobRow)
  BY NoRows DEF PassIn
<1>4. CASE Connect
  <2>1. Open(Me) /\ UNCHANGED <<pending, jobs>>
    BY <1>4 DEF Connect, reqVars
  <2>. QED  BY <1>1, <1>2, <2>1, OpenPass
<1>5. CASE Disconnect
  <2>1. /\ UNCHANGED <<pending, opener, jobs>>
        /\ sock' = sock \/ sock' = [sock EXCEPT ![ws] = "closing"]
    BY <1>5 DEF Disconnect, reqVars
  <2>2. \A s \in Sockets : Fresh(s)' => Fresh(s)
    BY <1>1, <2>1 DEF Fresh, ClientFits, ConnFits
  <2>3. \A s \in Sockets : PassIn(jobs', s) => PassHeard(s)
    BY <2>1 DEF PassHeard, PassToken
  <2>. QED  BY <1>1, <2>1, <2>2, <2>3, PassesQuiet
<1>6. ASSUME NEW t \in Topics, ChannelSubscribe(t) PROVE PassWaits'
  <2>1. Subscribe(Me, t, <<>>)
    BY <1>6 DEF ChannelSubscribe
  <2>. QED  BY <1>1, <1>2, <1>3, <2>1, SubscribePass
<1>7. ASSUME NEW k \in Keys, ChannelRequest(k[1], k[2]) PROVE PassWaits'
  <2>1. Await(Me, <<k[1], k[2]>>, <<>>) /\ <<k[1], k[2]>> \in Keys
    BY <1>7 DEF ChannelRequest, Keys
  <2>. QED  BY <1>1, <1>2, <1>3, <2>1, AwaitPass
<1>. QED  BY <1>4, <1>5, <1>6, <1>7 DEF Application

LEMMA RunJobPass ==
    ASSUME ClientFits, PassWaits, RunJob, ~ExcusesChannels'
    PROVE  PassWaits'
<1>1. /\ jobs \in Seq(JobRow) /\ jobs # <<>> /\ Tail(jobs) \in Seq(JobRow)
      /\ Head(jobs) \in JobRow
  BY RunJobIs DEF ClientFits, JobsFit, Idle
<1>2. \A s \in Sockets : PassIn(Tail(jobs), s) => PassIn(jobs, s)
  BY <1>1, TailRows DEF PassIn
<1>3. CASE RescheduleReconnect
  <2>1. UNCHANGED <<pending, opener, pass, sock, welcomed>> /\ jobs' = Tail(jobs)
    BY <1>3 DEF RescheduleReconnect, reqVars, appVars
  <2>2. \A s \in Sockets : Fresh(s)' => Fresh(s)
    BY <2>1 DEF Fresh
  <2>3. \A s \in Sockets : PassIn(jobs', s) => PassHeard(s)
    BY <1>2, <2>1 DEF PassHeard, PassToken
  <2>. QED  BY <2>1, <2>2, <2>3, PassesQuiet
<1>4. ASSUME NEW n \in DOMAIN calls, NEW ok, ResumeCall(n, ok) PROVE PassWaits'
  <2>1. pass' = pass /\ welcomed' = welcomed
    BY <1>4 DEF ResumeCall, sockVars
  <2>2. \A s : AppCall(n) # Pass(s)
    BY Apart
  <2>3. CASE jobs' = Tail(jobs) /\ UNCHANGED <<connVars, reqVars, mishaps>>
    <3>1. UNCHANGED <<pending, opener, sock>>
      BY <2>3 DEF connVars, reqVars
    <3>2. \A s \in Sockets : Fresh(s)' => Fresh(s)
      BY <2>1, <3>1 DEF Fresh
    <3>3. \A s \in Sockets : PassIn(jobs', s) => PassHeard(s)
      BY <1>2, <2>3 DEF PassHeard, PassToken
    <3>. QED  BY <2>1, <3>1, <3>2, <3>3, PassesQuiet
  <2>4. ASSUME NEW k \in Keys, Await(AppCall(n), k, Tail(jobs)) PROVE PassWaits'
    BY <1>1, <1>2, <2>1, <2>2, <2>4, AwaitPass
  <2>. QED  BY <1>4, <2>3, <2>4, CallAsks
<1>5. ASSUME NEW s \in Sockets, Head(jobs).who = Pass(s), NEW ok, ResumePass(s, ok)
      PROVE  PassWaits'
  <2>1. welcomed' = welcomed
    BY <1>5 DEF ResumePass, sockVars
  <2>2. PassIn(jobs, s)
    <3>1. Head(jobs) = Settled(Pass(s), Head(jobs).ok) /\ Head(jobs).ok \in BOOLEAN
      BY <1>1, <1>5 DEF JobRow, Settled
    <3>2. RowIn(jobs, Head(jobs))
      BY <1>1, TailRows
    <3>. QED  BY <3>1, <3>2 DEF PassIn
  <2>3. ~Fresh(s) /\ \A r \in Sockets : Pass(s) = Pass(r) => ~Fresh(r)
    BY <2>2, RowsApart DEF PassWaits, PassHeard, PassToken
  <2>4. ASSUME NEW k \in Keys, k[1] # "unsub", Await(Pass(s), k, Tail(jobs)),
               \A r \in Sockets : r # s => pass'[r] = pass[r]
        PROVE  PassWaits'
    <3>1. \A r \in Sockets : Fresh(r) => pass'[r] = pass[r]
      BY <2>3, <2>4
    <3>. QED  BY <1>1, <1>2, <2>1, <2>3, <2>4, <3>1, AwaitPass
  <2>5. ASSUME NEW row, pass' = [pass EXCEPT ![s] = row]
        PROVE  \A r \in Sockets : Fresh(r) => pass'[r] = pass[r]
    BY <2>3, <2>5 DEF ClientFits, PassFits
  <2>6. CASE /\ pass' = [pass EXCEPT ![s] = NoPass] /\ jobs' = Tail(jobs)
             /\ UNCHANGED <<connVars, reqVars, mishaps>>
    <3>1. UNCHANGED <<pending, opener, sock>>
      BY <2>6 DEF connVars, reqVars
    <3>2. \A r \in Sockets : Fresh(r)' => Fresh(r)
      BY <2>1, <3>1 DEF Fresh
    <3>3. \A r \in Sockets : PassHeard(r)' => PassHeard(r)
      BY <1>2, <2>6, <3>1 DEF PassHeard, PassToken, PassIn
    <3>4. \A r \in Sockets : Fresh(r) => pass'[r] = pass[r]
      BY <2>5, <2>6
    <3>. QED  BY <3>1, <3>2, <3>3, <3>4, PassKeeps
  <2>7. ASSUME NEW t \in Topics, NEW row, pass' = [pass EXCEPT ![s] = row],
               Subscribe(Pass(s), t, Tail(jobs))
        PROVE  PassWaits'
    <3>1. \A r \in Sockets : Fresh(r) => pass'[r] = pass[r]
      BY <2>5, <2>7
    <3>. QED  BY <1>1, <1>2, <2>1, <2>3, <2>7, <3>1, SubscribePass
  <2>. QED  BY <1>5, <2>4, <2>6, <2>7, PassAsks, PassGoesOn
<1>. QED  BY <1>3, <1>4, <1>5, RunJobIs

LEMMA SocketPass ==
    ASSUME ClientFits, PassWaits, NEW s \in Sockets, SocketEvent(s), ~ExcusesChannels'
    PROVE  PassWaits'
<1>1. sock \in [Sockets -> SocketStates] /\ opener \in [Sockets -> Callers \cup {Timer, NoOne}]
  BY DEF ClientFits, ConnFits
<1>2. pass' = pass /\ jobs = <<>> /\ \A r : ~PassIn(<<>>, r)
  BY NoRows DEF SocketEvent, Dial, TokenFails, Opened, Welcome, Answer, Refuse, Lost,
                Closed, OnClose, Event, Idle, appVars, PassIn
<1>3. CASE Dial(s) \/ Opened(s) \/ \E t \in Topics : Event(s, t)
  <2>1. /\ UNCHANGED <<pending, opener, jobs, welcomed>>
        /\ \/ sock' = sock
           \/ /\ sock[s] \in {"token", "dialing"}
              /\ \E x \in {"dialing", "open"} : sock' = [sock EXCEPT ![s] = x]
    BY <1>3 DEF Dial, Opened, Event, connVars, reqVars, sockVars
  <2>2. \A r \in Sockets : Fresh(r)' => Fresh(r)
    BY <1>1, <2>1 DEF Fresh
  <2>3. \A r : ~PassIn(jobs', r)
    BY <1>2, <2>1
  <2>. QED  BY <1>2, <2>1, <2>2, <2>3, PassesQuiet
<1>4. CASE TokenFails(s)
  <2>1. /\ sock' = [sock EXCEPT ![s] = "closed"] /\ UNCHANGED <<pending, welcomed>>
        /\ opener' = [opener EXCEPT ![s] = NoOne] /\ jobs' = <<Settled(opener[s], FALSE)>>
    BY <1>4 DEF TokenFails, reqVars, sockVars
  <2>2. \A r \in Sockets : Fresh(r)' => Fresh(r)
    BY <1>1, <2>1 DEF Fresh
  <2>3. \A r \in Sockets : PassIn(jobs', r) => PassHeard(r)
    <3>. SUFFICES ASSUME NEW r \in Sockets, PassIn(jobs', r) PROVE PassHeard(r)
      OBVIOUS
    <3>1. PICK ok \in BOOLEAN : RowIn(jobs', Settled(Pass(r), ok))
      BY DEF PassIn
    <3>2. Settled(Pass(r), ok) = Settled(opener[s], FALSE)
      BY <2>1, <3>1, NoRows
    <3>3. opener[s] = Pass(r)
      BY <3>2, RowOfPass
    <3>. QED  BY <3>3 DEF PassHeard
  <2>4. \A r \in Sockets : opener'[r] \in {opener[r], NoOne}
    BY <1>1, <2>1
  <2>. QED  BY <1>2, <2>1, <2>2, <2>3, <2>4, PassesQuiet
<1>5. CASE Welcome(s)
  <2>. DEFINE rest == IF opener[s] = Timer THEN <<>> ELSE <<Settled(opener[s], TRUE)>>
              first == <<Settled(Pass(s), TRUE)>>
  <2>1. /\ sock[s] = "open" /\ s \notin welcomed /\ jobs' = first \o rest
        /\ opener' = [opener EXCEPT ![s] = NoOne] /\ UNCHANGED <<pending, sock>>
        /\ welcomed' = welcomed \cup {s}
    BY <1>5 DEF Welcome, reqVars
  <2>2. opener[s] \in Callers \cup {Timer}
    BY <1>1, <2>1 DEF ClientFits, Opening, Live
  <2>3. Settled(opener[s], TRUE) \in JobRow /\ Settled(Pass(s), TRUE) \in JobRow
    BY <2>2 DEF Settled, JobRow, Callers
  <2>4. rest \in Seq(JobRow) /\ first \in Seq(JobRow)
    BY <2>3, SeqOne, NoJobs
  <2>5. \A row : /\ RowIn(rest, row) => row = Settled(opener[s], TRUE)
                 /\ RowIn(first, row) => row = Settled(Pass(s), TRUE)
    BY NoRows
  <2>. HIDE DEF rest, first
  <2>6. \A row : RowIn(jobs', row) => row \in {Settled(opener[s], TRUE), Settled(Pass(s), TRUE)}
    BY <2>1, <2>4, <2>5, JoinRows
  <2>7. \A r \in Sockets : r # s /\ PassIn(jobs', r) => PassHeard(r)
    <3>. SUFFICES ASSUME NEW r \in Sockets, r # s, PassIn(jobs', r) PROVE PassHeard(r)
      OBVIOUS
    <3>1. PICK ok \in BOOLEAN : RowIn(jobs', Settled(Pass(r), ok))
      BY DEF PassIn
    <3>2. Settled(Pass(r), ok) = Settled(opener[s], TRUE) \/ Settled(Pass(r), ok) = Settled(Pass(s), TRUE)
      BY <2>6, <3>1
    <3>3. opener[s] = Pass(r) \/ Pass(s) = Pass(r)
      BY <3>2, RowOfPass
    <3>4. Pass(s) # Pass(r)
      BY RowsApart
    <3>. QED  BY <3>3, <3>4 DEF PassHeard
  <2>8. \A r \in Sockets : Fresh(r)' => Fresh(r) /\ r # s
    BY <2>1 DEF Fresh
  <2>9. \A r, q \in Sockets : opener'[r] = Pass(q) => opener[r] = Pass(q)
    BY <1>1, <2>1, Apart
  <2>10. \A r \in Sockets : r # s /\ PassHeard(r)' => PassHeard(r)
    BY <2>1, <2>7, <2>9 DEF PassHeard, PassToken, PassIn
  <2>. QED  BY <1>2, <2>1, <2>8, <2>10, PassKeeps
<1>6. CASE Answer(s)
  <2>. DEFINE k == Head(wire[s])
  <2>1. /\ k \in Keys /\ jobs' = Outcome(k, TRUE) /\ UNCHANGED <<sock, welcomed>>
        /\ \A q \in Keys : pending'[q] = IF q = k THEN NoOne ELSE pending[q]
    BY <1>6, AnswerTakes
  <2>2. opener' = opener
    BY <1>6 DEF Answer, connVars
  <2>. HIDE DEF k
  <2>3. \A r \in Sockets : PassIn(jobs', r) => PassHeard(r)
    <3>. SUFFICES ASSUME NEW r \in Sockets, PassIn(jobs', r) PROVE PassHeard(r)
      OBVIOUS
    <3>1. PICK ok \in BOOLEAN : RowIn(jobs', Settled(Pass(r), ok))
      BY DEF PassIn
    <3>2. Settled(Pass(r), ok) = Settled(pending[k], TRUE)
      BY <2>1, <3>1, NoRows DEF Outcome
    <3>3. pending[k] = Pass(r)
      BY <3>2, RowOfPass
    <3>. QED  BY <2>1, <3>3 DEF PassHeard, PassToken
  <2>4. \A r \in Sockets : Fresh(r)' => Fresh(r)
    BY <2>1 DEF Fresh
  <2>. QED  BY <1>2, <2>1, <2>2, <2>3, <2>4, PassesQuiet
<1>7. CASE OnClose(s)
  <2>. DEFINE U == JobRow \cup {Settled(opener[s], FALSE)}
  <2>1. /\ sock' = [sock EXCEPT ![s] = "closed"] /\ welcomed' = welcomed \ {s}
        /\ pending' = [k \in Keys |-> NoOne] /\ opener' = [opener EXCEPT ![s] = NoOne]
    BY <1>7 DEF OnClose
  <2>2. \A row : RowIn(jobs', row) =>
           row = Settled(opener[s], FALSE) \/ \E k \in Keys : row = Settled(pending[k], FALSE)
    BY <1>7, OnCloseRows
  <2>3. \A r \in Sockets : PassIn(jobs', r) => PassHeard(r)
    <3>. SUFFICES ASSUME NEW r \in Sockets, PassIn(jobs', r) PROVE PassHeard(r)
      OBVIOUS
    <3>1. PICK ok \in BOOLEAN : RowIn(jobs', Settled(Pass(r), ok))
      BY DEF PassIn
    <3>2. \/ Settled(Pass(r), ok) = Settled(opener[s], FALSE)
          \/ \E k \in Keys : Settled(Pass(r), ok) = Settled(pending[k], FALSE)
      BY <2>2, <3>1
    <3>3. opener[s] = Pass(r) \/ \E k \in Keys : pending[k] = Pass(r)
      BY <3>2, RowOfPass
    <3>. QED  BY <3>3 DEF PassHeard, PassToken
  <2>4. \A r \in Sockets : Fresh(r)' => Fresh(r)
    BY <1>1, <2>1 DEF Fresh
  <2>5. /\ \A r \in Sockets : opener'[r] \in {opener[r], NoOne}
        /\ \A q \in Keys : pending'[q] \in {pending[q], NoOne}
    BY <1>1, <2>1
  <2>. QED  BY <1>2, <2>3, <2>4, <2>5, PassesQuiet
<1>. QED  BY <1>3, <1>4, <1>5, <1>6, <1>7, Excused DEF SocketEvent, Lost, Closed

LEMMA PassWaitsNext == ClientFits /\ PassWaits /\ [Next]_vars /\ ~ExcusesChannels' => PassWaits'
<1>. SUFFICES ASSUME ClientFits, PassWaits, [Next]_vars, ~ExcusesChannels' PROVE PassWaits'
  OBVIOUS
<1>1. CASE UNCHANGED vars
  <2>1. UNCHANGED <<pass, pending, opener, jobs, sock, welcomed>>
    BY <1>1 DEF vars, connVars, sockVars, reqVars, appVars
  <2>2. \A s \in Sockets : Fresh(s)' => Fresh(s)
    BY <2>1 DEF Fresh
  <2>3. \A s \in Sockets : PassIn(jobs', s) => PassHeard(s)
    BY <2>1 DEF PassHeard, PassToken
  <2>. QED  BY <2>1, <2>2, <2>3, PassesQuiet
<1>2. CASE ReconnectTimer
  <2>1. /\ UNCHANGED <<pass, pending, jobs, welcomed>>
        /\ IF closedByUser THEN UNCHANGED <<state, sock, opener>> ELSE Open(Timer)
    BY <1>2 DEF ReconnectTimer, ReconnectUnless, reqVars, appVars
  <2>2. CASE closedByUser
    <3>2. \A s \in Sockets : Fresh(s)' => Fresh(s)
      BY <2>1, <2>2 DEF Fresh
    <3>3. \A s \in Sockets : PassIn(jobs', s) => PassHeard(s)
      BY <2>1 DEF PassHeard, PassToken
    <3>. QED  BY <2>1, <2>2, <3>2, <3>3, PassesQuiet
  <2>3. CASE ~closedByUser
    BY <2>1, <2>3, OpenPass, Apart
  <2>. QED  BY <2>2, <2>3
<1>. QED  BY <1>1, <1>2, RunJobPass, ApplicationPass, SocketPass, Excused DEF Next

\* A connection is on its way, or none is wanted.
Coming == \/ timers > 0 \/ closedByUser \/ state = "FAILED"
          \/ \E s \in Sockets : sock[s] \in Live /\ s \notin welcomed

\* When the socket's requests are answered, it has the subscription.
Holds(s, t) ==
    \/ t \in granted[s] /\ NotLeft(s, t, 0)
    \/ \E i \in DOMAIN wire[s] : wire[s][i] = SubOf(t) /\ NotLeft(s, t, i)
Provided(t) == \E s \in welcomed : sock[s] = "open" /\ Holds(s, t)

\* A pass comes to the topic.
PassDue(t) ==
    \E s \in Sockets : /\ PassToken(s)
                       /\ \E m \in DOMAIN Channels : m > pass[s].n /\ Channels[m] = t

\* A call that unsubscribed has yet to hear of it.
Told(n) == RowIn(jobs, Settled(AppCall(n), TRUE))
LeftJob(t) ==
    \E n \in DOMAIN calls : Told(n) /\ calls[n].at = "unsub" /\ calls[n].topic = t
Leaving(t) == pending[UnsubOf(t)] # NoOne \/ LeftJob(t)

Served == \A t \in subscribed : Coming \/ Provided(t) \/ PassDue(t) \/ Leaving(t)

SubTold ==
    \A n \in DOMAIN calls : Told(n) /\ calls[n].at = "sub" =>
        Len(jobs) = 1 /\ (Provided(calls[n].topic) \/ Leaving(calls[n].topic))

LEMMA Untold ==
    ASSUME \A n \in DOMAIN calls' :
              RowIn(jobs', Settled(AppCall(n), TRUE)) => calls'[n].at # "sub"
    PROVE  SubTold'
  BY DEF SubTold, Told, RowIn

LEMMA ComingServes == ASSUME Coming' PROVE Served'
  BY DEF Served

LEMMA OpenComes ==
    ASSUME ClientFits, NEW who, Open(who), welcomed' = welcomed
    PROVE  Coming'
<1>1. PICK s \in Sockets : sock[s] = "none" /\ sock' = [sock EXCEPT ![s] = "token"]
  BY DEF Open
<1>2. sock'[s] = "token" /\ s \notin welcomed'
  BY <1>1 DEF ClientFits, ConnFits, Opening
<1>. QED  BY <1>2 DEF Coming, Live

LEMMA ScheduleComes ==
    ASSUME ClientFits, ScheduleReconnect
    PROVE  Coming'
<1>1. timers \in Nat
  BY DEF ClientFits, SockFits
<1>2. state' = "FAILED" \/ timers' = timers + 1
  BY Schedules
<1>3. CASE timers' = timers + 1
  <2>1. timers' > 0
    BY <1>1, <1>3
  <2>. QED  BY <2>1 DEF Coming
<1>. QED  BY <1>2, <1>3 DEF Coming

LEMMA RowHeard ==
    ASSUME NEW list, NEW n, NEW ok, RowIn(list, Settled(AppCall(n), ok))
    PROVE  HeardIn(list, n)
  BY DEF RowIn, HeardIn, Settled

LEMMA RowOfCall ==
    ASSUME NEW n, NEW ok, NEW w, NEW x, Settled(AppCall(n), ok) = Settled(w, x)
    PROVE  w = AppCall(n) /\ x = ok
  BY RowsApart

\* The channel asked for is provided by the socket that is asked.
LEMMA SentHolds ==
    ASSUME ClientFits, NEW who, NEW t \in Topics, NEW work, Await(who, SubOf(t), work), CanSend,
           UNCHANGED <<timers, welcomed>>
    PROVE  Coming' \/ Provided(t)'
<1>. DEFINE end == Len(wire[ws]) + 1
<1>1. SubOf(t) \in Keys
  BY TheKeys
<1>2. /\ ws \in Sockets /\ sock[ws] = "open"
      /\ Len(wire[ws]) \in Nat
      /\ DOMAIN wire'[ws] = 1..end /\ wire'[ws][end] = SubOf(t)
  BY <1>1, AwaitSends
<1>3. sock' = sock /\ welcomed' = welcomed
  BY DEF Await, connVars
<1>4. end \in DOMAIN wire'[ws] /\ \A j \in DOMAIN wire'[ws] : ~(j > end)
  BY <1>2
<1>. HIDE DEF end
<1>5. PICK s \in Sockets : s = ws
  BY <1>2
<1>6. PICK i \in DOMAIN wire'[s] : i = end
  BY <1>4, <1>5
<1>7. NotLeft(s, t, i)'
  BY <1>4, <1>5, <1>6 DEF NotLeft
<1>8. Holds(s, t)'
  BY <1>2, <1>5, <1>6, <1>7 DEF Holds
<1>9. CASE s \in welcomed
  BY <1>2, <1>3, <1>5, <1>8, <1>9 DEF Provided
<1>10. CASE s \notin welcomed
  BY <1>2, <1>3, <1>5, <1>10 DEF Coming, Live
<1>. QED  BY <1>9, <1>10

LEMMA AwaitProvides ==
    ASSUME ClientFits, NEW who, who # NoOne, NEW k \in Keys, NEW work, Await(who, k, work),
           ~ExcusesChannels', UNCHANGED <<welcomed, granted>>, NEW t \in Topics, Provided(t)
    PROVE  Provided(t)' \/ pending'[UnsubOf(t)] # NoOne
<1>1. pending[k] = NoOne /\ sock' = sock
  BY AwaitFresh DEF Await, connVars
<1>2. PICK s \in welcomed : sock[s] = "open" /\ Holds(s, t)
  BY DEF Provided
<1>3. s \in Sockets
  BY DEF ClientFits, Opening
<1>4. CASE ~CanSend
  <2>1. wire' = wire
    BY <1>1, <1>4, AwaitFails
  <2>2. Holds(s, t)'
    BY <1>2, <2>1 DEF Holds, NotLeft
  <2>. QED  BY <1>1, <1>2, <2>2 DEF Provided
<1>5. CASE CanSend /\ k = UnsubOf(t)
  <2>1. pending' = [pending EXCEPT ![k] = who]
    BY <1>5, AwaitSends
  <2>. QED  BY <1>5, <2>1 DEF ClientFits, ReqsFit
<1>6. CASE CanSend /\ k # UnsubOf(t)
  <2>. DEFINE end == Len(wire[ws]) + 1
  <2>1. /\ ws \in Sockets
        /\ Len(wire[ws]) \in Nat /\ DOMAIN wire[ws] = 1..Len(wire[ws])
        /\ DOMAIN wire'[ws] = 1..end
        /\ \A i \in DOMAIN wire[ws] : wire'[ws][i] = wire[ws][i]
        /\ wire'[ws][end] = k
        /\ \A r \in Sockets : r # ws => wire'[r] = wire[r]
    BY <1>6, AwaitSends
  <2>2. /\ \A i \in DOMAIN wire'[ws] : i = end \/ i \in DOMAIN wire[ws]
        /\ \A i \in DOMAIN wire[ws] : i \in DOMAIN wire'[ws]
    BY <2>1
  <2>. HIDE DEF end
  <2>3. \A i \in DOMAIN wire'[s] : \/ i \in DOMAIN wire[s] /\ wire'[s][i] = wire[s][i]
                                   \/ wire'[s][i] = k
    BY <1>3, <2>1, <2>2
  <2>4. \A i \in DOMAIN wire[s] : i \in DOMAIN wire'[s] /\ wire'[s][i] = wire[s][i]
    BY <1>3, <2>1, <2>2
  <2>5. \A i : NotLeft(s, t, i) => NotLeft(s, t, i)'
    BY <1>6, <2>3 DEF NotLeft
  <2>6. Holds(s, t)'
    BY <1>2, <2>4, <2>5 DEF Holds
  <2>. QED  BY <1>1, <1>2, <2>6 DEF Provided
<1>. QED  BY <1>4, <1>5, <1>6

\* A request keeps what serves a channel, if the continuations that run after it do.
LEMMA AwaitServes ==
    ASSUME ClientFits, NEW T, NEW work \in Seq(T), NEW who, who # NoOne, NEW k \in Keys,
           Await(who, k, work), ~ExcusesChannels', UNCHANGED <<timers, welcomed, granted>>
    PROVE  /\ Coming => Coming'
           /\ \A t \in Topics : Provided(t) => Provided(t)' \/ Leaving(t)'
           /\ \A q \in Keys : pending[q] # NoOne => pending'[q] = pending[q]
           /\ \A row : RowIn(work, row) => RowIn(jobs', row)
           /\ \A row : RowIn(jobs', row) => RowIn(work, row) \/ row = Settled(who, FALSE)
           /\ \A s \in Sockets : PassToken(s) => PassToken(s)' \/ (PassIn(jobs, s) /\ ~PassIn(work, s))
           /\ \A s : who = Pass(s) => PassToken(s)'
<1>1. pending[k] = NoOne /\ UNCHANGED <<state, closedByUser, sock>>
  BY AwaitFresh DEF Await, connVars
<1>2. Coming => Coming'
  BY <1>1 DEF Coming
<1>3. \A t \in Topics : Provided(t) => Provided(t)' \/ Leaving(t)'
  BY AwaitProvides DEF Leaving
<1>4. CASE CanSend
  <2>1. pending' = [pending EXCEPT ![k] = who] /\ jobs' = work
    BY <1>4, AwaitSends
  <2>2. /\ \A q \in Keys : pending[q] # NoOne => pending'[q] = pending[q]
        /\ pending'[k] = who
    BY <1>1, <2>1 DEF ClientFits, ReqsFit
  <2>3. \A row : RowIn(work, row) <=> RowIn(jobs', row)
    BY <2>1
  <2>4. \A s \in Sockets : PassToken(s) => PassToken(s)' \/ (PassIn(jobs, s) /\ ~PassIn(work, s))
    <3>1. \A s : PassIn(work, s) => PassIn(jobs, s)'
      BY <2>3 DEF PassIn, RowIn
    <3>. QED  BY <2>2, <3>1, Apart DEF PassToken
  <2>5. \A s : who = Pass(s) => PassToken(s)'
    BY <2>2 DEF PassToken
  <2>. QED  BY <1>2, <1>3, <2>2, <2>3, <2>4, <2>5
<1>5. CASE ~CanSend
  <2>. DEFINE x == Settled(who, FALSE)
  <2>1. pending' = pending /\ jobs' = Append(work, x)
    BY <1>1, <1>5, AwaitFails
  <2>. HIDE DEF x
  <2>2. \A row : RowIn(Append(work, x), row) <=> RowIn(work, row) \/ row = x
    BY AppendRows
  <2>3. \A row : RowIn(jobs', row) <=> RowIn(work, row) \/ row = x
    BY <2>1, <2>2
  <2>4. \A s \in Sockets : PassToken(s) => PassToken(s)' \/ (PassIn(jobs, s) /\ ~PassIn(work, s))
    <3>1. \A s : PassIn(work, s) => PassIn(jobs', s)
      BY <2>3 DEF PassIn
    <3>2. \A s : PassIn(jobs', s) => PassIn(jobs, s)'
      BY DEF PassIn
    <3>. QED  BY <2>1, <3>1, <3>2 DEF PassToken
  <2>5. \A s : who = Pass(s) => PassToken(s)'
    <3>. SUFFICES ASSUME NEW s, who = Pass(s) PROVE PassToken(s)'
      OBVIOUS
    <3>1. RowIn(jobs', Settled(Pass(s), FALSE))
      BY <2>3 DEF x
    <3>2. PassIn(jobs, s)'
      BY <3>1 DEF PassIn
    <3>. QED  BY <3>2 DEF PassToken
  <2>. QED  BY <1>2, <1>3, <2>1, <2>3, <2>4, <2>5 DEF x
<1>. QED  BY <1>4, <1>5

ServeInv == Served /\ SubTold

\* A request of the application when no continuation has to run.
LEMMA NewAskServes ==
    ASSUME ClientFits, Served, jobs = <<>>, NEW k \in Keys, Await(Me, k, <<>>),
           ~ExcusesChannels', UNCHANGED <<timers, welcomed, granted, subscribed, pass>>
    PROVE  Served'
<1>1. Me # NoOne /\ <<>> \in Seq(JobRow)
  BY Apart, NoJobs DEF Me
<1>2. /\ Coming => Coming'
      /\ \A t \in Topics : Provided(t) => Provided(t)' \/ Leaving(t)'
      /\ \A q \in Keys : pending[q] # NoOne => pending'[q] = pending[q]
      /\ \A s \in Sockets :
            PassToken(s) => PassToken(s)' \/ (PassIn(jobs, s) /\ ~PassIn(<<>>, s))
  BY <1>1, AwaitServes
<1>3. \A s \in Sockets : PassToken(s) => PassToken(s)'
  BY <1>2
<1>. SUFFICES ASSUME NEW t \in subscribed PROVE (Coming \/ Provided(t) \/ PassDue(t) \/ Leaving(t))'
  BY DEF Served
<1>4. t \in Topics /\ UnsubOf(t) \in Keys
  BY TheKeys DEF ClientFits, AppFits
<1>5. CASE PassDue(t)
  BY <1>3, <1>5 DEF PassDue
<1>6. CASE Leaving(t)
  <2>1. \A n : ~Told(n)
    BY NoRows DEF Told
  <2>2. pending'[UnsubOf(t)] # NoOne
    BY <1>2, <1>4, <1>6, <2>1 DEF Leaving, LeftJob
  <2>. QED  BY <2>2 DEF Leaving
<1>. QED  BY <1>2, <1>4, <1>5, <1>6 DEF Served

LEMMA ApplicationServes ==
    ASSUME ClientFits, ServeInv, Application, ~ExcusesChannels'
    PROVE  ServeInv'
<1>1. /\ jobs = <<>>
      /\ UNCHANGED <<timers, welcomed, granted, subscribed, pass>>
  <2>1. jobs = <<>>
    BY DEF Application, Connect, Disconnect, ChannelSubscribe, ChannelRequest, MayCall, Idle
  <2>2. UNCHANGED <<timers, welcomed, granted, subscribed, pass>>
    BY DEF Application, Connect, Disconnect, ChannelSubscribe, ChannelRequest, sockVars
  <2>. QED  BY <2>1, <2>2
<1>2. ASSUME jobs' = <<>> \/ jobs' = <<Settled(Me, FALSE)>> PROVE SubTold'
  <2>1. \A n : Settled(AppCall(n), TRUE) # Settled(Me, FALSE)
    BY DEF Settled
  <2>2. \A n : ~RowIn(jobs', Settled(AppCall(n), TRUE))
    <3>1. \A row : RowIn(jobs', row) => row = Settled(Me, FALSE)
      <4>1. CASE jobs' = <<>>
        BY <4>1, NoRows
      <4>2. CASE jobs' = <<Settled(Me, FALSE)>>
        BY <4>2, NoRows
      <4>. QED  BY <1>2, <4>1, <4>2
    <3>. QED  BY <2>1, <3>1
  <2>. QED  BY <2>2, Untold
<1>3. ASSUME NEW k \in Keys, Await(Me, k, <<>>) PROVE ServeInv'
  <2>1. jobs' = <<>> \/ jobs' = Append(<<>>, Settled(Me, FALSE))
    BY <1>3 DEF Await
  <2>2. jobs' = <<>> \/ jobs' = <<Settled(Me, FALSE)>>
    <3>1. ASSUME NEW x PROVE Append(<<>>, x) = <<x>>
      OBVIOUS
    <3>. QED  BY <2>1, <3>1
  <2>. QED  BY <1>1, <1>2, <1>3, <2>2, NewAskServes DEF ServeInv
<1>4. ASSUME Open(Me), jobs' = <<>> PROVE ServeInv'
  BY <1>1, <1>2, <1>4, OpenComes, ComingServes DEF ServeInv
<1>5. CASE Connect
  BY <1>1, <1>4, <1>5 DEF Connect
<1>6. CASE Disconnect
  <2>1. closedByUser' = TRUE /\ jobs' = <<>>
    BY <1>1, <1>6 DEF Disconnect
  <2>2. Coming'
    BY <2>1 DEF Coming
  <2>. QED  BY <1>2, <2>1, <2>2, ComingServes DEF ServeInv
<1>7. ASSUME NEW t \in Topics, ChannelSubscribe(t) PROVE ServeInv'
  <2>1. Subscribe(Me, t, <<>>)
    BY <1>7 DEF ChannelSubscribe
  <2>2. <<"sub", t>> \in Keys
    BY DEF Keys
  <2>. QED  BY <1>3, <1>4, <2>1, <2>2 DEF Subscribe
<1>8. ASSUME NEW k \in Keys, ChannelRequest(k[1], k[2]) PROVE ServeInv'
  <2>1. Await(Me, <<k[1], k[2]>>, <<>>) /\ <<k[1], k[2]>> \in Keys
    BY <1>8 DEF ChannelRequest, Keys
  <2>. QED  BY <1>3, <2>1
<1>. QED  BY <1>5, <1>6, <1>7, <1>8 DEF Application

\* The queue behind the continuation that runs.
LEMMA BehindHead ==
    ASSUME ClientFits, ~Idle
    PROVE  /\ jobs \in Seq(JobRow) /\ jobs # <<>> /\ Tail(jobs) \in Seq(JobRow)
           /\ Head(jobs) = Settled(Head(jobs).who, Head(jobs).ok) /\ Head(jobs).ok \in BOOLEAN
           /\ \A row : RowIn(jobs, row) <=> row = Head(jobs) \/ RowIn(Tail(jobs), row)
           /\ \A row : RowIn(Tail(jobs), row) => Len(jobs) # 1
<1>1. jobs \in Seq(JobRow) /\ jobs # <<>> /\ Tail(jobs) \in Seq(JobRow) /\ Head(jobs) \in JobRow
  BY NextJob DEF ClientFits, JobsFit, Idle
<1>2. Head(jobs) = Settled(Head(jobs).who, Head(jobs).ok) /\ Head(jobs).ok \in BOOLEAN
  BY <1>1 DEF JobRow, Settled
<1>3. /\ \A row : RowIn(jobs, row) <=> row = Head(jobs) \/ RowIn(Tail(jobs), row)
      /\ \A row : RowIn(Tail(jobs), row) => Len(jobs) # 1
  BY <1>1, TailRows
<1>. QED  BY <1>1, <1>2, <1>3

LEMMA TailUntold ==
    ASSUME ClientFits, SubTold, ~Idle, NEW n \in DOMAIN calls,
           RowIn(Tail(jobs), Settled(AppCall(n), TRUE))
    PROVE  calls[n].at # "sub"
<1>1. Told(n) /\ Len(jobs) # 1
  BY BehindHead DEF Told
<1>. QED  BY <1>1 DEF SubTold

\* The other calls keep their continuations.
LEMMA CallsBehind ==
    ASSUME ClientFits, CallInv, ~Idle, NEW n \in DOMAIN calls, Head(jobs).who = AppCall(n)
    PROVE  /\ \A ok : ~RowIn(Tail(jobs), Settled(AppCall(n), ok))
           /\ \A m \in DOMAIN calls : m # n /\ Told(m) => RowIn(Tail(jobs), Settled(AppCall(m), TRUE))
           /\ calls[n].at # "over"
           /\ \A s \in Sockets : PassIn(jobs, s) => PassIn(Tail(jobs), s)
<1>1. /\ jobs \in Seq(JobRow) /\ jobs # <<>>
      /\ Head(jobs) = Settled(AppCall(n), Head(jobs).ok) /\ Head(jobs).ok \in BOOLEAN
      /\ \A row : RowIn(jobs, row) <=> row = Head(jobs) \/ RowIn(Tail(jobs), row)
  BY BehindHead
<1>2. ~HeardIn(Tail(jobs), n)
  BY <1>1, TailHeard DEF CallInv
<1>3. \A ok : ~RowIn(Tail(jobs), Settled(AppCall(n), ok))
  BY <1>2, RowHeard
<1>4. ASSUME NEW m \in DOMAIN calls, m # n, Told(m)
      PROVE  RowIn(Tail(jobs), Settled(AppCall(m), TRUE))
  <2>1. AppCall(m) # AppCall(n)
    BY <1>4, Apart
  <2>2. Settled(AppCall(m), TRUE) # Settled(AppCall(n), Head(jobs).ok)
    BY <2>1, RowOfCall
  <2>. QED  BY <1>1, <1>4, <2>2 DEF Told
<1>5. calls[n].at # "over"
  <2>1. RowIn(jobs, Settled(AppCall(n), Head(jobs).ok))
    BY <1>1
  <2>2. HeardIn(jobs, n)
    BY <2>1, RowHeard
  <2>. QED  BY <2>2 DEF CallInv, CallWaits
<1>6. ASSUME NEW s \in Sockets, PassIn(jobs, s) PROVE PassIn(Tail(jobs), s)
  <2>1. PICK ok \in BOOLEAN : RowIn(jobs, Settled(Pass(s), ok))
    BY <1>6 DEF PassIn
  <2>2. Settled(Pass(s), ok) # Settled(AppCall(n), Head(jobs).ok)
    BY Apart, RowOfPass
  <2>3. RowIn(Tail(jobs), Settled(Pass(s), ok))
    BY <1>1, <2>1, <2>2
  <2>. QED  BY <2>3 DEF PassIn
<1>. QED  BY <1>3, <1>4, <1>5, <1>6

LEMMA CallEndServes ==
    ASSUME ClientFits, CallInv, ServeInv, ~Idle, NEW n \in DOMAIN calls,
           Head(jobs).who = AppCall(n), ResumeCall(n, Head(jobs).ok),
           ~(calls[n].op = "sub" /\ calls[n].at = "connect" /\ Head(jobs).ok),
           calls' = [calls EXCEPT ![n].at = "over"], jobs' = Tail(jobs),
           UNCHANGED <<connVars, reqVars, mishaps>>
    PROVE  ServeInv'
<1>. DEFINE ok == Head(jobs).ok
<1>1. /\ UNCHANGED <<state, closedByUser, sock, wire, pending>>
      /\ UNCHANGED <<timers, welcomed, granted, pass>>
      /\ subscribed' = CASE ok /\ calls[n].op = "sub" -> subscribed \cup {calls[n].topic}
                         [] ok /\ calls[n].op = "unsub" -> subscribed \ {calls[n].topic}
                         [] OTHER -> subscribed
  BY DEF ResumeCall, connVars, reqVars, sockVars
<1>2. /\ Head(jobs) = Settled(AppCall(n), ok) /\ ok \in BOOLEAN
      /\ \A row : RowIn(jobs, row) <=> row = Head(jobs) \/ RowIn(Tail(jobs), row)
      /\ \A row : RowIn(Tail(jobs), row) => Len(jobs) # 1
  BY BehindHead
<1>3. /\ \A x : ~RowIn(Tail(jobs), Settled(AppCall(n), x))
      /\ \A m \in DOMAIN calls : m # n /\ Told(m) => RowIn(Tail(jobs), Settled(AppCall(m), TRUE))
      /\ calls[n].at # "over"
      /\ \A s \in Sockets : PassIn(jobs, s) => PassIn(Tail(jobs), s)
  BY CallsBehind
<1>. HIDE DEF ok
<1>4. /\ DOMAIN calls' = DOMAIN calls /\ calls'[n].at = "over"
      /\ \A m \in DOMAIN calls : m # n => calls'[m] = calls[m]
  BY CallMoves
<1>5. SubTold'
  <2>1. \A m \in DOMAIN calls : RowIn(jobs', Settled(AppCall(m), TRUE)) => calls'[m].at # "sub"
    BY <1>4, TailUntold DEF ServeInv
  <2>. QED  BY <1>4, <2>1, Untold
<1>6. Coming => Coming'
  BY <1>1 DEF Coming
<1>7. \A t : Provided(t) => Provided(t)'
  BY <1>1 DEF Provided, Holds, NotLeft
<1>8. \A t : PassDue(t) => PassDue(t)'
  <2>1. \A s \in Sockets : PassIn(jobs, s) => PassIn(jobs, s)'
    BY <1>3 DEF PassIn
  <2>2. \A s \in Sockets : PassToken(s) => PassToken(s)'
    BY <1>1, <2>1 DEF PassToken
  <2>. QED  BY <1>1, <2>2 DEF PassDue
<1>9. \A t : Leaving(t) => Leaving(t)' \/ (Told(n) /\ calls[n].at = "unsub" /\ calls[n].topic = t)
  <2>. SUFFICES ASSUME NEW t, NEW m \in DOMAIN calls, Told(m), calls[m].at = "unsub",
                       calls[m].topic = t, m # n
                PROVE  LeftJob(t)'
    BY <1>1 DEF Leaving, LeftJob
  <2>1. RowIn(jobs', Settled(AppCall(m), TRUE)) /\ calls'[m] = calls[m] /\ m \in DOMAIN calls'
    BY <1>3, <1>4
  <2>. QED  BY <2>1 DEF LeftJob, Told, RowIn
<1>10. Told(n) => ok = TRUE
  <2>1. ASSUME Told(n) PROVE Settled(AppCall(n), TRUE) = Settled(AppCall(n), ok)
    BY <1>2, <1>3, <2>1 DEF Told
  <2>. QED  BY <2>1, RowOfCall
<1>11. calls[n].at = calls[n].op \/ (calls[n].op = "sub" /\ calls[n].at = "connect")
  BY <1>3 DEF CallInv, CallOps
<1>. SUFFICES ASSUME NEW t \in subscribed' PROVE (Coming \/ Provided(t) \/ PassDue(t) \/ Leaving(t))'
  BY <1>5 DEF ServeInv, Served
<1>12. CASE t \in subscribed
  <2>1. CASE Told(n) /\ calls[n].at = "unsub" /\ calls[n].topic = t
    <3>1. ok = TRUE /\ calls[n].op = "unsub"
      BY <1>10, <1>11, <2>1
    <3>2. subscribed' = subscribed \ {t}
      BY <1>1, <2>1, <3>1
    <3>. QED  BY <3>2
  <2>2. CASE ~(Told(n) /\ calls[n].at = "unsub" /\ calls[n].topic = t)
    BY <1>6, <1>7, <1>8, <1>9, <1>12, <2>2 DEF ServeInv, Served
  <2>. QED  BY <2>1, <2>2
<1>13. CASE t \notin subscribed
  <2>1. ok /\ calls[n].op = "sub" /\ t = calls[n].topic
    BY <1>1, <1>13
  <2>2. calls[n].at = "sub"
    BY <1>11, <2>1 DEF ok
  <2>3. Told(n)
    <3>1. ok = TRUE
      BY <1>2, <2>1
    <3>. QED  BY <1>2, <3>1 DEF Told
  <2>4. Len(jobs) = 1 /\ (Provided(t) \/ Leaving(t))
    BY <2>1, <2>2, <2>3 DEF ServeInv, SubTold
  <2>. QED  BY <1>7, <1>9, <2>2, <2>4
<1>. QED  BY <1>12, <1>13

LEMMA CallAskServes ==
    ASSUME ClientFits, CallInv, ServeInv, ~Idle, NEW n \in DOMAIN calls,
           Head(jobs).who = AppCall(n), ResumeCall(n, Head(jobs).ok),
           calls[n].at = "connect", SubOf(calls[n].topic) \in Keys,
           Await(AppCall(n), SubOf(calls[n].topic), Tail(jobs)),
           calls' = [calls EXCEPT ![n].at = "sub"], UNCHANGED subscribed, ~ExcusesChannels'
    PROVE  ServeInv'
<1>. DEFINE k == SubOf(calls[n].topic)
<1>1. /\ UNCHANGED <<timers, welcomed, granted, pass>>
      /\ AppCall(n) # NoOne /\ Tail(jobs) \in Seq(JobRow) /\ k \in Keys
  BY Apart, NextJob DEF ResumeCall, sockVars
<1>. HIDE DEF k
<1>2. /\ Coming => Coming'
      /\ \A t \in Topics : Provided(t) => Provided(t)' \/ Leaving(t)'
      /\ \A q \in Keys : pending[q] # NoOne => pending'[q] = pending[q]
      /\ \A row : RowIn(Tail(jobs), row) => RowIn(jobs', row)
      /\ \A row : RowIn(jobs', row) => RowIn(Tail(jobs), row) \/ row = Settled(AppCall(n), FALSE)
      /\ \A s \in Sockets :
            PassToken(s) => PassToken(s)' \/ (PassIn(jobs, s) /\ ~PassIn(Tail(jobs), s))
  BY <1>1, AwaitServes DEF k
<1>3. /\ \A x : ~RowIn(Tail(jobs), Settled(AppCall(n), x))
      /\ \A m \in DOMAIN calls : m # n /\ Told(m) => RowIn(Tail(jobs), Settled(AppCall(m), TRUE))
      /\ \A s \in Sockets : PassIn(jobs, s) => PassIn(Tail(jobs), s)
  BY CallsBehind
<1>4. /\ DOMAIN calls' = DOMAIN calls
      /\ \A m \in DOMAIN calls : m # n => calls'[m] = calls[m]
  BY CallMoves
<1>5. SubTold'
  <2>. SUFFICES ASSUME NEW m \in DOMAIN calls, RowIn(jobs', Settled(AppCall(m), TRUE))
                PROVE  calls'[m].at # "sub"
    BY <1>4, Untold
  <2>1. Settled(AppCall(m), TRUE) # Settled(AppCall(n), FALSE)
    <3>. SUFFICES ASSUME Settled(AppCall(m), TRUE) = Settled(AppCall(n), FALSE) PROVE FALSE
      OBVIOUS
    <3>. QED  BY RowOfCall
  <2>2. RowIn(Tail(jobs), Settled(AppCall(m), TRUE))
    BY <1>2, <2>1
  <2>3. m # n
    BY <1>3, <2>2
  <2>. QED  BY <1>4, <2>2, <2>3, TailUntold DEF ServeInv
<1>6. Served'
  <2>. SUFFICES ASSUME NEW t \in subscribed
                PROVE  (Coming \/ Provided(t) \/ PassDue(t) \/ Leaving(t))'
    BY DEF Served
  <2>1. t \in Topics /\ UnsubOf(t) \in Keys
    BY TheKeys DEF ClientFits, AppFits
  <2>2. CASE PassDue(t)
    BY <1>1, <1>2, <1>3, <2>2 DEF PassDue
  <2>3. CASE pending[UnsubOf(t)] # NoOne
    <3>1. pending'[UnsubOf(t)] # NoOne
      BY <1>2, <2>1, <2>3
    <3>. QED  BY <3>1 DEF Leaving
  <2>4. ASSUME NEW m \in DOMAIN calls, Told(m), calls[m].at = "unsub", calls[m].topic = t
        PROVE  LeftJob(t)'
    <3>1. m # n
      BY <2>4
    <3>2. RowIn(jobs', Settled(AppCall(m), TRUE)) /\ calls'[m] = calls[m] /\ m \in DOMAIN calls'
      BY <1>2, <1>3, <1>4, <2>4, <3>1
    <3>. QED  BY <2>4, <3>2 DEF LeftJob, Told, RowIn
  <2>. QED  BY <1>2, <2>1, <2>2, <2>3, <2>4 DEF ServeInv, Served, Leaving, LeftJob
<1>. QED  BY <1>5, <1>6 DEF ServeInv

\* The calls and the other passes keep their continuations.
LEMMA PassesBehind ==
    ASSUME ClientFits, ~Idle, NEW s \in Sockets, Head(jobs).who = Pass(s)
    PROVE  /\ \A m : Told(m) => RowIn(Tail(jobs), Settled(AppCall(m), TRUE))
           /\ \A r \in Sockets : r # s /\ PassIn(jobs, r) => PassIn(Tail(jobs), r)
<1>1. /\ Head(jobs) = Settled(Pass(s), Head(jobs).ok)
      /\ \A row : RowIn(jobs, row) <=> row = Head(jobs) \/ RowIn(Tail(jobs), row)
  BY BehindHead
<1>2. ASSUME NEW m, Told(m) PROVE RowIn(Tail(jobs), Settled(AppCall(m), TRUE))
  <2>1. Settled(Pass(s), Head(jobs).ok) # Settled(AppCall(m), TRUE)
    BY Apart, RowOfPass
  <2>. QED  BY <1>1, <1>2, <2>1 DEF Told
<1>3. ASSUME NEW r \in Sockets, r # s, PassIn(jobs, r) PROVE PassIn(Tail(jobs), r)
  <2>1. PICK ok \in BOOLEAN : RowIn(jobs, Settled(Pass(r), ok))
    BY <1>3 DEF PassIn
  <2>2. Pass(s) # Pass(r)
    BY <1>3, RowsApart
  <2>3. Settled(Pass(s), Head(jobs).ok) # Settled(Pass(r), ok)
    BY <2>2, RowOfPass
  <2>4. RowIn(Tail(jobs), Settled(Pass(r), ok))
    BY <1>1, <2>1, <2>3
  <2>. QED  BY <2>4 DEF PassIn
<1>. QED  BY <1>2, <1>3

LEMMA PassAskServes ==
    ASSUME ClientFits, ServeInv, ~Idle, NEW s \in Sockets, Head(jobs).who = Pass(s),
           NEW k \in Keys, Await(Pass(s), k, Tail(jobs)), ~ExcusesChannels',
           UNCHANGED <<timers, welcomed, granted, subscribed, calls>>
    PROVE  /\ SubTold'
           /\ \A r \in Sockets : PassToken(r) => PassToken(r)'
           /\ PassToken(s)'
           /\ \A t \in subscribed : Coming \/ Provided(t) \/ Leaving(t) =>
                                       (Coming \/ Provided(t) \/ Leaving(t))'
<1>1. Pass(s) # NoOne /\ Tail(jobs) \in Seq(JobRow)
  BY Apart, NextJob
<1>2. /\ Coming => Coming'
      /\ \A t \in Topics : Provided(t) => Provided(t)' \/ Leaving(t)'
      /\ \A q \in Keys : pending[q] # NoOne => pending'[q] = pending[q]
      /\ \A row : RowIn(Tail(jobs), row) => RowIn(jobs', row)
      /\ \A row : RowIn(jobs', row) => RowIn(Tail(jobs), row) \/ row = Settled(Pass(s), FALSE)
      /\ \A r \in Sockets :
            PassToken(r) => PassToken(r)' \/ (PassIn(jobs, r) /\ ~PassIn(Tail(jobs), r))
      /\ \A r : Pass(s) = Pass(r) => PassToken(r)'
  BY <1>1, AwaitServes
<1>3. /\ \A m : Told(m) => RowIn(Tail(jobs), Settled(AppCall(m), TRUE))
      /\ \A r \in Sockets : r # s /\ PassIn(jobs, r) => PassIn(Tail(jobs), r)
  BY PassesBehind
<1>4. SubTold'
  <2>. SUFFICES ASSUME NEW m \in DOMAIN calls, RowIn(jobs', Settled(AppCall(m), TRUE))
                PROVE  calls'[m].at # "sub"
    BY Untold
  <2>1. Settled(AppCall(m), TRUE) # Settled(Pass(s), FALSE)
    BY Apart, RowOfCall
  <2>2. RowIn(Tail(jobs), Settled(AppCall(m), TRUE))
    BY <1>2, <2>1
  <2>. QED  BY <2>2, TailUntold DEF ServeInv
<1>5. ASSUME NEW t \in subscribed, Leaving(t) PROVE Leaving(t)'
  <2>1. UnsubOf(t) \in Keys
    BY TheKeys DEF ClientFits, AppFits
  <2>2. CASE pending[UnsubOf(t)] # NoOne
    <3>1. pending'[UnsubOf(t)] # NoOne
      BY <1>2, <2>1, <2>2
    <3>. QED  BY <3>1 DEF Leaving
  <2>3. ASSUME NEW m \in DOMAIN calls, Told(m), calls[m].at = "unsub", calls[m].topic = t
        PROVE  LeftJob(t)'
    <3>1. RowIn(jobs', Settled(AppCall(m), TRUE))
      BY <1>2, <1>3, <2>3
    <3>. QED  BY <2>3, <3>1 DEF LeftJob, Told, RowIn
  <2>. QED  BY <1>5, <2>2, <2>3 DEF Leaving, LeftJob
<1>6. subscribed \subseteq Topics
  BY DEF ClientFits, AppFits
<1>. QED  BY <1>2, <1>3, <1>4, <1>5, <1>6

\* A client that says it is connected and cannot send will have another socket.
LEMMA CannotSend ==
    ASSUME ClientFits, LinkInv, RestInv, ~ExcusesChannels, state = "CONNECTED", ~CanSend
    PROVE  Coming
<1>1. PICK s \in welcomed : sock[s] = "open"
  BY DEF LinkInv, Pinging
<1>2. s \in Sockets /\ "gave up" \notin mishaps
  BY DEF ClientFits, Opening, ExcusesChannels
<1>3. \A r \in Sockets : sock[r] \in {"token", "dialing"} => r \notin welcomed
  BY DEF ClientFits, Opening
<1>4. \/ timers > 0 \/ closedByUser
      \/ \E r \in Sockets : sock[r] = "token"
      \/ ws # 0 /\ sock[ws] \in {"dialing", "open"}
  BY <1>1, <1>2 DEF RestInv, WsLives
<1>5. ws # 0 => ws \in Sockets
  BY DEF ClientFits, SockFits
<1>. QED  BY <1>3, <1>4, <1>5 DEF Coming, CanSend, Live

LEMMA PassOnServes ==
    ASSUME ClientFits, LinkInv, RestInv, ServeInv, ~Idle, NEW s \in Sockets,
           Head(jobs).who = Pass(s), PassOn(s, ChannelsAfter(pass[s].n)),
           UNCHANGED <<timers, welcomed, granted, subscribed, calls>>,
           ~ExcusesChannels, ~ExcusesChannels'
    PROVE  ServeInv'
<1>. USE TsClientAssumption
<1>1. pass \in [Sockets -> PassRow]
  BY DEF ClientFits, PassFits
<1>2. CASE /\ ChannelsAfter(pass[s].n) = {}
           /\ pass' = [pass EXCEPT ![s] = NoPass] /\ jobs' = Tail(jobs)
           /\ UNCHANGED <<connVars, reqVars, mishaps>>
  <2>1. UNCHANGED <<state, closedByUser, sock, wire, pending>>
    BY <1>2 DEF connVars, reqVars
  <2>2. /\ \A m : Told(m) => RowIn(Tail(jobs), Settled(AppCall(m), TRUE))
        /\ \A r \in Sockets : r # s /\ PassIn(jobs, r) => PassIn(Tail(jobs), r)
    BY PassesBehind
  <2>3. SubTold'
    BY <1>2, TailUntold, Untold DEF ServeInv
  <2>4. Served'
    <3>. SUFFICES ASSUME NEW t \in subscribed
                  PROVE  (Coming \/ Provided(t) \/ PassDue(t) \/ Leaving(t))'
      BY DEF Served
    <3>1. Coming => Coming'
      BY <2>1 DEF Coming
    <3>2. Provided(t) => Provided(t)'
      BY <2>1 DEF Provided, Holds, NotLeft
    <3>3. Leaving(t) => Leaving(t)'
      <4>1. \A m : Told(m) => Told(m)'
        BY <1>2, <2>2 DEF Told, RowIn
      <4>. QED  BY <2>1, <4>1 DEF Leaving, LeftJob
    <3>4. ASSUME NEW r \in Sockets, PassToken(r), NEW m \in DOMAIN Channels,
                 m > pass[r].n, Channels[m] = t
          PROVE  PassDue(t)'
      <4>1. r # s
        BY <1>2, <3>4 DEF ChannelsAfter
      <4>2. PassIn(jobs, r) => PassIn(jobs, r)'
        BY <1>2, <2>2, <4>1 DEF PassIn, RowIn
      <4>3. PassToken(r)'
        BY <2>1, <3>4, <4>2 DEF PassToken
      <4>4. pass'[r] = pass[r]
        BY <1>1, <1>2, <4>1
      <4>. QED  BY <3>4, <4>3, <4>4 DEF PassDue
    <3>. QED  BY <3>1, <3>2, <3>3, <3>4 DEF ServeInv, Served, PassDue
  <2>. QED  BY <2>3, <2>4 DEF ServeInv
<1>3. ASSUME NEW m \in ChannelsAfter(pass[s].n),
             \A j \in ChannelsAfter(pass[s].n) : m <= j,
             m \in DOMAIN Channels, Channels[m] \in Topics,
             pass' = [pass EXCEPT ![s] = [n |-> m, at |-> Subscribing]],
             Subscribe(Pass(s), Channels[m], Tail(jobs))
      PROVE  ServeInv'
  <2>1. CASE state # "CONNECTED"
    <3>1. Open(Pass(s)) /\ jobs' = Tail(jobs)
      BY <1>3, <2>1 DEF Subscribe
    <3>2. Coming'
      BY <3>1, OpenComes
    <3>3. SubTold'
      BY <3>1, TailUntold, Untold DEF ServeInv
    <3>. QED  BY <3>2, <3>3, ComingServes DEF ServeInv
  <2>2. CASE state = "CONNECTED"
    <3>. DEFINE c == Channels[m]
    <3>1. Await(Pass(s), SubOf(c), Tail(jobs)) /\ SubOf(c) \in Keys
      BY <1>3, <2>2, TheKeys DEF Subscribe, SubOf
    <3>2. /\ SubTold'
          /\ \A r \in Sockets : PassToken(r) => PassToken(r)'
          /\ PassToken(s)'
          /\ \A t \in subscribed : Coming \/ Provided(t) \/ Leaving(t) =>
                                      (Coming \/ Provided(t) \/ Leaving(t))'
      BY <3>1, PassAskServes
    <3>3. Coming' \/ Provided(c)'
      <4>1. CASE CanSend
        BY <1>3, <3>1, <4>1, SentHolds
      <4>2. CASE ~CanSend
        <5>1. Coming
          BY <2>2, <4>2, CannotSend
        <5>2. UNCHANGED <<state, closedByUser, sock>>
          BY <3>1 DEF Await, connVars
        <5>. QED  BY <5>1, <5>2 DEF Coming
      <4>. QED  BY <4>1, <4>2
    <3>4. /\ pass'[s].n = m
          /\ \A r \in Sockets : r # s => pass'[r] = pass[r]
      BY <1>1, <1>3
    <3>5. ASSUME NEW t \in subscribed, NEW r \in Sockets, PassToken(r),
                 NEW j \in DOMAIN Channels, j > pass[r].n, Channels[j] = t
          PROVE  (Coming \/ Provided(t) \/ PassDue(t))'
      <4>1. CASE r # s
        BY <3>2, <3>4, <3>5, <4>1 DEF PassDue
      <4>2. CASE r = s /\ j = m
        BY <3>3, <3>5, <4>2
      <4>3. CASE r = s /\ j # m
        <5>1. j \in ChannelsAfter(pass[s].n)
          BY <3>5, <4>3 DEF ChannelsAfter
        <5>2. j \in Nat /\ m \in Nat /\ m <= j
          BY <1>3, <5>1
        <5>3. j > pass'[s].n
          BY <3>4, <4>3, <5>2
        <5>. QED  BY <3>2, <3>5, <5>3 DEF PassDue
      <4>. QED  BY <4>1, <4>2, <4>3
    <3>6. Served'
      BY <3>2, <3>5 DEF ServeInv, Served, PassDue
    <3>. QED  BY <3>2, <3>6 DEF ServeInv
  <2>. QED  BY <2>1, <2>2
<1>. QED  BY <1>2, <1>3, PassGoesOn

CallAskStep(n) ==
    /\ calls[n].at = "connect" /\ SubOf(calls[n].topic) \in Keys
    /\ Await(AppCall(n), SubOf(calls[n].topic), Tail(jobs))
    /\ calls' = [calls EXCEPT ![n].at = "sub"] /\ UNCHANGED subscribed
CallEndStep(n) ==
    /\ ~(calls[n].op = "sub" /\ calls[n].at = "connect" /\ Head(jobs).ok)
    /\ calls' = [calls EXCEPT ![n].at = "over"] /\ jobs' = Tail(jobs)
    /\ UNCHANGED <<connVars, reqVars, mishaps>>

LEMMA RunJobServes ==
    ASSUME ClientFits, LinkInv, RestInv, CallInv, ServeInv, RunJob,
           ~ExcusesChannels, ~ExcusesChannels'
    PROVE  ServeInv'
<1>1. ~Idle
  BY DEF RunJob
<1>2. CASE RescheduleReconnect
  <2>1. calls' = calls /\ jobs' = Tail(jobs) /\ ScheduleReconnect
    BY <1>2 DEF RescheduleReconnect, appVars
  <2>2. SubTold'
    BY <1>1, <2>1, TailUntold, Untold DEF ServeInv
  <2>. QED  BY <2>1, <2>2, ScheduleComes, ComingServes DEF ServeInv
<1>3. ASSUME NEW n \in DOMAIN calls, Head(jobs).who = AppCall(n),
             ResumeCall(n, Head(jobs).ok)
      PROVE  ServeInv'
  <2>1. CallAskStep(n) \/ CallEndStep(n)
    BY <1>3, CallAsks DEF CallAskStep, CallEndStep
  <2>2. CASE CallAskStep(n)
    BY <1>1, <1>3, <2>2, CallAskServes DEF CallAskStep
  <2>3. CASE CallEndStep(n)
    BY <1>1, <1>3, <2>3, CallEndServes DEF CallEndStep
  <2>. QED  BY <2>1, <2>2, <2>3
<1>4. ASSUME NEW s \in Sockets, Head(jobs).who = Pass(s), ResumePass(s, Head(jobs).ok)
      PROVE  ServeInv'
  <2>1. UNCHANGED <<timers, welcomed, granted, subscribed, calls>>
    BY <1>4 DEF ResumePass, sockVars
  <2>2. ASSUME NEW k \in Keys, Await(Pass(s), k, Tail(jobs)),
               \A r \in Sockets : pass'[r].n = pass[r].n
        PROVE  ServeInv'
    <3>1. /\ SubTold'
          /\ \A r \in Sockets : PassToken(r) => PassToken(r)'
          /\ \A t \in subscribed : Coming \/ Provided(t) \/ Leaving(t) =>
                                      (Coming \/ Provided(t) \/ Leaving(t))'
      BY <1>1, <1>4, <2>1, <2>2, PassAskServes
    <3>2. \A t : PassDue(t) => PassDue(t)'
      BY <2>2, <3>1 DEF PassDue
    <3>3. Served'
      BY <2>1, <3>1, <3>2 DEF ServeInv, Served
    <3>. QED  BY <3>1, <3>3 DEF ServeInv
  <2>3. CASE PassOn(s, ChannelsAfter(pass[s].n))
    BY <1>1, <1>4, <2>1, <2>3, PassOnServes
  <2>. QED  BY <1>4, <2>2, <2>3, PassAsks
<1>. QED  BY <1>2, <1>3, <1>4, RunJobIs

LEMMA AnswerGrants ==
    ASSUME ClientFits, NEW s \in Sockets, Answer(s), NEW t \in Topics
    PROVE  /\ \A r \in Sockets : r # s => granted'[r] = granted[r]
           /\ Head(wire[s]) = SubOf(t) => t \in granted'[s]
           /\ Head(wire[s]) # UnsubOf(t) /\ t \in granted[s] => t \in granted'[s]
<1>. DEFINE k == Head(wire[s])
<1>1. /\ granted' = CASE k[1] = "sub" -> [granted EXCEPT ![s] = @ \cup {k[2]}]
                      [] k[1] = "unsub" -> [granted EXCEPT ![s] = @ \ {k[2]}]
                      [] OTHER -> granted
      /\ k \in Keys
  BY AnswerTakes DEF Answer
<1>. HIDE DEF k
<1>2. granted \in [Sockets -> SUBSET Topics]
  BY DEF ClientFits, SockFits
<1>3. k = <<k[1], k[2]>>
  BY <1>1 DEF Keys
<1>4. \/ k[1] = "sub" /\ granted' = [granted EXCEPT ![s] = granted[s] \cup {k[2]}]
      \/ k[1] = "unsub" /\ granted' = [granted EXCEPT ![s] = granted[s] \ {k[2]}]
      \/ k[1] # "sub" /\ granted' = granted
  BY <1>1, <1>2
<1>5. k = SubOf(t) => k[1] = "sub" /\ k[2] = t
  BY DEF SubOf
<1>6. k # UnsubOf(t) /\ k[1] = "unsub" => k[2] # t
  BY <1>3 DEF UnsubOf
<1>7. \A r \in Sockets : r # s => granted'[r] = granted[r]
  BY <1>2, <1>4
<1>8. k = SubOf(t) => t \in granted'[s]
  BY <1>2, <1>4, <1>5
<1>9. k # UnsubOf(t) /\ t \in granted[s] => t \in granted'[s]
  BY <1>2, <1>4, <1>6
<1>. QED  BY <1>7, <1>8, <1>9 DEF k

\* An answer is what the socket's subscriptions were waiting for.
LEMMA AnswerProvides ==
    ASSUME ClientFits, NEW s \in Sockets, Answer(s), NEW t \in Topics, Provided(t)
    PROVE  Provided(t)'
<1>. DEFINE k == Head(wire[s])
<1>1. /\ sock' = sock /\ welcomed' = welcomed
      /\ 1 \in DOMAIN wire[s] /\ k = wire[s][1]
      /\ \A i \in DOMAIN wire[s] : i \in Nat /\ i >= 1
      /\ \A r \in Sockets : r # s => wire'[r] = wire[r]
      /\ \A i \in DOMAIN wire[s] : i > 1 => i - 1 \in DOMAIN wire'[s]
                                    /\ wire'[s][i - 1] = wire[s][i]
  BY AnswerTakes
<1>2. /\ \A r \in Sockets : r # s => granted'[r] = granted[r]
      /\ k = SubOf(t) => t \in granted'[s]
      /\ k # UnsubOf(t) /\ t \in granted[s] => t \in granted'[s]
  BY AnswerGrants
<1>. HIDE DEF k
<1>3. /\ NotLeft(s, t, 0) => NotLeft(s, t, 0)'
      /\ \A i \in DOMAIN wire[s] : NotLeft(s, t, i) => NotLeft(s, t, i - 1)'
  BY AnswerLeaves
<1>4. PICK r \in welcomed : sock[r] = "open" /\ Holds(r, t)
  BY DEF Provided
<1>5. r \in Sockets /\ r \in welcomed' /\ sock'[r] = "open"
  BY <1>1, <1>4 DEF ClientFits, Opening
<1>6. CASE r # s
  <2>1. wire'[r] = wire[r] /\ granted'[r] = granted[r]
    BY <1>1, <1>2, <1>5, <1>6
  <2>2. Holds(r, t)'
    BY <1>4, <2>1 DEF Holds, NotLeft
  <2>. QED  BY <1>5, <2>2 DEF Provided
<1>7. CASE r = s
  <2>1. CASE t \in granted[s] /\ NotLeft(s, t, 0)
    <3>1. k # UnsubOf(t)
      BY <1>1, <2>1 DEF NotLeft
    <3>2. Holds(s, t)'
      BY <1>2, <1>3, <2>1, <3>1 DEF Holds
    <3>. QED  BY <1>5, <1>7, <3>2 DEF Provided
  <2>2. ASSUME NEW i \in DOMAIN wire[s], wire[s][i] = SubOf(t), NotLeft(s, t, i)
        PROVE  Provided(t)'
    <3>1. CASE i = 1
      <4>1. t \in granted'[s]
        BY <1>1, <1>2, <2>2, <3>1
      <4>2. NotLeft(s, t, i - 1)' /\ i - 1 = 0
        BY <1>3, <2>2, <3>1
      <4>3. NotLeft(s, t, 0)'
        BY <4>2 DEF NotLeft
      <4>4. Holds(s, t)'
        BY <4>1, <4>3 DEF Holds
      <4>. QED  BY <1>5, <1>7, <4>4 DEF Provided
    <3>2. CASE i # 1
      <4>1. i > 1
        BY <1>1, <3>2
      <4>2. i - 1 \in DOMAIN wire'[s] /\ wire'[s][i - 1] = SubOf(t)
        BY <1>1, <2>2, <4>1
      <4>3. NotLeft(s, t, i - 1)'
        BY <1>3, <2>2
      <4>. DEFINE b == i - 1
      <4>. HIDE DEF b
      <4>4. b \in DOMAIN wire'[s] /\ wire'[s][b] = SubOf(t)
        BY <4>2 DEF b
      <4>5. \A j \in DOMAIN wire'[s] : j > b => wire'[s][j] # UnsubOf(t)
        BY <4>3 DEF NotLeft, b
      <4>6. Holds(s, t)'
        BY <4>4, <4>5 DEF Holds, NotLeft
      <4>. QED  BY <1>5, <1>7, <4>6 DEF Provided
    <3>. QED  BY <3>1, <3>2
  <2>. QED  BY <1>4, <1>7, <2>1, <2>2 DEF Holds
<1>. QED  BY <1>6, <1>7

\* A subscribe that is answered: the socket has the subscription, or somebody
\* waits for the end of it.
LEMMA AnswerTells ==
    ASSUME ClientFits, WireInv, NEW s \in Sockets, Answer(s), NEW t \in Topics,
           Head(wire[s]) = SubOf(t), pending[SubOf(t)] # NoOne
    PROVE  Provided(t)' \/ pending'[UnsubOf(t)] # NoOne
<1>. DEFINE k == Head(wire[s])
<1>1. /\ sock' = sock /\ welcomed' = welcomed
      /\ sock[s] = "open" /\ s \in welcomed
      /\ 1 \in DOMAIN wire[s] /\ k = wire[s][1]
      /\ \A q \in Keys : pending'[q] = IF q = k THEN NoOne ELSE pending[q]
  BY AnswerTakes
<1>2. UnsubOf(t) \in Keys /\ UnsubOf(t) # SubOf(t)
  BY TheKeys
<1>3. t \in granted'[s]
  BY AnswerGrants
<1>4. \A i \in DOMAIN wire[s] : NotLeft(s, t, i) => NotLeft(s, t, i - 1)'
  BY AnswerLeaves
<1>5. PICK r \in Sockets : \E i \in DOMAIN wire[r] :
         wire[r][i] = SubOf(t) /\ (NotLeft(r, t, i) \/ pending[UnsubOf(t)] # NoOne)
  BY DEF WireInv, SubHeld
<1>6. PICK i \in DOMAIN wire[r] :
         wire[r][i] = SubOf(t) /\ (NotLeft(r, t, i) \/ pending[UnsubOf(t)] # NoOne)
  BY <1>5
<1>7. r = s /\ i = 1
  BY <1>1, <1>6 DEF WireInv, OnceOnWire
<1>8. CASE pending[UnsubOf(t)] # NoOne
  BY <1>1, <1>2, <1>8
<1>9. CASE NotLeft(r, t, i)
  <2>1. NotLeft(s, t, i - 1)' /\ i - 1 = 0
    BY <1>4, <1>6, <1>7, <1>9
  <2>2. NotLeft(s, t, 0)'
    BY <2>1 DEF NotLeft
  <2>3. Holds(s, t)'
    BY <1>3, <2>2 DEF Holds
  <2>. QED  BY <1>1, <2>3 DEF Provided
<1>. QED  BY <1>6, <1>8, <1>9

LEMMA AnswerServes ==
    ASSUME ClientFits, WireInv, CallInv, PassWaits, ServeInv, NEW s \in Sockets, Answer(s)
    PROVE  ServeInv'
<1>. DEFINE k == Head(wire[s])
<1>1. /\ k \in Keys /\ jobs = <<>> /\ jobs' = Outcome(k, TRUE)
      /\ \A q \in Keys : pending'[q] = IF q = k THEN NoOne ELSE pending[q]
      /\ sock' = sock /\ welcomed' = welcomed
  BY AnswerTakes
<1>2. UNCHANGED <<state, closedByUser, opener, timers, subscribed, calls, pass>>
  BY DEF Answer, connVars
<1>. HIDE DEF k
<1>3. \A row : RowIn(jobs', row) => pending[k] # NoOne /\ row = Settled(pending[k], TRUE)
  BY <1>1, NoRows DEF Outcome
<1>4. pending[k] # NoOne => Len(jobs') = 1 /\ RowIn(jobs', Settled(pending[k], TRUE))
  <2>1. \A x : Len(<<x>>) = 1
    OBVIOUS
  <2>. QED  BY <1>1, <2>1, NoRows DEF Outcome
<1>5. ASSUME NEW n, pending[k] = AppCall(n)
      PROVE  n \in DOMAIN calls /\ calls[n].at = k[1] /\ calls[n].topic = k[2]
  <2>1. /\ \A q \in Keys : pending'[q] \in {pending[q], NoOne}
        /\ pending'[k] = NoOne
        /\ \A r \in Sockets : opener'[r] \in {opener[r], NoOne}
    BY <1>1, <1>2
  <2>. QED  BY <1>1, <1>5, <2>1, EntryHears
<1>6. SubTold'
  <2>0. SUFFICES ASSUME NEW n \in DOMAIN calls', RowIn(jobs', Settled(AppCall(n), TRUE)),
                        calls'[n].at = "sub"
                 PROVE  Len(jobs') = 1 /\ (Provided(calls[n].topic) \/ Leaving(calls[n].topic))'
    BY DEF SubTold, Told, RowIn
  <2>1. pending[k] # NoOne /\ Settled(AppCall(n), TRUE) = Settled(pending[k], TRUE)
    BY <1>3, <2>0
  <2>2. pending[k] = AppCall(n) /\ n \in DOMAIN calls /\ calls[n].at = "sub"
    BY <1>2, <2>0, <2>1, RowOfCall
  <2>3. k[1] = "sub" /\ k[2] = calls[n].topic
    BY <1>5, <2>2
  <2>4. PICK t \in Topics : t = calls[n].topic /\ t = calls'[n].topic /\ k = SubOf(t)
    BY <1>1, <1>2, <2>3 DEF Keys, SubOf
  <2>5. Provided(t)' \/ pending'[UnsubOf(t)] # NoOne
    BY <2>1, <2>4, AnswerTells DEF k
  <2>6. Provided(t)' \/ Leaving(t)'
    BY <2>5 DEF Leaving
  <2>. QED  BY <1>4, <2>1, <2>4, <2>6 DEF Leaving, LeftJob, Provided, Holds, NotLeft
<1>7. Served'
  <2>. SUFFICES ASSUME NEW t \in subscribed PROVE (Coming \/ Provided(t) \/ PassDue(t) \/ Leaving(t))'
    BY <1>2 DEF Served
  <2>1. t \in Topics /\ UnsubOf(t) \in Keys
    BY TheKeys DEF ClientFits, AppFits
  <2>2. CASE Coming
    BY <1>1, <1>2, <2>2 DEF Coming
  <2>3. CASE Provided(t)
    BY <2>1, <2>3, AnswerProvides
  <2>4. CASE PassDue(t)
    <3>1. PICK r \in Sockets : PassToken(r)
                               /\ \E m \in DOMAIN Channels : m > pass[r].n /\ Channels[m] = t
      BY <2>4 DEF PassDue
    <3>2. ~PassIn(jobs, r)
      BY <1>1, NoRows DEF PassIn
    <3>3. PICK q \in Keys : pending[q] = Pass(r)
      BY <3>1, <3>2 DEF PassToken
    <3>4. PassToken(r)'
      <4>1. CASE q = k
        <5>1. RowIn(jobs', Settled(Pass(r), TRUE))
          BY <1>4, <3>3, <4>1, Apart
        <5>2. PassIn(jobs, r)'
          BY <5>1 DEF PassIn, RowIn
        <5>. QED  BY <5>2 DEF PassToken
      <4>2. CASE q # k
        BY <1>1, <3>3, <4>2 DEF PassToken
      <4>. QED  BY <4>1, <4>2
    <3>. QED  BY <1>2, <3>1, <3>4 DEF PassDue
  <2>5. CASE Leaving(t)
    <3>1. pending[UnsubOf(t)] # NoOne
      BY <1>1, <2>5, NoRows DEF Leaving, LeftJob, Told
    <3>2. CASE k # UnsubOf(t)
      BY <1>1, <2>1, <3>1, <3>2 DEF Leaving
    <3>3. CASE k = UnsubOf(t)
      <4>1. k[1] = "unsub" /\ k[2] = t
        BY <3>3 DEF UnsubOf
      <4>2. pending[k] \in Callers
        BY <1>1, <3>1, <3>3 DEF ClientFits, ReqsFit
      <4>3. \A r \in Sockets : pending[k] # Pass(r)
        BY <1>1, <4>1 DEF PassWaits
      <4>4. PICK n \in DOMAIN calls : pending[k] = AppCall(n)
        BY <4>2, <4>3 DEF Callers
      <4>5. calls[n].at = "unsub" /\ calls[n].topic = t
        BY <1>5, <4>1, <4>4
      <4>6. RowIn(jobs', Settled(AppCall(n), TRUE))
        BY <1>4, <3>1, <3>3, <4>4
      <4>7. LeftJob(t)'
        BY <1>2, <4>5, <4>6 DEF LeftJob, Told, RowIn
      <4>. QED  BY <4>7 DEF Leaving
    <3>. QED  BY <3>2, <3>3
  <2>. QED  BY <2>2, <2>3, <2>4, <2>5 DEF ServeInv, Served
<1>. QED  BY <1>6, <1>7 DEF ServeInv

\* The pass that a welcome starts comes to every channel.
LEMMA WelcomeServes ==
    ASSUME ClientFits, CallInv, PassWaits, ServeInv, NEW s \in Sockets, Welcome(s)
    PROVE  ServeInv'
<1>. DEFINE rest == IF opener[s] = Timer THEN <<>> ELSE <<Settled(opener[s], TRUE)>>
            first == <<Settled(Pass(s), TRUE)>>
<1>1. /\ sock[s] = "open" /\ s \notin welcomed /\ jobs' = first \o rest
      /\ opener' = [opener EXCEPT ![s] = NoOne]
      /\ UNCHANGED <<pending, sock, calls, pass, subscribed>>
  BY DEF Welcome, reqVars, appVars
<1>2. opener[s] \in Callers \cup {Timer}
  BY <1>1 DEF ClientFits, ConnFits, Opening, Live
<1>3. Settled(opener[s], TRUE) \in JobRow /\ Settled(Pass(s), TRUE) \in JobRow
  BY <1>2 DEF Settled, JobRow, Callers
<1>4. rest \in Seq(JobRow) /\ first \in Seq(JobRow)
  BY <1>3, SeqOne, NoJobs
<1>5. /\ \A row : RowIn(rest, row) => row = Settled(opener[s], TRUE)
      /\ \A row : RowIn(first, row) <=> row = Settled(Pass(s), TRUE)
  BY NoRows
<1>. HIDE DEF rest, first
<1>6. /\ RowIn(jobs', Settled(Pass(s), TRUE))
      /\ \A row : RowIn(jobs', row) => row \in {Settled(opener[s], TRUE), Settled(Pass(s), TRUE)}
  BY <1>1, <1>4, <1>5, JoinRows
<1>7. PassToken(s)'
  <2>1. PassIn(jobs, s)'
    BY <1>6 DEF PassIn, RowIn
  <2>. QED  BY <2>1 DEF PassToken
<1>8. pass'[s].n = 0
  BY <1>1 DEF PassWaits, Fresh, NoPass
<1>9. Served'
  <2>. SUFFICES ASSUME NEW t \in subscribed PROVE PassDue(t)'
    BY <1>1 DEF Served
  <2>1. t \in Topics
    BY DEF ClientFits, AppFits
  <2>2. PICK m \in DOMAIN Channels : Channels[m] = t
    BY <2>1 DEF Topics, ToSet
  <2>3. m > 0
    BY TsClientAssumption
  <2>. QED  BY <1>7, <1>8, <2>2, <2>3 DEF PassDue
<1>10. SubTold'
  <2>. SUFFICES ASSUME NEW n, RowIn(jobs', Settled(AppCall(n), TRUE))
                PROVE  calls'[n].at # "sub"
    BY Untold
  <2>1. \/ Settled(AppCall(n), TRUE) = Settled(opener[s], TRUE)
        \/ Settled(AppCall(n), TRUE) = Settled(Pass(s), TRUE)
    BY <1>6
  <2>2. Settled(AppCall(n), TRUE) # Settled(Pass(s), TRUE)
    <3>. SUFFICES ASSUME Settled(AppCall(n), TRUE) = Settled(Pass(s), TRUE) PROVE FALSE
      OBVIOUS
    <3>1. Pass(s) = AppCall(n)
      BY RowOfCall
    <3>. QED  BY <3>1, Apart
  <2>3. opener[s] = AppCall(n)
    BY <2>1, <2>2, RowOfCall
  <2>4. calls[n].at = "connect"
    BY <1>1, <2>3, OpenerHears
  <2>. QED  BY <1>1, <2>4
<1>. QED  BY <1>9, <1>10 DEF ServeInv

\* A close leaves no socket with a subscription, and the timer that is set for it
\* or the state says so.
LEMMA OnCloseServes ==
    ASSUME ClientFits, NEW s \in Sockets, OnClose(s)
    PROVE  ServeInv'
<1>1. Coming'
  <2>1. CASE closedByUser
    <3>1. closedByUser' = closedByUser
      BY DEF OnClose
    <3>. QED  BY <2>1, <3>1 DEF Coming
  <2>2. CASE ~closedByUser
    <3>1. ScheduleReconnect
      BY <2>2 DEF OnClose
    <3>. QED  BY <3>1, ScheduleComes
  <2>. QED  BY <2>1, <2>2
<1>2. SubTold'
  <2>. SUFFICES ASSUME NEW n, RowIn(jobs', Settled(AppCall(n), TRUE)) PROVE FALSE
    BY Untold
  <2>1. \E w : Settled(AppCall(n), TRUE) = Settled(w, FALSE)
    BY OnCloseRows
  <2>2. PICK w : Settled(AppCall(n), TRUE) = Settled(w, FALSE)
    BY <2>1
  <2>. QED  BY <2>2, RowOfCall
<1>. QED  BY <1>1, <1>2, ComingServes DEF ServeInv

LEMMA SocketServes ==
    ASSUME ClientFits, WireInv, CallInv, PassWaits, ServeInv, NEW s \in Sockets, SocketEvent(s),
           ~ExcusesChannels'
    PROVE  ServeInv'
<1>1. CASE Dial(s) \/ Opened(s)
  <2>1. /\ UNCHANGED welcomed /\ jobs' = <<>>
        /\ sock[s] \in {"token", "dialing"}
        /\ \E x \in {"dialing", "open"} : sock' = [sock EXCEPT ![s] = x]
    BY <1>1 DEF Dial, Opened, Idle, sockVars
  <2>2. sock'[s] \in {"dialing", "open"} /\ s \notin welcomed'
    BY <2>1 DEF ClientFits, ConnFits, Opening
  <2>3. Coming'
    BY <2>2 DEF Coming, Live
  <2>4. SubTold'
    BY <2>1, NoRows, Untold
  <2>. QED  BY <2>3, <2>4, ComingServes DEF ServeInv
<1>2. CASE TokenFails(s)
  <2>1. state' = "FAILED" /\ jobs' = <<Settled(opener[s], FALSE)>>
    BY <1>2 DEF TokenFails, GiveUp
  <2>2. SubTold'
    <3>. SUFFICES ASSUME NEW n, RowIn(jobs', Settled(AppCall(n), TRUE)) PROVE FALSE
      BY Untold
    <3>1. Settled(AppCall(n), TRUE) = Settled(opener[s], FALSE)
      BY <2>1, NoRows
    <3>. QED  BY <3>1, RowOfCall
  <2>3. Coming'
    BY <2>1 DEF Coming
  <2>. QED  BY <2>2, <2>3, ComingServes DEF ServeInv
<1>3. ASSUME NEW t \in Topics, Event(s, t) PROVE ServeInv'
  <2>1. /\ UNCHANGED <<state, closedByUser, sock, timers, welcomed, granted, wire, pending>>
        /\ UNCHANGED <<subscribed, pass, jobs>> /\ jobs = <<>>
    BY <1>3 DEF Event, Idle, connVars, sockVars, reqVars
  <2>2. SubTold'
    BY <2>1, NoRows, Untold
  <2>3. Coming => Coming'
    BY <2>1 DEF Coming
  <2>4. \A u : Provided(u) => Provided(u)'
    BY <2>1 DEF Provided, Holds, NotLeft
  <2>5. \A u : PassDue(u) => PassDue(u)'
    <3>1. \A r \in Sockets : PassToken(r) => PassToken(r)'
      BY <2>1 DEF PassToken, PassIn
    <3>. QED  BY <2>1, <3>1 DEF PassDue
  <2>6. \A u : Leaving(u) => Leaving(u)'
    BY <2>1, NoRows DEF Leaving, LeftJob, Told
  <2>7. Served'
    BY <2>1, <2>3, <2>4, <2>5, <2>6 DEF ServeInv, Served
  <2>. QED  BY <2>2, <2>7 DEF ServeInv
<1>. QED  BY <1>1, <1>2, <1>3, WelcomeServes, AnswerServes, OnCloseServes, Excused
          DEF SocketEvent, Lost, Closed

LEMMA ServeInvNext ==
    ASSUME ClientFits, LinkInv, RestInv, WireInv, CallInv, PassWaits, ServeInv, [Next]_vars,
           ~ExcusesChannels, ~ExcusesChannels'
    PROVE  ServeInv'
<1>1. CASE UNCHANGED vars
  <2>1. /\ UNCHANGED <<state, closedByUser, sock, timers, welcomed, granted, wire, pending>>
        /\ UNCHANGED <<subscribed, pass, jobs, calls>>
    BY <1>1 DEF vars, connVars, sockVars, reqVars, appVars
  <2>2. \A n : Told(n)' <=> Told(n)
    BY <2>1 DEF Told
  <2>3. Coming => Coming'
    BY <2>1 DEF Coming
  <2>4. \A u : Provided(u) => Provided(u)'
    BY <2>1 DEF Provided, Holds, NotLeft
  <2>5. \A u : PassDue(u) => PassDue(u)'
    <3>1. \A r \in Sockets : PassToken(r) => PassToken(r)'
      BY <2>1 DEF PassToken, PassIn
    <3>. QED  BY <2>1, <3>1 DEF PassDue
  <2>6. \A u : Leaving(u) => Leaving(u)'
    BY <2>1, <2>2 DEF Leaving, LeftJob
  <2>7. Served'
    BY <2>1, <2>3, <2>4, <2>5, <2>6 DEF ServeInv, Served
  <2>8. SubTold'
    <3>1. SUFFICES ASSUME NEW n \in DOMAIN calls', Told(n)', calls'[n].at = "sub"
                   PROVE  Len(jobs') = 1 /\ (Provided(calls[n].topic) \/ Leaving(calls[n].topic))'
      BY DEF SubTold
    <3>2. PICK u : u = calls[n].topic /\ u = calls'[n].topic
      BY <2>1
    <3>3. Len(jobs) = 1 /\ (Provided(u) \/ Leaving(u))
      BY <2>1, <2>2, <3>1, <3>2 DEF ServeInv, SubTold
    <3>4. Len(jobs') = 1 /\ (Provided(u)' \/ Leaving(u)')
      BY <2>1, <2>4, <2>6, <3>3
    <3>. QED  BY <3>2, <3>4 DEF Leaving, LeftJob, Provided, Holds, NotLeft
  <2>. QED  BY <2>7, <2>8 DEF ServeInv
<1>2. CASE ReconnectTimer
  <2>1. /\ jobs' = <<>> /\ UNCHANGED <<welcomed, closedByUser>>
        /\ IF closedByUser THEN UNCHANGED <<state, sock, opener>> ELSE Open(Timer)
    BY <1>2 DEF ReconnectTimer, ReconnectUnless, Idle
  <2>2. SubTold'
    BY <2>1, NoRows, Untold
  <2>3. Coming'
    <3>1. CASE closedByUser
      BY <2>1, <3>1 DEF Coming
    <3>2. CASE ~closedByUser
      BY <2>1, <3>2, OpenComes
    <3>. QED  BY <3>1, <3>2
  <2>. QED  BY <2>2, <2>3, ComingServes DEF ServeInv
<1>. QED  BY <1>1, <1>2, RunJobServes, ApplicationServes, SocketServes, Excused DEF Next

\* What excuses a channel is never forgotten.
LEMMA MishapsGrow == ASSUME [Next]_vars PROVE mishaps \subseteq mishaps'
<1>1. \A who, k, work : Await(who, k, work) => mishaps \subseteq mishaps'
  BY DEF Await
<1>2. \A who, t, work : Subscribe(who, t, work) => mishaps \subseteq mishaps'
  BY <1>1 DEF Subscribe
<1>3. ScheduleReconnect \/ GiveUp => mishaps \subseteq mishaps'
  BY DEF ScheduleReconnect, GiveUp
<1>4. CASE UNCHANGED vars
  BY <1>4 DEF vars
<1>5. CASE RunJob
  <2>1. CASE RescheduleReconnect
    BY <1>3, <2>1 DEF RescheduleReconnect
  <2>2. ASSUME NEW n, NEW ok, ResumeCall(n, ok) PROVE mishaps \subseteq mishaps'
    BY <1>1, <2>2 DEF ResumeCall
  <2>3. ASSUME NEW s, NEW ok, ResumePass(s, ok) PROVE mishaps \subseteq mishaps'
    <3>1. ASSUME NEW left, PassOn(s, left) PROVE mishaps \subseteq mishaps'
      BY <1>2, <3>1 DEF PassOn
    <3>. QED  BY <1>1, <2>3, <3>1 DEF ResumePass
  <2>. QED  BY <1>5, <2>1, <2>2, <2>3 DEF RunJob
<1>6. CASE Application
  BY <1>1, <1>2, <1>6 DEF Application, Connect, Disconnect, ChannelSubscribe, ChannelRequest
<1>7. ASSUME NEW s \in Sockets, SocketEvent(s) PROVE mishaps \subseteq mishaps'
  <2>1. OnClose(s) => mishaps \subseteq mishaps'
    BY <1>3 DEF OnClose
  <2>2. Answer(s) \/ Refuse(s) => mishaps \subseteq mishaps'
    BY DEF Answer, Refuse
  <2>. QED  BY <1>3, <1>7, <2>1, <2>2 DEF SocketEvent, Dial, TokenFails, Opened, Welcome, Lost,
                                         Closed, Event
<1>8. CASE ReconnectTimer
  BY <1>8 DEF ReconnectTimer, ReconnectUnless
<1>9. ASSUME NEW d, Deadline(d[1], d[2]) PROVE mishaps \subseteq mishaps'
  BY <1>9 DEF Deadline
<1>. QED  BY <1>4, <1>5, <1>6, <1>7, <1>8, <1>9 DEF Next

SubInv == ~ExcusesChannels => WireInv /\ CallInv /\ PassWaits /\ ServeInv

LEMMA SubInvNext ==
    ClientFits /\ LinkInv /\ RestInv /\ SubInv /\ [Next]_vars => SubInv'
<1>. SUFFICES ASSUME ClientFits, LinkInv, RestInv, SubInv, [Next]_vars, ~ExcusesChannels'
              PROVE  (WireInv /\ CallInv /\ PassWaits /\ ServeInv)'
  BY DEF SubInv
<1>1. ~ExcusesChannels
  BY MishapsGrow DEF ExcusesChannels
<1>. QED  BY <1>1, WireInvNext, CallInvNext, PassWaitsNext, ServeInvNext DEF SubInv

LEMMA SubInvInit == Init => SubInv
<1>. SUFFICES ASSUME Init PROVE WireInv /\ CallInv /\ PassWaits /\ ServeInv
  BY DEF SubInv
<1>1. /\ wire = [s \in Sockets |-> <<>>] /\ pending = [k \in Keys |-> NoOne]
      /\ opener = [s \in Sockets |-> NoOne] /\ calls = <<>> /\ jobs = <<>>
      /\ pass = [s \in Sockets |-> NoPass]
  BY DEF Init
<1>2. /\ \A s \in Sockets : DOMAIN wire[s] = {} /\ opener[s] = NoOne /\ pass[s] = NoPass
      /\ \A k \in Keys : pending[k] = NoOne
      /\ DOMAIN calls = {} /\ DOMAIN jobs = {}
  BY <1>1
<1>3. WireInv
  BY <1>2, TheKeys DEF WireInv, OnceOnWire, SubHeld
<1>4. CallInv
  BY <1>2 DEF CallInv, CallWaits, CalledOnce, CallOps
<1>5. PassWaits
  BY <1>2, Apart DEF PassWaits, PassHeard, PassToken, PassIn, RowIn
<1>6. SubTold
  BY <1>2 DEF SubTold
<1>7. Served
  <2>1. CASE subscribed = {}
    BY <2>1 DEF Served
  <2>2. CASE subscribed # {}
    <3>1. 1 \in Sockets
      BY TsClientAssumption DEF Sockets
    <3>2. /\ welcomed = {1} /\ sock = [s \in Sockets |-> IF s = 1 THEN "open" ELSE "none"]
          /\ granted = [s \in Sockets |-> IF s \in welcomed THEN subscribed ELSE {}]
      BY <2>2 DEF Init
    <3>3. sock[1] = "open" /\ granted[1] = subscribed
      BY <3>1, <3>2
    <3>4. \A t \in subscribed : Holds(1, t)
      BY <1>2, <3>1, <3>3 DEF Holds, NotLeft
    <3>. QED  BY <3>2, <3>3, <3>4 DEF Served, Provided
  <2>. QED  BY <2>1, <2>2
<1>. QED  BY <1>3, <1>4, <1>5, <1>6, <1>7 DEF ServeInv

LEMMA RestsServed == ClientFits /\ HeardInv /\ SubInv => RestsSubscribed
<1>. SUFFICES ASSUME ClientFits, HeardInv, SubInv, AtRest, KeepConnected, state # "FAILED",
                     ~ExcusesChannels, NEW t \in subscribed
              PROVE  \E s \in Sockets : t \in granted[s]
  BY DEF RestsSubscribed
<1>1. /\ jobs = <<>> /\ timers = 0
      /\ \A s \in Sockets : sock[s] \in Live => s \in welcomed /\ wire[s] = <<>>
  BY DEF AtRest, Idle
<1>2. \A s \in Sockets : sock[s] \in {"open", "closing"} => DOMAIN wire[s] = {}
  <2>1. DOMAIN <<>> = {}
    OBVIOUS
  <2>. QED  BY <1>1, <2>1 DEF Live
<1>3. \A k \in Keys : pending[k] = NoOne
  BY <1>2 DEF HeardInv, Carried, OnWire
<1>4. ~Coming
  BY <1>1 DEF Coming, KeepConnected
<1>5. \A s \in Sockets : ~PassToken(s)
  BY <1>1, <1>3, NoRows, Apart DEF PassToken, PassIn
<1>6. ~Leaving(t)
  <2>1. t \in Topics /\ UnsubOf(t) \in Keys
    BY TheKeys DEF ClientFits, AppFits
  <2>. QED  BY <1>1, <1>3, <2>1, NoRows DEF Leaving, LeftJob, Told
<1>7. Provided(t)
  BY <1>4, <1>5, <1>6 DEF SubInv, ServeInv, Served, PassDue
<1>8. PICK s \in welcomed : sock[s] = "open" /\ Holds(s, t)
  BY <1>7 DEF Provided
<1>. QED  BY <1>2, <1>8 DEF Holds, ClientFits, Opening

(* docs/SDK_TYPESCRIPT.md: after a reconnect every channel is subscribed     *)
(* again.  When nothing is under way any more, a client that wants a        *)
(* connection and does not say FAILED has, for every channel that says it is *)
(* subscribed, the subscription on one of its sockets: however calls, passes *)
(* and sockets crossed, as long as no request was refused, timed out or was *)
(* out twice, and the client never gave up while a socket lived (beacn.ts,  *)
(* _resubscribeAll, subscribe, unsubscribe and the handlers of a socket).   *)
THEOREM ClientRestsSubscribed == Spec => []RestsSubscribed
<1>. DEFINE Inv == ClientFits /\ LinkInv /\ HeardInv /\ RestInv /\ SubInv
<1>1. Init => Inv
  BY ClientFitsInit, LinkInvInit, HeardInvInit, RestInvInit, SubInvInit
<1>2. Inv /\ [Next]_vars => Inv'
  BY ClientFitsNext, LinkInvNext, HeardInvNext, RestInvNext, SubInvNext
<1>3. Inv => RestsSubscribed
  BY RestsServed
<1>. QED  BY <1>1, <1>2, <1>3, PTL DEF Spec

-----------------------------------------------------------------------------
(***************************************************************************)
(* The Python consumers.                                                   *)
(***************************************************************************)
ConsSpec == ConsInit /\ [][ConsNext]_consVars

Frame == [type : {"subscribe", "replay"}, topic : Range(Wanted), since : Nat]
LinkRow == [pc : {"none", "join", "row", "answer", "stream", "leave", "close", "orphan",
                  "serve", "gone"},
            joined : SUBSET Allowed, next : Nat,
            row : {"none", "open", "closed"}, age : 0..2]

ReaderFits ==
    /\ mode \in {"sse", "ws"}
    /\ reader \in [pc : {"token", "dial", "reading", "backoff", "returned", "raised"},
                   token : BOOLEAN, last : Nat, since : Nat]
    /\ log \in Seq(Range(Wanted))
    /\ reader.last <= Len(log) /\ reader.since <= Len(log)
    /\ conn \in 0..MaxConnections /\ (Reading => conn > 0)

OnTheWire == rows \cup Range(outbox) \cup Range(sink)

FramesFit ==
    /\ outbox \in Seq(Nat) /\ sink \in Seq(Nat) /\ rows \subseteq Nat
    /\ Len(outbox) <= Capacity
    /\ \A id \in OnTheWire : id <= Len(log)
    /\ inbox \in Seq(Frame)
    /\ mode = "sse" => inbox = <<>> /\ rows = {}

LinksFit ==
    /\ links \in [Connections -> LinkRow]
    /\ mode = "ws" => \A c \in Connections : links[c].pc \in {"none", "serve", "gone"}

ConsTypes == ReaderFits /\ FramesFit /\ LinksFit

(* A topic that is not joined yet still has its subscribe frame to come and,*)
(* with a last id, its replay after it: the requests are handled in order.  *)
Asks(type, t) ==
    \E i \in DOMAIN inbox : inbox[i].type = type /\ inbox[i].topic = t

AsksInOrder ==
    (mode = "ws" /\ Reading) =>
       /\ \A i, j \in DOMAIN inbox :
             (i < j /\ inbox[j].type = "subscribe") => inbox[i].type = "subscribe"
       /\ \A i \in DOMAIN inbox : inbox[i].type = "replay" => inbox[i].since = reader.since
       /\ \A t \in Allowed \ Here.joined :
             Asks("subscribe", t) /\ (reader.since # NoId => Asks("replay", t))

ReadInv == ConsTypes /\ AsksInOrder /\ NothingLost

LEMMA TailOf ==
    ASSUME NEW S, NEW s \in Seq(S), s # <<>>
    PROVE  /\ Tail(s) \in Seq(S) /\ Head(s) \in S
           /\ Range(s) = {Head(s)} \cup Range(Tail(s))
           /\ Len(Tail(s)) = Len(s) - 1
           /\ \A i \in 1..Len(Tail(s)) : Tail(s)[i] = s[i + 1]
           /\ \A i \in 1..Len(s) : i = 1 \/ (i - 1 \in 1..Len(Tail(s)) /\ s[i] = Tail(s)[i - 1])
<1>1. /\ Tail(s) \in Seq(S) /\ Head(s) \in S /\ Head(s) = s[1]
      /\ Len(Tail(s)) = Len(s) - 1 /\ Len(s) \in Nat \ {0}
      /\ DOMAIN s = 1..Len(s) /\ DOMAIN Tail(s) = 1..Len(Tail(s))
  OBVIOUS
<1>2. \A i \in 1..Len(Tail(s)) : Tail(s)[i] = s[i + 1]
  OBVIOUS
<1>3. \A i \in 1..Len(s) : i = 1 \/ (i - 1 \in 1..Len(Tail(s)) /\ s[i] = Tail(s)[i - 1])
  BY <1>1, <1>2
<1>4. ASSUME NEW i \in 1..Len(s) PROVE s[i] \in {Head(s)} \cup Range(Tail(s))
  BY <1>1, <1>3 DEF Range
<1>5. Head(s) \in Range(s)
  BY <1>1 DEF Range
<1>6. ASSUME NEW i \in 1..Len(Tail(s)) PROVE Tail(s)[i] \in Range(s)
  <2>1. i + 1 \in 1..Len(s)
    BY <1>1
  <2> QED  BY <1>1, <1>2, <2>1 DEF Range
<1> QED  BY <1>1, <1>2, <1>3, <1>4, <1>5, <1>6 DEF Range

LEMMA AppendTo ==
    ASSUME NEW S, NEW s \in Seq(S), NEW x \in S
    PROVE  /\ Append(s, x) \in Seq(S) /\ Len(Append(s, x)) = Len(s) + 1
           /\ Range(Append(s, x)) = Range(s) \cup {x}
<1>1. /\ Append(s, x) \in Seq(S) /\ Len(Append(s, x)) = Len(s) + 1 /\ Len(s) \in Nat
      /\ DOMAIN s = 1..Len(s) /\ DOMAIN Append(s, x) = 1..(Len(s) + 1)
      /\ \A i \in 1..Len(s) : Append(s, x)[i] = s[i]
      /\ Append(s, x)[Len(s) + 1] = x
  OBVIOUS
<1>2. ASSUME NEW i \in 1..(Len(s) + 1) PROVE Append(s, x)[i] \in Range(s) \cup {x}
  BY <1>1 DEF Range
<1>3. ASSUME NEW i \in 1..Len(s) PROVE s[i] \in Range(Append(s, x))
  <2>1. i \in 1..(Len(s) + 1)
    BY <1>1
  <2> QED  BY <1>1, <2>1 DEF Range
<1>4. x \in Range(Append(s, x))
  <2>1. Len(s) + 1 \in 1..(Len(s) + 1)
    BY <1>1
  <2> QED  BY <1>1, <2>1 DEF Range
<1> QED  BY <1>1, <1>2, <1>3, <1>4 DEF Range

LEMMA Concatenation ==
    ASSUME NEW S, NEW a \in Seq(S), NEW b \in Seq(S)
    PROVE  /\ a \o b \in Seq(S) /\ Len(a \o b) = Len(a) + Len(b)
           /\ \A i \in 1..Len(a) : (a \o b)[i] = a[i]
           /\ \A i \in 1..Len(b) : (a \o b)[Len(a) + i] = b[i]
  OBVIOUS

LEMMA ReadInit == ConsInit => ReadInv
<1> SUFFICES ASSUME ConsInit PROVE ReadInv
  OBVIOUS
<1>1. DOMAIN log = {} /\ Len(log) = 0 /\ log \in Seq(Range(Wanted))
  BY DEF ConsInit
<1>2. links \in [Connections -> LinkRow] /\ \A c \in Connections : links[c].pc = "none"
  BY DEF ConsInit, NoLink, LinkRow
<1>3. ConsTypes
  BY <1>1, <1>2, PyConsumerAssumption DEF ConsInit, ConsTypes, ReaderFits, FramesFit, LinksFit, OnTheWire, Range, Reading, NoId
<1> QED  BY <1>1, <1>3 DEF ConsInit, ReadInv, AsksInOrder, NothingLost, Traced, Published, Reading

\* The reader's steps outside a connection.
LEMMA OutsideKeeps ==
    ASSUME ReadInv, GetToken \/ TokenRefused \/ DialFails \/ Backoff
    PROVE  ReadInv'
<1>1. /\ ~Reading' /\ reader'.last = reader.last /\ reader'.since = reader.since
      /\ reader' \in [pc : {"token", "dial", "reading", "backoff", "returned", "raised"},
                      token : BOOLEAN, last : Nat, since : Nat]
      /\ UNCHANGED <<mode, got, excused, log, netVars>>
  BY DEF GetToken, TokenRefused, DialFails, Backoff, Step, Reading, ReadInv, ConsTypes, ReaderFits
<1>2. ConsTypes'
  BY <1>1 DEF ReadInv, ConsTypes, ReaderFits, FramesFit, LinksFit, OnTheWire, netVars, Reading
<1>3. NothingLost'
  BY <1>1 DEF ReadInv, NothingLost, Traced, Published, Awaiting, netVars
<1> QED  BY <1>1, <1>2, <1>3 DEF ReadInv, AsksInOrder

\* What the frames of a new connection ask for.
LEMMA FramesAsk ==
    ASSUME NEW since \in Nat
    PROVE  /\ Frames(since) \in Seq(Frame)
           /\ \A i, j \in DOMAIN Frames(since) :
                 (i < j /\ Frames(since)[j].type = "subscribe")
                    => Frames(since)[i].type = "subscribe"
           /\ \A i \in DOMAIN Frames(since) :
                 Frames(since)[i].type = "replay" => Frames(since)[i].since = since
           /\ \A t \in Range(Wanted) :
                 /\ \E i \in DOMAIN Frames(since) :
                       Frames(since)[i].type = "subscribe" /\ Frames(since)[i].topic = t
                 /\ since # NoId => \E i \in DOMAIN Frames(since) :
                       /\ Frames(since)[i].type = "replay" /\ Frames(since)[i].topic = t
                       /\ Frames(since)[i].since = since
<1> DEFINE n == Len(Wanted)
<1>1. Wanted \in Seq(Range(Wanted)) /\ n \in Nat /\ DOMAIN Wanted = 1..n
  BY PyConsumerAssumption
<1>2. Subscribes \in Seq(Frame) /\ Len(Subscribes) = n
      /\ \A i \in 1..n : Subscribes[i].type = "subscribe" /\ Subscribes[i].topic = Wanted[i]
  <2>1. \A i \in 1..n : Wanted[i] \in Range(Wanted)
    BY <1>1 DEF Range
  <2> QED  BY <1>1, <2>1 DEF Subscribes, Frame, NoId
<1>3. CASE since = NoId
  <2>1. Frames(since) = Subscribes
    BY <1>2, <1>3 DEF Frames, Replays
  <2>2. \A t \in Range(Wanted) : \E i \in 1..n : Wanted[i] = t
    BY <1>1 DEF Range
  <2> QED  BY <1>2, <1>3, <2>1, <2>2
<1>4. CASE since # NoId
  <2>1. Replays(since) \in Seq(Frame) /\ Len(Replays(since)) = n
        /\ \A i \in 1..n : /\ Replays(since)[i].type = "replay"
                           /\ Replays(since)[i].topic = Wanted[i]
                           /\ Replays(since)[i].since = since
    <3>1. \A i \in 1..n : Wanted[i] \in Range(Wanted)
      BY <1>1 DEF Range
    <3> QED  BY <1>1, <1>4, <3>1 DEF Replays, Frame
  <2> DEFINE f == Frames(since)
  <2>2. /\ f \in Seq(Frame) /\ Len(f) = n + n
        /\ \A i \in 1..n : f[i] = Subscribes[i] /\ f[n + i] = Replays(since)[i]
    <3>1. f = Subscribes \o Replays(since)
      BY DEF Frames
    <3>2. Len(Subscribes) = n /\ Len(Replays(since)) = n
          /\ Subscribes \in Seq(Frame) /\ Replays(since) \in Seq(Frame)
      BY <1>2, <2>1
    <3> HIDE DEF f, n
    <3>3. /\ f \in Seq(Frame) /\ Len(f) = Len(Subscribes) + Len(Replays(since))
          /\ \A i \in 1..Len(Subscribes) : f[i] = Subscribes[i]
          /\ \A i \in 1..Len(Replays(since)) : f[Len(Subscribes) + i] = Replays(since)[i]
      <4> DEFINE r == Replays(since)
      <4>1. r \in Seq(Frame) /\ f = Subscribes \o r
        BY <3>1, <3>2
      <4> HIDE DEF r
      <4>2. /\ f \in Seq(Frame) /\ Len(f) = Len(Subscribes) + Len(r)
            /\ \A i \in 1..Len(Subscribes) : f[i] = Subscribes[i]
            /\ \A i \in 1..Len(r) : f[Len(Subscribes) + i] = r[i]
        BY <3>2, <4>1, Concatenation
      <4> QED  BY <4>2 DEF r
    <3> QED  BY <3>2, <3>3
  <2>3. \A i \in 1..(n + n) : i \in 1..n \/ (i - n \in 1..n /\ f[i] = Replays(since)[i - n])
    BY <1>1, <2>2
  <2>4. \A t \in Range(Wanted) : \E i \in 1..n : Wanted[i] = t
    BY <1>1 DEF Range
  <2>5. DOMAIN f = 1..(n + n) /\ \A i \in 1..n : i \in 1..(n + n) /\ n + i \in 1..(n + n)
    BY <1>1, <2>2
  <2> HIDE DEF f, n
  <2>6. \A i \in DOMAIN f : IF i \in 1..n THEN f[i].type = "subscribe"
                            ELSE f[i].type = "replay" /\ f[i].since = since
    BY <1>2, <2>1, <2>2, <2>3, <2>5
  <2>7. \A i, j \in DOMAIN f : (i < j /\ f[j].type = "subscribe") => f[i].type = "subscribe"
    <3> SUFFICES ASSUME NEW i \in DOMAIN f, NEW j \in DOMAIN f, i < j,
                        f[j].type = "subscribe"
                 PROVE  f[i].type = "subscribe"
      OBVIOUS
    <3>1. j \in 1..n
      BY <2>6
    <3>2. i \in 1..n
      BY <1>1, <2>5, <3>1
    <3> QED  BY <2>6, <3>2
  <2>8. \A t \in Range(Wanted) :
          /\ \E i \in DOMAIN f : f[i].type = "subscribe" /\ f[i].topic = t
          /\ \E i \in DOMAIN f : f[i].type = "replay" /\ f[i].topic = t /\ f[i].since = since
    <3> SUFFICES ASSUME NEW t \in Range(Wanted)
                 PROVE  /\ \E i \in DOMAIN f : f[i].type = "subscribe" /\ f[i].topic = t
                        /\ \E i \in DOMAIN f : f[i].type = "replay" /\ f[i].topic = t
                                              /\ f[i].since = since
      OBVIOUS
    <3>1. PICK i \in 1..n : Wanted[i] = t
      BY <2>4
    <3>2. i \in DOMAIN f /\ f[i].type = "subscribe" /\ f[i].topic = t
      BY <1>2, <2>2, <2>5, <3>1
    <3>3. /\ n + i \in DOMAIN f /\ f[n + i].type = "replay" /\ f[n + i].topic = t
          /\ f[n + i].since = since
      BY <2>1, <2>2, <2>5, <3>1
    <3> QED  BY <3>2, <3>3
  <2>9. \A i \in DOMAIN f : f[i].type = "replay" => f[i].since = since
    BY <2>6
  <2> QED  BY <2>2, <2>7, <2>8, <2>9 DEF f
<1> QED  BY <1>3, <1>4

LEMMA DialKeeps == ASSUME ReadInv, DialAnswered PROVE ReadInv'
<1> DEFINE since == reader.last
<1>1. /\ since \in Nat /\ since <= Len(log)
      /\ reader' = [reader EXCEPT !.pc = "reading", !.since = since]
      /\ conn' = conn + 1 /\ conn' \in Connections
      /\ UNCHANGED <<mode, got, log, rows, outbox, sink, failures>>
  <2>1. since \in Nat /\ since <= Len(log) /\ conn \in 0..MaxConnections
    BY DEF ReadInv, ConsTypes, ReaderFits
  <2>2. conn + 1 \in Connections
    BY <2>1, PyConsumerAssumption DEF DialAnswered, Connections
  <2> QED  BY <2>1, <2>2 DEF DialAnswered
<1>2. inbox' = IF mode = "sse" THEN <<>> ELSE Frames(since)
  BY DEF DialAnswered
<1>3. inbox' \in Seq(Frame)
  BY <1>1, <1>2, FramesAsk
<1>4. /\ links' \in [Connections -> LinkRow]
      /\ mode = "ws" => \A c \in Connections : links'[c].pc \in {"none", "serve", "gone"}
  <2> QED  BY <1>1 DEF DialAnswered, ReadInv, ConsTypes, LinksFit, LinkRow
<1>5. ConsTypes'
  <2>1. /\ reader' \in [pc : {"token", "dial", "reading", "backoff", "returned", "raised"},
                         token : BOOLEAN, last : Nat, since : Nat]
        /\ reader'.last <= Len(log') /\ reader'.since <= Len(log')
    BY <1>1 DEF ReadInv, ConsTypes, ReaderFits
  <2>2. conn' \in 0..MaxConnections /\ conn' > 0
    BY <1>1, PyConsumerAssumption DEF Connections
  <2>3. FramesFit'
    BY <1>1, <1>2, <1>3 DEF ReadInv, ConsTypes, FramesFit, OnTheWire
  <2>4. ReaderFits'
    BY <1>1, <2>1, <2>2 DEF ReadInv, ConsTypes, ReaderFits
  <2>5. LinksFit'
    BY <1>1, <1>4 DEF LinksFit
  <2> QED  BY <2>3, <2>4, <2>5 DEF ConsTypes
<1>6. AsksInOrder'
  <2> SUFFICES ASSUME mode' = "ws" PROVE AsksInOrder'
    BY DEF AsksInOrder
  <2>1. inbox' = Frames(since) /\ reader'.since = since
    BY <1>1, <1>2 DEF ReadInv, ConsTypes, ReaderFits
  <2>2. Allowed \subseteq Range(Wanted)
    BY PyConsumerAssumption
  <2> QED  BY <1>1, <2>1, <2>2, FramesAsk DEF AsksInOrder, Asks
<1>7. NothingLost'
  <2> SUFFICES ASSUME NEW id \in Published, id \notin got \cup excused'
               PROVE  Awaiting(id)'
    BY <1>1 DEF NothingLost, Traced, Published
  <2>1. CASE mode = "sse"
    <3>1. id \notin excused /\ excused' = excused
      BY <2>1 DEF DialAnswered, Excuse
    <3>2. Awaiting(id)
      BY <2>1, <3>1 DEF ReadInv, NothingLost, Traced
    <3> QED  BY <1>1, <2>1, <3>2 DEF Awaiting, ReadInv, ConsTypes, FramesFit
  <2>2. CASE mode = "ws"
    <3>1. since # NoId /\ id > since
      <4>1. id \in Nat
        BY DEF Published, ReadInv, ConsTypes, ReaderFits
      <4> QED  BY <1>1, <2>2, <4>1 DEF DialAnswered, Excuse
    <3>2. log[id] \in Range(Wanted)
      BY PyConsumerAssumption DEF Published
    <3>3. inbox' = Frames(since)
      BY <1>2, <2>2
    <3>4. PICK i \in DOMAIN inbox' : /\ inbox'[i].type = "replay" /\ inbox'[i].topic = log[id]
                                     /\ inbox'[i].since = since
      BY <1>1, <3>1, <3>2, <3>3, FramesAsk
    <3> QED  BY <1>1, <3>1, <3>4 DEF Awaiting
  <2> QED  BY <2>1, <2>2 DEF ReadInv, ConsTypes, ReaderFits
<1> QED  BY <1>5, <1>6, <1>7 DEF ReadInv

LEMMA HangsKeeps ==
    ASSUME ReadInv, Reading, NEW pc \in {"backoff", "returned", "raised"}, Hangs(pc),
           UNCHANGED <<mode, got, log, conn>>
    PROVE  ReadInv'
<1>1. /\ ~Reading' /\ reader' = [reader EXCEPT !.pc = pc]
      /\ inbox' = <<>> /\ rows' = {} /\ outbox' = <<>> /\ sink' = <<>>
  BY DEF Hangs, Step, Reading, ReadInv, ConsTypes, ReaderFits
<1>2. /\ links' \in [Connections -> LinkRow]
      /\ mode = "ws" => \A c \in Connections : links'[c].pc \in {"none", "serve", "gone"}
  <2> DEFINE old == links[conn]
             new == IF mode = "ws"
                    THEN [old EXCEPT !.pc = "gone", !.joined = {}, !.row = "closed"]
                    ELSE IF old.pc = "stream" THEN [old EXCEPT !.pc = "leave"]
                    ELSE old
  <2>1. LinksFit /\ conn \in Connections
    BY PyConsumerAssumption DEF ReadInv, ConsTypes, ReaderFits, Connections
  <2>2. old \in LinkRow
    BY <2>1 DEF LinksFit
  <2>3. new \in LinkRow /\ (mode = "ws" => new.pc = "gone")
    BY <2>2 DEF LinkRow
  <2>4. links' = [links EXCEPT ![conn] = new]
    BY DEF Hangs
  <2> HIDE DEF new
  <2> QED  BY <2>1, <2>3, <2>4 DEF LinksFit
<1>3. ConsTypes'
  <2>1. /\ reader' \in [pc : {"token", "dial", "reading", "backoff", "returned", "raised"},
                         token : BOOLEAN, last : Nat, since : Nat]
        /\ reader'.last = reader.last /\ reader'.since = reader.since
    BY <1>1 DEF ReadInv, ConsTypes, ReaderFits
  <2>2. inbox' \in Seq(Frame) /\ outbox' \in Seq(Nat) /\ sink' \in Seq(Nat) /\ OnTheWire' = {}
        /\ Len(outbox') = 0 /\ 0 <= Capacity
    BY <1>1, PyConsumerAssumption DEF OnTheWire, Range
  <2>3. FramesFit'
    BY <1>1, <2>2 DEF FramesFit
  <2>4. ReaderFits'
    BY <1>1, <2>1 DEF ReadInv, ConsTypes, ReaderFits
  <2>5. LinksFit'
    BY <1>2 DEF LinksFit
  <2> QED  BY <2>3, <2>4, <2>5 DEF ConsTypes
<1>4. NothingLost'
  <2> SUFFICES ASSUME mode = "sse", NEW id \in Published, id \notin got
               PROVE  id \in excused'
    BY <1>1 DEF NothingLost, Traced, Published
  <2>1. id \in excused \/ Awaiting(id)
    BY DEF ReadInv, NothingLost, Traced
  <2>2. inbox = <<>> /\ rows = {}
    BY DEF ReadInv, ConsTypes, FramesFit
  <2>3. id \in excused \cup Range(outbox) \cup Range(sink)
    BY <2>1, <2>2 DEF Awaiting
  <2> QED  BY <2>3 DEF Hangs
<1> QED  BY <1>1, <1>3, <1>4 DEF ReadInv, AsksInOrder

LEMMA PublishKeeps ==
    ASSUME ReadInv, NEW topic \in Range(Wanted), PublishEvent(topic)
    PROVE  ReadInv'
<1> DEFINE new == Len(log) + 1
           member == Reading /\ topic \in Here.joined
<1>1. /\ log' = Append(log, topic) /\ log \in Seq(Range(Wanted)) /\ Len(log) \in Nat
      /\ UNCHANGED <<mode, reader, got, conn, links, inbox, rows, sink>>
  BY DEF PublishEvent, ReadInv, ConsTypes, ReaderFits
<1>2. /\ log' \in Seq(Range(Wanted)) /\ Len(log') = new
      /\ DOMAIN log = 1..Len(log) /\ DOMAIN log' = 1..new
      /\ \A id \in 1..Len(log) : log'[id] = log[id]
      /\ log'[new] = topic
  BY <1>1
<1>3. /\ outbox \in Seq(Nat) /\ Len(outbox) \in Nat
      /\ \A id \in Range(outbox) : id <= Len(log)
  <2>1. outbox \in Seq(Nat) /\ \A id \in OnTheWire : id <= Len(log)
    BY DEF ReadInv, ConsTypes, FramesFit
  <2> QED  BY <2>1 DEF OnTheWire
<1>4. /\ outbox' = IF member THEN Latest(outbox, new) ELSE outbox
      /\ excused \subseteq excused'
      /\ member /\ Len(outbox) = Capacity => Head(outbox) \in excused'
      /\ ~member /\ (mode = "sse" \/ (Reading /\ reader.since = NoId)) => new \in excused'
  BY <1>2 DEF PublishEvent
<1>5. /\ outbox' \in Seq(Nat) /\ Range(outbox') \subseteq Range(outbox) \cup {new}
      /\ Range(outbox) \subseteq Range(outbox') \cup excused'
      /\ member => new \in Range(outbox')
      /\ Len(outbox') <= Capacity
  <2>1. Len(outbox) <= Capacity /\ Capacity \in Nat \ {0} /\ new \in Nat
    BY <1>1, PyConsumerAssumption DEF ReadInv, ConsTypes, FramesFit
  <2>2. CASE ~member
    BY <1>3, <1>4, <2>1, <2>2
  <2>3. CASE member /\ Len(outbox) < Capacity
    <3>1. outbox' = Append(outbox, new)
      BY <1>4, <2>3 DEF Latest
    <3> HIDE DEF new
    <3>2. /\ outbox' \in Seq(Nat) /\ Len(outbox') = Len(outbox) + 1
          /\ Range(outbox') = Range(outbox) \cup {new}
      BY <1>3, <2>1, <3>1, AppendTo
    <3> QED  BY <1>3, <2>1, <2>3, <3>2
  <2>4. CASE member /\ Len(outbox) = Capacity
    <3>1. outbox' = Append(Tail(outbox), new) /\ Head(outbox) \in excused'
      BY <1>4, <2>1, <2>4 DEF Latest
    <3>2. /\ Tail(outbox) \in Seq(Nat) /\ Len(Tail(outbox)) = Len(outbox) - 1
          /\ Range(outbox) = {Head(outbox)} \cup Range(Tail(outbox))
      <4>1. outbox # <<>>
        BY <2>1, <2>4
      <4> QED  BY <1>3, <4>1, TailOf
    <3> DEFINE rest == Tail(outbox)
    <3> HIDE DEF new, rest
    <3>3. /\ outbox' \in Seq(Nat) /\ Len(outbox') = Len(rest) + 1
          /\ Range(outbox') = Range(rest) \cup {new}
      <4>1. rest \in Seq(Nat) /\ new \in Nat /\ outbox' = Append(rest, new)
        BY <2>1, <3>1, <3>2 DEF rest
      <4> QED  BY <4>1, AppendTo
    <3>4. Len(rest) = Len(outbox) - 1 /\ Range(outbox) = {Head(outbox)} \cup Range(rest)
      BY <3>2 DEF rest
    <3> QED  BY <1>3, <2>1, <2>4, <3>1, <3>3, <3>4
  <2> QED  BY <1>3, <2>1, <2>2, <2>3, <2>4
<1>6. ConsTypes'
  <2>1. ReaderFits'
    BY <1>1, <1>2 DEF ReadInv, ConsTypes, ReaderFits, Reading
  <2>2. \A id \in OnTheWire' : id <= Len(log')
    BY <1>1, <1>2, <1>5 DEF ReadInv, ConsTypes, FramesFit, OnTheWire
  <2>3. FramesFit'
    BY <1>1, <1>5, <2>2 DEF ReadInv, ConsTypes, FramesFit
  <2> QED  BY <1>1, <2>1, <2>3 DEF ReadInv, ConsTypes, LinksFit
<1>7. AsksInOrder'
  BY <1>1 DEF ReadInv, AsksInOrder, Asks, Reading, Here
<1>8. NothingLost'
  <2> SUFFICES ASSUME Reading \/ mode = "sse", NEW id \in 1..new, log'[id] \in Allowed,
                      id \notin got \cup excused'
               PROVE  Awaiting(id)'
    BY <1>1, <1>2 DEF NothingLost, Traced, Published, Reading
  <2>1. CASE id \in 1..Len(log)
    <3>1. Awaiting(id)
      BY <1>1, <1>2, <1>4, <2>1 DEF ReadInv, NothingLost, Traced, Published
    <3>2. CASE id \in rows \cup Range(outbox) \cup Range(sink)
      BY <1>1, <1>5, <3>2 DEF Awaiting
    <3>3. CASE id \notin rows \cup Range(outbox) \cup Range(sink)
      BY <1>1, <1>2, <2>1, <3>1, <3>3 DEF Awaiting
    <3> QED  BY <3>2, <3>3
  <2>2. CASE id = new
    <3>1. CASE member
      BY <1>5, <2>2, <3>1 DEF Awaiting
    <3>2. CASE ~member
      <4>1. Reading /\ mode = "ws" /\ reader.since # NoId
        BY <1>4, <2>2, <3>2 DEF ReadInv, ConsTypes, ReaderFits
      <4>2. topic \in Allowed \ Here.joined
        BY <1>2, <2>2, <3>2, <4>1
      <4>3. PICK i \in DOMAIN inbox : inbox[i].type = "replay" /\ inbox[i].topic = topic
        BY <4>1, <4>2 DEF ReadInv, AsksInOrder, Asks
      <4>4. inbox[i].since = reader.since /\ reader.since <= Len(log) /\ reader.since \in Nat
        BY <4>1, <4>3 DEF ReadInv, AsksInOrder, ConsTypes, ReaderFits
      <4> QED  BY <1>1, <1>2, <2>2, <4>3, <4>4 DEF Awaiting
    <3> QED  BY <3>1, <3>2
  <2> QED  BY <1>1, <2>1, <2>2
<1> QED  BY <1>6, <1>7, <1>8 DEF ReadInv

\* The requests left when the first is handled.
LEMMA NextRequest ==
    ASSUME ReadInv, inbox # <<>>
    PROVE  /\ Tail(inbox) \in Seq(Frame) /\ Head(inbox) \in Frame
           /\ Head(inbox) = inbox[1] /\ 1 \in DOMAIN inbox
           /\ \A i \in DOMAIN Tail(inbox) : i \in Nat /\ i + 1 \in DOMAIN inbox
                                            /\ Tail(inbox)[i] = inbox[i + 1]
           /\ \A i \in DOMAIN inbox :
                 i # 1 => i \in Nat /\ 1 < i /\ i - 1 \in DOMAIN Tail(inbox)
                          /\ Tail(inbox)[i - 1] = inbox[i]
<1>1. inbox \in Seq(Frame)
  BY DEF ReadInv, ConsTypes, FramesFit
<1>2. /\ Tail(inbox) \in Seq(Frame) /\ Head(inbox) \in Frame
      /\ Len(Tail(inbox)) = Len(inbox) - 1
      /\ \A i \in 1..Len(Tail(inbox)) : Tail(inbox)[i] = inbox[i + 1]
  BY <1>1, TailOf
<1>3. /\ DOMAIN inbox = 1..Len(inbox) /\ Len(inbox) \in Nat \ {0}
      /\ DOMAIN Tail(inbox) = 1..Len(Tail(inbox)) /\ Head(inbox) = inbox[1]
  BY <1>1, <1>2
<1> DEFINE n == Len(inbox)
           t == Tail(inbox)
<1> HIDE DEF n, t
<1>4. /\ n \in Nat \ {0} /\ DOMAIN inbox = 1..n /\ DOMAIN t = 1..(n - 1)
      /\ \A i \in 1..(n - 1) : t[i] = inbox[i + 1]
  BY <1>2, <1>3 DEF n, t
<1>5. \A i \in DOMAIN t : i \in Nat /\ i + 1 \in DOMAIN inbox /\ t[i] = inbox[i + 1]
  BY <1>4
<1>6. ASSUME NEW i \in DOMAIN inbox, i # 1
      PROVE  i \in Nat /\ 1 < i /\ i - 1 \in DOMAIN t /\ t[i - 1] = inbox[i]
  <2>1. i \in Nat /\ 1 < i /\ i - 1 \in 1..(n - 1) /\ (i - 1) + 1 = i
    BY <1>4, <1>6
  <2> QED  BY <1>4, <2>1
<1>7. 1 \in DOMAIN inbox
  BY <1>4
<1> QED  BY <1>2, <1>3, <1>5, <1>6, <1>7 DEF t

LEMMA SubscribeKeeps == ASSUME ReadInv, HandleSubscribe PROVE ReadInv'
<1>1. /\ mode = "ws" /\ Reading /\ rows = {} /\ inbox # <<>>
      /\ Head(inbox).type = "subscribe"
      /\ UNCHANGED <<mode, got, log, conn, failures>>
  BY DEF HandleSubscribe
<1>2. CASE Head(inbox).topic \notin Allowed
  BY <1>1, <1>2, HangsKeeps DEF HandleSubscribe
<1>3. CASE Head(inbox).topic \in Allowed
  <2> DEFINE t == Head(inbox).topic
             link == [links[conn] EXCEPT !.joined = @ \cup {t}]
  <2>1. /\ links' = [links EXCEPT ![conn] = link]
        /\ inbox' = Tail(inbox)
        /\ UNCHANGED <<reader, excused, rows, outbox, sink>>
    BY <1>3 DEF HandleSubscribe
  <2>2. LinksFit /\ conn \in Connections
    BY <1>1, PyConsumerAssumption DEF ReadInv, ConsTypes, ReaderFits, Connections
  <2>3. link \in LinkRow /\ link.pc = links[conn].pc /\ link.joined = Here.joined \cup {t}
    BY <1>3, <2>2 DEF LinksFit, LinkRow, Here
  <2> HIDE DEF link
  <2>4. LinksFit' /\ Here'.joined = Here.joined \cup {t}
    BY <1>1, <2>1, <2>2, <2>3 DEF LinksFit, Here
  <2> DEFINE rest == Tail(inbox)
  <2>5. /\ rest \in Seq(Frame) /\ inbox[1].type = "subscribe" /\ inbox[1].topic = t
        /\ 1 \in DOMAIN inbox
        /\ \A i \in DOMAIN rest : i \in Nat /\ i + 1 \in DOMAIN inbox /\ rest[i] = inbox[i + 1]
        /\ \A i \in DOMAIN inbox : i # 1 => i \in Nat /\ 1 < i /\ i - 1 \in DOMAIN rest
                                             /\ rest[i - 1] = inbox[i]
    BY <1>1, NextRequest
  <2> HIDE DEF rest, t
  <2>6. inbox' = rest
    BY <2>1 DEF rest
  <2>7. ConsTypes'
    <3>1. ReaderFits'
      BY <1>1, <2>1 DEF ReadInv, ConsTypes, ReaderFits, Reading
    <3>2. FramesFit'
      BY <1>1, <2>1, <2>5, <2>6 DEF ReadInv, ConsTypes, FramesFit, OnTheWire
    <3> QED  BY <2>4, <3>1, <3>2 DEF ConsTypes
  <2>8. AsksInOrder'
    <3>1. ASSUME NEW i \in DOMAIN rest, NEW j \in DOMAIN rest, i < j,
                 rest[j].type = "subscribe"
          PROVE  rest[i].type = "subscribe"
      <4>1. i + 1 \in DOMAIN inbox /\ j + 1 \in DOMAIN inbox /\ i + 1 < j + 1
            /\ inbox[j + 1].type = "subscribe" /\ rest[i] = inbox[i + 1]
        BY <2>5, <3>1
      <4> QED  BY <1>1, <4>1 DEF ReadInv, AsksInOrder
    <3>2. \A i \in DOMAIN rest : rest[i].type = "replay" => rest[i].since = reader.since
      BY <1>1, <2>5 DEF ReadInv, AsksInOrder
    <3>3. ASSUME NEW u \in Allowed \ Here'.joined
          PROVE  /\ \E i \in DOMAIN rest : rest[i].type = "subscribe" /\ rest[i].topic = u
                 /\ reader.since # NoId =>
                      \E i \in DOMAIN rest : rest[i].type = "replay" /\ rest[i].topic = u
      <4>1. u # t /\ u \in Allowed \ Here.joined
        BY <2>4, <3>3
      <4>2. PICK i \in DOMAIN inbox : inbox[i].type = "subscribe" /\ inbox[i].topic = u
        BY <1>1, <4>1 DEF ReadInv, AsksInOrder, Asks
      <4>3. i # 1
        BY <2>5, <4>1, <4>2
      <4>4. ASSUME reader.since # NoId
            PROVE  \E k \in DOMAIN rest : rest[k].type = "replay" /\ rest[k].topic = u
        <5>1. PICK k \in DOMAIN inbox : inbox[k].type = "replay" /\ inbox[k].topic = u
          BY <1>1, <4>1, <4>4 DEF ReadInv, AsksInOrder, Asks
        <5>2. k # 1
          BY <2>5, <5>1
        <5>3. k - 1 \in DOMAIN rest /\ rest[k - 1] = inbox[k]
          BY <2>5, <5>2
        <5> QED  BY <5>1, <5>3
      <4> QED  BY <2>5, <4>2, <4>3, <4>4
    <3>4. \A u \in Allowed \ Here'.joined :
             Asks("subscribe", u)' /\ (reader.since # NoId => Asks("replay", u)')
      BY <2>6, <3>3 DEF Asks
    <3> QED  BY <2>1, <2>6, <3>1, <3>2, <3>4 DEF AsksInOrder
  <2>9. NothingLost'
    <3> SUFFICES ASSUME NEW id \in Published, id \notin got \cup excused PROVE Awaiting(id)'
      BY <1>1, <2>1 DEF NothingLost, Traced, Published
    <3>1. Awaiting(id)
      BY <1>1 DEF ReadInv, NothingLost, Traced
    <3>2. CASE id \in rows \cup Range(outbox) \cup Range(sink)
      BY <2>1, <3>2 DEF Awaiting
    <3>3. CASE id \notin rows \cup Range(outbox) \cup Range(sink)
      <4>1. PICK i \in DOMAIN inbox : /\ inbox[i].type = "replay"
                                      /\ inbox[i].topic = log[id] /\ inbox[i].since < id
        BY <3>1, <3>3 DEF Awaiting
      <4>2. i # 1
        BY <2>5, <4>1
      <4>3. i - 1 \in DOMAIN rest /\ rest[i - 1] = inbox[i]
        BY <2>5, <4>2
      <4> QED  BY <1>1, <2>6, <4>1, <4>3 DEF Awaiting
    <3> QED  BY <3>2, <3>3
  <2> QED  BY <2>7, <2>8, <2>9 DEF ReadInv
<1> QED  BY <1>2, <1>3

LEMMA ReplayKeeps == ASSUME ReadInv, HandleReplay PROVE ReadInv'
<1> DEFINE newer == {id \in DOMAIN log : /\ id > Head(inbox).since
                                         /\ log[id] = Head(inbox).topic}
           rest == Tail(inbox)
<1>1. /\ mode = "ws" /\ Reading /\ rows = {} /\ inbox # <<>>
      /\ Head(inbox).type = "replay"
      /\ rows' = FirstPage(newer) /\ excused' = excused \cup (newer \ FirstPage(newer))
      /\ inbox' = rest
      /\ UNCHANGED <<mode, reader, got, log, conn, links, outbox, sink, failures>>
  BY DEF HandleReplay
<1>2. /\ rest \in Seq(Frame) /\ inbox[1].type = "replay" /\ Head(inbox) = inbox[1]
      /\ 1 \in DOMAIN inbox
      /\ \A i \in DOMAIN rest : i \in Nat /\ i + 1 \in DOMAIN inbox /\ rest[i] = inbox[i + 1]
      /\ \A i \in DOMAIN inbox : i # 1 => i \in Nat /\ 1 < i /\ i - 1 \in DOMAIN rest
                                           /\ rest[i - 1] = inbox[i]
  BY <1>1, NextRequest
<1>3. rows' \subseteq newer /\ log \in Seq(Range(Wanted))
  BY <1>1 DEF FirstPage, ReadInv, ConsTypes, ReaderFits
<1>4. \A id \in newer : id \in Nat /\ id <= Len(log)
  BY <1>3
<1> HIDE DEF rest
<1>5. ConsTypes'
  <2>1. ReaderFits' /\ LinksFit'
    BY <1>1 DEF ReadInv, ConsTypes, ReaderFits, LinksFit, Reading
  <2>2. rows' \subseteq Nat /\ \A id \in OnTheWire' : id <= Len(log')
    <3> HIDE DEF newer
    <3> QED  BY <1>1, <1>3, <1>4 DEF ReadInv, ConsTypes, FramesFit, OnTheWire
  <2>3. FramesFit'
    BY <1>1, <1>2, <2>2 DEF ReadInv, ConsTypes, FramesFit
  <2> QED  BY <2>1, <2>3 DEF ConsTypes
<1>6. AsksInOrder'
  <2>1. ASSUME NEW i \in DOMAIN inbox PROVE inbox[i].type # "subscribe"
    BY <1>1, <1>2, <2>1 DEF ReadInv, AsksInOrder
  <2>2. Allowed \ Here.joined = {}
    BY <1>1, <2>1 DEF ReadInv, AsksInOrder, Asks
  <2>3. \A i \in DOMAIN rest : /\ rest[i].type # "subscribe"
                               /\ rest[i].type = "replay" => rest[i].since = reader.since
    BY <1>1, <1>2, <2>1 DEF ReadInv, AsksInOrder
  <2> QED  BY <1>1, <2>2, <2>3 DEF AsksInOrder, Here
<1>7. NothingLost'
  <2> SUFFICES ASSUME NEW id \in Published, id \notin got \cup excused' PROVE Awaiting(id)'
    BY <1>1 DEF NothingLost, Traced, Published
  <2>1. Awaiting(id) /\ id \notin excused
    BY <1>1 DEF ReadInv, NothingLost, Traced
  <2>2. CASE id \in Range(outbox) \cup Range(sink)
    BY <1>1, <2>2 DEF Awaiting
  <2>3. CASE id \notin Range(outbox) \cup Range(sink)
    <3>1. PICK i \in DOMAIN inbox : /\ inbox[i].type = "replay"
                                    /\ inbox[i].topic = log[id] /\ inbox[i].since < id
      <4>1. id \notin rows \cup Range(outbox) \cup Range(sink)
        BY <1>1, <2>3
      <4> QED  BY <2>1, <4>1 DEF Awaiting
    <3>2. CASE i = 1
      <4>1. inbox[1].since \in Nat
        <5>1. inbox[1] \in Frame
          BY <1>1, NextRequest
        <5> QED  BY <5>1 DEF Frame
      <4>2. id \in DOMAIN log /\ id \in Nat
        BY <1>3 DEF Published
      <4>3. id \in newer
        BY <1>2, <3>1, <3>2, <4>1, <4>2
      <4> HIDE DEF newer
      <4> QED  BY <1>1, <4>3 DEF Awaiting
    <3>3. CASE i # 1
      <4>1. i - 1 \in DOMAIN rest /\ rest[i - 1] = inbox[i]
        BY <1>2, <3>3
      <4> HIDE DEF newer
      <4> QED  BY <1>1, <3>1, <4>1 DEF Awaiting
    <3> QED  BY <3>2, <3>3
  <2> QED  BY <2>2, <2>3
<1> QED  BY <1>5, <1>6, <1>7 DEF ReadInv

\* An event is yielded: it leaves the wire.
LEMMA YieldKeeps ==
    ASSUME ReadInv, Reading, NEW id \in OnTheWire, YieldEvent(id),
           outbox' \in Seq(Nat), Len(outbox') <= Capacity, sink' \in Seq(Nat),
           OnTheWire' \subseteq OnTheWire, OnTheWire \subseteq OnTheWire' \cup {id},
           rows' \subseteq rows, UNCHANGED <<mode, excused, log, conn, links, inbox>>
    PROVE  ReadInv'
<1>1. /\ reader' = [reader EXCEPT !.last = id] /\ got' = got \cup {id}
      /\ id \in Nat /\ id <= Len(log)
  BY DEF YieldEvent, OnTheWire, ReadInv, ConsTypes, FramesFit, Range
<1>2. /\ reader' \in [pc : {"token", "dial", "reading", "backoff", "returned", "raised"},
                      token : BOOLEAN, last : Nat, since : Nat]
      /\ reader'.last = id /\ reader'.since = reader.since /\ reader'.pc = reader.pc
  BY <1>1 DEF ReadInv, ConsTypes, ReaderFits
<1>3. ConsTypes'
  <2>1. ReaderFits'
    BY <1>1, <1>2 DEF ReadInv, ConsTypes, ReaderFits, Reading
  <2>2. FramesFit'
    BY DEF ReadInv, ConsTypes, FramesFit
  <2>3. LinksFit'
    BY DEF ReadInv, ConsTypes, LinksFit
  <2> QED  BY <2>1, <2>2, <2>3 DEF ConsTypes
<1>4. AsksInOrder'
  BY <1>2 DEF ReadInv, AsksInOrder, Asks, Here, Reading
<1>5. NothingLost'
  BY <1>1, <1>2 DEF ReadInv, NothingLost, Traced, Published, Awaiting, OnTheWire
<1> QED  BY <1>3, <1>4, <1>5 DEF ReadInv

LEMMA RowKeeps == ASSUME ReadInv, SendRow PROVE ReadInv'
<1>1. PICK id \in rows : rows' = rows \ {id} /\ YieldEvent(id)
  BY DEF SendRow
<1>2. Reading /\ UNCHANGED <<mode, excused, log, conn, links, inbox, outbox, sink>>
  BY DEF SendRow
<1>3. id \in OnTheWire /\ OnTheWire' \subseteq OnTheWire
      /\ OnTheWire \subseteq OnTheWire' \cup {id} /\ rows' \subseteq rows
  BY <1>1, <1>2 DEF OnTheWire
<1>4. outbox' \in Seq(Nat) /\ Len(outbox') <= Capacity /\ sink' \in Seq(Nat)
  BY <1>2 DEF ReadInv, ConsTypes, FramesFit
<1> QED  BY <1>1, <1>2, <1>3, <1>4, YieldKeeps

LEMMA LiveKeeps == ASSUME ReadInv, SendLive PROVE ReadInv'
<1>1. /\ Reading /\ outbox # <<>> /\ outbox' = Tail(outbox) /\ YieldEvent(Head(outbox))
      /\ UNCHANGED <<mode, excused, log, conn, links, inbox, rows, sink>>
  BY DEF SendLive
<1>2. /\ outbox \in Seq(Nat) /\ sink \in Seq(Nat) /\ Len(outbox) <= Capacity
      /\ Capacity \in Nat /\ Len(outbox) \in Nat
  BY PyConsumerAssumption DEF ReadInv, ConsTypes, FramesFit
<1>3. /\ Tail(outbox) \in Seq(Nat) /\ Len(Tail(outbox)) = Len(outbox) - 1
      /\ Range(outbox) = {Head(outbox)} \cup Range(Tail(outbox))
  BY <1>1, <1>2, TailOf
<1>4. outbox' \in Seq(Nat) /\ Len(outbox') <= Capacity /\ sink' \in Seq(Nat)
  BY <1>1, <1>2, <1>3
<1>5. Head(outbox) \in OnTheWire /\ OnTheWire' \subseteq OnTheWire
      /\ OnTheWire \subseteq OnTheWire' \cup {Head(outbox)} /\ rows' \subseteq rows
  BY <1>1, <1>3 DEF OnTheWire
<1> QED  BY <1>1, <1>4, <1>5, YieldKeeps

LEMMA SseSendKeeps == ASSUME ReadInv, SseSend PROVE ReadInv'
<1>1. /\ Reading /\ sink # <<>> /\ sink' = Tail(sink) /\ YieldEvent(Head(sink))
      /\ UNCHANGED <<mode, excused, log, conn, links, inbox, rows, outbox>>
  BY DEF SseSend
<1>2. outbox \in Seq(Nat) /\ sink \in Seq(Nat) /\ Len(outbox) <= Capacity
  BY DEF ReadInv, ConsTypes, FramesFit
<1>3. /\ Tail(sink) \in Seq(Nat)
      /\ Range(sink) = {Head(sink)} \cup Range(Tail(sink))
  BY <1>1, <1>2, TailOf
<1>4. outbox' \in Seq(Nat) /\ Len(outbox') <= Capacity /\ sink' \in Seq(Nat)
  BY <1>1, <1>2, <1>3
<1>5. Head(sink) \in OnTheWire /\ OnTheWire' \subseteq OnTheWire
      /\ OnTheWire \subseteq OnTheWire' \cup {Head(sink)} /\ rows' \subseteq rows
  BY <1>1, <1>3 DEF OnTheWire
<1> QED  BY <1>1, <1>4, <1>5, YieldKeeps

LEMMA PumpKeeps == ASSUME ReadInv, SsePump PROVE ReadInv'
<1>1. /\ mode = "sse" /\ outbox # <<>> /\ outbox' = Tail(outbox)
      /\ sink' = Newest(sink, Head(outbox))
      /\ excused' = excused \cup Shed(sink, Head(outbox))
      /\ UNCHANGED <<mode, reader, got, log, conn, links, inbox, rows>>
  BY DEF SsePump
<1>2. /\ outbox \in Seq(Nat) /\ sink \in Seq(Nat) /\ Len(outbox) <= Capacity
      /\ Capacity \in Nat /\ Len(outbox) \in Nat
  BY PyConsumerAssumption DEF ReadInv, ConsTypes, FramesFit
<1>3. /\ Tail(outbox) \in Seq(Nat) /\ Head(outbox) \in Nat
      /\ Len(Tail(outbox)) = Len(outbox) - 1
      /\ Range(outbox) = {Head(outbox)} \cup Range(Tail(outbox))
  BY <1>1, <1>2, TailOf
<1>4. /\ sink' \in Seq(Nat) /\ Range(sink) \subseteq Range(sink')
      /\ Range(sink') \subseteq Range(sink) \cup {Head(outbox)}
      /\ Head(outbox) \in Range(sink') \cup excused'
  <2> DEFINE h == Head(outbox)
  <2> HIDE DEF h
  <2>1. CASE Len(sink) < Capacity
    <3>1. sink' = Append(sink, h) /\ h \in Nat
      BY <1>1, <1>3, <2>1 DEF Newest, h
    <3>2. sink' \in Seq(Nat) /\ Range(sink') = Range(sink) \cup {h}
      BY <1>2, <3>1, AppendTo
    <3> QED  BY <3>2 DEF h
  <2>2. CASE ~(Len(sink) < Capacity)
    BY <1>1, <1>2, <2>2 DEF Newest, Shed
  <2> QED  BY <2>1, <2>2
<1>5. ConsTypes'
  <2>1. OnTheWire' \subseteq OnTheWire
    BY <1>1, <1>3, <1>4 DEF OnTheWire
  <2>2. outbox' \in Seq(Nat) /\ Len(outbox') <= Capacity
    BY <1>1, <1>2, <1>3
  <2>3. FramesFit'
    BY <1>1, <1>4, <2>1, <2>2 DEF ReadInv, ConsTypes, FramesFit
  <2> QED  BY <1>1, <2>3 DEF ReadInv, ConsTypes, ReaderFits, LinksFit, Reading
<1>6. NothingLost'
  <2> SUFFICES ASSUME NEW id \in Published, id \notin got \cup excused' PROVE Awaiting(id)'
    BY <1>1 DEF NothingLost, Traced, Published
  <2>1. Awaiting(id) /\ inbox = <<>>
    BY <1>1 DEF ReadInv, NothingLost, Traced, ConsTypes, FramesFit
  <2>2. id \in rows \cup Range(outbox) \cup Range(sink)
    BY <2>1 DEF Awaiting
  <2>3. id \in rows' \cup Range(outbox') \cup Range(sink')
    BY <1>1, <1>3, <1>4, <2>2
  <2> QED  BY <2>3 DEF Awaiting
<1> QED  BY <1>1, <1>5, <1>6 DEF ReadInv, AsksInOrder

(* What the server does with one connection, and its row.                  *)
LinkStep == Age \/ \E c \in Connections : Stream(c) \/ Reap(c)

\* What a step of a stream writes.
LEMMA StreamWrites ==
    ASSUME links \in [Connections -> LinkRow], NEW c \in Connections, Stream(c)
    PROVE  /\ links[c].pc \in {"join", "row", "answer", "leave", "close"}
           /\ \E new \in LinkRow :
                 /\ links' = [links EXCEPT ![c] = new]
                 /\ new.age = links[c].age
                 /\ new.row = "closed" => new.pc = "gone" \/ links[c].row = "closed"
<1> DEFINE Writes(new) == /\ links' = [links EXCEPT ![c] = new]
                          /\ new.age = links[c].age
                          /\ new.row = "closed" => new.pc = "gone" \/ links[c].row = "closed"
<1>1. links[c] \in LinkRow
  OBVIOUS
<1>2. links[c].pc \in {"join", "row", "answer", "leave", "close"}
  BY DEF Stream, SseJoin, SseOpenRow, SseAnswer, SseLeave, SseCloseRow
<1>3. ASSUME NEW pc \in {"row", "stream", "leave", "orphan", "close"},
             links' = [links EXCEPT ![c].pc = pc]
      PROVE  \E new \in LinkRow : Writes(new)
  <2> DEFINE new == [links[c] EXCEPT !.pc = pc]
  <2>1. new \in LinkRow /\ new.age = links[c].age /\ new.row = links[c].row
    BY <1>1 DEF LinkRow
  <2>2. links' = [links EXCEPT ![c] = new]
    BY <1>3
  <2> QED  BY <2>1, <2>2
<1>4. CASE SseJoin(c)
  <2> DEFINE topics == {Wanted[links[c].next]} \cap Allowed
  <2>1. CASE links' = [links EXCEPT ![c].joined = @ \cup topics, ![c].next = @ + 1]
    <3> DEFINE new == [links[c] EXCEPT !.joined = @ \cup topics, !.next = @ + 1]
    <3>1. topics \subseteq Allowed
      OBVIOUS
    <3> HIDE DEF topics
    <3>2. new \in LinkRow /\ new.age = links[c].age /\ new.row = links[c].row
      <4>1. links[c].joined \cup topics \in SUBSET Allowed /\ links[c].next + 1 \in Nat
        BY <1>1, <3>1 DEF LinkRow
      <4> DEFINE joined == links[c].joined \cup topics
                 next == links[c].next + 1
      <4>2. new = [links[c] EXCEPT !.joined = joined, !.next = next]
        BY <1>1 DEF LinkRow
      <4> HIDE DEF joined, next
      <4>3. joined \in SUBSET Allowed /\ next \in Nat
        BY <4>1 DEF joined, next
      <4> QED  BY <1>1, <4>2, <4>3 DEF LinkRow
    <3>3. links' = [links EXCEPT ![c] = new]
      BY <1>1, <2>1 DEF LinkRow
    <3> HIDE DEF new
    <3> QED  BY <1>2, <3>2, <3>3
  <2> QED  BY <1>2, <1>3, <1>4, <2>1 DEF SseJoin
<1>5. CASE SseOpenRow(c)
  <2>1. PICK row \in {"open", "none"} :
            links' = [links EXCEPT ![c].row = row, ![c].pc = "answer"]
    BY <1>5 DEF SseOpenRow
  <2> DEFINE new == [links[c] EXCEPT !.row = row, !.pc = "answer"]
  <2>2. new \in LinkRow /\ new.age = links[c].age /\ new.row # "closed"
    BY <1>1 DEF LinkRow
  <2>3. links' = [links EXCEPT ![c] = new]
    BY <1>1, <2>1 DEF LinkRow
  <2> HIDE DEF new
  <2> QED  BY <1>2, <2>2, <2>3
<1>6. CASE SseAnswer(c)
  BY <1>3, <1>6 DEF SseAnswer
<1>7. CASE SseLeave(c)
  <2>1. ASSUME NEW t \in links[c].joined, links' = [links EXCEPT ![c].joined = @ \ {t}]
        PROVE  \E new \in LinkRow : Writes(new)
    <3> DEFINE new == [links[c] EXCEPT !.joined = @ \ {t}]
    <3>1. new \in LinkRow /\ new.age = links[c].age /\ new.row = links[c].row
      BY <1>1 DEF LinkRow
    <3>2. links' = [links EXCEPT ![c] = new]
      BY <2>1
    <3> QED  BY <3>1, <3>2
  <2> QED  BY <1>3, <1>7, <2>1 DEF SseLeave
<1>8. CASE SseCloseRow(c)
  <2>1. PICK row \in {"closed", links[c].row} :
            links' = [links EXCEPT ![c].pc = "gone",
                                   ![c].row = IF @ = "none" THEN "none" ELSE row]
    BY <1>8 DEF SseCloseRow
  <2> DEFINE new == [links[c] EXCEPT !.pc = "gone",
                                     !.row = IF @ = "none" THEN "none" ELSE row]
  <2>2. new \in LinkRow /\ new.age = links[c].age /\ new.pc = "gone"
    BY <1>1 DEF LinkRow
  <2>3. links' = [links EXCEPT ![c] = new]
    BY <1>1, <2>1 DEF LinkRow
  <2> HIDE DEF new
  <2> QED  BY <1>2, <2>2, <2>3
<1> QED  BY <1>2, <1>4, <1>5, <1>6, <1>7, <1>8 DEF Stream

LEMMA LinkKeeps == ASSUME ReadInv, LinkStep PROVE ReadInv'
<1>1. UNCHANGED <<mode, reader, got, excused, log, conn, inbox, rows, outbox, sink>>
  BY DEF LinkStep, Age, Stream, Reap, SseJoin, SseOpenRow, SseAnswer, SseLeave, SseCloseRow
<1>2. links \in [Connections -> LinkRow]
  BY DEF ReadInv, ConsTypes, LinksFit
<1>3. /\ links' \in [Connections -> LinkRow]
      /\ mode = "ws" => \A c \in Connections :
            links'[c].pc = links[c].pc /\ links'[c].joined = links[c].joined
  <2>1. CASE Age
    <3>1. \A c \in Connections : links[c] \in LinkRow
      BY <1>2
    <3>2. ASSUME NEW c \in Aging PROVE [links[c] EXCEPT !.age = @ + 1] \in LinkRow
      <4>1. links[c] \in LinkRow /\ links[c].age < 2
        BY <3>1, <3>2 DEF Aging
      <4> QED  BY <4>1 DEF LinkRow
    <3> QED  BY <2>1, <3>1, <3>2 DEF Age
  <2>2. ASSUME NEW c \in Connections, Stream(c)
        PROVE  mode # "ws" /\ \E new \in LinkRow : links' = [links EXCEPT ![c] = new]
    <3>1. links[c].pc \in {"join", "row", "answer", "leave", "close"}
      BY <1>2, <2>2, StreamWrites
    <3>2. mode # "ws"
      BY <3>1 DEF ReadInv, ConsTypes, LinksFit
    <3> QED  BY <1>2, <2>2, <3>2, StreamWrites
  <2>3. ASSUME NEW c \in Connections, Reap(c)
        PROVE  /\ links' \in [Connections -> LinkRow]
               /\ \A d \in Connections :
                     links'[d].pc = links[d].pc /\ links'[d].joined = links[d].joined
    <3> DEFINE new == [links[c] EXCEPT !.row = "closed"]
    <3>1. new \in LinkRow /\ new.pc = links[c].pc /\ new.joined = links[c].joined
      BY <1>2 DEF LinkRow
    <3>2. links' = [links EXCEPT ![c] = new]
      BY <2>3 DEF Reap
    <3> HIDE DEF new
    <3> QED  BY <1>2, <3>1, <3>2
  <2>4. CASE Age
    BY <2>1, <2>4 DEF Age
  <2> QED  BY <1>2, <2>1, <2>2, <2>3, <2>4 DEF LinkStep, Age
<1>4. ConsTypes'
  <2>1. ReaderFits' /\ FramesFit'
    BY <1>1 DEF ReadInv, ConsTypes, ReaderFits, FramesFit, OnTheWire, Reading
  <2>2. LinksFit'
    BY <1>1, <1>3 DEF ReadInv, ConsTypes, LinksFit
  <2> QED  BY <2>1, <2>2 DEF ConsTypes
<1>5. AsksInOrder'
  <2> SUFFICES ASSUME mode = "ws", Reading PROVE AsksInOrder'
    BY <1>1 DEF AsksInOrder, Reading
  <2>1. conn \in Connections
    BY PyConsumerAssumption DEF ReadInv, ConsTypes, ReaderFits, Connections
  <2>2. Here'.joined = Here.joined
    BY <1>1, <1>3, <2>1 DEF Here
  <2> QED  BY <1>1, <2>2 DEF ReadInv, AsksInOrder, Asks, Reading
<1>6. NothingLost'
  BY <1>1 DEF ReadInv, NothingLost, Traced, Published, Awaiting, Reading
<1> QED  BY <1>4, <1>5, <1>6 DEF ReadInv

LEMMA ReadStep == ASSUME ReadInv, [ConsNext]_consVars PROVE ReadInv'
<1>1. CASE GetToken \/ TokenRefused \/ DialFails \/ Backoff
  BY <1>1, OutsideKeeps
<1>2. CASE DialAnswered
  BY <1>2, DialKeeps
<1>3. CASE Disconnected
  <2>1. PICK pc \in {"backoff", "returned", "raised"} : Hangs(pc)
    BY <1>3 DEF Disconnected
  <2>2. Reading /\ UNCHANGED <<mode, got, log, conn>>
    BY <1>3 DEF Disconnected
  <2> QED  BY <2>1, <2>2, HangsKeeps
<1>4. ASSUME NEW t \in Range(Wanted), PublishEvent(t) PROVE ReadInv'
  BY <1>4, PublishKeeps
<1>5. CASE Serve
  BY <1>5, SubscribeKeeps, ReplayKeeps, RowKeeps DEF Serve
<1>6. CASE SendLive \/ SsePump \/ SseSend
  BY <1>6, LiveKeeps, PumpKeeps, SseSendKeeps
<1>7. CASE LinkStep
  BY <1>7, LinkKeeps
<1>8. CASE UNCHANGED consVars
  BY <1>8 DEF consVars, netVars, ReadInv, ConsTypes, ReaderFits, FramesFit, LinksFit,
              OnTheWire, AsksInOrder, Asks, Here, NothingLost, Traced, Published, Awaiting, Reading
<1> QED  BY <1>1, <1>2, <1>3, <1>4, <1>5, <1>6, <1>7, <1>8 DEF ConsNext, Iterate, LinkStep

(* beacn.py, the subscribe loops, against session.py and realtime_sse:     *)
(* whatever is published, whenever a connection is lost and made again,    *)
(* each event a consumer may read is yielded, given up for a stated reason *)
(* or still on its way.                                                    *)
THEOREM ConsumerLosesNothing == ConsSpec => []NothingLost
<1>1. ReadInv => NothingLost
  BY DEF ReadInv
<1> QED  BY <1>1, ReadInit, ReadStep, PTL DEF ConsSpec

LEMMA ClosedStep == ASSUME ReadInv, ClosedIsGone, [ConsNext]_consVars PROVE ClosedIsGone'
<1> USE DEF ClosedIsGone
<1>1. /\ links \in [Connections -> LinkRow]
      /\ Reading => conn \in Connections
  <2>1. LinksFit /\ ReaderFits
    BY DEF ReadInv, ConsTypes
  <2>2. Reading => conn \in Connections
    BY <2>1, PyConsumerAssumption DEF ReaderFits, Connections
  <2> QED  BY <2>1, <2>2 DEF LinksFit, LinkRow
<1>2. ASSUME NEW c \in Connections, NEW new \in LinkRow,
             links' = [links EXCEPT ![c] = new],
             (new.row = "closed" /\ new.age < 2) => new.pc = "gone"
      PROVE  ClosedIsGone'
  BY <1>1, <1>2
<1>3. CASE DialAnswered
  <2>1. conn + 1 \in Connections
    BY <1>3, PyConsumerAssumption
       DEF DialAnswered, ReadInv, ConsTypes, ReaderFits, Connections
  <2>2. links[conn + 1] \in LinkRow
    BY <1>1, <2>1
  <2> DEFINE new == [links[conn + 1] EXCEPT
                        !.pc = IF mode = "sse" THEN "join" ELSE "serve",
                        !.row = IF mode = "sse" THEN "none" ELSE "open"]
  <2>3. new \in LinkRow /\ new.row # "closed"
    BY <2>2 DEF LinkRow
  <2>4. links' = [links EXCEPT ![conn + 1] = new]
    BY <1>1, <1>3, <2>1, <2>2 DEF DialAnswered, LinkRow
  <2> QED  BY <1>2, <2>1, <2>3, <2>4
<1>4. ASSUME NEW pc, Hangs(pc), Reading PROVE ClosedIsGone'
  <2> DEFINE old == links[conn]
             new == IF mode = "ws"
                    THEN [old EXCEPT !.pc = "gone", !.joined = {}, !.row = "closed"]
                    ELSE IF old.pc = "stream" THEN [old EXCEPT !.pc = "leave"]
                    ELSE old
  <2>1. old \in LinkRow /\ conn \in Connections
    BY <1>1, <1>4
  <2>2. (old.row = "closed" /\ old.age < 2) => old.pc = "gone"
    BY <2>1
  <2>3. new \in LinkRow /\ ((new.row = "closed" /\ new.age < 2) => new.pc = "gone")
    BY <2>1, <2>2 DEF LinkRow
  <2>4. links' = [links EXCEPT ![conn] = new]
    BY <1>4 DEF Hangs
  <2> HIDE DEF new
  <2> QED  BY <1>2, <2>1, <2>3, <2>4
<1>5. CASE Disconnected
  BY <1>4, <1>5 DEF Disconnected
<1>6. CASE HandleSubscribe
  <2>1. CASE Head(inbox).topic \notin Allowed
    BY <1>4, <1>6, <2>1 DEF HandleSubscribe
  <2>2. CASE Head(inbox).topic \in Allowed
    <3> DEFINE new == [links[conn] EXCEPT !.joined = @ \cup {Head(inbox).topic}]
    <3>1. links[conn] \in LinkRow /\ conn \in Connections
      BY <1>1, <1>6 DEF HandleSubscribe
    <3>2. /\ new \in LinkRow /\ new.row = links[conn].row /\ new.age = links[conn].age
          /\ new.pc = links[conn].pc
      BY <2>2, <3>1 DEF LinkRow
    <3>3. links' = [links EXCEPT ![conn] = new]
      BY <1>6, <2>2 DEF HandleSubscribe
    <3> HIDE DEF new
    <3> QED  BY <1>2, <3>1, <3>2, <3>3
  <2> QED  BY <2>1, <2>2
<1>7. CASE Age
  <2>1. ASSUME NEW c \in Connections, links'[c].row = "closed" PROVE links'[c] = links[c]
    <3>1. links[c] \in LinkRow
      BY <1>1
    <3>2. CASE c \in Aging
      <4>1. links'[c] = [links[c] EXCEPT !.age = @ + 1] /\ links[c].row = "open"
        BY <1>7, <3>2 DEF Age, Aging
      <4> QED  BY <2>1, <3>1, <4>1 DEF LinkRow
    <3>3. CASE c \notin Aging
      BY <1>7, <3>3 DEF Age
    <3> QED  BY <3>2, <3>3
  <2> QED  BY <2>1
<1>8. ASSUME NEW c \in Connections, Stream(c) PROVE ClosedIsGone'
  <2>1. PICK new \in LinkRow :
            /\ links' = [links EXCEPT ![c] = new]
            /\ new.age = links[c].age
            /\ new.row = "closed" => new.pc = "gone" \/ links[c].row = "closed"
    BY <1>1, <1>8, StreamWrites
  <2>2. links[c].pc # "gone"
    BY <1>1, <1>8, StreamWrites
  <2> QED  BY <1>2, <2>1, <2>2
<1>9. ASSUME NEW c \in Connections, Reap(c) PROVE ClosedIsGone'
  <2> DEFINE new == [links[c] EXCEPT !.row = "closed"]
  <2>1. links[c] \in LinkRow /\ links[c].age = 2 /\ links' = [links EXCEPT ![c] = new]
    BY <1>1, <1>9 DEF Reap
  <2>2. new \in LinkRow /\ new.age = 2
    BY <2>1 DEF LinkRow
  <2> QED  BY <1>2, <2>1, <2>2
<1>10. CASE UNCHANGED links
  BY <1>10
<1> QED  BY <1>3, <1>5, <1>6, <1>7, <1>8, <1>9, <1>10
         DEF ConsNext, Iterate, Serve, GetToken, TokenRefused, DialFails, Backoff,
             PublishEvent, HandleReplay, SendRow, SendLive, SsePump, SseSend, consVars, netVars

(* realtime_sse, jobs.py ReapConnections: a row says closed only when its   *)
(* connection is over, or is two lifetimes old.                             *)
THEOREM ConsumerClosedIsGone == ConsSpec => []ClosedIsGone
<1>1. ConsInit => ClosedIsGone
  BY DEF ConsInit, ClosedIsGone, NoLink
<1>2. ReadInv /\ ClosedIsGone /\ [ConsNext]_consVars => (ReadInv /\ ClosedIsGone)'
  BY ReadStep, ClosedStep
<1> QED  BY <1>1, <1>2, ReadInit, PTL DEF ConsSpec
=============================================================================
