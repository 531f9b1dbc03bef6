------------------------------ MODULE Delivery -------------------------------
(***************************************************************************)
(* From publish to a consumer that wants no gaps, on one topic: the event  *)
(* store and its retention (app/jobs.py, PruneEvents), live delivery       *)
(* through the connection's bounded queue (realtime/__init__.py and the    *)
(* wire library's Peer), replay in pages (app/services/replay.py,          *)
(* RealtimeSession._do_replay), and the consumer docs/ARCHITECTURE.md      *)
(* section 3 describes: it records the last id it processed and, on        *)
(* reconnect, replays from there before it trusts the live stream.         *)
(*                                                                         *)
(* Event ids are 1..N in the order they are minted.  A publish mints its   *)
(* id before its first await (domain/events.py), so concurrent publishes   *)
(* store and fan out their ids in any order.                               *)
(***************************************************************************)
EXTENDS Naturals, Sequences, FiniteSets, Functions

CONSTANTS N,               \* bound: the events published
          QueueCap,        \* config.per_connection_queue
          ReplayLimit,           \* config.replay_max_events
          MaxDisconnects   \* bound on lost connections

ASSUME DeliveryAssumption ==
    /\ N \in Nat /\ MaxDisconnects \in Nat
    /\ QueueCap \in Nat \ {0} /\ ReplayLimit \in Nat \ {0}

None == 0     \* no id: ids start at 1
EventIds == 1..N

VARIABLES stored,       \* the events table
          tardy,        \* history: ids stored or fanned out after a greater one
          ever,         \* history: ids ever stored
          fanned,       \* ids handed to the hub
          queue,        \* the peer's queue of live frames
          dropped,      \* history: live frames the queue has shed
          rp,           \* where the session's _do_replay awaits
          since,        \* the replay frame's cursor
          oldest,       \* what its first query returned
          page,         \* rows still to send, in ascending order
          answer,       \* the replay_done frame it will send
          link,         \* the consumer: down, replaying or live
          aside,        \* live frames it set aside until replay_done
          lastId,       \* the last id it processed
          processed,    \* history: the ids it processed
          disconnects   \* connections lost so far

storeVars == <<stored, tardy, ever, fanned>>
liveVars == <<queue, dropped>>
replayVars == <<rp, since, oldest, page, answer>>
consumerVars == <<link, aside, lastId, processed>>
vars == <<storeVars, liveVars, replayVars, consumerVars, disconnects>>

NoAnswer == [truncated |-> FALSE, next |-> None]

Least(S) == CHOOSE id \in S : \A x \in S : id <= x
Greatest(S) == CHOOSE id \in S : \A x \in S : x <= id

\* The first n ids of a set: order_by("id").limit(n).
First(n, S) == {id \in S : Cardinality({x \in S : x < id}) < n}

-----------------------------------------------------------------------------
Init == /\ stored = {} /\ tardy = {} /\ ever = {} /\ fanned = {}
        /\ queue = <<>> /\ dropped = {}
        /\ rp = "idle" /\ since = None /\ oldest = None /\ page = {}
        /\ answer = NoAnswer
        /\ link = "down" /\ aside = <<>> /\ lastId = None /\ processed = {}
        /\ disconnects = 0

-----------------------------------------------------------------------------
(* The publishers.                                                         *)

Overtaken(id, others) == IF \E x \in others : x > id THEN tardy \cup {id} ELSE tardy

Store(id) ==
    /\ id \notin ever
    /\ stored' = stored \cup {id}
    /\ ever' = ever \cup {id}
    /\ tardy' = Overtaken(id, ever)
    /\ UNCHANGED <<fanned, liveVars, replayVars, consumerVars, disconnects>>

\* The peer's queue, overflow DROP_OLDEST.
Enqueue(id) ==
    IF Len(queue) = QueueCap
    THEN /\ queue' = Append(Tail(queue), id)
         /\ dropped' = dropped \cup {Head(queue)}
    ELSE queue' = Append(queue, id) /\ UNCHANGED dropped

\* A connected session is a member of the topic.
Fanout(id) ==
    /\ id \in ever \ fanned
    /\ fanned' = fanned \cup {id}
    /\ tardy' = Overtaken(id, fanned)
    /\ IF link = "down" THEN UNCHANGED liveVars ELSE Enqueue(id)
    /\ UNCHANGED <<stored, ever, replayVars, consumerVars, disconnects>>

\* PruneEvents: all rows older than the cutoff.  No publish is as slow as
\* the retention time, so what is older has been fanned out.
PruneEvents ==
    /\ \E cutoff \in stored :
          /\ 1..cutoff \subseteq fanned
          /\ stored' = stored \ (1..cutoff)
    /\ UNCHANGED <<tardy, ever, fanned, liveVars, replayVars,
                   consumerVars, disconnects>>

-----------------------------------------------------------------------------
(* The session: _do_replay and the peer's writer share the socket.         *)

QueryOldest ==
    /\ rp = "oldest"
    /\ oldest' = IF stored = {} THEN None ELSE Least(stored)
    /\ rp' = "rows"
    /\ UNCHANGED <<storeVars, liveVars, since, page, answer, consumerVars,
                   disconnects>>

Newer == {id \in stored : id > since}

\* Mutants: retention is not looked at; next_since is the first row of the
\* next page.
AnswerIgnoresRetention(rows) ==
    [truncated |-> rows # Newer,
     next |-> IF rows # Newer THEN Greatest(rows) ELSE None]

AnswerSkips(rows) ==
    [truncated |-> (since # None /\ oldest # None /\ since < oldest)
                      \/ rows # Newer,
     next |-> IF rows # Newer THEN Least(Newer \ rows) ELSE None]

\* What replay_done will say after these rows; there is one more to find when
\* the query for Limit + 1 rows returns them all.
Answer(rows) ==
    [truncated |-> (since # None /\ oldest # None /\ since < oldest)
                      \/ rows # Newer,
     next |-> IF rows # Newer THEN Greatest(rows) ELSE None]

QueryRows ==
    /\ rp = "rows"
    /\ LET rows == First(ReplayLimit, Newer)
       IN  page' = rows /\ answer' = Answer(rows)
    /\ rp' = "send"
    /\ since' = None /\ oldest' = None
    /\ UNCHANGED <<storeVars, liveVars, consumerVars, disconnects>>

\* The consumer processes one event and records its id.
Process(id) == lastId' = id /\ processed' = processed \cup {id}

SendReplayed ==
    /\ rp = "send"
    /\ page # {}
    /\ page' = page \ {Least(page)}
    /\ Process(Least(page))
    /\ UNCHANGED <<storeVars, liveVars, rp, since, oldest, answer, link, aside,
                   disconnects>>

\* Mutant: the frames set aside during a replay are thrown away.
SendDoneForgets ==
    /\ rp = "send"
    /\ page = {}
    /\ since' = answer.next
    /\ answer' = NoAnswer
    /\ IF answer.next # None
       THEN /\ rp' = "oldest"
            /\ UNCHANGED <<link, aside, lastId, processed>>
       ELSE /\ rp' = "idle" /\ link' = "live" /\ aside' = <<>>
            /\ UNCHANGED <<lastId, processed>>
    /\ UNCHANGED <<storeVars, liveVars, oldest, page, disconnects>>

\* replay_done: the consumer asks for the next page, or trusts the live
\* stream from here, beginning with the frames it set aside.
SendDone ==
    /\ rp = "send"
    /\ page = {}
    /\ since' = answer.next
    /\ answer' = NoAnswer
    /\ IF answer.next # None
       THEN /\ rp' = "oldest"
            /\ UNCHANGED <<link, aside, lastId, processed>>
       ELSE /\ rp' = "idle" /\ link' = "live" /\ aside' = <<>>
            /\ lastId' = IF aside = <<>> THEN lastId ELSE aside[Len(aside)]
            /\ processed' = processed \cup Range(aside)
    /\ UNCHANGED <<storeVars, liveVars, oldest, page, disconnects>>

\* The peer's writer task sends a live frame.
SendFrame ==
    /\ queue # <<>>
    /\ queue' = Tail(queue)
    /\ IF link = "live"
       THEN Process(Head(queue)) /\ UNCHANGED aside
       ELSE /\ aside' = Append(aside, Head(queue))
            /\ UNCHANGED <<lastId, processed>>
    /\ UNCHANGED <<storeVars, dropped, replayVars, link, disconnects>>

-----------------------------------------------------------------------------
(* The connection.                                                         *)

\* connect, subscribe, then replay since the last id processed.
Connect ==
    /\ link = "down"
    /\ link' = "replaying"
    /\ rp' = "oldest"
    /\ since' = lastId
    /\ UNCHANGED <<storeVars, liveVars, oldest, page, answer, aside, lastId,
                   processed, disconnects>>

\* The connection is lost, with everything queued for it.
Disconnect ==
    /\ link # "down"
    /\ disconnects < MaxDisconnects
    /\ disconnects' = disconnects + 1
    /\ link' = "down"
    /\ rp' = "idle" /\ since' = None /\ oldest' = None /\ page' = {}
    /\ answer' = NoAnswer
    /\ queue' = <<>> /\ aside' = <<>>
    /\ UNCHANGED <<storeVars, dropped, lastId, processed>>

-----------------------------------------------------------------------------
Publish == \E id \in EventIds : Store(id) \/ Fanout(id)

ServeReplay == QueryOldest \/ QueryRows \/ SendReplayed \/ SendDone

Next == Publish \/ PruneEvents \/ ServeReplay \/ SendFrame \/ Connect \/ Disconnect

\* Publishes under way go on, the session and the peer's writer run, and the
\* consumer reconnects.
DeliveryFairness ==
    /\ \A id \in EventIds : WF_vars(Fanout(id))
    /\ WF_vars(ServeReplay) /\ WF_vars(SendFrame) /\ WF_vars(Connect)

Spec == Init /\ [][Next]_vars /\ DeliveryFairness

-----------------------------------------------------------------------------
(* The shape of the state. *)
TypeOK ==
    /\ stored \subseteq ever /\ tardy \subseteq ever /\ fanned \subseteq ever
    /\ ever \subseteq EventIds
    /\ queue \in Seq(EventIds) /\ Len(queue) <= QueueCap
    /\ dropped \subseteq fanned
    /\ rp \in {"idle", "oldest", "rows", "send"}
    /\ since \in 0..N /\ oldest \in 0..N /\ lastId \in 0..N
    /\ page \subseteq ever /\ Cardinality(page) <= ReplayLimit
    /\ answer \in [truncated : BOOLEAN, next : 0..N]
    /\ link \in {"down", "replaying", "live"}
    /\ (link = "replaying") <=> (rp # "idle")
    /\ aside \in Seq(EventIds)
    /\ processed \subseteq ever
    /\ disconnects \in 0..MaxDisconnects

\* The consumer has replayed, and nothing is on its way to it.
CaughtUp == link = "live" /\ queue = <<>> /\ ever = fanned

(* docs/ARCHITECTURE.md section 3, README Delivery semantics: a consumer    *)
(* that replays from its last id after every reconnect has processed, when  *)
(* it is caught up, every event the store holds, whatever disconnects,      *)
(* pages and live frames during a replay did; except events its queue shed  *)
(* and events stored or fanned out after one with a greater id.            *)
MissedExplained ==
    CaughtUp => stored \subseteq processed \cup dropped \cup tardy

(* replay.py:7-11: a replay that reads its rows when events after its       *)
(* cursor are already gone says truncated, provided the oldest row it asked *)
(* for first is still there (when everything is gone, or retention runs     *)
(* between the two queries, it may not say so).                            *)
TruncationIsTold ==
    [][(/\ rp = "rows" /\ rp' = "send"
        /\ since # None /\ oldest \in stored
        /\ \E id \in ever \ stored : id > since)
          => answer'.truncated]_vars

(* A consumer that stays connected processes in the end every event the     *)
(* store keeps, unless its queue sheds it or it is stored out of order.     *)
EventuallyProcessed == <>[](stored \subseteq processed \cup dropped \cup tardy)
=============================================================================
