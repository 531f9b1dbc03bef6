----------------------------- MODULE PyConsumer ------------------------------
(***************************************************************************)
(* Consuming with the Python SDK (sdk/python/beacn.py) over several        *)
(* topics: Beacn.subscribe over the SSE endpoint (routes/api/realtime.py)  *)
(* and AsyncBeacn.subscribe over the WebSocket, with their reconnections,  *)
(* the one last id all topics share, and what the server keeps of a        *)
(* connection: its memberships in the hub, its queues and its row.         *)
(*                                                                         *)
(* Events are published, stored and fanned out in the order of their ids   *)
(* here; Delivery has the publishes that overtake each other, Session the  *)
(* rest of a WebSocket session's life.                                     *)
(***************************************************************************)
EXTENDS Naturals, Sequences, FiniteSets, Functions

CONSTANTS Wanted,         \* the topics asked for, a sequence
          Allowed,        \* those the grant authorizes
          MaxEvents,      \* bound: events published
          MaxStreamed,    \* bound: events published, over SSE
          Capacity,       \* config.per_connection_queue
          PageSize,       \* config.replay_max_events
          MaxConnections, \* bound: connections opened
          MaxFailures     \* bound: tokens and connections that fail

ASSUME PyConsumerAssumption ==
    /\ Wanted \in Seq(Range(Wanted)) /\ Allowed \subseteq Range(Wanted)
    /\ MaxEvents \in Nat /\ MaxStreamed \in 0..MaxEvents
    /\ MaxConnections \in Nat /\ MaxFailures \in Nat
    /\ Capacity \in Nat \ {0} /\ PageSize \in Nat \ {0}

NoId == 0
Ids == 1..MaxEvents
Connections == 1..MaxConnections

VARIABLES mode,        \* "sse" (Beacn) or "ws" (AsyncBeacn)
          reader,      \* the iterator: its step, its token, its last id, the last id
                      \* its connection began with
          got,         \* the ids it has yielded
          excused,     \* history: ids this design does not promise, see Excuse
          log,         \* the topic of each event published
          conn,        \* the connection in use, 0 when there is none
          links,       \* the connections as the server sees them
          inbox,       \* frames the server has not handled (ws)
          rows,        \* replay rows it has still to send, in order (ws)
          outbox, sink, \* the peer's queue and, for sse, the sink's
          failures

netVars == <<conn, links, inbox, rows, outbox, sink>>
consVars == <<mode, reader, got, excused, log, netVars, failures>>

NoLink == [pc |-> "none", joined |-> {}, next |-> 1, row |-> "none", age |-> 0]

ConsInit ==
    /\ mode \in {"sse", "ws"}
    /\ reader = [pc |-> "token", token |-> FALSE, last |-> NoId, since |-> NoId]
    /\ got = {} /\ excused = {}
    /\ log = <<>>
    /\ conn = 0
    /\ links = [c \in Connections |-> NoLink]
    /\ inbox = <<>> /\ rows = {} /\ outbox = <<>> /\ sink = <<>>
    /\ failures = 0

Published == {id \in DOMAIN log : log[id] \in Allowed}

Step(pc) == reader' = [reader EXCEPT !.pc = pc]

-----------------------------------------------------------------------------
(* The iterator.                                                           *)

Reading == reader.pc = "reading"
Over == reader.pc \in {"returned", "raised"}

GetToken ==
    /\ reader.pc = "token"
    /\ reader' = [reader EXCEPT !.pc = "dial", !.token = TRUE]
    /\ UNCHANGED <<mode, got, excused, log, netVars, failures>>

\* The first token must come, and with the asynchronous client every one;
\* Beacn goes on with the one it has.
TokenRefused ==
    /\ reader.pc = "token"
    /\ failures < MaxFailures /\ failures' = failures + 1
    /\ Step(IF mode = "sse" /\ reader.token THEN "dial" ELSE "raised")
    /\ UNCHANGED <<mode, got, excused, log, netVars>>

Subscribes == [i \in DOMAIN Wanted |-> [type |-> "subscribe", topic |-> Wanted[i], since |-> NoId]]
Replays(since) ==
    IF since = NoId THEN <<>>
    ELSE [i \in DOMAIN Wanted |-> [type |-> "replay", topic |-> Wanted[i], since |-> since]]

\* Mutant: it replays before it subscribes.
FramesReplayFirst(since) == Replays(since) \o Subscribes

\* After the welcome: subscribe to every topic, then replay every topic.
Frames(since) == Subscribes \o Replays(since)

\* What a new connection will never bring: over ws, whatever came before the
\* cursor, and everything when there is none yet.
Excuse(since) ==
    IF mode = "sse" THEN {}
    ELSE {id \in Published : since = NoId \/ id <= since}

\* The SSE endpoint is sent the last id in a header, and does not read it.
DialAnswered ==
    /\ reader.pc = "dial" /\ conn < MaxConnections
    /\ conn' = conn + 1
    /\ links' = [links EXCEPT ![conn + 1].pc = IF mode = "sse" THEN "join" ELSE "serve",
                              ![conn + 1].row = IF mode = "sse" THEN "none" ELSE "open"]
    /\ inbox' = IF mode = "sse" THEN <<>> ELSE Frames(reader.last)
    /\ excused' = excused \cup Excuse(reader.last)
    /\ reader' = [reader EXCEPT !.pc = "reading", !.since = reader.last]
    /\ UNCHANGED <<mode, got, log, rows, outbox, sink, failures>>

\* Refused or unreachable: an OSError, but for the handshake of websockets.
DialFails ==
    /\ reader.pc = "dial"
    /\ failures < MaxFailures /\ failures' = failures + 1
    /\ \/ Step("backoff")
       \/ mode = "ws" /\ Step("raised")
    /\ UNCHANGED <<mode, got, excused, log, netVars>>

Backoff ==
    /\ reader.pc = "backoff"
    /\ Step("token")
    /\ UNCHANGED <<mode, got, excused, log, netVars, failures>>

\* The event's id is the last id even if a greater one was: rows of a replay
\* and live frames come as they come.
YieldEvent(id) ==
    /\ reader' = [reader EXCEPT !.last = id]
    /\ got' = got \cup {id}

\* The client is gone.  A WebSocket session then ends (Session, CleanEnd);
\* of an SSE stream the server learns when it next writes to it.
Hangs(pc) ==
    /\ Step(pc)
    /\ links' = [links EXCEPT ![conn] =
                   IF mode = "ws"
                   THEN [@ EXCEPT !.pc = "gone", !.joined = {}, !.row = "closed"]
                   ELSE IF @.pc = "stream" THEN [@ EXCEPT !.pc = "leave"]
                   ELSE @]
    /\ excused' = IF mode = "ws" THEN excused
                  ELSE excused \cup Range(outbox) \cup Range(sink)
    /\ inbox' = <<>> /\ rows' = {} /\ outbox' = <<>> /\ sink' = <<>>

\* A reset, or any close of a WebSocket, is followed by a reconnection; a
\* stream cut or closed by the server ends the iteration.
Disconnected ==
    /\ Reading
    /\ failures < MaxFailures /\ failures' = failures + 1
    /\ \/ Hangs("backoff")
       \/ mode = "sse" /\ \E end \in {"returned", "raised"} : Hangs(end)
    /\ UNCHANGED <<mode, got, log, conn>>

-----------------------------------------------------------------------------
(* The server.                                                             *)

Here == links[conn]

\* What the sink drops.
Shed(q, id) == IF Len(q) < Capacity THEN {} ELSE {id}

\* A full queue gives up its oldest frame (ws) or, in the sink, the new one.
Newest(q, id) == IF Len(q) < Capacity THEN Append(q, id) ELSE q
Latest(q, id) == IF Len(q) < Capacity THEN Append(q, id) ELSE Append(Tail(q), id)

\* Stored, then broadcast to the members of the topic.
PublishEvent(topic) ==
    /\ Len(log) < IF mode = "sse" THEN MaxStreamed ELSE MaxEvents
    /\ log' = Append(log, topic)
    /\ LET id == Len(log')
           member == Reading /\ topic \in Here.joined
       IN  /\ outbox' = IF member THEN Latest(outbox, id) ELSE outbox
           /\ excused' = excused
                \cup (IF member /\ Len(outbox) = Capacity THEN {Head(outbox)} ELSE {})
                \cup (IF ~member /\ (mode = "sse" \/ (Reading /\ reader.since = NoId))
                      THEN {id} ELSE {})
    /\ UNCHANGED <<mode, reader, got, conn, links, inbox, rows, sink, failures>>

\* WebSocket frames, in order.  A topic refused is an error frame, which ends
\* the iteration.
HandleSubscribe ==
    /\ mode = "ws" /\ Reading /\ rows = {}
    /\ inbox # <<>> /\ Head(inbox).type = "subscribe"
    /\ IF Head(inbox).topic \in Allowed
       THEN /\ links' = [links EXCEPT ![conn].joined = @ \cup {Head(inbox).topic}]
            /\ inbox' = Tail(inbox)
            /\ UNCHANGED <<reader, excused, rows, outbox, sink>>
       ELSE Hangs("raised")
    /\ UNCHANGED <<mode, got, log, conn, failures>>

\* order_by("id").limit(...).
FirstPage(ids) == {id \in ids : Cardinality({x \in ids : x < id}) < PageSize}

\* The replay service's page; replay_done is not read by the client.
HandleReplay ==
    /\ mode = "ws" /\ Reading /\ rows = {}
    /\ inbox # <<>> /\ Head(inbox).type = "replay"
    /\ LET newer == {id \in DOMAIN log : /\ id > Head(inbox).since
                                         /\ log[id] = Head(inbox).topic}
       IN  /\ rows' = FirstPage(newer)
           /\ excused' = excused \cup (newer \ FirstPage(newer))
    /\ inbox' = Tail(inbox)
    /\ UNCHANGED <<mode, reader, got, log, conn, links, outbox, sink, failures>>

SendRow ==
    /\ Reading /\ rows # {}
    /\ \E id \in rows :
          /\ \A x \in rows : id <= x
          /\ rows' = rows \ {id}
          /\ YieldEvent(id)
    /\ UNCHANGED <<mode, excused, log, conn, links, inbox, outbox, sink, failures>>

SendLive ==
    /\ mode = "ws" /\ Reading /\ outbox # <<>>
    /\ outbox' = Tail(outbox)
    /\ YieldEvent(Head(outbox))
    /\ UNCHANGED <<mode, excused, log, conn, links, inbox, rows, sink, failures>>

\* realtime_sse joins the topics in order, without those that are refused;
\* then it opens the row, and answers.
SseJoin(c) ==
    /\ links[c].pc = "join"
    /\ \/ /\ links[c].next > Len(Wanted)
          /\ links' = [links EXCEPT ![c].pc = "row"]
       \/ /\ links[c].next <= Len(Wanted)
          /\ links' = [links EXCEPT ![c].joined = @ \cup ({Wanted[links[c].next]} \cap Allowed),
                                    ![c].next = @ + 1]
    /\ UNCHANGED <<mode, reader, got, excused, log, conn, inbox, rows, outbox, sink, failures>>

\* A row that cannot be written is done without.
SseOpenRow(c) ==
    /\ links[c].pc = "row"
    /\ \E row \in {"open", "none"} :
          links' = [links EXCEPT ![c].row = row, ![c].pc = "answer"]
    /\ UNCHANGED <<mode, reader, got, excused, log, conn, inbox, rows, outbox, sink, failures>>

\* The response is iterated, unless the client is gone and it never is.
SseAnswer(c) ==
    /\ links[c].pc = "answer"
    /\ IF c = conn /\ Reading
       THEN links' = [links EXCEPT ![c].pc = "stream"]
       ELSE \E pc \in {"leave", "orphan"} : links' = [links EXCEPT ![c].pc = pc]
    /\ UNCHANGED <<mode, reader, got, excused, log, conn, inbox, rows, outbox, sink, failures>>

\* The peer's writer hands a frame to the sink, which drops it when full.
SsePump ==
    /\ mode = "sse" /\ Reading /\ outbox # <<>>
    /\ outbox' = Tail(outbox)
    /\ sink' = Newest(sink, Head(outbox))
    /\ excused' = excused \cup Shed(sink, Head(outbox))
    /\ UNCHANGED <<mode, reader, got, log, conn, links, inbox, rows, failures>>

SseSend ==
    /\ Reading /\ Here.pc = "stream" /\ sink # <<>>
    /\ sink' = Tail(sink)
    /\ YieldEvent(Head(sink))
    /\ UNCHANGED <<mode, excused, log, conn, links, inbox, rows, outbox, failures>>

\* Mutant: only a stream that ends on its own cleans up.
SseLeaveClosed(c) ==
    /\ links[c].pc = "leave" /\ c = conn /\ Reading
    /\ links' = [links EXCEPT ![c].joined = {}, ![c].pc = "close"]
    /\ UNCHANGED <<mode, reader, got, excused, log, conn, inbox, rows, outbox, sink, failures>>

\* The generator's finally clause.
SseLeave(c) ==
    /\ links[c].pc = "leave"
    /\ IF links[c].joined = {}
       THEN links' = [links EXCEPT ![c].pc = "close"]
       ELSE \E t \in links[c].joined : links' = [links EXCEPT ![c].joined = @ \ {t}]
    /\ UNCHANGED <<mode, reader, got, excused, log, conn, inbox, rows, outbox, sink, failures>>

SseCloseRow(c) ==
    /\ links[c].pc = "close"
    /\ \E row \in {"closed", links[c].row} :
          links' = [links EXCEPT ![c].pc = "gone",
                                 ![c].row = IF @ = "none" THEN "none" ELSE row]
    /\ UNCHANGED <<mode, reader, got, excused, log, conn, inbox, rows, outbox, sink, failures>>

\* connection_max_seconds pass: a WebSocket session has ended by then
\* (Session), a stream has not.
Aging == {c \in Connections : links[c].row = "open" /\ links[c].age < 2}

Age ==
    /\ mode = "sse" /\ Aging # {}
    /\ links' = [c \in Connections |->
                    IF c \in Aging THEN [links[c] EXCEPT !.age = @ + 1] ELSE links[c]]
    /\ UNCHANGED <<mode, reader, got, excused, log, conn, inbox, rows, outbox, sink, failures>>

\* ReapConnections: open rows two lifetimes old.
Reap(c) ==
    /\ links[c].row = "open" /\ links[c].age = 2
    /\ links' = [links EXCEPT ![c].row = "closed"]
    /\ UNCHANGED <<mode, reader, got, excused, log, conn, inbox, rows, outbox, sink, failures>>

Iterate == GetToken \/ DialAnswered \/ Backoff
Serve == HandleSubscribe \/ HandleReplay \/ SendRow
Stream(c) == SseJoin(c) \/ SseOpenRow(c) \/ SseAnswer(c) \/ SseLeave(c) \/ SseCloseRow(c)

ConsNext ==
    \/ Iterate \/ TokenRefused \/ DialFails \/ Disconnected
    \/ \E t \in Range(Wanted) : PublishEvent(t)
    \/ Serve \/ SendLive \/ SsePump \/ SseSend
    \/ Age
    \/ \E c \in Connections : Stream(c) \/ Reap(c)

\* The iterator is iterated, the server's tasks run, time passes and the
\* reaper is scheduled; failures are not owed.
ConsFairness ==
    /\ WF_consVars(Iterate) /\ WF_consVars(Serve)
    /\ WF_consVars(SendLive) /\ WF_consVars(SsePump) /\ WF_consVars(SseSend)
    /\ WF_consVars(Age)
    /\ \A c \in Connections : WF_consVars(Stream(c)) /\ WF_consVars(Reap(c))

-----------------------------------------------------------------------------
ConsTypeOK ==
    /\ mode \in {"sse", "ws"}
    /\ reader \in [pc : {"token", "dial", "reading", "backoff", "returned", "raised"},
                   token : BOOLEAN, last : 0..MaxEvents, since : 0..MaxEvents]
    /\ got \subseteq DOMAIN log /\ excused \subseteq DOMAIN log
    /\ Len(log) <= MaxEvents
    /\ conn \in 0..MaxConnections /\ (Reading => conn > 0)
    /\ \A c \in Connections :
          /\ links[c].joined \subseteq Allowed
          /\ links[c].row \in {"none", "open", "closed"} /\ links[c].age \in 0..2
    /\ Len(outbox) <= Capacity /\ Len(sink) <= Capacity /\ Cardinality(rows) <= PageSize

\* The bound is used up.
OutOfConnections == reader.pc = "dial" /\ conn = MaxConnections

\* What the connection in use has still to bring.
Awaiting(id) ==
    \/ id \in rows \cup Range(outbox) \cup Range(sink)
    \/ \E i \in DOMAIN inbox : /\ inbox[i].type = "replay"
                               /\ inbox[i].topic = log[id] /\ inbox[i].since < id

\* Not lost, as far as a connection answers for it.
Traced(id) ==
    (Reading \/ mode = "sse") => id \in got \cup excused \/ Awaiting(id)

(* beacn.py, the subscribe loops; realtime_sse; session.py _do_replay: at   *)
(* every moment of a connection, and over SSE between two, each event that  *)
(* was published is yielded, given up for a reason, or somewhere on its     *)
(* way: in one of the queues, among the rows of a replay, or behind a       *)
(* request for one.                                                        *)
NothingLost == \A id \in Published : Traced(id)

(* What the SDK's consumers are owed: an event of a topic they may read is  *)
(* yielded, or it was shed by a full queue, or it is one of those this      *)
(* design gives up: over SSE what is published or on its way while there is *)
(* no connection; over the WebSocket what precedes the last id of any topic *)
(* when it reconnects, lies past the first page of a replay, or precedes    *)
(* the first event.  Until then it is on its way.                          *)
YieldedOrExcused ==
    /\ [](\A id \in Published : Traced(id))
    /\ <>[](Published \subseteq got \cup excused \/ Over \/ OutOfConnections)

(* api/realtime.py realtime_sse, jobs.py ReapConnections: a row says closed *)
(* only when its connection is, or is two lifetimes old: nothing refreshes  *)
(* the heartbeat of a stream.                                              *)
ClosedIsGone ==
    \A c \in Connections :
        (links[c].row = "closed" /\ links[c].age < 2) => links[c].pc = "gone"

(* A connection that is over leaves no membership and no open row behind,   *)
(* but for an SSE response nobody ever iterated, whose memberships stay; its *)
(* row is closed too, and no row before its time.                          *)
LeavesNothing ==
    /\ <>[](\A c \in Connections :
              /\ links[c].pc \in {"leave", "close", "gone"} => links[c].joined = {}
              /\ links[c].row = "open" => c = conn /\ ~Over)
    /\ []ClosedIsGone
=============================================================================
