------------------------------ MODULE TsClient ------------------------------
(***************************************************************************)
(* The TypeScript client, class Beacn (sdk/typescript/src/beacn.ts):       *)
(* connect and disconnect, the reconnect timer, the requests that wait for *)
(* an answer, and the pass that subscribes again after every welcome.      *)
(*                                                                         *)
(* JavaScript runs one task at a time.  A call of the application, an      *)
(* event of a socket or a timer is a task; what it settles is queued in    *)
(* `jobs`, and the continuations run before the next task.                 *)
(*                                                                         *)
(* Nothing keeps the client to one socket: _open may be under way several  *)
(* times, and this.ws is the one dialled last.                             *)
(***************************************************************************)
EXTENDS Naturals, Sequences, SequencesExt

CONSTANTS Channels,              \* the channels the application made, in order
          MaxReconnectAttempts,  \* opts.maxReconnectAttempts
          MaxSockets,            \* bound on the calls of _open
          MaxUpsets              \* bound on the application's calls and the
                                 \* failures outside the client, together

Topics == ToSet(Channels)
Sockets == 1..MaxSockets
Keys == {"sub", "unsub", "replay"} \X Topics    \* the keys of this.pending

\* Who waits for a promise: a call of the application, the resubscribe pass
\* that a socket's welcome started, or the reconnect timer's callback.
AppCall(n) == <<"call", n>>
Pass(s) == <<"pass", s>>
Timer == <<"timer">>
NoOne == <<"none">>
Waiters == {AppCall(n) : n \in 1..MaxUpsets} \cup {Pass(s) : s \in Sockets}

ASSUME TsClientAssumption ==
    /\ Channels \in Seq(Topics) /\ Channels # <<>>
    /\ MaxReconnectAttempts \in Nat /\ MaxUpsets \in Nat
    /\ MaxSockets \in Nat \ {0}

VARIABLES state,         \* this._state
          closedByUser,  \* this.closedByUser
          attempts,      \* this.attempts
          heartbeat,     \* this.heartbeatTimer is running
          ws,            \* this.ws, or 0
          sock,          \* each call of _open: its token, then its socket
          opener,        \* who waits for that call's promise, until it is settled
          welcomed,      \* open sockets that received welcome
          timers,        \* reconnect timers that are running
          wire,          \* requests sent on a socket and not yet answered
          granted,       \* the server's subscriptions of each socket
          pending,       \* this.pending
          deadlines,     \* the ten-second timers of requests
          subscribed,    \* channels with subscribed set
          seen,          \* topics with a lastEventId
          calls,         \* the application's calls
          pass,          \* the resubscribe pass of each socket
          jobs,          \* settled promises whose continuations have to run
          faults,        \* failures so far
          mishaps        \* history: what may explain a lost request or socket

connVars == <<state, closedByUser, attempts, sock, opener>>
sockVars == <<heartbeat, ws, welcomed, timers, granted>>
reqVars == <<wire, pending, deadlines>>
appVars == <<subscribed, seen, calls, pass>>
vars == <<connVars, sockVars, reqVars, appVars, jobs, faults, mishaps>>

Live == {"token", "dialing", "open", "closing"}
SocketStates == Live \cup {"none", "closed"}
ConnectionStates ==
    {"CONNECTING", "CONNECTED", "RECONNECTING", "DISCONNECTED", "FAILED"}

\* A pass that has not begun, or has ended.
NoPass == [n |-> 0, at |-> "none"]

Settled(who, ok) == [who |-> who, ok |-> ok]
Idle == jobs = <<>>
Quiet == Len(calls) + faults = MaxUpsets
Fault == ~Quiet /\ faults' = faults + 1

-----------------------------------------------------------------------------
\* A client that has done nothing yet, or one that is connected, has
\* subscribed to all its channels and has had an event on each.
Init ==
    /\ \/ /\ state = "DISCONNECTED"
          /\ heartbeat = FALSE
          /\ ws = 0
          /\ sock = [s \in Sockets |-> "none"]
          /\ welcomed = {}
          /\ subscribed = {}
          /\ seen = {}
       \/ /\ state = "CONNECTED"
          /\ heartbeat = TRUE
          /\ ws = 1
          /\ sock = [s \in Sockets |-> IF s = 1 THEN "open" ELSE "none"]
          /\ welcomed = {1}
          /\ subscribed = Topics
          /\ seen = Topics
    /\ granted = [s \in Sockets |-> IF s \in welcomed THEN subscribed ELSE {}]
    /\ closedByUser = FALSE
    /\ attempts = 0
    /\ opener = [s \in Sockets |-> NoOne]
    /\ timers = 0
    /\ wire = [s \in Sockets |-> <<>>]
    /\ pending = [k \in Keys |-> NoOne]
    /\ deadlines = {}
    /\ calls = <<>>
    /\ pass = [s \in Sockets |-> NoPass]
    /\ jobs = <<>>
    /\ faults = 0
    /\ mishaps = {}

-----------------------------------------------------------------------------
(* The private methods the handlers are made of.                           *)

\* _open, up to the token.
Open(who) ==
    /\ state' = IF attempts = 0 THEN "CONNECTING" ELSE "RECONNECTING"
    /\ \E s \in Sockets :
          /\ sock[s] = "none" /\ \A r \in 1..(s - 1) : sock[r] # "none"
          /\ sock' = [sock EXCEPT ![s] = "token"]
          /\ opener' = [opener EXCEPT ![s] = who]

\* The state becomes FAILED, and other sockets stay as they are: what one of
\* them does later may be welcome, but this.ws is the one dialled last.
GiveUp ==
    /\ state' = "FAILED"
    /\ mishaps' = mishaps \cup
          (IF \E s \in Sockets : sock'[s] \in Live THEN {"gave up"} ELSE {})

\* Mutant: the state is set before the attempts are compared with the limit.
ScheduleReconnectUnsaid ==
    /\ attempts' = attempts + 1
    /\ state' = "RECONNECTING"
    /\ IF attempts' > MaxReconnectAttempts
       THEN UNCHANGED timers
       ELSE timers' = timers + 1
    /\ UNCHANGED mishaps

ScheduleReconnect ==
    /\ attempts' = attempts + 1
    /\ IF attempts' > MaxReconnectAttempts
       THEN GiveUp /\ UNCHANGED timers
       ELSE state' = "RECONNECTING" /\ timers' = timers + 1 /\ UNCHANGED mishaps

CanSend == ws # 0 /\ sock[ws] = "open"

\* _await: the entry of an earlier request for the same key is replaced, and
\* a send that throws removes the new one.  queue: the jobs still to run.
\* An earlier request may also have lost its entry when another socket closed:
\* its answer, still to come, is then taken for the new one's.
Await(who, k, queue) ==
    /\ mishaps' = mishaps
          \cup (IF pending[k] # NoOne THEN {"overlap"} ELSE {})
          \cup (IF \E s \in Sockets : k \in ToSet(wire[s]) THEN {"crossed"} ELSE {})
    /\ IF CanSend
       THEN /\ pending' = [pending EXCEPT ![k] = who]
            /\ wire' = [wire EXCEPT ![ws] = Append(@, k)]
            /\ deadlines' = deadlines \cup {<<who, k>>}
            /\ jobs' = queue
       ELSE /\ pending' = [pending EXCEPT ![k] = NoOne]
            /\ jobs' = Append(queue, Settled(who, FALSE))
            /\ UNCHANGED <<wire, deadlines>>
    /\ UNCHANGED connVars

\* _subscribe: it connects first if the client is not connected.
Subscribe(who, t, queue) ==
    IF state = "CONNECTED"
    THEN Await(who, <<"sub", t>>, queue)
    ELSE /\ closedByUser' = FALSE
         /\ Open(who)
         /\ jobs' = queue
         /\ UNCHANGED <<attempts, reqVars, mishaps>>

\* Where _subscribe leaves its caller waiting.
Subscribing == IF state = "CONNECTED" THEN "sub" ELSE "connect"

-----------------------------------------------------------------------------
(* The application.                                                        *)

Enter(op, t, at) == calls' = Append(calls, [op |-> op, topic |-> t, at |-> at])
Me == AppCall(Len(calls) + 1)
MayCall == Idle /\ ~Quiet

Connect ==
    /\ MayCall
    /\ closedByUser' = FALSE
    /\ Open(Me)
    /\ Enter("connect", Head(Channels), "connect")
    /\ UNCHANGED <<attempts, sockVars, reqVars, subscribed, seen, pass, jobs,
                   faults, mishaps>>

Disconnect ==
    /\ MayCall
    /\ closedByUser' = TRUE
    /\ heartbeat' = FALSE
    /\ sock' = IF ws # 0 /\ sock[ws] \in {"dialing", "open"}
               THEN [sock EXCEPT ![ws] = "closing"] ELSE sock
    /\ state' = "DISCONNECTED"
    /\ mishaps' = mishaps \cup {"disconnect"}
    /\ Enter("disconnect", Head(Channels), "over")
    /\ UNCHANGED <<attempts, opener, ws, welcomed, timers, granted, reqVars,
                   subscribed, seen, pass, jobs, faults>>

ChannelSubscribe(t) ==
    /\ MayCall
    /\ Subscribe(Me, t, <<>>)
    /\ Enter("sub", t, Subscribing)
    /\ UNCHANGED <<sockVars, subscribed, seen, pass, faults>>

\* unsubscribe and replay do not connect.
ChannelRequest(op, t) ==
    /\ MayCall
    /\ Await(Me, <<op, t>>, <<>>)
    /\ Enter(op, t, op)
    /\ UNCHANGED <<sockVars, subscribed, seen, pass, faults>>

-----------------------------------------------------------------------------
(* Continuations.  A call takes the outcome of what it awaited; a pass goes *)
(* on, whatever the outcome, with the next channel that is subscribed.     *)

ResumeCall(n, ok) ==
    LET c == calls[n]
        over == calls' = [calls EXCEPT ![n].at = "over"]
    IN  /\ IF c.op = "sub" /\ c.at = "connect" /\ ok
           THEN /\ Await(AppCall(n), <<"sub", c.topic>>, Tail(jobs))
                /\ calls' = [calls EXCEPT ![n].at = "sub"]
                /\ UNCHANGED subscribed
           ELSE /\ over
                /\ subscribed' = CASE ok /\ c.op = "sub" -> subscribed \cup {c.topic}
                                   [] ok /\ c.op = "unsub" -> subscribed \ {c.topic}
                                   [] OTHER -> subscribed
                /\ jobs' = Tail(jobs)
                /\ UNCHANGED <<connVars, reqVars, mishaps>>
        /\ UNCHANGED <<sockVars, seen, pass, faults>>

\* The loop of _resubscribeAll, from the channels left on.
PassOn(s, left) ==
    LET m == CHOOSE m \in left : \A j \in left : m <= j
    IN  IF left = {}
        THEN /\ pass' = [pass EXCEPT ![s] = NoPass]
             /\ jobs' = Tail(jobs)
             /\ UNCHANGED <<connVars, reqVars, mishaps>>
        ELSE /\ pass' = [pass EXCEPT ![s] = [n |-> m, at |-> Subscribing]]
             /\ Subscribe(Pass(s), Channels[m], Tail(jobs))

ChannelsAfter(n) == {m \in DOMAIN Channels : m > n /\ Channels[m] \in subscribed}

ResumePass(s, ok) ==
    LET p == pass[s]
        asks(at, op) ==
            /\ pass' = [pass EXCEPT ![s].at = at]
            /\ Await(Pass(s), <<op, Channels[p.n]>>, Tail(jobs))
    IN  /\ CASE p.at = "connect" /\ ok -> asks("sub", "sub")
             [] p.at = "sub" /\ ok /\ Channels[p.n] \in seen -> asks("replay", "replay")
             [] OTHER -> PassOn(s, ChannelsAfter(p.n))
        /\ UNCHANGED <<sockVars, subscribed, seen, calls, faults>>

\* The reconnect timer's callback catches what _open throws.
RescheduleReconnect ==
    /\ UNCHANGED <<closedByUser, sock, opener, heartbeat, ws, welcomed, granted,
                   reqVars, appVars, faults>>
    /\ ScheduleReconnect
    /\ jobs' = Tail(jobs)

RunJob ==
    /\ ~Idle
    /\ LET who == Head(jobs).who
           ok == Head(jobs).ok
       IN  \/ who = Timer /\ RescheduleReconnect
           \/ who[1] = "call" /\ ResumeCall(who[2], ok)
           \/ who[1] = "pass" /\ ResumePass(who[2], ok)

-----------------------------------------------------------------------------
(* Tokens and sockets.                                                     *)

\* The token is there: the socket is made, whatever happened meanwhile.
Dial(s) ==
    /\ Idle /\ sock[s] = "token"
    /\ sock' = [sock EXCEPT ![s] = "dialing"]
    /\ ws' = s
    /\ UNCHANGED <<state, closedByUser, attempts, opener, heartbeat, welcomed,
                   timers, granted, reqVars, appVars, jobs, faults, mishaps>>

TokenFails(s) ==
    /\ Idle /\ sock[s] = "token"
    /\ Fault
    /\ sock' = [sock EXCEPT ![s] = "closed"]
    /\ GiveUp
    /\ jobs' = <<Settled(opener[s], FALSE)>>
    /\ opener' = [opener EXCEPT ![s] = NoOne]
    /\ UNCHANGED <<closedByUser, attempts, sockVars, reqVars, appVars>>

\* External: the WebSocket handshake ends.
Opened(s) ==
    /\ Idle /\ sock[s] = "dialing"
    /\ sock' = [sock EXCEPT ![s] = "open"]
    /\ UNCHANGED <<state, closedByUser, attempts, opener, sockVars, reqVars,
                   appVars, jobs, faults, mishaps>>

\* onmessage, welcome.  The pass begins before connect's promise resolves;
\* the timer's callback does nothing when it does.
Welcome(s) ==
    /\ Idle /\ sock[s] = "open" /\ s \notin welcomed
    /\ welcomed' = welcomed \cup {s}
    /\ attempts' = 0
    /\ state' = "CONNECTED"
    /\ heartbeat' = TRUE
    /\ jobs' = <<Settled(Pass(s), TRUE)>>
               \o (IF opener[s] = Timer THEN <<>> ELSE <<Settled(opener[s], TRUE)>>)
    /\ opener' = [opener EXCEPT ![s] = NoOne]
    /\ UNCHANGED <<closedByUser, sock, ws, timers, granted, reqVars, appVars,
                   faults, mishaps>>

\* _settle and _reject: what an entry's promise comes to, if there is one.
Outcome(k, ok) == IF pending[k] = NoOne THEN <<>> ELSE <<Settled(pending[k], ok)>>

\* Mutant: an error rejects the subscribe of its topic only.
RejectSubscribe(t) ==
    /\ jobs' = Outcome(<<"sub", t>>, FALSE)
    /\ pending' = [pending EXCEPT ![<<"sub", t>>] = NoOne]

RejectTopic(t) ==
    /\ jobs' = Outcome(<<"sub", t>>, FALSE) \o Outcome(<<"replay", t>>, FALSE)
    /\ pending' = [pending EXCEPT ![<<"sub", t>>] = NoOne, ![<<"replay", t>>] = NoOne]

\* onmessage, an answer: the server has handled the oldest request.  A replay
\* may have sent events before.
Answer(s) ==
    /\ Idle /\ sock[s] = "open" /\ s \in welcomed /\ wire[s] # <<>>
    /\ wire' = [wire EXCEPT ![s] = Tail(@)]
    /\ LET k == Head(wire[s])
           t == k[2]
       IN  /\ granted' = CASE k[1] = "sub" -> [granted EXCEPT ![s] = @ \cup {t}]
                           [] k[1] = "unsub" -> [granted EXCEPT ![s] = @ \ {t}]
                           [] OTHER -> granted
           /\ jobs' = Outcome(k, TRUE)
           /\ pending' = [pending EXCEPT ![k] = NoOne]
           /\ seen' \in {seen} \cup (IF k[1] = "replay" THEN {seen \cup {t}} ELSE {})
    /\ UNCHANGED <<connVars, heartbeat, ws, welcomed, timers, deadlines,
                   subscribed, calls, pass, faults, mishaps>>

\* onmessage, an error that names a topic: it rejects both a subscribe and a
\* replay of the topic.
Refuse(s) ==
    /\ Idle /\ sock[s] = "open" /\ s \in welcomed /\ wire[s] # <<>>
    /\ Head(wire[s])[1] # "unsub"
    /\ Fault
    /\ wire' = [wire EXCEPT ![s] = Tail(@)]
    /\ RejectTopic(Head(wire[s])[2])
    /\ mishaps' = mishaps \cup {"refused"}
    /\ UNCHANGED <<connVars, sockVars, deadlines, appVars>>

\* onmessage, an event.
Event(s, t) ==
    /\ Idle /\ sock[s] = "open" /\ t \in granted[s]
    /\ seen' = seen \cup {t}
    /\ UNCHANGED <<connVars, sockVars, reqVars, subscribed, calls, pass, jobs,
                   faults, mishaps>>

\* onclose.  The requests of all sockets are rejected, in any order; the
\* socket's opener is rejected after them, unless the user disconnected.
OnClose(s) ==
    /\ Idle
    /\ sock' = [sock EXCEPT ![s] = "closed"]
    /\ heartbeat' = FALSE
    /\ wire' = [wire EXCEPT ![s] = <<>>]
    /\ granted' = [granted EXCEPT ![s] = {}]
    /\ pending' = [k \in Keys |-> NoOne]
    /\ \E rejected \in SetToSeqs({pending[k] : k \in Keys} \ {NoOne}) :
          LET closed == [j \in DOMAIN rejected |-> Settled(rejected[j], FALSE)]
              failed == IF closedByUser \/ s \in welcomed THEN <<>>
                        ELSE <<Settled(opener[s], FALSE)>>
          IN  jobs' = closed \o failed
    /\ IF closedByUser
       THEN state' = "DISCONNECTED" /\ UNCHANGED <<attempts, timers, mishaps>>
       ELSE ScheduleReconnect
    /\ welcomed' = welcomed \ {s}
    /\ opener' = [opener EXCEPT ![s] = NoOne]
    /\ UNCHANGED <<closedByUser, ws, deadlines, appVars>>

\* External: the server or the network ends the connection.
Lost(s) == sock[s] \in {"dialing", "open"} /\ Fault /\ OnClose(s)

\* External: a close the client asked for is complete.
Closed(s) == sock[s] = "closing" /\ OnClose(s) /\ UNCHANGED faults

-----------------------------------------------------------------------------
(* Timers.                                                                 *)

\* setTimeout in _scheduleReconnect, whose callback may find nothing to do.
ReconnectUnless(needless) ==
    /\ Idle /\ timers > 0
    /\ timers' = timers - 1
    /\ IF needless THEN UNCHANGED <<state, sock, opener>> ELSE Open(Timer)
    /\ UNCHANGED <<closedByUser, attempts, heartbeat, ws, welcomed, granted,
                   reqVars, appVars, jobs, faults, mishaps>>

\* Mutant: a socket that is open is taken for the connection lost.
ReconnectTimerOnce ==
    ReconnectUnless(closedByUser \/ \E s \in Sockets : sock[s] = "open")

ReconnectTimer == ReconnectUnless(closedByUser)

WaitsFor(who, k) ==
    IF who[1] = "call"
    THEN calls[who[2]].at = k[1]
    ELSE LET p == pass[who[2]] IN p.at = k[1] /\ Channels[p.n] = k[2]

\* setTimeout in _await.  The timer is not cancelled when its request is
\* settled: it removes whatever entry has its key, and rejects its own
\* request.  A timer that finds no entry does nothing.
Deadline(who, k) ==
    /\ Idle /\ <<who, k>> \in deadlines /\ pending[k] # NoOne
    /\ Fault
    /\ deadlines' = deadlines \ {<<who, k>>}
    /\ pending' = [pending EXCEPT ![k] = NoOne]
    /\ jobs' = IF WaitsFor(who, k) THEN <<Settled(who, FALSE)>> ELSE <<>>
    /\ mishaps' = mishaps \cup {IF pending[k] = who THEN "timeout" ELSE "overlap"}
    /\ UNCHANGED <<connVars, sockVars, wire, appVars>>

-----------------------------------------------------------------------------
Application ==
    \/ Connect
    \/ Disconnect
    \/ \E t \in Topics : ChannelSubscribe(t)
    \/ \E k \in Keys : k[1] # "sub" /\ ChannelRequest(k[1], k[2])

SocketEvent(s) ==
    \/ Dial(s) \/ TokenFails(s) \/ Opened(s) \/ Welcome(s)
    \/ Answer(s) \/ Refuse(s) \/ Lost(s) \/ Closed(s)
    \/ \E t \in Topics : Event(s, t)

Next ==
    \/ RunJob
    \/ Application
    \/ \E s \in Sockets : SocketEvent(s)
    \/ ReconnectTimer
    \/ \E d \in deadlines : Deadline(d[1], d[2])

\* Continuations run; timers fire; tokens, handshakes, welcomes, answers and
\* closes come, unless one of the bounded failures happens instead.
Fairness ==
    /\ WF_vars(RunJob)
    /\ WF_vars(ReconnectTimer)
    /\ \A s \in Sockets :
          /\ WF_vars(Dial(s)) /\ WF_vars(Opened(s)) /\ WF_vars(Welcome(s))
          /\ WF_vars(Answer(s)) /\ WF_vars(Closed(s))

Spec == Init /\ [][Next]_vars /\ Fairness

-----------------------------------------------------------------------------
TypeOK ==
    /\ state \in ConnectionStates
    /\ closedByUser \in BOOLEAN /\ heartbeat \in BOOLEAN
    /\ attempts \in Nat /\ timers \in Nat /\ faults \in 0..MaxUpsets
    /\ ws \in Sockets \cup {0}
    /\ sock \in [Sockets -> SocketStates]
    /\ opener \in [Sockets -> Waiters \cup {Timer, NoOne}]
    /\ welcomed \subseteq Sockets
    /\ wire \in [Sockets -> Seq(Keys)]
    /\ granted \in [Sockets -> SUBSET Topics]
    /\ pending \in [Keys -> Waiters \cup {NoOne}]
    /\ deadlines \subseteq Waiters \X Keys
    /\ subscribed \subseteq Topics /\ seen \subseteq Topics
    /\ calls \in Seq([op : {"connect", "disconnect", "sub", "unsub", "replay"},
                      topic : Topics,
                      at : {"connect", "sub", "unsub", "replay", "over"}])
    /\ pass \in [Sockets -> [n : 0..Len(Channels),
                             at : {"none", "connect", "sub", "replay"}]]
    /\ jobs \in Seq([who : Waiters \cup {Timer}, ok : BOOLEAN])
    /\ mishaps \subseteq
          {"overlap", "crossed", "refused", "timeout", "disconnect", "gave up"}

\* The application has connected, and not disconnected since.
KeepConnected == ~closedByUser /\ state # "DISCONNECTED"

(* docs/SDK_TYPESCRIPT.md, Connection state: after an unexpected close the  *)
(* client reconnects until it says FAILED.  It is never left in between,   *)
(* with a state that promises a connection and nothing under way to get    *)
(* one, or CONNECTED without the pings that keep the server from dropping  *)
(* it; and the pings never outlive the sockets that were welcomed, which   *)
(* share one timer.                                                        *)
NeverStranded ==
    /\ (KeepConnected /\ state # "FAILED") =>
           \/ timers > 0
           \/ \E s \in Sockets : sock[s] \in Live
           \/ ~Idle
    /\ state = "CONNECTED" => heartbeat
    /\ heartbeat => \E s \in welcomed : sock[s] = "open"

\* What may keep a channel from being subscribed again.
ExcusesChannels ==
    mishaps \cap {"overlap", "crossed", "refused", "timeout", "gave up"} # {}

(* When failures stop, a client that was not disconnected and has not given *)
(* up comes to rest connected, on a socket it can send on, whatever other  *)
(* sockets and timers its retries have left behind; and, docs/             *)
(* SDK_TYPESCRIPT.md, with every channel subscribed again on one of its    *)
(* sockets, unless a request was refused or timed out, or two requests for *)
(* one key were out, whose answers the client cannot tell apart.  If it said *)
(* FAILED while another socket was on its way, that one may connect it     *)
(* again, but the socket it sends on may be closed (see Resubscribed).     *)
Recovers ==
    <>[](KeepConnected /\ state # "FAILED" =>
            /\ state = "CONNECTED"
            /\ "gave up" \in mishaps \/ (CanSend /\ ws \in welcomed)
            /\ ~ExcusesChannels =>
                  \A t \in subscribed : \E s \in Sockets : t \in granted[s])

ExcusesCalls == mishaps \cap {"overlap", "disconnect"} # {}

Unanswered(n) == n \in DOMAIN calls /\ calls[n].at # "over" /\ ~ExcusesCalls

(* Every call of the application ends: what it waits for is settled or      *)
(* rejected, whichever sockets close, answers come and timers fire          *)
(* meanwhile; unless its entry of this.pending was replaced or removed by   *)
(* another request or another request's timer, or the user disconnected    *)
(* (then connect's promise is never settled).                               *)
CallsEnd == <>[](\A n \in 1..MaxUpsets : ~Unanswered(n))

(* What CallsEnd rests on: until then the call is not forgotten.  Its       *)
(* continuation has to run, or it waits for a socket that is on its way, or *)
(* its entry of this.pending is the one some answer on the wire will find.  *)
Awaited(n) ==
    \/ \E j \in DOMAIN jobs : jobs[j].who = AppCall(n)
    \/ \E s \in Sockets : sock[s] \in Live /\ opener[s] = AppCall(n)
    \/ \E k \in Keys : /\ pending[k] = AppCall(n)
                       /\ \E s \in Sockets : /\ sock[s] \in {"open", "closing"}
                                             /\ k \in ToSet(wire[s])

NoneForgotten == \A n \in DOMAIN calls : Unanswered(n) => Awaited(n)

\* Nothing is under way: no continuation, timer, connection or request.
AtRest ==
    /\ Idle /\ timers = 0
    /\ \A s \in Sockets : sock[s] \in Live =>
          sock[s] = "open" /\ s \in welcomed /\ wire[s] = <<>>

(* The state Recovers speaks of: at rest, a client that wants a connection  *)
(* and does not say FAILED is connected, and unless it said so while other  *)
(* sockets were live, the socket it sends on is open and welcomed.          *)
RestsConnected ==
    (AtRest /\ KeepConnected /\ state # "FAILED") =>
        /\ state = "CONNECTED"
        /\ "gave up" \in mishaps \/ (CanSend /\ ws \in welcomed)

(* At rest every channel that is subscribed has its subscription on one of  *)
(* the client's sockets, with the same exceptions.                         *)
RestsSubscribed ==
    (AtRest /\ KeepConnected /\ state # "FAILED" /\ ~ExcusesChannels) =>
        \A t \in subscribed : \E s \in Sockets : t \in granted[s]

-----------------------------------------------------------------------------
(* A statement of the repository that the code does not keep.              *)

(* docs/SDK_TYPESCRIPT.md:38-41: after an unexpected close the client       *)
(* reconnects and subscribes every channel again.                           *)
Resubscribed ==
    (/\ AtRest /\ KeepConnected /\ state = "CONNECTED"
     /\ mishaps \cap {"overlap", "crossed", "refused", "timeout"} = {})
        => \A t \in subscribed : \E s \in Sockets : t \in granted[s]
=============================================================================
