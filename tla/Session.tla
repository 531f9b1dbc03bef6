------------------------------- MODULE Session -------------------------------
(***************************************************************************)
(* The realtime connections of one server process: RealtimeSession         *)
(* (realtime/session.py), the session registry and local fan-out           *)
(* (realtime/__init__.py), subscription authorization (domain/topics.py),  *)
(* operator termination (routes/api/control.py) and the connection reaper  *)
(* (app/jobs.py).                                                          *)
(*                                                                         *)
(* Each session is driven by its own coroutine, run.  shutdown may be      *)
(* executed by run when the socket ends, by an operator's request or by    *)
(* the server's stop; the first caller does the work, the others return    *)
(* at once.  Every await is the end of a step.                             *)
(***************************************************************************)
EXTENDS Naturals, FiniteSets

CONSTANTS Sessions,
          Envs,
          TopicNames,   \* records: [head, ident]
          NoIdent,      \* a topic without a ":" part
          GrantOf,      \* the grant each session's credential carries
          InitRows,     \* the visibility in the topics table, or "none"
          Edits,        \* saves of topic rows: [env, topic, visibility]
          Published,    \* events broadcast: [env, topic]
          NoSession,
          MaxFrames,    \* bound on subscribe and unsubscribe frames per session
          MaxFaults     \* bound on database errors

Visibilities == {"none", "public", "private", "internal"}

ASSUME SessionAssumption ==
    /\ NoSession \notin Sessions /\ TopicNames # {}
    /\ \A s \in Sessions : GrantOf[s].environment \in Envs
    /\ InitRows \in [Envs \X TopicNames -> Visibilities]
    /\ Edits \subseteq [env : Envs, topic : TopicNames, visibility : Visibilities]
    /\ Published \subseteq [env : Envs, topic : TopicNames]
    /\ MaxFrames \in Nat /\ MaxFaults \in Nat

VARIABLES phase,      \* where run awaits
          want,       \* the topic of the subscribe frame in hand
          topics,     \* session.topics
          drop,       \* how far shutdown has come
          left,       \* topics shutdown has still to leave
          foreign,    \* history: sessions shut down by someone else than run
          started,    \* history: sessions that entered the protocol loop
          frames,     \* frames each session has handled
          hub,        \* members of each topic; the key is the topic name only
          registry,   \* Realtime.sessions
          row,        \* the Connection row's status, or "none"
          subs,       \* the Connection row's subscriptions
          asked,      \* rows with terminate_requested_at set
          rows,       \* the topics table
          edits,      \* saves still to come
          got,        \* history: the events each consumer was sent
          server,     \* up, stopping or down
          todo,       \* sessions stop has still to shut down
          current,    \* the session whose shutdown stop awaits
          dbFaults    \* database errors so far

sessionVars == <<phase, want, topics, drop, left, foreign, started, frames>>
sharedVars == <<hub, registry, row, subs, asked, rows, edits, got>>
serverVars == <<server, todo, current, dbFaults>>
connectionVars == <<sessionVars, sharedVars, serverVars>>

Environment(s) == GrantOf[s].environment
MemberOf(s) == {t \in TopicNames : s \in hub[t]}
Alive == server # "down"

\* peer.close has closed the socket.
SocketClosed(s) == drop[s] \in {"row", "done"}

Phases == {"new", "open", "welcome", "loop", "query", "join", "reply",
           "answer", "save", "finish", "closing", "over"}
Goto(s, p) == phase' = [phase EXCEPT ![s] = p]

-----------------------------------------------------------------------------
(* domain/topics.py                                                        *)

DefaultVisibility(t) ==
    CASE t.head \in {"system", "audit"} -> "internal"
      [] t.head \in {"user", "organization", "project", "connection", "session"}
            /\ t.ident # NoIdent -> "private"
      [] OTHER -> "public"

\* Mutant: a row that says public opens the topic before the claims are read.
AuthorizedPublicFirst(t, grant, visibility) ==
    \/ grant.operator \/ t \in grant.topic_patterns
    \/ visibility = "public"
    \/ t.head = "user" /\ t.ident = grant.user_id

\* authorize_subscription, for a topic of the grant's own environment.
Authorized(t, grant, visibility) ==
    LET vis == IF visibility = "none" THEN DefaultVisibility(t) ELSE visibility
        named(head) == t.head = head /\ t.ident # NoIdent
    IN  \/ grant.operator
        \/ t \in grant.topic_patterns
        \/ IF vis = "internal" \/ t.head \in {"system", "audit"}
           THEN grant.system_read
           ELSE CASE named("user") -> t.ident = grant.user_id
                  [] named("organization") -> t.ident = grant.organization_id
                  [] named("project") -> t.ident \in grant.project_ids
                  [] OTHER -> vis = "public"

-----------------------------------------------------------------------------
SessionInit ==
    /\ phase = [s \in Sessions |-> "new"]
    /\ want = [s \in Sessions |-> CHOOSE t \in TopicNames : TRUE]
    /\ topics = [s \in Sessions |-> {}]
    /\ drop = [s \in Sessions |-> "none"]
    /\ left = [s \in Sessions |-> {}]
    /\ foreign = {}
    /\ started = {}
    /\ frames = [s \in Sessions |-> 0]
    /\ hub = [t \in TopicNames |-> {}]
    /\ registry = {}
    /\ row = [s \in Sessions |-> "none"]
    /\ subs = [s \in Sessions |-> {}]
    /\ asked = {}
    /\ rows = InitRows
    /\ edits = Edits
    /\ got = [s \in Sessions |-> {}]
    /\ server = "up"
    /\ todo = {}
    /\ current = NoSession
    /\ dbFaults = 0

DbFault == dbFaults < MaxFaults /\ dbFaults' = dbFaults + 1

-----------------------------------------------------------------------------
(* run: what comes before the loop.                                        *)

Accept(s) ==
    /\ phase[s] = "new"
    /\ registry' = registry \cup {s}
    /\ Goto(s, "open")
    /\ UNCHANGED <<want, topics, drop, left, foreign, started, frames, hub,
                   row, subs, asked, rows, edits, got, serverVars>>

\* Connection.create; a database error is suppressed.
OpenRow(s) ==
    /\ phase[s] = "open"
    /\ \/ row' = [row EXCEPT ![s] = "open"] /\ UNCHANGED dbFaults
       \/ DbFault /\ UNCHANGED row
    /\ Goto(s, "welcome")
    /\ UNCHANGED <<want, topics, drop, left, foreign, started, frames, hub,
                   registry, subs, asked, rows, edits, got, server, todo, current>>

SendWelcome(s) ==
    /\ phase[s] = "welcome"
    /\ ~SocketClosed(s)
    /\ started' = started \cup {s}
    /\ Goto(s, "loop")
    /\ UNCHANGED <<want, topics, drop, left, foreign, frames, sharedVars, serverVars>>

\* The client is gone: the exception leaves run, outside its try block.
WelcomeFails(s) ==
    /\ phase[s] = "welcome"
    /\ Goto(s, "over")
    /\ UNCHANGED <<want, topics, drop, left, foreign, started, frames,
                   sharedVars, serverVars>>

-----------------------------------------------------------------------------
(* run: the protocol loop.                                                 *)

Receive(s) == phase[s] = "loop" /\ ~SocketClosed(s)

Counted(s) == frames[s] < MaxFrames /\ frames' = [frames EXCEPT ![s] = @ + 1]

SubscribeFrame(s) ==
    /\ Receive(s)
    /\ Counted(s)
    /\ \E t \in TopicNames : want' = [want EXCEPT ![s] = t]
    /\ Goto(s, "query")
    /\ UNCHANGED <<topics, drop, left, foreign, started, sharedVars, serverVars>>

\* _authorize: the topic row is read and the grant decides.
Authorize(s) ==
    /\ phase[s] = "query"
    /\ Goto(s, IF Authorized(want[s], GrantOf[s],
                             rows[<<Environment(s), want[s]>>])
               THEN "join" ELSE "answer")
    /\ UNCHANGED <<want, topics, drop, left, foreign, started, frames,
                   sharedVars, serverVars>>

\* A database error here ends the loop.
AuthorizeFails(s) ==
    /\ phase[s] = "query"
    /\ DbFault
    /\ Goto(s, "finish")
    /\ UNCHANGED <<want, topics, drop, left, foreign, started, frames,
                   sharedVars, server, todo, current>>

Join(s) ==
    /\ phase[s] = "join"
    /\ hub' = [hub EXCEPT ![want[s]] = @ \cup {s}]
    /\ topics' = [topics EXCEPT ![s] = @ \cup {want[s]}]
    /\ Goto(s, "reply")
    /\ UNCHANGED <<want, drop, left, foreign, started, frames, registry, row,
                   subs, asked, rows, edits, got, serverVars>>

\* Mutant: the hub forgets the member, the session does not.
UnsubscribeFrameHubOnly(s) ==
    /\ Receive(s)
    /\ Counted(s)
    /\ \E t \in TopicNames : hub' = [hub EXCEPT ![t] = @ \ {s}]
    /\ Goto(s, "reply")
    /\ UNCHANGED <<want, topics, drop, left, foreign, started, registry, row,
                   subs, asked, rows, edits, got, serverVars>>

UnsubscribeFrame(s) ==
    /\ Receive(s)
    /\ Counted(s)
    /\ \E t \in TopicNames :
          /\ hub' = [hub EXCEPT ![t] = @ \ {s}]
          /\ topics' = [topics EXCEPT ![s] = @ \ {t}]
    /\ Goto(s, "reply")
    /\ UNCHANGED <<want, drop, left, foreign, started, registry, row,
                   subs, asked, rows, edits, got, serverVars>>

\* ping, replay, ack and malformed frames: an answer, no state.
OtherFrame(s) ==
    /\ Receive(s)
    /\ Goto(s, "answer")
    /\ UNCHANGED <<want, topics, drop, left, foreign, started, frames,
                   sharedVars, serverVars>>

\* The frame that answers the client.
Send(s) ==
    /\ phase[s] \in {"reply", "answer"}
    /\ ~SocketClosed(s)
    /\ Goto(s, IF phase[s] = "reply" THEN "save" ELSE "loop")
    /\ UNCHANGED <<want, topics, drop, left, foreign, started, frames,
                   sharedVars, serverVars>>

\* _save_subs: an update of the row, if it exists; errors are suppressed.
SaveSubs(s) ==
    /\ phase[s] = "save"
    /\ \/ /\ subs' = IF row[s] = "none" THEN subs
                     ELSE [subs EXCEPT ![s] = topics[s]]
          /\ UNCHANGED dbFaults
       \/ DbFault /\ UNCHANGED subs
    /\ Goto(s, "loop")
    /\ UNCHANGED <<want, topics, drop, left, foreign, started, frames, hub,
                   registry, row, asked, rows, edits, got, server, todo, current>>

\* The client disconnects, stays silent for three heartbeats or reaches the
\* connection's lifetime; or a send raises, the socket being closed.
LoopEnds(s) ==
    /\ phase[s] \in {"loop", "reply", "answer"}
    /\ Goto(s, "finish")
    /\ UNCHANGED <<want, topics, drop, left, foreign, started, frames,
                   sharedVars, serverVars>>

-----------------------------------------------------------------------------
(* shutdown.                                                               *)

\* The first caller takes a copy of the topics; the others return.
BeginShutdown(s) ==
    /\ drop' = [drop EXCEPT ![s] = "leave"]
    /\ left' = [left EXCEPT ![s] = topics[s]]

\* The finally block of run.
Finish(s) ==
    /\ phase[s] = "finish"
    /\ IF drop[s] = "none" THEN BeginShutdown(s) /\ Goto(s, "closing")
       ELSE Goto(s, "over") /\ UNCHANGED <<drop, left>>
    /\ UNCHANGED <<want, topics, foreign, started, frames, sharedVars, serverVars>>

LeaveTopic(s) ==
    /\ drop[s] = "leave"
    /\ \E t \in left[s] : /\ hub' = [hub EXCEPT ![t] = @ \ {s}]
                          /\ left' = [left EXCEPT ![s] = @ \ {t}]
    /\ UNCHANGED <<phase, want, topics, drop, foreign, started, frames,
                   registry, row, subs, asked, rows, edits, got, serverVars>>

ClearTopics(s) ==
    /\ drop[s] = "leave"
    /\ left[s] = {}
    /\ topics' = [topics EXCEPT ![s] = {}]
    /\ drop' = [drop EXCEPT ![s] = "peer"]
    /\ UNCHANGED <<phase, want, left, foreign, started, frames, sharedVars,
                   serverVars>>

\* Mutant: the registry keeps the session.
ClosePeerKeepsSession(s) ==
    /\ drop[s] = "peer"
    /\ drop' = [drop EXCEPT ![s] = "row"]
    /\ UNCHANGED <<phase, want, topics, left, foreign, started, frames,
                   sharedVars, serverVars>>

\* peer.close has returned; the session leaves the registry.
ClosePeer(s) ==
    /\ drop[s] = "peer"
    /\ drop' = [drop EXCEPT ![s] = "row"]
    /\ registry' = registry \ {s}
    /\ UNCHANGED <<phase, want, topics, left, foreign, started, frames, hub,
                   row, subs, asked, rows, edits, got, serverVars>>

\* _close_row: an update of the row, if it exists; errors are suppressed.
CloseRow(s) ==
    /\ drop[s] = "row"
    /\ \/ /\ row' = [row EXCEPT ![s] = IF @ = "open" THEN "closed" ELSE @]
          /\ UNCHANGED dbFaults
       \/ DbFault /\ UNCHANGED row
    /\ drop' = [drop EXCEPT ![s] = "done"]
    /\ UNCHANGED <<phase, want, topics, left, foreign, started, frames, hub,
                   registry, subs, asked, rows, edits, got, server, todo, current>>

Return(s) ==
    /\ phase[s] = "closing"
    /\ drop[s] = "done"
    /\ Goto(s, "over")
    /\ UNCHANGED <<want, topics, drop, left, foreign, started, frames,
                   sharedVars, serverVars>>

-----------------------------------------------------------------------------
(* connection_terminate, on the process that holds the session or on       *)
(* another one; a session that is not found is left a request.             *)

TerminateHere(s) ==
    /\ row[s] # "none"
    /\ s \in registry
    /\ drop[s] = "none"
    /\ BeginShutdown(s)
    /\ foreign' = foreign \cup {s}
    /\ UNCHANGED <<phase, want, topics, started, frames, sharedVars, serverVars>>

TerminateElsewhere(s) ==
    /\ row[s] # "none"
    /\ asked' = asked \cup {s}
    /\ UNCHANGED <<sessionVars, hub, registry, row, subs, rows, edits, got, serverVars>>

-----------------------------------------------------------------------------
(* Realtime._deliver_local: the hub is asked for the topic's members, the  *)
(* event's environment plays no part.                                      *)

Broadcast(e) ==
    /\ got' = [s \in Sessions |-> IF s \in hub[e.topic] /\ ~SocketClosed(s)
                                  THEN got[s] \cup {e} ELSE got[s]]
    /\ UNCHANGED <<sessionVars, hub, registry, row, subs, asked, rows, edits, serverVars>>

EditTopic ==
    /\ \E e \in edits : /\ rows' = [rows EXCEPT ![<<e.env, e.topic>>] = e.visibility]
                        /\ edits' = edits \ {e}
    /\ UNCHANGED <<sessionVars, hub, registry, row, subs, asked, got, serverVars>>

-----------------------------------------------------------------------------
(* Realtime.stop: one shutdown after the other, then the process exits.    *)

StopBegin ==
    /\ server = "up"
    /\ server' = "stopping"
    /\ todo' = registry
    /\ UNCHANGED <<sessionVars, sharedVars, current, dbFaults>>

\* Mutant: stop waits for a session that is already being shut down.
StopNextWaits ==
    /\ server = "stopping"
    /\ current = NoSession
    /\ \E s \in todo :
          /\ todo' = todo \ {s}
          /\ current' = s
          /\ drop[s] = "none"
          /\ BeginShutdown(s)
          /\ foreign' = foreign \cup {s}
    /\ UNCHANGED <<phase, want, topics, started, frames, sharedVars, server, dbFaults>>

StopNext ==
    /\ server = "stopping"
    /\ current = NoSession
    /\ \E s \in todo :
          /\ todo' = todo \ {s}
          /\ IF drop[s] = "none"
             THEN /\ BeginShutdown(s)
                  /\ foreign' = foreign \cup {s}
                  /\ current' = s
             ELSE UNCHANGED <<drop, left, foreign, current>>
    /\ UNCHANGED <<phase, want, topics, started, frames, sharedVars, server, dbFaults>>

StopAwait ==
    /\ server = "stopping"
    /\ current # NoSession
    /\ drop[current] = "done"
    /\ current' = NoSession
    /\ UNCHANGED <<sessionVars, sharedVars, server, todo, dbFaults>>

\* The end of the process, after hub.close or by a crash: of all this module
\* keeps, only the database survives.
Exit ==
    /\ server' = "down"
    /\ phase' = [s \in Sessions |-> "over"]
    /\ drop' = [s \in Sessions |-> "done"]
    /\ topics' = [s \in Sessions |-> {}]
    /\ left' = [s \in Sessions |-> {}]
    /\ hub' = [t \in TopicNames |-> {}]
    /\ registry' = {}
    /\ todo' = {}
    /\ current' = NoSession
    /\ UNCHANGED <<want, foreign, started, frames, row, subs, asked, rows,
                   edits, got, dbFaults>>

StopEnd == server = "stopping" /\ todo = {} /\ current = NoSession /\ Exit

\* Mutant: only rows past retention are deleted, stale ones stay.
ReapConnectionsPrunesOnly ==
    /\ \E old \in SUBSET Sessions :
          row' = [s \in Sessions |-> IF s \in old /\ row[s] = "closed"
                                     THEN "none" ELSE row[s]]
    /\ UNCHANGED <<sessionVars, hub, registry, subs, asked, rows, edits, got, serverVars>>

\* ReapConnections, on any process: rows long closed are deleted, then rows
\* open for twice the longest lifetime of a connection are closed.  No run
\* of this process lasts that long, so theirs are rows nobody will close.
ReapConnections ==
    /\ \E old \in SUBSET Sessions :
          row' = [s \in Sessions |->
                    CASE s \in old /\ row[s] = "closed" -> "none"
                      [] row[s] = "open" /\ phase[s] = "over" -> "closed"
                      [] OTHER -> row[s]]
    /\ UNCHANGED <<sessionVars, hub, registry, subs, asked, rows, edits, got, serverVars>>

-----------------------------------------------------------------------------
Run(s) == \/ OpenRow(s) \/ SendWelcome(s) \/ WelcomeFails(s)
          \/ Authorize(s) \/ AuthorizeFails(s) \/ Join(s) \/ Send(s) \/ SaveSubs(s)
          \/ Finish(s) \/ Return(s)

Client(s) == Accept(s) \/ SubscribeFrame(s) \/ UnsubscribeFrame(s) \/ OtherFrame(s)

Shutdown(s) == LeaveTopic(s) \/ ClearTopics(s) \/ ClosePeer(s) \/ CloseRow(s)

Terminate(s) == TerminateHere(s) \/ TerminateElsewhere(s)

Stop == StopNext \/ StopAwait \/ StopEnd

SessionNext ==
    \/ \E s \in Sessions : \/ Run(s) \/ Client(s) \/ LoopEnds(s)
                           \/ Shutdown(s) \/ Terminate(s)
    \/ \E e \in Published : Broadcast(e)
    \/ EditTopic \/ StopBegin \/ Stop \/ Exit \/ ReapConnections

\* The event loop resumes what can go on; the receive timeout and the
\* lifetime end every loop; the scheduler runs the reaper.
SessionFairness ==
    /\ \A s \in Sessions : /\ WF_connectionVars(Run(s))
                           /\ WF_connectionVars(LoopEnds(s))
                           /\ WF_connectionVars(Shutdown(s))
    /\ WF_connectionVars(Stop)
    /\ WF_row(ReapConnections)

SessionSpec == SessionInit /\ [][SessionNext]_connectionVars /\ SessionFairness

-----------------------------------------------------------------------------
(* The shape of the state; topics are left before the peer is closed.       *)
SessionTypeOK ==
    /\ phase \in [Sessions -> Phases]
    /\ want \in [Sessions -> TopicNames]
    /\ topics \in [Sessions -> SUBSET TopicNames]
    /\ drop \in [Sessions -> {"none", "leave", "peer", "row", "done"}]
    /\ left \in [Sessions -> SUBSET TopicNames]
    /\ \A s \in Sessions : left[s] # {} => drop[s] = "leave"
    /\ foreign \subseteq Sessions /\ started \subseteq Sessions
    /\ frames \in [Sessions -> 0..MaxFrames]
    /\ hub \in [TopicNames -> SUBSET Sessions]
    /\ registry \subseteq Sessions
    /\ row \in [Sessions -> {"none", "open", "closed"}]
    /\ subs \in [Sessions -> SUBSET TopicNames]
    /\ asked \subseteq Sessions
    /\ rows \in [Envs \X TopicNames -> Visibilities]
    /\ edits \subseteq Edits
    /\ got \in [Sessions -> SUBSET Published]
    /\ server \in {"up", "stopping", "down"}
    /\ todo \subseteq Sessions
    /\ current \in Sessions \cup {NoSession}
    /\ dbFaults \in 0..MaxFaults

(* realtime/__init__.py:74-75 and the control plane's connection list: the  *)
(* three records of what a connection is subscribed to (the hub, the       *)
(* session and the database row) agree whenever its loop waits for the     *)
(* next frame, unless a database error kept the row from being written.    *)
RecordsAgree ==
    \A s \in Sessions :
       (phase[s] = "loop" /\ drop[s] = "none") =>
          /\ topics[s] = MemberOf(s)
          /\ (dbFaults = 0 /\ row[s] = "open") => subs[s] = topics[s]

(* session.py:3-6: when a connection has ended it is in no topic, not in    *)
(* the registry, and its row is not left open (but for a database error),  *)
(* whatever its loop was doing when it ended.  Memberships can outlive only *)
(* a session that somebody else than run shut down.                        *)
CleanEnd ==
    \A s \in started :
       (Alive /\ phase[s] = "over" /\ drop[s] = "done") =>
          /\ s \notin registry
          /\ dbFaults = 0 => row[s] # "open"
          /\ s \notin foreign => MemberOf(s) \cup topics[s] = {}

(* domain/topics.py:10-17: whatever visibility operators give a topic row,  *)
(* and whenever they change it, a consumer is a member of a user's,        *)
(* organization's or project's topic, or of a system topic, only with the   *)
(* matching claim, scope, pattern or operator token.                       *)
Entitled(g, t) ==
    \/ g.operator \/ t \in g.topic_patterns \/ g.system_read
    \/ t.ident # NoIdent /\
          \/ t.head = "user" /\ t.ident = g.user_id
          \/ t.head = "organization" /\ t.ident = g.organization_id
          \/ t.head = "project" /\ t.ident \in g.project_ids

Claimed(t) ==
    \/ t.head \in {"system", "audit"}
    \/ t.ident # NoIdent /\ t.head \in {"user", "organization", "project"}

RowsCannotOpen ==
    \A t \in TopicNames : Claimed(t) =>
       \A s \in hub[t] : Entitled(GrantOf[s], t)

(* session.py:93-107 and jobs.py:75-93: no Connection row stays open for    *)
(* ever, whether the client vanishes, the operator or the server ends the   *)
(* connection, the database fails or the process dies.                     *)
EveryRowCloses ==
    \A s \in Sessions : (row[s] = "open") ~> (row[s] # "open")

(* realtime/__init__.py:80-84, ARCHITECTURE.md, Instance shutdown: stop     *)
(* comes to an end though sessions connect, end and are terminated         *)
(* meanwhile.                                                              *)
StopEnds == (server = "stopping") ~> (server = "down")

-----------------------------------------------------------------------------
(* A statement of the repository that the code does not keep.              *)

(* config.py:18-19, README.md:228: events and connections of different      *)
(* environments never cross.                                               *)
EnvironmentsNeverCross ==
    \A s \in Sessions : \A e \in got[s] : e.env = Environment(s)
=============================================================================
