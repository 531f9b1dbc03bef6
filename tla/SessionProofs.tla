--------------------------- MODULE SessionProofs ----------------------------
(***************************************************************************)
(* What one server process promises about its realtime connections, for    *)
(* any sessions, grants, topics and topic rows, any edits of those rows    *)
(* and any number of database errors.                                      *)
(***************************************************************************)
EXTENDS Session, TLAPS

LEMMA TypeInit == SessionInit => SessionTypeOK
<1>. SUFFICES ASSUME SessionInit PROVE SessionTypeOK
  OBVIOUS
<1>1. (CHOOSE t \in TopicNames : TRUE) \in TopicNames
  BY SessionAssumption
<1>. QED  BY <1>1, SessionAssumption DEF SessionInit, SessionTypeOK, Phases

(* A fault stays within its bound.                                          *)
LEMMA FaultType ==
    ASSUME SessionTypeOK, DbFault
    PROVE  dbFaults' \in 0..MaxFaults /\ dbFaults' # 0
  BY SessionAssumption DEF SessionTypeOK, DbFault

LEMMA RunType ==
    ASSUME SessionTypeOK, NEW s \in Sessions, Run(s)
    PROVE  SessionTypeOK'
<1>1. CASE OpenRow(s)
  BY <1>1, FaultType DEF OpenRow, SessionTypeOK, Goto, Phases
<1>2. CASE SendWelcome(s)
  BY <1>2 DEF SendWelcome, SessionTypeOK, Goto, Phases, sharedVars, serverVars
<1>3. CASE WelcomeFails(s)
  BY <1>3 DEF WelcomeFails, SessionTypeOK, Goto, Phases, sharedVars, serverVars
<1>4. CASE Authorize(s)
  BY <1>4 DEF Authorize, SessionTypeOK, Goto, Phases, sharedVars, serverVars
<1>5. CASE AuthorizeFails(s)
  BY <1>5, FaultType DEF AuthorizeFails, SessionTypeOK, Goto, Phases, sharedVars
<1>6. CASE Join(s)
  BY <1>6 DEF Join, SessionTypeOK, Goto, Phases, serverVars
<1>7. CASE Send(s)
  BY <1>7 DEF Send, SessionTypeOK, Goto, Phases, sharedVars, serverVars
<1>8. CASE SaveSubs(s)
  BY <1>8, FaultType DEF SaveSubs, SessionTypeOK, Goto, Phases
<1>9. CASE Finish(s)
  <2>1. CASE drop[s] = "none"
    BY <1>9, <2>1 DEF Finish, BeginShutdown, SessionTypeOK, Goto, Phases, sharedVars, serverVars
  <2>2. CASE drop[s] # "none"
    BY <1>9, <2>2 DEF Finish, SessionTypeOK, Goto, Phases, sharedVars, serverVars
  <2>. QED  BY <2>1, <2>2
<1>10. CASE Return(s)
  BY <1>10 DEF Return, SessionTypeOK, Goto, Phases, sharedVars, serverVars
<1>. QED  BY <1>1, <1>2, <1>3, <1>4, <1>5, <1>6, <1>7, <1>8, <1>9, <1>10 DEF Run

LEMMA ClientType ==
    ASSUME SessionTypeOK, NEW s \in Sessions, Client(s) \/ LoopEnds(s)
    PROVE  SessionTypeOK'
<1>1. CASE Accept(s)
  BY <1>1 DEF Accept, SessionTypeOK, Goto, Phases, serverVars
<1>2. Counted(s) => frames' \in [Sessions -> 0..MaxFrames]
  BY SessionAssumption DEF Counted, SessionTypeOK
<1>3. CASE SubscribeFrame(s)
  BY <1>2, <1>3 DEF SubscribeFrame, SessionTypeOK, Goto, Phases, sharedVars, serverVars
<1>4. CASE UnsubscribeFrame(s)
  BY <1>2, <1>4 DEF UnsubscribeFrame, SessionTypeOK, Goto, Phases, serverVars
<1>5. CASE OtherFrame(s)
  BY <1>5 DEF OtherFrame, SessionTypeOK, Goto, Phases, sharedVars, serverVars
<1>6. CASE LoopEnds(s)
  BY <1>6 DEF LoopEnds, SessionTypeOK, Goto, Phases, sharedVars, serverVars
<1>. QED  BY <1>1, <1>3, <1>4, <1>5, <1>6 DEF Client

LEMMA ShutdownType ==
    ASSUME SessionTypeOK, NEW s \in Sessions, Shutdown(s) \/ Terminate(s)
    PROVE  SessionTypeOK'
<1>1. CASE LeaveTopic(s)
  BY <1>1 DEF LeaveTopic, SessionTypeOK, serverVars
<1>2. CASE ClearTopics(s)
  BY <1>2 DEF ClearTopics, SessionTypeOK, sharedVars, serverVars
<1>3. CASE ClosePeer(s)
  BY <1>3 DEF ClosePeer, SessionTypeOK, serverVars
<1>4. CASE CloseRow(s)
  BY <1>4, FaultType DEF CloseRow, SessionTypeOK
<1>5. CASE TerminateHere(s)
  BY <1>5 DEF TerminateHere, BeginShutdown, SessionTypeOK, sharedVars, serverVars
<1>6. CASE TerminateElsewhere(s)
  BY <1>6 DEF TerminateElsewhere, SessionTypeOK, sessionVars, serverVars
<1>. QED  BY <1>1, <1>2, <1>3, <1>4, <1>5, <1>6 DEF Shutdown, Terminate

LEMMA ProcessType ==
    ASSUME SessionTypeOK,
           \/ \E e \in Published : Broadcast(e)
           \/ EditTopic \/ StopBegin \/ Stop \/ Exit \/ ReapConnections
    PROVE  SessionTypeOK'
<1>1. ASSUME NEW e \in Published, Broadcast(e) PROVE SessionTypeOK'
  BY <1>1 DEF Broadcast, SessionTypeOK, sessionVars, serverVars
<1>2. CASE EditTopic
  <2>. PICK e \in edits : /\ rows' = [rows EXCEPT ![<<e.env, e.topic>>] = e.visibility]
                          /\ edits' = edits \ {e}
    BY <1>2 DEF EditTopic
  <2>1. e.visibility \in Visibilities
    BY SessionAssumption DEF SessionTypeOK
  <2>2. rows' \in [Envs \X TopicNames -> Visibilities] /\ edits' \subseteq Edits
    BY <2>1 DEF SessionTypeOK
  <2>. QED  BY <1>2, <2>2 DEF EditTopic, SessionTypeOK, sessionVars, serverVars
<1>3. CASE StopBegin
  BY <1>3 DEF StopBegin, SessionTypeOK, sessionVars, sharedVars
<1>4. CASE StopNext
  <2>1. PICK s \in todo :
           /\ todo' = todo \ {s}
           /\ IF drop[s] = "none"
              THEN BeginShutdown(s) /\ foreign' = foreign \cup {s} /\ current' = s
              ELSE UNCHANGED <<drop, left, foreign, current>>
    BY <1>4 DEF StopNext
  <2>2. UNCHANGED <<phase, want, topics, started, frames, sharedVars, server, dbFaults>>
    BY <1>4 DEF StopNext
  <2>3. s \in Sessions
    BY <2>1 DEF SessionTypeOK
  <2>. QED  BY <2>1, <2>2, <2>3 DEF BeginShutdown, SessionTypeOK, sharedVars
<1>5. CASE StopAwait
  BY <1>5 DEF StopAwait, SessionTypeOK, sessionVars, sharedVars
<1>6. CASE Exit
  BY <1>6 DEF Exit, SessionTypeOK, Phases
<1>7. CASE ReapConnections
  BY <1>7 DEF ReapConnections, SessionTypeOK, sessionVars, serverVars
<1>. QED  BY <1>1, <1>2, <1>3, <1>4, <1>5, <1>6, <1>7 DEF Stop, StopEnd

LEMMA TypeStep == SessionTypeOK /\ [SessionNext]_connectionVars => SessionTypeOK'
<1>. SUFFICES ASSUME SessionTypeOK, [SessionNext]_connectionVars PROVE SessionTypeOK'
  OBVIOUS
<1>1. CASE UNCHANGED connectionVars
  BY <1>1 DEF SessionTypeOK, connectionVars, sessionVars, sharedVars, serverVars
<1>. QED  BY <1>1, RunType, ClientType, ShutdownType, ProcessType DEF SessionNext

(* Every variable keeps its shape, topics still to leave included.          *)
THEOREM TypeCorrect == SessionSpec => []SessionTypeOK
  BY TypeInit, TypeStep, PTL DEF SessionSpec

-----------------------------------------------------------------------------
(* Authorization: whatever a topic row says, a topic somebody must have a   *)
(* claim to is opened by nothing but that claim.                            *)
LEMMA AuthorizedIsEntitled ==
    ASSUME NEW t \in TopicNames, NEW g, NEW visibility,
           Claimed(t), Authorized(t, g, visibility)
    PROVE  Entitled(g, t)
<1>1. CASE g.operator \/ t \in g.topic_patterns \/ g.system_read
  BY <1>1 DEF Entitled
<1>2. CASE ~(g.operator \/ t \in g.topic_patterns \/ g.system_read)
  <2>1. t.head \notin {"system", "audit"}
    BY <1>2 DEF Authorized
  <2>2. t.ident # NoIdent /\ t.head \in {"user", "organization", "project"}
    BY <2>1 DEF Claimed
  <2>3. CASE t.head = "user"
    BY <1>2, <2>2, <2>3 DEF Authorized, Entitled
  <2>4. CASE t.head = "organization"
    BY <1>2, <2>2, <2>4 DEF Authorized, Entitled
  <2>5. CASE t.head = "project"
    BY <1>2, <2>2, <2>5 DEF Authorized, Entitled
  <2>. QED  BY <2>2, <2>3, <2>4, <2>5
<1>. QED  BY <1>1, <1>2

(* The session about to join its topic has been found entitled to it.       *)
JoinsEntitled ==
    \A s \in Sessions :
       (phase[s] = "join" /\ Claimed(want[s])) => Entitled(GrantOf[s], want[s])

EntitledInv == RowsCannotOpen /\ JoinsEntitled

LEMMA EntitledInit == SessionInit => EntitledInv
  BY DEF SessionInit, EntitledInv, RowsCannotOpen, JoinsEntitled

(* Every step but Authorize and Join adds no member and nobody who joins.   *)
Quiet ==
    /\ \A t \in TopicNames : hub'[t] \subseteq hub[t]
    /\ \A r \in Sessions : phase'[r] = "join" => /\ phase[r] = "join"
                                                /\ want'[r] = want[r]

LEMMA SessionIsQuiet ==
    ASSUME SessionTypeOK, NEW s \in Sessions,
           \/ Run(s) \/ Client(s) \/ LoopEnds(s) \/ Shutdown(s) \/ Terminate(s),
           ~Authorize(s), ~Join(s)
    PROVE  Quiet
<1>. USE DEF Quiet, SessionTypeOK, Goto
<1>1. CASE OpenRow(s) \/ SendWelcome(s) \/ WelcomeFails(s) \/ AuthorizeFails(s)
           \/ Send(s) \/ SaveSubs(s) \/ Return(s) \/ LoopEnds(s)
  BY <1>1 DEF OpenRow, SendWelcome, WelcomeFails, AuthorizeFails, Send, SaveSubs,
              Return, LoopEnds, sharedVars
<1>2. CASE Finish(s)
  <2>1. UNCHANGED <<hub, want>>
    BY <1>2 DEF Finish, sharedVars
  <2>2. \A r \in Sessions : phase'[r] = "join" => phase[r] = "join"
    BY <1>2 DEF Finish
  <2>. QED  BY <2>1, <2>2
<1>3. CASE Client(s)
  <2>1. CASE Accept(s) \/ OtherFrame(s)
    BY <2>1 DEF Accept, OtherFrame, sharedVars
  <2>2. CASE SubscribeFrame(s)
    BY <2>2 DEF SubscribeFrame, sharedVars
  <2>3. CASE UnsubscribeFrame(s)
    BY <2>3 DEF UnsubscribeFrame
  <2>. QED  BY <1>3, <2>1, <2>2, <2>3 DEF Client
<1>4. CASE Shutdown(s)
  BY <1>4 DEF Shutdown, LeaveTopic, ClearTopics, ClosePeer, CloseRow, sharedVars
<1>5. CASE Terminate(s)
  BY <1>5 DEF Terminate, TerminateHere, TerminateElsewhere, sessionVars, sharedVars
<1>. QED  BY <1>1, <1>2, <1>3, <1>4, <1>5 DEF Run

LEMMA ProcessIsQuiet ==
    ASSUME SessionTypeOK,
           \/ \E e \in Published : Broadcast(e)
           \/ EditTopic \/ StopBegin \/ Stop \/ Exit \/ ReapConnections
           \/ UNCHANGED connectionVars
    PROVE  Quiet
<1>. USE DEF Quiet, SessionTypeOK
<1>1. CASE \/ \E e \in Published : Broadcast(e)
           \/ EditTopic \/ StopBegin \/ StopNext \/ StopAwait \/ ReapConnections
           \/ UNCHANGED connectionVars
  <2>1. UNCHANGED <<hub, phase, want>>
    BY <1>1 DEF Broadcast, EditTopic, StopBegin, StopNext, StopAwait,
                ReapConnections, connectionVars, sessionVars, sharedVars
  <2>. QED  BY <2>1
<1>2. CASE Exit
  BY <1>2 DEF Exit
<1>. QED  BY <1>1, <1>2 DEF Stop, StopEnd

LEMMA EntitledStep == SessionTypeOK /\ EntitledInv /\ [SessionNext]_connectionVars => EntitledInv'
<1>. SUFFICES ASSUME SessionTypeOK, EntitledInv, [SessionNext]_connectionVars PROVE EntitledInv'
  OBVIOUS
<1>. USE DEF EntitledInv, RowsCannotOpen, JoinsEntitled
<1>1. ASSUME NEW s \in Sessions, Authorize(s) PROVE EntitledInv'
  <2>. DEFINE visibility == rows[<<Environment(s), want[s]>>]
  <2>1. want[s] \in TopicNames
    BY DEF SessionTypeOK
  <2>2. (phase'[s] = "join" /\ Claimed(want[s])) => Entitled(GrantOf[s], want[s])
    <3>1. phase'[s] = "join" => Authorized(want[s], GrantOf[s], visibility)
      BY <1>1 DEF Authorize, Goto, SessionTypeOK
    <3>. QED  BY <2>1, <3>1, AuthorizedIsEntitled
  <2>3. UNCHANGED <<hub, want>>
    BY <1>1 DEF Authorize, sharedVars
  <2>4. \A r \in Sessions \ {s} : phase'[r] = phase[r]
    BY <1>1 DEF Authorize, Goto, SessionTypeOK
  <2>. QED  BY <2>2, <2>3, <2>4
<1>2. ASSUME NEW s \in Sessions, Join(s) PROVE EntitledInv'
  <2>1. \A t \in TopicNames : hub'[t] \subseteq hub[t]
                                  \cup (IF t = want[s] THEN {s} ELSE {})
    BY <1>2 DEF Join, SessionTypeOK
  <2>2. Claimed(want[s]) => Entitled(GrantOf[s], want[s])
    BY <1>2 DEF Join
  <2>3. RowsCannotOpen'
    BY <2>1, <2>2
  <2>4. JoinsEntitled'
    BY <1>2 DEF Join, Goto, SessionTypeOK
  <2>. QED  BY <2>3, <2>4
<1>3. ASSUME Quiet PROVE EntitledInv'
  BY <1>3 DEF Quiet
<1>. QED  BY <1>1, <1>2, <1>3, SessionIsQuiet, ProcessIsQuiet DEF SessionNext

(* No topic row, whatever its visibility and whenever it is edited, makes a *)
(* consumer a member of a topic its credential does not entitle it to.      *)
THEOREM RowsNeverOpen == SessionSpec => []RowsCannotOpen
<1>1. EntitledInv => RowsCannotOpen
  BY DEF EntitledInv
<1>. QED  BY <1>1, TypeInit, TypeStep, EntitledInit, EntitledStep, PTL DEF SessionSpec

-----------------------------------------------------------------------------
(* The records of one connection, between and during the steps of its loop  *)
(* and of its shutdown.                                                     *)

(* Between a change of the topics and the write of the row.                 *)
Unsaved(s) == phase[s] \in {"reply", "save", "finish", "closing", "over"}

RecordsInv(s) ==
    /\ drop[s] = "none" => topics[s] = MemberOf(s)
    /\ phase[s] \in {"new", "open"} => row[s] = "none"
    /\ phase[s] \in {"new", "open", "welcome"} => topics[s] = {} /\ subs[s] = {}
    /\ (dbFaults = 0 /\ row[s] = "open" /\ drop[s] = "none" /\ ~Unsaved(s))
          => subs[s] = topics[s]

CleanInv(s) ==
    /\ phase[s] = "new" => s \notin registry \cup todo /\ drop[s] = "none"
    /\ drop[s] \in {"row", "done"} => s \notin registry
    /\ s \in started => phase[s] \notin {"new", "open", "welcome"}
    /\ (Alive /\ dbFaults = 0 /\ drop[s] = "done" /\ s \in started) => row[s] # "open"

(* A session that only its own coroutine shuts down.                        *)
OwnInv(s) ==
    (Alive /\ s \notin foreign) =>
       /\ drop[s] # "none" => phase[s] \in {"closing", "over"}
       /\ drop[s] = "leave" => MemberOf(s) \subseteq left[s]
       /\ drop[s] \in {"peer", "row", "done"} => MemberOf(s) \cup topics[s] = {}

ConnectionInv(s) == RecordsInv(s) /\ CleanInv(s) /\ OwnInv(s)

ConnectionsInv == \A s \in Sessions : ConnectionInv(s)

LEMMA ConnectionsInit == SessionInit => ConnectionsInv
  BY DEF SessionInit, ConnectionsInv, ConnectionInv, RecordsInv, CleanInv, OwnInv,
         Unsaved, MemberOf

(* What the invariant says of r is left alone by a step.                    *)
Same(r) ==
    /\ phase'[r] = phase[r] /\ topics'[r] = topics[r] /\ drop'[r] = drop[r]
    /\ left'[r] = left[r] /\ row'[r] = row[r] /\ subs'[r] = subs[r]
    /\ r \in registry' <=> r \in registry
    /\ r \in started' <=> r \in started
    /\ r \in foreign' <=> r \in foreign
    /\ r \in todo' => r \in todo
    /\ MemberOf(r)' = MemberOf(r)

NoRecovery == (dbFaults' = 0 => dbFaults = 0) /\ (Alive' => Alive)

LEMMA SameKeeps ==
    ASSUME NEW r \in Sessions, ConnectionInv(r), Same(r), NoRecovery
    PROVE  ConnectionInv(r)'
  BY DEF ConnectionInv, RecordsInv, CleanInv, OwnInv, Unsaved, Same, NoRecovery

LEMMA FaultCounts ==
    ASSUME SessionTypeOK, DbFault
    PROVE  dbFaults' # 0
  BY FaultType

(* A step of one session is no business of the others.                      *)
LEMMA OthersKept ==
    ASSUME SessionTypeOK, NEW s \in Sessions,
           \/ Run(s) \/ Client(s) \/ LoopEnds(s) \/ Shutdown(s) \/ Terminate(s)
    PROVE  NoRecovery /\ \A r \in Sessions \ {s} : Same(r)
<1>. USE DEF Same, NoRecovery, MemberOf, Alive, SessionTypeOK, Goto
<1>1. CASE OpenRow(s)
  BY <1>1, FaultCounts DEF OpenRow
<1>2. CASE SendWelcome(s) \/ WelcomeFails(s) \/ Authorize(s) \/ Send(s) \/ Return(s)
           \/ LoopEnds(s) \/ OtherFrame(s)
  BY <1>2 DEF SendWelcome, WelcomeFails, Authorize, Send, Return, LoopEnds, OtherFrame,
              sharedVars, serverVars
<1>3. CASE AuthorizeFails(s) \/ SaveSubs(s) \/ CloseRow(s)
  BY <1>3, FaultCounts DEF AuthorizeFails, SaveSubs, CloseRow, sharedVars
<1>4. CASE Join(s)
  BY <1>4 DEF Join, serverVars
<1>5. CASE Finish(s)
  BY <1>5 DEF Finish, BeginShutdown, sharedVars, serverVars
<1>6. CASE Accept(s) \/ SubscribeFrame(s)
  BY <1>6 DEF Accept, SubscribeFrame, sharedVars, serverVars
<1>7. CASE UnsubscribeFrame(s)
  BY <1>7 DEF UnsubscribeFrame, serverVars
<1>8. CASE LeaveTopic(s)
  BY <1>8 DEF LeaveTopic, serverVars
<1>9. CASE ClearTopics(s) \/ ClosePeer(s)
  BY <1>9 DEF ClearTopics, ClosePeer, sharedVars, serverVars
<1>10. CASE Terminate(s)
  BY <1>10 DEF Terminate, TerminateHere, TerminateElsewhere, BeginShutdown,
               sessionVars, sharedVars, serverVars
<1>. QED  BY <1>1, <1>2, <1>3, <1>4, <1>5, <1>6, <1>7, <1>8, <1>9, <1>10
          DEF Run, Client, Shutdown

(* The session that takes the step: its loop.                               *)
LEMMA LoopKeeps ==
    ASSUME SessionTypeOK, NEW s \in Sessions, ConnectionInv(s), NoRecovery,
           Run(s) \/ Client(s) \/ LoopEnds(s)
    PROVE  ConnectionInv(s)'
<1>. USE DEF ConnectionInv, RecordsInv, CleanInv, OwnInv, Unsaved, MemberOf,
             NoRecovery, Alive, SessionTypeOK, Goto
<1>1. CASE OpenRow(s)
  BY <1>1 DEF OpenRow
<1>2. CASE SendWelcome(s) \/ WelcomeFails(s)
  BY <1>2 DEF SendWelcome, WelcomeFails, SocketClosed, sharedVars, serverVars
<1>3. CASE Authorize(s) \/ Send(s) \/ LoopEnds(s)
  BY <1>3 DEF Authorize, Send, LoopEnds, sharedVars, serverVars
<1>4. CASE AuthorizeFails(s)
  BY <1>4 DEF AuthorizeFails, sharedVars
<1>5. CASE Join(s)
  BY <1>5 DEF Join, serverVars
<1>6. CASE SaveSubs(s)
  BY <1>6, FaultCounts DEF SaveSubs
<1>7. CASE Finish(s)
  BY <1>7 DEF Finish, BeginShutdown, sharedVars, serverVars
<1>8. CASE Return(s)
  BY <1>8 DEF Return, sharedVars, serverVars
<1>9. CASE Accept(s)
  BY <1>9 DEF Accept, serverVars
<1>10. CASE SubscribeFrame(s) \/ OtherFrame(s)
  BY <1>10 DEF SubscribeFrame, OtherFrame, Receive, sharedVars, serverVars
<1>11. CASE UnsubscribeFrame(s)
  BY <1>11 DEF UnsubscribeFrame, Receive, serverVars
<1>. QED  BY <1>1, <1>2, <1>3, <1>4, <1>5, <1>6, <1>7, <1>8, <1>9, <1>10, <1>11
          DEF Run, Client

(* The session that takes the step: its shutdown, and a request for it.     *)
LEMMA ShutdownKeeps ==
    ASSUME SessionTypeOK, NEW s \in Sessions, ConnectionInv(s), NoRecovery,
           Shutdown(s) \/ Terminate(s)
    PROVE  ConnectionInv(s)'
<1>. USE DEF ConnectionInv, RecordsInv, CleanInv, OwnInv, Unsaved, MemberOf,
             NoRecovery, Alive, SessionTypeOK
<1>1. CASE LeaveTopic(s)
  BY <1>1 DEF LeaveTopic, serverVars
<1>2. CASE ClearTopics(s)
  BY <1>2 DEF ClearTopics, sharedVars, serverVars
<1>3. CASE ClosePeer(s)
  BY <1>3 DEF ClosePeer, serverVars
<1>4. CASE CloseRow(s)
  BY <1>4, FaultCounts DEF CloseRow
<1>5. CASE TerminateHere(s)
  BY <1>5 DEF TerminateHere, BeginShutdown, sharedVars, serverVars
<1>6. CASE TerminateElsewhere(s)
  BY <1>6 DEF TerminateElsewhere, sessionVars, serverVars
<1>. QED  BY <1>1, <1>2, <1>3, <1>4, <1>5, <1>6 DEF Shutdown, Terminate

(* What the process does to its sessions.                                   *)
LEMMA ProcessKeeps ==
    ASSUME SessionTypeOK, NEW r \in Sessions, ConnectionInv(r),
           \/ \E e \in Published : Broadcast(e)
           \/ EditTopic \/ StopBegin \/ Stop \/ Exit \/ ReapConnections
           \/ UNCHANGED connectionVars
    PROVE  ConnectionInv(r)'
<1>1. CASE \/ \E e \in Published : Broadcast(e)
           \/ EditTopic \/ StopAwait \/ UNCHANGED connectionVars
  <2>1. Same(r) /\ NoRecovery
    BY <1>1 DEF Broadcast, EditTopic, StopAwait, connectionVars, sessionVars, sharedVars,
                serverVars, Same, NoRecovery, MemberOf, Alive
  <2>. QED  BY <2>1, SameKeeps
<1>. USE DEF ConnectionInv, RecordsInv, CleanInv, OwnInv, Unsaved, MemberOf,
             Alive, SessionTypeOK
<1>2. CASE StopBegin
  BY <1>2 DEF StopBegin, sessionVars, sharedVars
<1>3. CASE StopNext
  <2>. PICK s \in todo :
          /\ todo' = todo \ {s}
          /\ IF drop[s] = "none"
             THEN BeginShutdown(s) /\ foreign' = foreign \cup {s}
             ELSE UNCHANGED <<drop, left, foreign>>
    BY <1>3 DEF StopNext
  <2>1. UNCHANGED <<phase, topics, started, hub, registry, row, subs, server, dbFaults>>
    BY <1>3 DEF StopNext, sharedVars
  <2>2. CASE r = s /\ drop[s] = "none"
    BY <2>1, <2>2 DEF BeginShutdown
  <2>3. CASE r # s \/ drop[s] # "none"
    <3>1. drop'[r] = drop[r] /\ left'[r] = left[r] /\ (r \in foreign' <=> r \in foreign)
      BY <2>3 DEF BeginShutdown
    <3>2. Same(r) /\ NoRecovery
      BY <2>1, <3>1 DEF Same, NoRecovery
    <3>. QED  BY <3>2, SameKeeps
  <2>. QED  BY <2>2, <2>3
<1>4. CASE Exit
  BY <1>4 DEF Exit
<1>5. CASE ReapConnections
  BY <1>5 DEF ReapConnections, sessionVars, serverVars
<1>. QED  BY <1>1, <1>2, <1>3, <1>4, <1>5 DEF Stop, StopEnd

LEMMA ConnectionsStep == SessionTypeOK /\ ConnectionsInv /\ [SessionNext]_connectionVars => ConnectionsInv'
<1>. SUFFICES ASSUME SessionTypeOK, ConnectionsInv, [SessionNext]_connectionVars, NEW r \in Sessions
              PROVE  ConnectionInv(r)'
  BY DEF ConnectionsInv
<1>0. ConnectionInv(r)
  BY DEF ConnectionsInv
<1>1. ASSUME NEW s \in Sessions,
             \/ Run(s) \/ Client(s) \/ LoopEnds(s) \/ Shutdown(s) \/ Terminate(s)
      PROVE  ConnectionInv(r)'
  <2>1. NoRecovery /\ (r # s => Same(r))
    BY <1>1, OthersKept
  <2>2. CASE r # s
    BY <1>0, <2>1, <2>2, SameKeeps
  <2>3. CASE r = s
    BY <1>0, <1>1, <2>1, <2>3, LoopKeeps, ShutdownKeeps
  <2>. QED  BY <2>2, <2>3
<1>. QED  BY <1>0, <1>1, ProcessKeeps DEF SessionNext

(* While a connection's loop waits for the next frame the hub, the session  *)
(* and, but for a database error, the row agree on its topics.              *)
THEOREM RecordsAlwaysAgree == SessionSpec => []RecordsAgree
<1>1. ConnectionsInv => RecordsAgree
  BY DEF ConnectionsInv, ConnectionInv, RecordsInv, Unsaved, RecordsAgree
<1>. QED  BY <1>1, TypeInit, TypeStep, ConnectionsInit, ConnectionsStep, PTL DEF SessionSpec

(* A connection that has ended is in no topic and not in the registry, and  *)
(* its row is not left open.                                                *)
THEOREM EndsClean == SessionSpec => []CleanEnd
<1>1. SessionTypeOK /\ ConnectionsInv => CleanEnd
  BY DEF ConnectionsInv, ConnectionInv, CleanInv, OwnInv, CleanEnd, SessionTypeOK
<1>. QED  BY <1>1, TypeInit, TypeStep, ConnectionsInit, ConnectionsStep, PTL DEF SessionSpec
=============================================================================
