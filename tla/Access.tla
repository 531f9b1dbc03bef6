-------------------------------- MODULE Access --------------------------------
(***************************************************************************)
(* How long a credential lets its holder in: an API key on the v1 routes   *)
(* and the realtime endpoint (app/auth.py, routes/api/v1.py), an           *)
(* operator's dashboard cookie or bearer token on the control plane's      *)
(* routes that act for a producer (routes/api/control.py), and the         *)
(* realtime tokens any of them mints, which nobody looks up again once     *)
(* they are signed.                                                        *)
(*                                                                         *)
(* Time counts here: a token has its expiry, a WebSocket its lifetime and  *)
(* its silence.  Where the code compares a time with the clock, the model  *)
(* keeps what is left until then.  Every await of a request is a step.     *)
(***************************************************************************)
EXTENDS Naturals, FiniteSets

CONSTANTS Calls,         \* requests and connections at a time
          AskedOf,       \* [Calls -> SUBSET Routes]: what each one asks for
          KeyScopes,     \* the sets of scopes the key may have
          AskedTtls,     \* ttl_seconds in a request for a token; 0 is none
          DefaultTtl, PlaygroundTtl,
          LongestTtl,    \* the longest of them: the code sets no limit
          Lifetime,      \* connection_max_seconds
          Silence,       \* three heartbeats
          CallTime,      \* assumption: a request is over by then
          MaxCalls,      \* bound: calls made
          Withdrawals    \* bound: the sets of things withdrawn in a behaviour

ASSUME AccessAssumption ==
    /\ {Lifetime, Silence, CallTime, LongestTtl} \subseteq Nat
    /\ Silence > 0 /\ CallTime > 0 /\ DefaultTtl > 0
    /\ AskedTtls \cup {DefaultTtl, PlaygroundTtl} \subseteq 0..LongestTtl

VARIABLES apiKey,        \* the key's row
          owner,         \* the producer's status
          operator,      \* the operator's session row, account and role are good
          minted,        \* realtime tokens handed out
          calls,
          since,         \* history: time since each credential was withdrawn
          unread,        \* a notification's read_at is null
          made           \* calls made

accessVars == <<apiKey, owner, operator, minted, calls, since, unread, made>>

Operators == {"cookie", "bearer"}
Credentials == {"key"} \cup Operators

\* producer_endpoint("..."): what each v1 route requires.
Scope ==
    [publish_events |-> {"events:publish"}, list_events |-> {"events:read"},
     get_event |-> {"events:read"}, replay_events |-> {"events:replay"},
     list_topics |-> {"topics:read"}, list_tasks |-> {"tasks:read"},
     get_task |-> {"tasks:read"}, list_notifications |-> {"notifications:read"},
     mark_notification_read |-> {"notifications:write"},
     list_connections |-> {"connections:read"},
     issue_realtime_token |-> {"events:read"}, whoami |-> {}]

Realtime == {"realtime_ws", "realtime_sse"}
V1Routes == DOMAIN Scope
ControlRoutes == {"operator_realtime_token", "playground_token", "playground_publish",
                  "producers_create", "subscriptions_create"}
Routes == V1Routes \cup ControlRoutes \cup Realtime \cup {"health"}

Free == [pc |-> "free", route |-> "health", by |-> "key", age |-> 0, late |-> FALSE,
         exp |-> 0, till |-> 0, quiet |-> 0]

AccessInit ==
    /\ apiKey \in [live : {TRUE}, scopes : KeyScopes]
    /\ owner = "active"
    /\ operator \in [row : {TRUE}, enabled : {TRUE}, role : {TRUE},
                     loads : BOOLEAN]   \* a disabled user's cookie is loaded
    /\ minted = {} /\ unread = TRUE
    /\ calls = [c \in Calls |-> Free]
    /\ since = [by \in Credentials |-> 0]
    /\ made = 0

-----------------------------------------------------------------------------
(* Steps common to the routes.                                             *)

In(c, pc) == calls[c].pc = pc

\* Of a call that is over only that it was answered is remembered, and whether
\* it came late.
Replied(late) ==
    [pc |-> "answered", route |-> "health", by |-> "key", age |-> 0, late |-> late,
     exp |-> 0, till |-> 0, quiet |-> 0]
Waits(c, pc) ==
    calls' = [calls EXCEPT ![c] =
                CASE pc = "free" -> Free
                  [] pc = "answered" -> Replied(@.late)
                  [] OTHER -> [@ EXCEPT !.pc = pc]]
Only(c, pc) ==
    /\ Waits(c, pc)
    /\ UNCHANGED <<apiKey, owner, operator, minted, since, unread, made>>

Handler(c, route) == In(c, "handler") /\ calls[c].route = route

\* ApiKey.is_live
KeyIsLive == apiKey.live

\* control_actor's user: the cookie's is ctx.user, as the framework loads it.
AccountLetsIn(by) == operator.enabled \/ (by = "cookie" /\ operator.loads)

\* What takes a credential away.  Of the cookie the session's row is no part.
Withdrawn(by) ==
    CASE by = "key"    -> ~KeyIsLive \/ owner = "disabled"
      [] by = "bearer" -> ~operator.row \/ ~AccountLetsIn(by) \/ ~operator.role
      [] OTHER         -> ~AccountLetsIn(by) \/ ~operator.role

Sends(c, call) ==
    /\ In(c, "free") \/ In(c, "answered")
    /\ made < MaxCalls /\ made' = made + 1
    /\ calls' = [calls EXCEPT ![c] = call]
    /\ UNCHANGED <<apiKey, owner, operator, minted, since, unread>>

Begins(c, route, by, exp, pc) ==
    Sends(c, [pc |-> pc, route |-> route, by |-> by, age |-> 0,
              late |-> Withdrawn(by), exp |-> exp, till |-> 0, quiet |-> 0])

WithKey(c, route) ==
    /\ route \in V1Routes \cup Realtime /\ Begins(c, route, "key", 0, "key")

WithToken(c, route, token) ==
    /\ route \in Realtime /\ Begins(c, route, token.by, token.left, "token")

AsOperator(c, route) ==
    /\ route \in ControlRoutes
    /\ \/ Begins(c, route, "cookie", 0, "account")
       \/ Begins(c, route, "bearer", 0, "session")

\* The health route asks for no credential.
Health(c) == "health" \in AskedOf[c] /\ Sends(c, Replied(FALSE))

-----------------------------------------------------------------------------
(* Letting in.                                                             *)

\* Mutant: a key is looked up by its secret, whatever its row says.
LookUpKeyAnyRow(c) == In(c, "key") /\ Only(c, "owner")

\* resolve_api_key
LookUpKey(c) == In(c, "key") /\ Only(c, IF KeyIsLive THEN "owner" ELSE "free")

LookUpOwner(c) ==
    /\ In(c, "owner")
    /\ Only(c, IF owner = "active" THEN "scope" ELSE "free")

\* has_scope
HasScopes(needed) == needed \subseteq apiKey.scopes \/ "*" \in apiKey.scopes

\* After the bookkeeping's await: the scopes of the key as it was read.
RequireScope(c) ==
    /\ In(c, "scope")
    /\ LET route == calls[c].route
       IN  Only(c, IF HasScopes(IF route \in Realtime THEN {"events:read"} ELSE Scope[route])
                   THEN "handler" ELSE "free")

\* grant_from_realtime_token: the signature and exp, and no row.
DecodeToken(c) ==
    /\ In(c, "token")
    /\ Only(c, IF calls[c].exp > 0 THEN "handler" ELSE "free")

\* control_actor, of a bearer token: its row, then its user.
LookUpSession(c) ==
    /\ In(c, "session")
    /\ Only(c, IF operator.row THEN "account" ELSE "free")

\* Of a cookie this is all: no row is read.
LookUpAccount(c) ==
    /\ In(c, "account")
    /\ Only(c, IF AccountLetsIn(calls[c].by) THEN "permission" ELSE "free")

\* require: the role may never have had the permission.
RequirePermission(c) ==
    /\ In(c, "permission")
    /\ \E pc \in {"handler", "free"} : (pc = "handler" => operator.role) /\ Only(c, pc)

-----------------------------------------------------------------------------
(* The v1 handlers.                                                        *)

\* A body that is wrong, a row that is not there or a limit is an error.
Replies(c) == \E pc \in {"answered", "free"} : Only(c, pc)

PublishEvents(c) == Handler(c, "publish_events") /\ Replies(c)
ListEvents(c) == Handler(c, "list_events") /\ Replies(c)
GetEvent(c) == Handler(c, "get_event") /\ Replies(c)
ReplayEvents(c) == Handler(c, "replay_events") /\ Replies(c)
ListTopics(c) == Handler(c, "list_topics") /\ Only(c, "answered")
TasksList(c) == Handler(c, "list_tasks") /\ Only(c, "answered")
GetTask(c) == Handler(c, "get_task") /\ Replies(c)
NotificationsList(c) == Handler(c, "list_notifications") /\ Only(c, "answered")
ListConnections(c) == Handler(c, "list_connections") /\ Only(c, "answered")
WhoamiKey(c) == Handler(c, "whoami") /\ Only(c, "answered")

\* Only an unread notification is written.
ReadNotification(c) ==
    /\ Handler(c, "mark_notification_read")
    /\ \E pc \in {IF unread THEN "save" ELSE "answered", "free"} : Only(c, pc)

SaveNotification(c) ==
    /\ In(c, "save")
    /\ unread' = FALSE /\ Waits(c, "answered")
    /\ UNCHANGED <<apiKey, owner, operator, minted, since, made>>

\* mint_realtime_token
Mint(c, ttl) ==
    /\ minted' = minted \cup {[by |-> calls[c].by, left |-> ttl]}
    /\ Waits(c, "answered")
    /\ UNCHANGED <<apiKey, owner, operator, since, unread, made>>

TtlOf(ttl) == IF ttl = 0 THEN DefaultTtl ELSE ttl

IssueRealtimeToken(c) ==
    /\ Handler(c, "issue_realtime_token")
    /\ \E ttl \in AskedTtls : Mint(c, TtlOf(ttl))

-----------------------------------------------------------------------------
(* The control plane's handlers.                                           *)

OperatorRealtimeToken(c) ==
    /\ Handler(c, "operator_realtime_token")
    /\ \E ttl \in AskedTtls : Mint(c, TtlOf(ttl))

PlaygroundToken(c) ==
    /\ Handler(c, "playground_token")
    /\ Mint(c, PlaygroundTtl) \/ Only(c, "free")

\* The producer's status is not asked.
PlaygroundPublish(c) == Handler(c, "playground_publish") /\ Replies(c)
ProducersCreate(c) == Handler(c, "producers_create") /\ Replies(c)
SubscriptionsCreate(c) == Handler(c, "subscriptions_create") /\ Replies(c)

-----------------------------------------------------------------------------
(* Realtime connections.                                                   *)

OpenSocket(c) ==
    /\ Handler(c, "realtime_ws")
    /\ calls' = [calls EXCEPT ![c] =
                   [pc |-> "open", route |-> "realtime_ws", by |-> @.by, age |-> 0,
                    late |-> FALSE, exp |-> 0, till |-> Lifetime + 1, quiet |-> Silence]]
    /\ UNCHANGED <<apiKey, owner, operator, minted, since, unread, made>>

\* A frame is handled; the deadline is looked at before the next is awaited.
Frame(c) ==
    /\ In(c, "open")
    /\ IF calls[c].till = 0 THEN Waits(c, "free")
       ELSE calls' = [calls EXCEPT ![c].quiet = Silence]
    /\ UNCHANGED <<apiKey, owner, operator, minted, since, unread, made>>

FallsSilent(c) == In(c, "open") /\ calls[c].quiet = 0 /\ Only(c, "free")

\* An SSE stream has no deadline.
OpenStream(c) == Handler(c, "realtime_sse") /\ Only(c, "streams")

HangUp(c) == (In(c, "open") \/ In(c, "streams")) /\ Only(c, "free")

-----------------------------------------------------------------------------
(* The environment.                                                        *)

InFlight == {"key", "owner", "scope", "token", "session", "account", "permission",
             "handler", "save"}

Fails(c) == calls[c].pc \in InFlight /\ Only(c, "free")

\* What is withdrawn is not given back.
Gone ==
    (IF KeyIsLive THEN {} ELSE {"key"}) \cup (IF owner = "active" THEN {} ELSE {"owner"})
    \cup {what \in {"row", "enabled", "role"} : ~operator[what]}
MayWithdraw(what) == Gone \cup {what} \in Withdrawals

\* The key is revoked, or its expiry time passes.
EndKey ==
    /\ KeyIsLive /\ MayWithdraw("key") /\ apiKey' = [apiKey EXCEPT !.live = FALSE]
    /\ UNCHANGED <<owner, operator, minted, calls, since, unread, made>>

DisableProducer ==
    /\ owner = "active" /\ MayWithdraw("owner") /\ owner' = "disabled"
    /\ UNCHANGED <<apiKey, operator, minted, calls, since, unread, made>>

Withdraw(what) ==
    /\ operator[what] /\ MayWithdraw(what)
    /\ operator' = [operator EXCEPT ![what] = FALSE]
    /\ UNCHANGED <<apiKey, owner, minted, calls, since, unread, made>>

\* Signed out elsewhere, revoked by the account's disable, or expired.
EndOperatorSession == Withdraw("row")
DisableOperator == Withdraw("enabled")
\* Moved to a role without the permission.
ChangeRole == Withdraw("role")

Less(n) == IF n = 0 THEN 0 ELSE n - 1

\* The longest a credential opens anything after it is withdrawn; time is
\* counted a little further.
Longest == LongestTtl + 2 * CallTime + Lifetime + Silence

Older(call) ==
    [pc |-> call.pc, route |-> call.route, by |-> call.by, late |-> call.late,
     age |-> IF call.pc \in InFlight THEN call.age + 1 ELSE call.age,
     exp |-> Less(call.exp), till |-> Less(call.till), quiet |-> Less(call.quiet)]

\* One unit of time.  Timers that are due go off first.
Passes ==
    /\ \A c \in Calls : /\ calls[c].pc \in InFlight => calls[c].age < CallTime
                        /\ In(c, "open") => calls[c].quiet > 0
    /\ calls' = [c \in Calls |-> Older(calls[c])]
    /\ minted' = {[token EXCEPT !.left = @ - 1] : token \in {t \in minted : t.left > 0}}
    /\ since' = [by \in Credentials |->
                   IF Withdrawn(by) /\ since[by] <= Longest THEN since[by] + 1
                   ELSE since[by]]
    /\ UNCHANGED <<apiKey, owner, operator, unread, made>>

Arrives(c) ==
    \/ \E route \in AskedOf[c] : \/ WithKey(c, route) \/ AsOperator(c, route)
                                 \/ \E token \in minted : WithToken(c, route, token)
    \/ Health(c)

LetIn(c) ==
    \/ LookUpKey(c) \/ LookUpOwner(c) \/ RequireScope(c)
    \/ DecodeToken(c) \/ LookUpSession(c) \/ LookUpAccount(c) \/ RequirePermission(c)

Answer(c) ==
    \/ PublishEvents(c) \/ ListEvents(c) \/ GetEvent(c) \/ ReplayEvents(c)
    \/ ListTopics(c) \/ TasksList(c) \/ GetTask(c) \/ NotificationsList(c)
    \/ ListConnections(c) \/ WhoamiKey(c)
    \/ ReadNotification(c) \/ SaveNotification(c)
    \/ IssueRealtimeToken(c) \/ OperatorRealtimeToken(c) \/ PlaygroundToken(c)
    \/ PlaygroundPublish(c) \/ ProducersCreate(c) \/ SubscriptionsCreate(c)

Connected(c) == OpenSocket(c) \/ Frame(c) \/ FallsSilent(c) \/ OpenStream(c) \/ HangUp(c)

AccessNext ==
    \/ \E c \in Calls : Arrives(c) \/ LetIn(c) \/ Answer(c) \/ Connected(c) \/ Fails(c)
    \/ EndKey \/ DisableProducer \/ Passes
    \/ EndOperatorSession \/ DisableOperator \/ ChangeRole

-----------------------------------------------------------------------------
AccessTypeOK ==
    /\ apiKey.live \in BOOLEAN /\ owner \in {"active", "disabled"}
    /\ operator \in [row : BOOLEAN, enabled : BOOLEAN, role : BOOLEAN, loads : BOOLEAN]
    /\ unread \in BOOLEAN
    /\ since \in [Credentials -> 0..(Longest + 1)]
    /\ \A token \in minted : token.by \in Credentials /\ token.left \in 0..LongestTtl
    /\ \A c \in Calls : calls[c].route \in Routes /\ calls[c].age <= CallTime

(* app/auth.py:3-12, _common.py:92-143, docs/DEPLOYMENT.md:23-25: access    *)
(* ends.  A request made after the key was revoked, expired or its producer *)
(* disabled, after a bearer token's session ended or its account was        *)
(* disabled, or after the operator lost its role, is answered with nothing  *)
(* but an error; and once the last request under way may have minted a      *)
(* token, the token expired, the last handshake with it ended and its       *)
(* connection's lifetime and silence passed, no WebSocket that goes back to *)
(* it is open.  Not so for the dashboard's cookie: its session may be       *)
(* revoked, and its account disabled if the framework loads a disabled      *)
(* user, and it is still answered and mints tokens (EveryRequestChecked).   *)
AccessEnds ==
    \A c \in Calls :
        /\ In(c, "answered") => ~calls[c].late
        /\ In(c, "open") => since[calls[c].by] <= Longest
=============================================================================
