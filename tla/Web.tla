--------------------------------- MODULE Web ---------------------------------
(***************************************************************************)
(* The dashboard seen from one browser: tabs that share a session cookie,  *)
(* the guard every page passes (routes/web/_kit.py), signing in and out    *)
(* (routes/web/auth.py), the pages (routes/web/pages.py, docs.py) and the  *)
(* control-plane reads with which they refresh (routes/api/control.py).    *)
(*                                                                         *)
(* What a page shows is left out; that it is shown, to whom, and after     *)
(* which redirects is what this module is about.  Every await of a request *)
(* is a step, and the cookie is the one the request was sent with.         *)
(***************************************************************************)
EXTENDS Naturals, FiniteSets

CONSTANTS Tabs,
          Visits,        \* [Tabs -> SUBSET Paths]: where each tab goes
          Holdings,      \* the sets of permissions the operator may come to hold
          Logins,        \* bound: sessions created by signing in, 1..n
          MaxVisits,     \* bound: visits made, [Tabs -> Nat]
          MaxChanges     \* bound: changes made by others

VARIABLES jar,           \* the browser's session cookie
          tabs,
          webRows,       \* the UserSession rows; 0 was there at the start
          active,        \* the account's is_active
          held,          \* the permissions the operator holds
          loads,         \* the framework loads a disabled user for its cookie
          visits, changes

webVars == <<jar, tabs, webRows, active, held, loads, visits, changes>>

NoUser == [user |-> FALSE, key |-> 0]
SignedIn(s) == [user |-> TRUE, key |-> s]
SessionRows == 0..Logins
Dead(s) == webRows[s] = "dead"       \* revoked or expired

\* A page the browser comes to rest on, or the answer a page's request gets.
Landed == {"start", "page", "form", "forbidden", "error", "answer", "refused"}
Blank == [pc |-> "start", path |-> "dashboard", sent |-> NoUser, hops |-> 0,
          live |-> TRUE, allowed |-> TRUE]

WebInit ==
    /\ webRows = [s \in SessionRows |-> IF s = 0 THEN "live" ELSE "none"]
    /\ jar = SignedIn(0)
    /\ tabs = [t \in Tabs |-> Blank]
    /\ active = TRUE
    /\ held \in Holdings
    /\ loads \in BOOLEAN
    /\ visits = [t \in Tabs |-> 0] /\ changes = 0

-----------------------------------------------------------------------------
(* What the routes require.                                                *)

PagePermission ==
    [dashboard |-> "settings.read", events |-> "events.read",
     event_detail |-> "events.read", topics |-> "topics.read",
     connections |-> "connections.read", tasks |-> "tasks.read",
     notifications |-> "notifications.read", producers |-> "producers.read",
     playground |-> "events.read", api_keys |-> "apikeys.read",
     audit_log |-> "audit.read", users |-> "users.read",
     settings |-> "settings.read"]

ReadPermission ==
    [control_dashboard |-> "settings.read", producers_list |-> "producers.read",
     keys_list |-> "apikeys.read", topics_list |-> "topics.read",
     connections_list |-> "connections.read",
     subscriptions_list |-> "subscriptions.read", users_list |-> "users.read"]

Docs == {"docs_index", "docs_page", "docs_search"}
Reads == DOMAIN ReadPermission
Paths == DOMAIN PagePermission \cup Docs \cup Reads \cup {"login", "login_submit", "logout"}

ASSUME WebAssumption ==
    /\ Visits \in [Tabs -> SUBSET Paths] /\ MaxVisits \in [Tabs -> Nat]
    /\ Logins \in Nat /\ MaxChanges \in Nat

\* page() without arguments asks for no permission.
Required(path) ==
    IF path \in DOMAIN PagePermission THEN {PagePermission[path]}
    ELSE IF path \in Reads THEN {ReadPermission[path]} ELSE {}

-----------------------------------------------------------------------------
(* The browser.                                                            *)

\* A request: it carries the cookie of the moment.
Request(t, path, cookie, hops) ==
    [pc |-> CASE path = "login" -> "login"
              [] path = "login_submit" -> "lookup"
              [] path = "logout" -> "logout"
              [] OTHER -> "identify",
     path |-> path, sent |-> cookie, hops |-> hops,
     live |-> ~Dead(cookie.key), allowed |-> Required(path) \subseteq held]

Open(t, path) ==
    /\ tabs[t].pc \in Landed /\ visits[t] < MaxVisits[t]
    /\ visits' = [visits EXCEPT ![t] = @ + 1]
    /\ tabs' = [tabs EXCEPT ![t] = Request(t, path, jar, 0)]
    /\ UNCHANGED <<jar, webRows, active, held, loads, changes>>

Server(t, pc) == tabs[t].pc = pc
Await(t, pc) == tabs' = [tabs EXCEPT ![t].pc = pc]
Goes(t, pc) == Await(t, pc) /\ UNCHANGED <<jar, webRows, active, held, loads, visits, changes>>

\* A tab at rest has no request.
AtRest(t, what) ==
    [pc |-> what, path |-> "dashboard", sent |-> NoUser, hops |-> 0,
     live |-> tabs[t].live, allowed |-> tabs[t].allowed]
Land(t, what) ==
    /\ tabs' = [tabs EXCEPT ![t] = AtRest(t, what)]
    /\ UNCHANGED <<jar, webRows, active, held, loads, visits, changes>>

\* A browser that is sent on at once; three in a row are as good as a loop.
Onward(hops) == IF hops < 3 THEN hops + 1 ELSE 3

Redirect(t, path) ==
    /\ tabs' = [tabs EXCEPT ![t] = Request(t, path, jar, Onward(tabs[t].hops))]
    /\ UNCHANGED <<jar, webRows, active, held, loads, visits, changes>>

\* The same, with a new cookie; the other tabs' requests start afresh from it.
RedirectWith(t, path, cookie) ==
    /\ jar' = cookie
    /\ tabs' = [u \in Tabs |->
                  IF u = t THEN Request(t, path, cookie, Onward(tabs[t].hops))
                  ELSE [tabs[u] EXCEPT !.hops = 0]]
    /\ UNCHANGED <<webRows, active, held, loads, visits, changes>>

\* ctx.user, as loaded when the request arrives.
Loaded(t) == tabs[t].sent.user /\ (active \/ loads)

-----------------------------------------------------------------------------
(* DashboardGate                                                           *)

Identify(t) ==
    /\ Server(t, "identify") /\ tabs[t].path \notin Reads
    /\ IF Loaded(t) THEN Goes(t, "session") ELSE Redirect(t, "login")

\* Mutant: only a row's expiry is looked at, and it has none.
SessionIsLiveUnread(t) == TRUE

\* A row that is not there counts as live.
SessionIsLive(t) == ~Dead(tabs[t].sent.key)

CheckSession(t) ==
    /\ Server(t, "session")
    /\ IF SessionIsLive(t) THEN Goes(t, "permission") ELSE Redirect(t, "login")

CheckPermission(t) ==
    /\ Server(t, "permission")
    /\ IF Required(tabs[t].path) \subseteq held THEN Goes(t, "handler") ELSE Land(t, "forbidden")

\* A page's handler reads its rows, and the layout's permissions after them.
Page(t, path) ==
    /\ Server(t, "handler") /\ tabs[t].path = path
    /\ Land(t, "page")

Dashboard(t) == Page(t, "dashboard")
Events(t) == Page(t, "events")
EventDetail(t) == Page(t, "event_detail")
TopicsPage(t) == Page(t, "topics")
ConnectionsPage(t) == Page(t, "connections")
TasksPage(t) == Page(t, "tasks")
NotificationsPage(t) == Page(t, "notifications")
ProducersPage(t) == Page(t, "producers")
Playground(t) == Page(t, "playground")
ApiKeys(t) == Page(t, "api_keys")
AuditLog(t) == Page(t, "audit_log")
UsersPage(t) == Page(t, "users")
SettingsPage(t) == Page(t, "settings")
DocsIndex(t) == Page(t, "docs_index")
DocsSearch(t) == Page(t, "docs_search")

\* A slug there is no page for is a 404.
DocsPage(t) ==
    /\ Server(t, "handler") /\ tabs[t].path = "docs_page"
    /\ \E what \in {"page", "error"} : Land(t, what)

-----------------------------------------------------------------------------
(* control_endpoint with the browser's cookie: the user and the permission, *)
(* not the row.                                                            *)

Actor(t) ==
    /\ Server(t, "identify") /\ tabs[t].path \in Reads
    /\ IF Loaded(t) THEN Goes(t, "require") ELSE Land(t, "refused")

RequireRead(t) ==
    /\ Server(t, "require")
    /\ IF Required(tabs[t].path) \subseteq held THEN Goes(t, "read") ELSE Land(t, "refused")

Read(t, path) == Server(t, "read") /\ tabs[t].path = path /\ Land(t, "answer")

ControlDashboard(t) == Read(t, "control_dashboard")
ProducersList(t) == Read(t, "producers_list")
KeysList(t) == Read(t, "keys_list")
TopicsList(t) == Read(t, "topics_list")
ConnectionsList(t) == Read(t, "connections_list")
SubscriptionsList(t) == Read(t, "subscriptions_list")
UsersList(t) == Read(t, "users_list")

-----------------------------------------------------------------------------
(* Signing in and out.                                                     *)

\* Mutant: whoever has a cookie is sent to the dashboard.
LoginAnyCookie(t) ==
    /\ Server(t, "login")
    /\ IF Loaded(t) THEN Redirect(t, "dashboard") ELSE Land(t, "form")

\* The sign-in screen.  A cookie whose session is dead is cleared.
Login(t) ==
    /\ Server(t, "login")
    /\ IF ~Loaded(t) THEN Land(t, "form")
       ELSE IF SessionIsLive(t) THEN Redirect(t, "dashboard")
       ELSE /\ jar' = NoUser
            /\ tabs' = [u \in Tabs |-> IF u = t THEN AtRest(t, "form")
                                       ELSE [tabs[u] EXCEPT !.hops = 0]]
            /\ UNCHANGED <<webRows, active, held, loads, visits, changes>>

\* The account is looked up; the password may be wrong.  A refusal is kept in
\* the session for the form to show.
LoginLookUp(t) ==
    /\ Server(t, "lookup")
    /\ \/ active /\ Goes(t, "create")
       \/ RedirectWith(t, "login", tabs[t].sent)

LoginCreate(t) ==
    /\ Server(t, "create")
    /\ \E s \in SessionRows \ {0} :
          /\ webRows[s] = "none" /\ jar.key # s /\ \A u \in Tabs : tabs[u].sent.key # s
          /\ webRows' = [webRows EXCEPT ![s] = "live"]
          /\ tabs' = [tabs EXCEPT ![t] =
                        [pc |-> "greet", path |-> @.path, sent |-> SignedIn(s),
                         hops |-> @.hops, live |-> @.live, allowed |-> @.allowed]]
    /\ UNCHANGED <<jar, active, held, loads, visits, changes>>

\* The last login, its event and the audit row; the cookie comes with the answer.
LoginDone(t) == Server(t, "greet") /\ RedirectWith(t, "dashboard", tabs[t].sent)

LogoutRow(t) ==
    /\ Server(t, "logout")
    /\ webRows' = [webRows EXCEPT ![tabs[t].sent.key] =
                     IF @ # "none" /\ tabs[t].sent.user THEN "dead" ELSE @]
    /\ tabs' = [u \in Tabs |-> IF u = t THEN [tabs[u] EXCEPT !.pc = "forget"]
                               ELSE [tabs[u] EXCEPT !.hops = 0]]
    /\ UNCHANGED <<jar, active, held, loads, visits, changes>>

LogoutDone(t) == Server(t, "forget") /\ RedirectWith(t, "login", NoUser)

-----------------------------------------------------------------------------
(* Everything else.                                                        *)

\* The answer is lost or the request fails; the tab shows it.
Lost(t) == tabs[t].pc \notin Landed /\ Land(t, "error")

Afresh(row, permissions) ==
    [t \in Tabs |->
        [pc |-> tabs[t].pc, path |-> tabs[t].path, sent |-> tabs[t].sent, hops |-> 0,
         live |-> tabs[t].live \/ row[tabs[t].sent.key] # "dead",
         allowed |-> tabs[t].allowed \/ Required(tabs[t].path) \subseteq permissions]]

Change == changes < MaxChanges /\ changes' = changes + 1

\* A session is revoked or expires.
EndSession(s) ==
    /\ webRows[s] = "live" /\ Change
    /\ webRows' = [webRows EXCEPT ![s] = "dead"]
    /\ tabs' = Afresh(webRows, held)
    /\ UNCHANGED <<jar, active, held, loads, visits>>

\* The account is disabled, or enabled again; its sessions are revoked by steps
\* of their own.
SetActive ==
    /\ Change /\ active' = ~active
    /\ tabs' = Afresh(webRows, held)
    /\ UNCHANGED <<jar, webRows, held, loads, visits>>

SetRole(permissions) ==
    /\ Change /\ held' = permissions
    /\ tabs' = Afresh(webRows, permissions)
    /\ UNCHANGED <<jar, webRows, active, loads, visits>>

\* The database is rebuilt: the rows are gone, the cookies are not.
Rebuild ==
    /\ Change /\ webRows' = [s \in SessionRows |-> "none"]
    /\ tabs' = Afresh(webRows', held)
    /\ UNCHANGED <<jar, active, held, loads, visits>>

Gate(t) == Identify(t) \/ CheckSession(t) \/ CheckPermission(t) \/ Actor(t) \/ RequireRead(t)

Pages(t) ==
    \/ Dashboard(t) \/ Events(t) \/ EventDetail(t) \/ TopicsPage(t)
    \/ ConnectionsPage(t) \/ TasksPage(t) \/ NotificationsPage(t)
    \/ ProducersPage(t) \/ Playground(t) \/ ApiKeys(t) \/ AuditLog(t)
    \/ UsersPage(t) \/ SettingsPage(t)
    \/ DocsIndex(t) \/ DocsSearch(t) \/ DocsPage(t)

ControlReads(t) ==
    \/ ControlDashboard(t) \/ ProducersList(t) \/ KeysList(t) \/ TopicsList(t)
    \/ ConnectionsList(t) \/ SubscriptionsList(t) \/ UsersList(t)

Signing(t) ==
    \/ Login(t) \/ LoginLookUp(t) \/ LoginCreate(t) \/ LoginDone(t)
    \/ LogoutRow(t) \/ LogoutDone(t)

WebNext ==
    \/ \E t \in Tabs : \/ \E path \in Visits[t] : Open(t, path)
                       \/ Gate(t) \/ Pages(t) \/ ControlReads(t) \/ Signing(t)
                       \/ Lost(t)
    \/ \E s \in SessionRows : EndSession(s)
    \/ SetActive \/ Rebuild
    \/ \E permissions \in Holdings : SetRole(permissions)

-----------------------------------------------------------------------------
WebTypeOK ==
    /\ jar \in [user : BOOLEAN, key : SessionRows]
    /\ \A t \in Tabs :
          /\ tabs[t].path \in Paths /\ tabs[t].hops \in 0..3
          /\ tabs[t].sent \in [user : BOOLEAN, key : SessionRows]
    /\ webRows \in [SessionRows -> {"none", "live", "dead"}]
    /\ active \in BOOLEAN /\ held \in Holdings /\ visits \in [Tabs -> Nat]

(* auth.py:29-35, tests/test_pages.py: a browser is never sent back and     *)
(* forth between the guard and the sign-in screen.  Since its cookie, the   *)
(* session's row, the account or its role last changed it is sent on twice  *)
(* at most, whatever the cookie and the row have come to: alive,           *)
(* revoked, unknown, or of an account that was disabled.                    *)
Lands == \A t \in Tabs : tabs[t].hops <= 2

(* _kit.py:72-79: a session revoked before a request was sent opens no page *)
(* to it, nor does a permission the operator has not held since then open a *)
(* page or answer a read, however the steps of the guard fall between       *)
(* signing out in another tab, disabling the account and changing its role. *)
(* The reads look at no row (see EveryRequestChecked).                      *)
ShownWhileEntitled ==
    \A t \in Tabs :
        /\ tabs[t].pc = "page" => tabs[t].live /\ tabs[t].allowed
        /\ tabs[t].pc = "answer" => tabs[t].allowed

(* What docs/SECURITY.md:8 says of the dashboard's cookie: the session's    *)
(* row is checked for revocation on every request, the pages' own reads     *)
(* among them.                                                              *)
EveryRequestChecked ==
    \A t \in Tabs : tabs[t].pc \in {"page", "answer"} => tabs[t].live
=============================================================================
