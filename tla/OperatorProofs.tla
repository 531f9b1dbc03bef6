--------------------------- MODULE OperatorProofs ----------------------------
(***************************************************************************)
(* What an operator holds, for any number of tabs, terminals, requests and *)
(* sessions: the dashboard's guard, the shell's credentials file, and how  *)
(* long a credential lets its holder in.                                   *)
(***************************************************************************)
EXTENDS Web, Shell, Access, TLAPS

-----------------------------------------------------------------------------
(* The dashboard.                                                          *)

WebSpec == WebInit /\ [][WebNext]_webVars

Cookies == [user : BOOLEAN, key : SessionRows]
Guarded == {"identify", "session", "permission", "handler"}
OwnForms == {"lookup", "create", "greet", "logout", "forget"}
TabPcs == Landed \cup Guarded \cup OwnForms \cup {"login", "require", "read"}
TabRow == [pc : TabPcs, path : Paths, sent : Cookies, hops : 0..3,
           live : BOOLEAN, allowed : BOOLEAN]

WebTypes == WebTypeOK /\ tabs \in [Tabs -> TabRow]

(* A browser is sent on only with a cookie that is the jar's, or for the    *)
(* first time; and once it was sent on twice, whichever of the two, the     *)
(* guard or the sign-in screen, has it now will keep it.                    *)
Welcome(t) == Loaded(t) /\ SessionIsLive(t)
HopsInv(t) ==
    /\ tabs[t].pc \in Landed \cup OwnForms => tabs[t].hops = 0
    /\ tabs[t].hops > 0 => tabs[t].sent = jar
    /\ tabs[t].hops <= 2
    /\ tabs[t].hops = 2 /\ tabs[t].pc \in Guarded => Welcome(t)
    /\ tabs[t].hops = 2 /\ tabs[t].pc = "login" => ~Welcome(t)

(* What the guard has found so far was so at some time since the request    *)
(* was sent.                                                                *)
ShownInv(t) ==
    /\ tabs[t].pc \in {"identify", "session"} => tabs[t].live \/ Dead(tabs[t].sent.key)
    /\ tabs[t].pc \in {"permission", "handler", "page"} => tabs[t].live
    /\ tabs[t].pc \in {"identify", "session", "permission", "require"} =>
          (Required(tabs[t].path) \subseteq held => tabs[t].allowed)
    /\ tabs[t].pc \in {"handler", "read", "page", "answer"} => tabs[t].allowed

WebInv == WebTypes /\ \A t \in Tabs : HopsInv(t) /\ ShownInv(t)

(* The strings in play.                                                     *)
LEMMA PathsHold == {"login", "dashboard"} \subseteq Paths
  BY DEF Paths, PagePermission

LEMMA WebTypesInit == WebInit => WebInv
<1> SUFFICES ASSUME WebInit PROVE WebInv
  OBVIOUS
<1>1. \A t \in Tabs : tabs[t] = Blank
  BY DEF WebInit
<1>2. Blank \in TabRow
  BY PathsHold, WebAssumption
  DEF Blank, TabRow, TabPcs, Landed, NoUser, Cookies, SessionRows
<1>3. tabs \in [Tabs -> TabRow]
  BY <1>2 DEF WebInit
<1>4. WebTypeOK
  <2>1. \A t \in Tabs : /\ tabs[t].path \in Paths /\ tabs[t].hops \in 0..3
                        /\ tabs[t].sent \in [user : BOOLEAN, key : SessionRows]
    BY <1>3 DEF TabRow, Cookies
  <2>2. jar \in [user : BOOLEAN, key : SessionRows]
    BY WebAssumption DEF WebInit, SignedIn, SessionRows
  <2>3. /\ webRows \in [SessionRows -> {"none", "live", "dead"}]
        /\ active \in BOOLEAN /\ held \in Holdings /\ visits \in [Tabs -> Nat]
    BY DEF WebInit
  <2> QED  BY <2>1, <2>2, <2>3 DEF WebTypeOK
<1>5. \A t \in Tabs : HopsInv(t) /\ ShownInv(t)
  BY <1>1 DEF HopsInv, ShownInv, Blank, Landed, Guarded
<1> QED  BY <1>3, <1>4, <1>5 DEF WebInv, WebTypes

(* A tab as its invariants see it, and the whole of the types, step by step *)
LEMMA TypesAfter ==
    ASSUME WebTypes, tabs' \in [Tabs -> TabRow], jar' \in Cookies,
           webRows' \in [SessionRows -> {"none", "live", "dead"}],
           active' \in BOOLEAN, held' \in Holdings, visits' \in [Tabs -> Nat]
    PROVE  WebTypes'
  BY DEF WebTypes, WebTypeOK, TabRow, Cookies

LEMMA TypesNow ==
    ASSUME WebTypes
    PROVE  /\ tabs \in [Tabs -> TabRow] /\ jar \in Cookies
           /\ webRows \in [SessionRows -> {"none", "live", "dead"}]
           /\ active \in BOOLEAN /\ held \in Holdings /\ visits \in [Tabs -> Nat]
           /\ \A t \in Tabs : /\ tabs[t].pc \in TabPcs /\ tabs[t].path \in Paths
                              /\ tabs[t].sent \in Cookies /\ tabs[t].hops \in 0..3
                              /\ tabs[t].live \in BOOLEAN /\ tabs[t].allowed \in BOOLEAN
  BY DEF WebTypes, WebTypeOK, TabRow, Cookies

(* A tab that is left alone while nothing it depends on changes.            *)
LEMMA TabKept ==
    ASSUME NEW u \in Tabs, HopsInv(u), ShownInv(u), tabs'[u] = tabs[u],
           UNCHANGED <<jar, webRows, active, held, loads>>
    PROVE  HopsInv(u)' /\ ShownInv(u)'
  BY DEF HopsInv, ShownInv, Welcome, Loaded, SessionIsLive, Dead

LEMMA HopsAfresh ==
    ASSUME NEW u \in Tabs, tabs'[u].hops = 0
    PROVE  HopsInv(u)'
  BY DEF HopsInv

(* What a tab was shown, or may be, when others change rows or roles.       *)
LEMMA ShownKept ==
    ASSUME NEW u \in Tabs, ShownInv(u),
           tabs'[u].pc = tabs[u].pc, tabs'[u].path = tabs[u].path,
           tabs'[u].sent = tabs[u].sent,
           tabs[u].live => tabs'[u].live,
           tabs[u].allowed => tabs'[u].allowed,
           tabs'[u].live \/ (Dead(tabs[u].sent.key) => webRows'[tabs[u].sent.key] = "dead"),
           held' = held \/ (Required(tabs[u].path) \subseteq held' => tabs'[u].allowed)
    PROVE  ShownInv(u)'
  BY DEF ShownInv, Dead

-----------------------------------------------------------------------------
LEMMA LandKeeps ==
    ASSUME WebInv, NEW t \in Tabs, NEW what \in Landed, Land(t, what),
           what = "page" => tabs[t].live /\ tabs[t].allowed,
           what = "answer" => tabs[t].allowed
    PROVE  WebInv'
<1>1. WebTypes
  BY DEF WebInv
<1>2. AtRest(t, what) \in TabRow /\ AtRest(t, what).pc = what
      /\ AtRest(t, what).hops = 0
      /\ AtRest(t, what).live = tabs[t].live /\ AtRest(t, what).allowed = tabs[t].allowed
  BY <1>1, TypesNow, PathsHold, WebAssumption
  DEF AtRest, TabRow, TabPcs, NoUser, Cookies, SessionRows
<1>3. /\ tabs' = [tabs EXCEPT ![t] = AtRest(t, what)]
      /\ UNCHANGED <<jar, webRows, active, held, loads, visits>>
  BY DEF Land
<1>4. tabs' \in [Tabs -> TabRow] /\ tabs'[t] = AtRest(t, what)
      /\ \A u \in Tabs \ {t} : tabs'[u] = tabs[u]
  BY <1>1, <1>2, <1>3, TypesNow
<1>5. HopsInv(t)' /\ ShownInv(t)'
  <2>1. HopsInv(t)'
    BY <1>2, <1>4, HopsAfresh
  <2>2. ShownInv(t)'
    BY <1>2, <1>4 DEF ShownInv, Landed
  <2> QED  BY <2>1, <2>2
<1>6. \A u \in Tabs \ {t} : HopsInv(u)' /\ ShownInv(u)'
  BY <1>3, <1>4, TabKept DEF WebInv
<1>7. WebTypes'
  BY <1>1, <1>3, <1>4, TypesNow, TypesAfter
<1> QED  BY <1>5, <1>6, <1>7 DEF WebInv

(* The request goes on to its next await.                                   *)
LEMMA GoesKeeps ==
    ASSUME WebInv, NEW t \in Tabs, NEW pc \in TabPcs \ {"login"}, Goes(t, pc),
           tabs[t].pc \notin Landed, pc \notin Landed,
           pc \in OwnForms => tabs[t].pc \in OwnForms,
           pc \in Guarded => tabs[t].pc \in Guarded,
           pc \in {"identify", "session"} => tabs[t].pc \in {"identify", "session"},
           pc \in {"permission", "handler"} =>
                tabs[t].pc \in {"permission", "handler"} \/ ~Dead(tabs[t].sent.key),
           pc = "handler" => tabs[t].pc = "permission",
           pc \in {"permission", "require"} => tabs[t].pc \in {"identify", "session"},
           pc \in {"handler", "read"} =>
                /\ tabs[t].pc \in {"permission", "require"}
                /\ Required(tabs[t].path) \subseteq held
    PROVE  WebInv'
<1>1. WebTypes /\ HopsInv(t) /\ ShownInv(t)
  BY DEF WebInv
<1>2. /\ tabs' = [tabs EXCEPT ![t].pc = pc]
      /\ UNCHANGED <<jar, webRows, active, held, loads, visits>>
  BY DEF Goes, Await
<1>3. /\ tabs' \in [Tabs -> TabRow]
      /\ tabs'[t].pc = pc /\ tabs'[t].path = tabs[t].path /\ tabs'[t].sent = tabs[t].sent
      /\ tabs'[t].hops = tabs[t].hops /\ tabs'[t].live = tabs[t].live
      /\ tabs'[t].allowed = tabs[t].allowed
      /\ \A u \in Tabs \ {t} : tabs'[u] = tabs[u]
  BY <1>1, <1>2, TypesNow DEF TabRow
<1>4. HopsInv(t)'
  BY <1>1, <1>2, <1>3 DEF HopsInv, Welcome, Loaded, SessionIsLive, Dead, OwnForms, Guarded
<1>5. ShownInv(t)'
  BY <1>1, <1>2, <1>3 DEF ShownInv, Dead, Landed
<1>6. \A u \in Tabs \ {t} : HopsInv(u)' /\ ShownInv(u)'
  BY <1>2, <1>3, TabKept DEF WebInv
<1>7. WebTypes'
  BY <1>1, <1>2, <1>3, TypesNow, TypesAfter
<1> QED  BY <1>4, <1>5, <1>6, <1>7 DEF WebInv

(* A request as it is sent.                                                 *)
LEMMA RequestIs ==
    ASSUME WebTypes, NEW t \in Tabs, NEW path \in Paths, NEW cookie \in Cookies,
           NEW hops \in 0..3
    PROVE  /\ Request(t, path, cookie, hops) \in TabRow
           /\ Request(t, path, cookie, hops).pc \in {"login", "lookup", "logout", "identify"}
           /\ path = "login" => Request(t, path, cookie, hops).pc = "login"
           /\ path = "dashboard" => Request(t, path, cookie, hops).pc = "identify"
           /\ Request(t, path, cookie, hops).path = path
           /\ Request(t, path, cookie, hops).sent = cookie
           /\ Request(t, path, cookie, hops).hops = hops
           /\ Request(t, path, cookie, hops).live = ~Dead(cookie.key)
           /\ Request(t, path, cookie, hops).allowed = (Required(path) \subseteq held)
<1> DEFINE pc == CASE path = "login" -> "login"
                   [] path = "login_submit" -> "lookup"
                   [] path = "logout" -> "logout"
                   [] OTHER -> "identify"
<1>1. /\ pc \in {"login", "lookup", "logout", "identify"}
      /\ path = "login" => pc = "login"
      /\ path = "dashboard" => pc = "identify"
  OBVIOUS
<1>2. Request(t, path, cookie, hops) =
        [pc |-> pc, path |-> path, sent |-> cookie, hops |-> hops,
         live |-> ~Dead(cookie.key), allowed |-> Required(path) \subseteq held]
  BY DEF Request
<1> HIDE DEF pc
<1> QED  BY <1>1, <1>2 DEF TabRow, TabPcs, Guarded, OwnForms

(* Whatever a request asks for, what it was sent with shows.                *)
LEMMA RequestShown ==
    ASSUME WebTypes, NEW t \in Tabs, NEW path \in Paths, NEW cookie \in Cookies,
           NEW hops \in 0..3, tabs'[t] = Request(t, path, cookie, hops),
           UNCHANGED <<webRows, held>>
    PROVE  ShownInv(t)'
<1>1. /\ tabs'[t].pc \in {"login", "lookup", "logout", "identify"}
      /\ tabs'[t].path = path /\ tabs'[t].sent = cookie
      /\ tabs'[t].live = ~Dead(cookie.key)
      /\ tabs'[t].allowed = (Required(path) \subseteq held)
  BY RequestIs
<1> QED  BY <1>1 DEF ShownInv, Dead

LEMMA OpenKeeps ==
    ASSUME WebInv, NEW t \in Tabs, NEW path \in Visits[t], Open(t, path)
    PROVE  WebInv'
<1>1. WebTypes
  BY DEF WebInv
<1>2. path \in Paths /\ jar \in Cookies
  BY <1>1, WebAssumption, TypesNow
<1>3. /\ tabs' = [tabs EXCEPT ![t] = Request(t, path, jar, 0)]
      /\ UNCHANGED <<jar, webRows, active, held, loads>>
      /\ visits' = [visits EXCEPT ![t] = @ + 1]
  BY DEF Open
<1>4. /\ tabs' \in [Tabs -> TabRow] /\ tabs'[t] = Request(t, path, jar, 0)
      /\ tabs'[t].hops = 0
      /\ \A u \in Tabs \ {t} : tabs'[u] = tabs[u]
  BY <1>1, <1>2, <1>3, RequestIs, TypesNow
<1>5. HopsInv(t)' /\ ShownInv(t)'
  BY <1>1, <1>2, <1>3, <1>4, HopsAfresh, RequestShown
<1>6. \A u \in Tabs \ {t} : HopsInv(u)' /\ ShownInv(u)'
  BY <1>3, <1>4, TabKept DEF WebInv
<1>7. visits' \in [Tabs -> Nat]
  BY <1>1, <1>3, TypesNow
<1>8. WebTypes'
  BY <1>1, <1>3, <1>4, <1>7, TypesNow, TypesAfter
<1> QED  BY <1>5, <1>6, <1>8 DEF WebInv

(* Sent on by the guard or by the sign-in screen, which agree on whom they  *)
(* welcome.                                                                 *)
LEMMA RedirectKeeps ==
    ASSUME WebInv, NEW t \in Tabs, NEW path \in {"login", "dashboard"}, Redirect(t, path),
           path = "login" => ~Welcome(t) /\ tabs[t].pc \in Guarded,
           path = "dashboard" => Welcome(t) /\ tabs[t].pc = "login"
    PROVE  WebInv'
<1>1. WebTypes /\ HopsInv(t) /\ ShownInv(t)
  BY DEF WebInv
<1>2. path \in Paths /\ jar \in Cookies /\ tabs[t].hops \in 0..3
  BY <1>1, PathsHold, TypesNow
<1>3. tabs[t].hops \in {0, 1} /\ (tabs[t].hops = 1 => tabs[t].sent = jar)
  BY <1>1, <1>2 DEF HopsInv
<1> DEFINE h == tabs[t].hops + 1
<1>4. Onward(tabs[t].hops) = h /\ h \in {1, 2} /\ (h = 2 => tabs[t].sent = jar)
  BY <1>3 DEF Onward
<1>5. /\ tabs' = [tabs EXCEPT ![t] = Request(t, path, jar, h)]
      /\ UNCHANGED <<jar, webRows, active, held, loads, visits>>
  BY <1>4 DEF Redirect
<1> HIDE DEF h
<1>6. /\ tabs' \in [Tabs -> TabRow] /\ tabs'[t] = Request(t, path, jar, h)
      /\ tabs'[t].hops = h /\ tabs'[t].sent = jar
      /\ path = "login" => tabs'[t].pc = "login"
      /\ path = "dashboard" => tabs'[t].pc = "identify"
      /\ \A u \in Tabs \ {t} : tabs'[u] = tabs[u]
  BY <1>1, <1>2, <1>4, <1>5, RequestIs, TypesNow
<1>7. h = 2 => (Welcome(t)' <=> Welcome(t))
  BY <1>4, <1>5, <1>6 DEF Welcome, Loaded, SessionIsLive, Dead
<1>8. HopsInv(t)'
  BY <1>4, <1>5, <1>6, <1>7 DEF HopsInv, Guarded, Landed, OwnForms
<1>9. ShownInv(t)'
  BY <1>1, <1>2, <1>4, <1>5, <1>6, RequestShown
<1>10. \A u \in Tabs \ {t} : HopsInv(u)' /\ ShownInv(u)'
  BY <1>5, <1>6, TabKept DEF WebInv
<1>11. WebTypes'
  BY <1>1, <1>5, <1>6, TypesNow, TypesAfter
<1> QED  BY <1>8, <1>9, <1>10, <1>11 DEF WebInv

(* Sent on with a new cookie, after a form of one's own.                    *)
LEMMA RedirectWithKeeps ==
    ASSUME WebInv, NEW t \in Tabs, NEW path \in {"login", "dashboard"},
           NEW cookie \in Cookies, RedirectWith(t, path, cookie), tabs[t].pc \in OwnForms
    PROVE  WebInv'
<1>1. WebTypes /\ HopsInv(t)
  BY DEF WebInv
<1>2. path \in Paths /\ tabs[t].hops = 0 /\ Onward(tabs[t].hops) = 1
  BY <1>1, PathsHold DEF HopsInv, Onward
<1>3. /\ tabs' = [u \in Tabs |-> IF u = t THEN Request(t, path, cookie, 1)
                                 ELSE [tabs[u] EXCEPT !.hops = 0]]
      /\ jar' = cookie
      /\ UNCHANGED <<webRows, active, held, loads, visits>>
  BY <1>2 DEF RedirectWith
<1>4. /\ tabs'[t] = Request(t, path, cookie, 1) /\ tabs'[t] \in TabRow
      /\ tabs'[t].hops = 1 /\ tabs'[t].sent = cookie
      /\ tabs'[t].pc \in {"login", "identify"}
  BY <1>1, <1>2, <1>3, RequestIs
<1>5. ASSUME NEW u \in Tabs \ {t}
      PROVE  /\ tabs'[u] \in TabRow /\ tabs'[u].hops = 0
             /\ tabs'[u].pc = tabs[u].pc /\ tabs'[u].path = tabs[u].path
             /\ tabs'[u].sent = tabs[u].sent /\ tabs'[u].live = tabs[u].live
             /\ tabs'[u].allowed = tabs[u].allowed
  <2>1. tabs[u] \in TabRow /\ tabs'[u] = [tabs[u] EXCEPT !.hops = 0]
    BY <1>1, <1>3, TypesNow
  <2> QED  BY <2>1 DEF TabRow
<1>6. tabs' \in [Tabs -> TabRow]
  BY <1>3, <1>4, <1>5
<1>7. HopsInv(t)' /\ ShownInv(t)'
  <2>1. HopsInv(t)'
    BY <1>3, <1>4 DEF HopsInv, Landed, OwnForms
  <2>2. ShownInv(t)'
    BY <1>1, <1>2, <1>3, <1>4, RequestShown
  <2> QED  BY <2>1, <2>2
<1>8. ASSUME NEW u \in Tabs \ {t} PROVE HopsInv(u)' /\ ShownInv(u)'
  <2>1. ShownInv(u)
    BY DEF WebInv
  <2>2. ShownInv(u)'
    BY <1>3, <1>5, <2>1, ShownKept DEF Dead
  <2> QED  BY <1>5, <2>2, HopsAfresh
<1>9. WebTypes'
  BY <1>1, <1>3, <1>6, TypesNow, TypesAfter
<1> QED  BY <1>7, <1>8, <1>9 DEF WebInv

(* Somebody changes what tabs may see, and every tab starts counting anew.  *)
LEMMA AfreshKeeps ==
    ASSUME WebInv, NEW row, tabs' = Afresh(row, held'),
           webRows' \in [SessionRows -> {"none", "live", "dead"}],
           \A s \in SessionRows : Dead(s) /\ row[s] = "dead" => webRows'[s] = "dead",
           active' \in BOOLEAN, held' \in Holdings, UNCHANGED <<jar, visits>>
    PROVE  WebInv'
<1>1. WebTypes
  BY DEF WebInv
<1>2. ASSUME NEW u \in Tabs
      PROVE  /\ tabs'[u] \in TabRow /\ tabs'[u].hops = 0
             /\ tabs'[u].pc = tabs[u].pc /\ tabs'[u].path = tabs[u].path
             /\ tabs'[u].sent = tabs[u].sent
             /\ tabs[u].live => tabs'[u].live
             /\ row[tabs[u].sent.key] # "dead" => tabs'[u].live
             /\ tabs[u].allowed => tabs'[u].allowed
             /\ Required(tabs[u].path) \subseteq held' => tabs'[u].allowed
  <2>1. tabs'[u] = [pc |-> tabs[u].pc, path |-> tabs[u].path, sent |-> tabs[u].sent,
                    hops |-> 0,
                    live |-> tabs[u].live \/ row[tabs[u].sent.key] # "dead",
                    allowed |-> tabs[u].allowed
                                  \/ Required(tabs[u].path) \subseteq held']
    BY DEF Afresh
  <2>2. PICK live \in BOOLEAN : live = (tabs[u].live \/ row[tabs[u].sent.key] # "dead")
    OBVIOUS
  <2>3. PICK allowed \in BOOLEAN :
          allowed = (tabs[u].allowed \/ Required(tabs[u].path) \subseteq held')
    OBVIOUS
  <2>4. tabs'[u] = [pc |-> tabs[u].pc, path |-> tabs[u].path, sent |-> tabs[u].sent,
                    hops |-> 0, live |-> live, allowed |-> allowed]
    BY <2>1, <2>2, <2>3
  <2>5. tabs'[u] \in TabRow
    BY <1>1, <2>4, TypesNow DEF TabRow
  <2>6. /\ tabs'[u].pc = tabs[u].pc /\ tabs'[u].path = tabs[u].path
        /\ tabs'[u].sent = tabs[u].sent /\ tabs'[u].hops = 0
        /\ tabs'[u].live = live /\ tabs'[u].allowed = allowed
    BY <2>4
  <2>7. /\ tabs[u].live \/ row[tabs[u].sent.key] # "dead" => live
        /\ tabs[u].allowed \/ Required(tabs[u].path) \subseteq held' => allowed
    BY <2>2, <2>3
  <2> QED  BY <2>5, <2>6, <2>7
<1>3. tabs' \in [Tabs -> TabRow]
  BY <1>2 DEF Afresh
<1>4. ASSUME NEW u \in Tabs PROVE HopsInv(u)' /\ ShownInv(u)'
  <2>1. ShownInv(u) /\ tabs[u].sent.key \in SessionRows
    BY <1>1, TypesNow DEF WebInv, Cookies
  <2>2. tabs'[u].live \/ (Dead(tabs[u].sent.key) => webRows'[tabs[u].sent.key] = "dead")
    BY <1>2, <2>1 DEF Dead
  <2>3. ShownInv(u)'
    BY <1>2, <2>1, <2>2, ShownKept
  <2> QED  BY <1>2, <2>3, HopsAfresh
<1>5. WebTypes'
  BY <1>1, <1>3, TypesNow, TypesAfter
<1> QED  BY <1>4, <1>5 DEF WebInv

LEMMA EnvironmentKeeps ==
    ASSUME WebInv,
           \/ \E s \in SessionRows : EndSession(s)
           \/ SetActive \/ Rebuild
           \/ \E permissions \in Holdings : SetRole(permissions)
    PROVE  WebInv'
<1>1. /\ webRows \in [SessionRows -> {"none", "live", "dead"}]
      /\ active \in BOOLEAN /\ held \in Holdings
  BY TypesNow DEF WebInv
<1>2. ASSUME NEW s \in SessionRows, EndSession(s) PROVE WebInv'
  <2>1. /\ webRows' = [webRows EXCEPT ![s] = "dead"] /\ tabs' = Afresh(webRows, held')
        /\ UNCHANGED <<jar, active, held, visits>>
    BY <1>2 DEF EndSession
  <2>2. /\ webRows' \in [SessionRows -> {"none", "live", "dead"}]
        /\ \A q \in SessionRows : Dead(q) => webRows'[q] = "dead"
    BY <1>1, <2>1 DEF Dead
  <2> QED  BY <1>1, <2>1, <2>2, AfreshKeeps
<1>3. CASE SetActive
  <2>1. /\ active' = ~active /\ tabs' = Afresh(webRows, held')
        /\ UNCHANGED <<jar, webRows, held, visits>>
    BY <1>3 DEF SetActive
  <2>2. \A q \in SessionRows : Dead(q) => webRows'[q] = "dead"
    BY <2>1 DEF Dead
  <2> QED  BY <1>1, <2>1, <2>2, AfreshKeeps
<1>4. CASE Rebuild
  <2>1. /\ webRows' = [s \in SessionRows |-> "none"] /\ tabs' = Afresh(webRows', held')
        /\ UNCHANGED <<jar, active, held, visits>>
    BY <1>4 DEF Rebuild
  <2>2. PICK row : row = webRows'
    OBVIOUS
  <2>3. /\ webRows' \in [SessionRows -> {"none", "live", "dead"}]
        /\ \A q \in SessionRows : row[q] # "dead"
    BY <2>1, <2>2
  <2>4. tabs' = Afresh(row, held')
    BY <2>1, <2>2
  <2>5. UNCHANGED <<jar, active, held, visits>>
    BY <2>1
  <2> QED  BY <1>1, <2>3, <2>4, <2>5, AfreshKeeps
<1>5. ASSUME NEW permissions \in Holdings, SetRole(permissions) PROVE WebInv'
  <2>1. /\ held' = permissions /\ tabs' = Afresh(webRows, held')
        /\ UNCHANGED <<jar, webRows, active, visits>>
    BY <1>5 DEF SetRole
  <2>2. \A q \in SessionRows : Dead(q) => webRows'[q] = "dead"
    BY <2>1 DEF Dead
  <2> QED  BY <1>1, <1>5, <2>1, <2>2, AfreshKeeps
<1> QED  BY <1>2, <1>3, <1>4, <1>5

-----------------------------------------------------------------------------
(* The guard, the pages and the reads.                                      *)

LEMMA GateKeeps ==
    ASSUME WebInv, NEW t \in Tabs, Gate(t)
    PROVE  WebInv'
<1>1. WebTypes /\ HopsInv(t) /\ ShownInv(t)
  BY DEF WebInv
<1>2. CASE Identify(t)
  <2>1. tabs[t].pc = "identify"
    BY <1>2 DEF Identify, Server
  <2>2. CASE Loaded(t)
    <3>1. Goes(t, "session")
      BY <1>2, <2>2 DEF Identify
    <3> QED  BY <2>1, <3>1, GoesKeeps DEF TabPcs, Landed, OwnForms, Guarded
  <2>3. CASE ~Loaded(t)
    <3>1. Redirect(t, "login")
      BY <1>2, <2>3 DEF Identify
    <3> QED  BY <2>1, <2>3, <3>1, RedirectKeeps DEF Welcome, Guarded
  <2> QED  BY <2>2, <2>3
<1>3. CASE CheckSession(t)
  <2>1. tabs[t].pc = "session"
    BY <1>3 DEF CheckSession, Server
  <2>2. CASE SessionIsLive(t)
    <3>1. Goes(t, "permission") /\ ~Dead(tabs[t].sent.key)
      BY <1>3, <2>2 DEF CheckSession, SessionIsLive
    <3> QED  BY <2>1, <3>1, GoesKeeps DEF TabPcs, Landed, OwnForms, Guarded
  <2>3. CASE ~SessionIsLive(t)
    <3>1. Redirect(t, "login")
      BY <1>3, <2>3 DEF CheckSession
    <3> QED  BY <2>1, <2>3, <3>1, RedirectKeeps DEF Welcome, Guarded
  <2> QED  BY <2>2, <2>3
<1>4. CASE CheckPermission(t)
  <2>1. tabs[t].pc = "permission"
    BY <1>4 DEF CheckPermission, Server
  <2>2. CASE Required(tabs[t].path) \subseteq held
    <3>1. Goes(t, "handler")
      BY <1>4, <2>2 DEF CheckPermission
    <3> QED  BY <2>1, <2>2, <3>1, GoesKeeps DEF TabPcs, Landed, OwnForms, Guarded
  <2>3. CASE ~(Required(tabs[t].path) \subseteq held)
    <3>1. Land(t, "forbidden")
      BY <1>4, <2>3 DEF CheckPermission
    <3> QED  BY <3>1, LandKeeps DEF Landed
  <2> QED  BY <2>2, <2>3
<1>5. CASE Actor(t)
  <2>1. tabs[t].pc = "identify"
    BY <1>5 DEF Actor, Server
  <2>2. Goes(t, "require") \/ Land(t, "refused")
    BY <1>5 DEF Actor
  <2>3. CASE Goes(t, "require")
    BY <2>1, <2>3, GoesKeeps DEF TabPcs, Landed, OwnForms, Guarded
  <2>4. CASE Land(t, "refused")
    BY <2>4, LandKeeps DEF Landed
  <2> QED  BY <2>2, <2>3, <2>4
<1>6. CASE RequireRead(t)
  <2>1. tabs[t].pc = "require"
    BY <1>6 DEF RequireRead, Server
  <2>2. CASE Required(tabs[t].path) \subseteq held
    <3>1. Goes(t, "read")
      BY <1>6, <2>2 DEF RequireRead
    <3> QED  BY <2>1, <2>2, <3>1, GoesKeeps DEF TabPcs, Landed, OwnForms, Guarded
  <2>3. CASE ~(Required(tabs[t].path) \subseteq held)
    <3>1. Land(t, "refused")
      BY <1>6, <2>3 DEF RequireRead
    <3> QED  BY <3>1, LandKeeps DEF Landed
  <2> QED  BY <2>2, <2>3
<1> QED  BY <1>2, <1>3, <1>4, <1>5, <1>6 DEF Gate

LEMMA PagesKeep ==
    ASSUME WebInv, NEW t \in Tabs, Pages(t) \/ ControlReads(t) \/ Lost(t)
    PROVE  WebInv'
<1>1. ShownInv(t)
  BY DEF WebInv
<1>2. ASSUME tabs[t].pc = "handler", NEW what \in {"page", "error"}, Land(t, what)
      PROVE  WebInv'
  <2>1. what \in Landed /\ what # "answer" /\ tabs[t].live /\ tabs[t].allowed
    BY <1>1, <1>2 DEF ShownInv, Landed
  <2> QED  BY <1>2, <2>1, LandKeeps
<1>3. ASSUME NEW path, Page(t, path) PROVE WebInv'
  BY <1>2, <1>3 DEF Page, Server
<1>4. CASE DocsPage(t)
  BY <1>2, <1>4 DEF DocsPage, Server
<1>5. CASE Pages(t)
  BY <1>3, <1>4, <1>5
  DEF Pages, Dashboard, Events, EventDetail, TopicsPage, ConnectionsPage, TasksPage,
      NotificationsPage, ProducersPage, Playground, ApiKeys, AuditLog, UsersPage,
      SettingsPage, DocsIndex, DocsSearch
<1>6. ASSUME NEW path, Read(t, path) PROVE WebInv'
  <2>1. tabs[t].allowed /\ Land(t, "answer")
    BY <1>1, <1>6 DEF ShownInv, Read, Server
  <2> QED  BY <2>1, LandKeeps DEF Landed
<1>7. CASE ControlReads(t)
  BY <1>6, <1>7
  DEF ControlReads, ControlDashboard, ProducersList, KeysList, TopicsList,
      ConnectionsList, SubscriptionsList, UsersList
<1>8. CASE Lost(t)
  BY <1>8, LandKeeps DEF Lost, Landed
<1> QED  BY <1>5, <1>7, <1>8

-----------------------------------------------------------------------------
(* Signing in and out.                                                      *)

(* One tab rests or goes on, and the others' requests start afresh.         *)
LEMMA SignKeeps ==
    ASSUME WebInv, NEW t \in Tabs, NEW row \in TabRow, row.hops = 0,
           row.pc \in {"form", "greet", "forget"},
           tabs' = [u \in Tabs |-> IF u = t THEN row ELSE [tabs[u] EXCEPT !.hops = 0]],
           jar' \in Cookies,
           webRows' \in [SessionRows -> {"none", "live", "dead"}],
           \A s \in SessionRows : Dead(s) => webRows'[s] = "dead",
           UNCHANGED <<active, held, loads, visits>>
    PROVE  WebInv'
<1>1. WebTypes
  BY DEF WebInv
<1>2. ASSUME NEW u \in Tabs \ {t}
      PROVE  /\ tabs'[u] \in TabRow /\ tabs'[u].hops = 0
             /\ tabs'[u].pc = tabs[u].pc /\ tabs'[u].path = tabs[u].path
             /\ tabs'[u].sent = tabs[u].sent /\ tabs'[u].live = tabs[u].live
             /\ tabs'[u].allowed = tabs[u].allowed
  <2>1. tabs[u] \in TabRow /\ tabs'[u] = [tabs[u] EXCEPT !.hops = 0]
    BY <1>1, TypesNow
  <2> QED  BY <2>1 DEF TabRow
<1>3. tabs' \in [Tabs -> TabRow] /\ tabs'[t] = row
  BY <1>2
<1>4. HopsInv(t)' /\ ShownInv(t)'
  <2>1. HopsInv(t)'
    BY <1>3, HopsAfresh
  <2>2. ShownInv(t)'
    BY <1>3 DEF ShownInv
  <2> QED  BY <2>1, <2>2
<1>5. ASSUME NEW u \in Tabs \ {t} PROVE HopsInv(u)' /\ ShownInv(u)'
  <2>1. ShownInv(u) /\ tabs[u].sent.key \in SessionRows
    BY <1>1, TypesNow DEF WebInv, Cookies
  <2>2. ShownInv(u)'
    BY <1>2, <2>1, ShownKept
  <2> QED  BY <1>2, <2>2, HopsAfresh
<1>6. WebTypes'
  BY <1>1, <1>3, TypesNow, TypesAfter
<1> QED  BY <1>4, <1>5, <1>6 DEF WebInv

LEMMA SigningKeeps ==
    ASSUME WebInv, NEW t \in Tabs, Signing(t)
    PROVE  WebInv'
<1>1. WebTypes /\ HopsInv(t) /\ ShownInv(t)
  BY DEF WebInv
<1>2. /\ tabs \in [Tabs -> TabRow] /\ jar \in Cookies
      /\ webRows \in [SessionRows -> {"none", "live", "dead"}]
      /\ tabs[t].pc \in TabPcs /\ tabs[t].path \in Paths /\ tabs[t].sent \in Cookies
      /\ tabs[t].live \in BOOLEAN /\ tabs[t].allowed \in BOOLEAN
  BY <1>1, TypesNow
<1>3. NoUser \in Cookies
  BY WebAssumption DEF NoUser, Cookies, SessionRows
<1>4. CASE Login(t)
  <2>1. tabs[t].pc = "login"
    BY <1>4 DEF Login, Server
  <2>2. CASE ~Loaded(t)
    BY <1>4, <2>2, LandKeeps DEF Login, Landed
  <2>3. CASE Welcome(t)
    <3>1. Redirect(t, "dashboard")
      BY <1>4, <2>3 DEF Login, Welcome
    <3> QED  BY <2>1, <2>3, <3>1, RedirectKeeps
  <2>4. CASE Loaded(t) /\ ~SessionIsLive(t)
    <3>1. /\ tabs' = [u \in Tabs |-> IF u = t THEN AtRest(t, "form")
                                     ELSE [tabs[u] EXCEPT !.hops = 0]]
          /\ jar' = NoUser /\ UNCHANGED <<webRows, active, held, loads, visits>>
      BY <1>4, <2>4 DEF Login
    <3>2. AtRest(t, "form") \in TabRow /\ AtRest(t, "form").hops = 0
          /\ AtRest(t, "form").pc = "form"
      BY <1>2, <1>3, PathsHold DEF AtRest, TabRow, TabPcs, Landed
    <3> HIDE DEF AtRest
    <3> QED  BY <1>2, <1>3, <3>1, <3>2, SignKeeps DEF Dead
  <2> QED  BY <2>2, <2>3, <2>4 DEF Welcome
<1>5. CASE LoginLookUp(t)
  <2>1. tabs[t].pc = "lookup"
    BY <1>5 DEF LoginLookUp, Server
  <2>2. CASE Goes(t, "create")
    BY <2>1, <2>2, GoesKeeps DEF TabPcs, Landed, OwnForms, Guarded
  <2>3. CASE RedirectWith(t, "login", tabs[t].sent)
    BY <1>2, <2>1, <2>3, RedirectWithKeeps DEF OwnForms
  <2> QED  BY <1>5, <2>2, <2>3 DEF LoginLookUp
<1>6. CASE LoginCreate(t)
  <2>1. tabs[t].pc = "create"
    BY <1>6 DEF LoginCreate, Server
  <2>2. tabs[t].hops = 0
    BY <1>1, <2>1 DEF HopsInv, OwnForms
  <2>3. PICK s \in SessionRows \ {0} :
          /\ webRows[s] = "none" /\ jar.key # s /\ \A u \in Tabs : tabs[u].sent.key # s
          /\ webRows' = [webRows EXCEPT ![s] = "live"]
          /\ tabs' = [tabs EXCEPT ![t] =
                        [pc |-> "greet", path |-> @.path, sent |-> SignedIn(s),
                         hops |-> @.hops, live |-> @.live, allowed |-> @.allowed]]
    BY <1>6 DEF LoginCreate
  <2>4. UNCHANGED <<jar, active, held, loads, visits>>
    BY <1>6 DEF LoginCreate
  <2> DEFINE row == [pc |-> "greet", path |-> tabs[t].path, sent |-> SignedIn(s),
                     hops |-> 0, live |-> tabs[t].live, allowed |-> tabs[t].allowed]
  <2>5. row \in TabRow /\ row.hops = 0 /\ row.pc = "greet"
    BY <1>2 DEF TabRow, TabPcs, OwnForms, Cookies, SignedIn
  <2>6. tabs' = [tabs EXCEPT ![t] = row]
    BY <2>2, <2>3
  <2> HIDE DEF row
  <2>7. tabs' \in [Tabs -> TabRow] /\ tabs'[t] = row
        /\ \A u \in Tabs \ {t} : tabs'[u] = tabs[u]
    BY <1>2, <2>5, <2>6
  <2>8. HopsInv(t)' /\ ShownInv(t)'
    <3>1. HopsInv(t)'
      BY <2>5, <2>7, HopsAfresh
    <3>2. ShownInv(t)'
      BY <2>5, <2>7 DEF ShownInv
    <3> QED  BY <3>1, <3>2
  <2>9. \A u \in Tabs : webRows'[tabs[u].sent.key] = webRows[tabs[u].sent.key]
    BY <1>2, <2>3
  <2>10. ASSUME NEW u \in Tabs \ {t} PROVE HopsInv(u)' /\ ShownInv(u)'
    BY <2>4, <2>7, <2>9
    DEF WebInv, HopsInv, ShownInv, Welcome, Loaded, SessionIsLive, Dead
  <2>11. webRows' \in [SessionRows -> {"none", "live", "dead"}]
    BY <1>2, <2>3
  <2>12. WebTypes'
    BY <1>1, <1>2, <2>4, <2>7, <2>11, TypesNow, TypesAfter
  <2> QED  BY <2>8, <2>10, <2>12 DEF WebInv
<1>7. CASE LoginDone(t)
  BY <1>2, <1>7, RedirectWithKeeps DEF LoginDone, Server, OwnForms
<1>8. CASE LogoutRow(t)
  <2>1. tabs[t].pc = "logout"
    BY <1>8 DEF LogoutRow, Server
  <2>2. tabs[t].hops = 0 /\ tabs[t].sent.key \in SessionRows
    BY <1>1, <1>2, <2>1 DEF HopsInv, OwnForms, Cookies
  <2>3. /\ webRows' = [webRows EXCEPT ![tabs[t].sent.key] =
                         IF @ # "none" /\ tabs[t].sent.user THEN "dead" ELSE @]
        /\ tabs' = [u \in Tabs |-> IF u = t THEN [tabs[u] EXCEPT !.pc = "forget"]
                                   ELSE [tabs[u] EXCEPT !.hops = 0]]
        /\ UNCHANGED <<jar, active, held, loads, visits>>
    BY <1>8 DEF LogoutRow
  <2>4. PICK row : row = [tabs[t] EXCEPT !.pc = "forget"]
    OBVIOUS
  <2>5. row \in TabRow /\ row.hops = 0 /\ row.pc = "forget"
    BY <1>2, <2>2, <2>4 DEF TabRow, TabPcs, OwnForms
  <2>6. tabs' = [u \in Tabs |-> IF u = t THEN row ELSE [tabs[u] EXCEPT !.hops = 0]]
    BY <2>3, <2>4
  <2>7. /\ webRows' \in [SessionRows -> {"none", "live", "dead"}]
        /\ \A s \in SessionRows : Dead(s) => webRows'[s] = "dead"
    BY <1>2, <2>2, <2>3 DEF Dead
  <2> QED  BY <1>2, <2>3, <2>5, <2>6, <2>7, SignKeeps
<1>9. CASE LogoutDone(t)
  BY <1>3, <1>9, RedirectWithKeeps DEF LogoutDone, Server, OwnForms
<1> QED  BY <1>4, <1>5, <1>6, <1>7, <1>8, <1>9 DEF Signing

LEMMA WebStep == WebInv /\ [WebNext]_webVars => WebInv'
<1> SUFFICES ASSUME WebInv, [WebNext]_webVars PROVE WebInv'
  OBVIOUS
<1>1. ASSUME NEW t \in Tabs, NEW path \in Visits[t], Open(t, path) PROVE WebInv'
  BY <1>1, OpenKeeps
<1>2. ASSUME NEW t \in Tabs, Gate(t) PROVE WebInv'
  BY <1>2, GateKeeps
<1>3. ASSUME NEW t \in Tabs, Pages(t) \/ ControlReads(t) \/ Lost(t) PROVE WebInv'
  BY <1>3, PagesKeep
<1>4. ASSUME NEW t \in Tabs, Signing(t) PROVE WebInv'
  BY <1>4, SigningKeeps
<1>5. CASE UNCHANGED webVars
  BY <1>5 DEF webVars, WebInv, WebTypes, WebTypeOK, HopsInv, ShownInv, Welcome, Loaded,
              SessionIsLive, Dead
<1> QED  BY <1>1, <1>2, <1>3, <1>4, <1>5, EnvironmentKeeps DEF WebNext

(* auth.py:29-35: whatever has become of the cookie, the row, the account   *)
(* and the role, and whatever the other tabs do, a browser is sent on at    *)
(* most twice: the guard and the sign-in screen, which read the same two    *)
(* facts in different requests, agree about them.                           *)
THEOREM BrowserLands == WebSpec => []Lands
<1>1. WebInv => Lands
  BY DEF WebInv, HopsInv, Lands
<1> QED  BY <1>1, WebTypesInit, WebStep, PTL DEF WebSpec

(* _kit.py:72-79: a page that is shown was asked for with a session that    *)
(* had not been revoked before, by an operator who has held its permission  *)
(* since; so was what the control plane answers.                            *)
THEOREM PagesNeedEntitlement == WebSpec => []ShownWhileEntitled
<1>1. WebInv => ShownWhileEntitled
  BY DEF WebInv, ShownInv, ShownWhileEntitled
<1> QED  BY <1>1, WebTypesInit, WebStep, PTL DEF WebSpec

-----------------------------------------------------------------------------
(* The shell.                                                               *)

ShellSpec == ShellInit /\ [][ShellNext]_shellVars

Holds == Tokens \cup {NoToken}
CliRows == [Tokens -> {"none", "live", "revoked"}]
TermRow == [pc : {"prompt", "request", "answer", "runs", "local", "truncate", "write",
                  "clear"},
            cmd : Commands, token : Holds, ok : BOOLEAN, left : Nat]

ShellTypes == ShellTypeOK /\ terms \in [Terminals -> TermRow]

(* Only a login that was answered has a session to lose; and a logout that  *)
(* was carried out has revoked what it named, which stays revoked.          *)
TermFits(row, rows) ==
    /\ row.pc \in {"prompt", "local"} => row.cmd # "login"
    /\ row.cmd = "login" /\ (row.pc = "request" \/ (row.pc = "answer" /\ ~row.ok))
          => row.token = NoToken
    /\ row.pc = "clear" => row.cmd = "logout"
    /\ row.cmd = "logout" /\ row.ok => row.token \in Tokens /\ rows[row.token] = "revoked"

ShellInv == /\ ShellTypes /\ NoForgottenSession
            /\ \A t \in Terminals : TermFits(terms[t], cliRows)

LEMMA ShellTypesNow ==
    ASSUME ShellTypes
    PROVE  /\ creds \in Holds \cup {Garbled} /\ cliRows \in CliRows
           /\ terms \in [Terminals -> TermRow]
           /\ \A t \in Terminals : /\ terms[t] \in TermRow /\ terms[t].cmd \in Commands
                                   /\ terms[t].token \in Holds
                                   /\ terms[t].ok \in BOOLEAN /\ terms[t].left \in Nat
  BY DEF ShellTypes, ShellTypeOK, TermRow, Holds, CliRows

LEMMA ShellTypesAfter ==
    ASSUME creds' \in Holds \cup {Garbled}, cliRows' \in CliRows,
           terms' \in [Terminals -> TermRow]
    PROVE  ShellTypes'
  BY DEF ShellTypes, ShellTypeOK, TermRow, Holds, CliRows

(* One terminal moves.  What it held, what the file held and what became    *)
(* live are accounted for; nobody is moved out of his record.               *)
LEMMA OneTerm ==
    ASSUME ShellInv, NEW t \in Terminals, NEW row \in TermRow,
           terms' = [terms EXCEPT ![t] = row],
           creds' \in Holds \cup {Garbled}, cliRows' \in CliRows,
           TermFits(row, cliRows'),
           \A s \in Tokens : cliRows[s] = "revoked" => cliRows'[s] = "revoked",
           \A s \in Tokens : cliRows'[s] = "live" =>
                cliRows[s] = "live" \/ (row.cmd = "login" /\ row.token = s),
           \A s \in Tokens : s = creds /\ cliRows'[s] = "live" =>
                s = creds' \/ s \in excused',
           excused \subseteq excused',
           \A s \in Tokens : terms[t].cmd = "login" /\ terms[t].token = s =>
                s = creds' \/ s \in excused' \/ (row.cmd = "login" /\ row.token = s)
    PROVE  ShellInv'
<1>1. terms \in [Terminals -> TermRow]
  BY ShellTypesNow DEF ShellInv
<1>2. /\ terms' \in [Terminals -> TermRow] /\ terms'[t] = row
      /\ \A u \in Terminals \ {t} : terms'[u] = terms[u]
  BY <1>1
<1>3. ShellTypes'
  BY <1>2, ShellTypesAfter
<1>4. ASSUME NEW u \in Terminals PROVE TermFits(terms'[u], cliRows')
  <2>1. CASE u = t
    BY <1>2, <2>1
  <2>2. CASE u # t
    <3>1. TermFits(terms[u], cliRows) /\ terms'[u] = terms[u]
      BY <1>2, <2>2 DEF ShellInv
    <3> QED  BY <3>1 DEF TermFits
  <2> QED  BY <2>1, <2>2
<1>5. ASSUME NEW s \in Tokens, cliRows'[s] = "live"
      PROVE  \/ s = creds' \/ s \in excused'
             \/ \E u \in Terminals : terms'[u].cmd = "login" /\ terms'[u].token = s
  <2>1. CASE row.cmd = "login" /\ row.token = s
    BY <1>2, <2>1
  <2>2. CASE cliRows[s] = "live" /\ ~(row.cmd = "login" /\ row.token = s)
    <3>1. \/ s = creds \/ s \in excused
          \/ \E u \in Terminals : terms[u].cmd = "login" /\ terms[u].token = s
      BY <2>2 DEF ShellInv, NoForgottenSession
    <3>2. ASSUME NEW u \in Terminals, terms[u].cmd = "login", terms[u].token = s
          PROVE  \/ s = creds' \/ s \in excused'
                 \/ \E q \in Terminals : terms'[q].cmd = "login" /\ terms'[q].token = s
      BY <1>2, <2>2, <3>2
    <3> QED  BY <1>5, <3>1, <3>2
  <2> QED  BY <1>5, <2>1, <2>2
<1>6. NoForgottenSession'
  BY <1>5 DEF NoForgottenSession
<1> QED  BY <1>3, <1>4, <1>6 DEF ShellInv

LEMMA PromptIs ==
    ASSUME NEW left \in Nat
    PROVE  /\ AtPrompt(left) \in TermRow
           /\ \A rows : TermFits(AtPrompt(left), rows)
           /\ AtPrompt(left).cmd = "serve"
  BY DEF AtPrompt, TermRow, TermFits, Commands, Holds

LEMMA ShellInitial == ShellInit => ShellInv
<1> SUFFICES ASSUME ShellInit PROVE ShellInv
  OBVIOUS
<1> USE ShellAssumption
<1>1. /\ creds \in {First, NoToken} /\ excused = {First} \ {creds}
      /\ terms = [t \in Terminals |-> AtPrompt(MaxCommands[t])]
      /\ cliRows = [s \in Tokens |-> IF s = First THEN "live" ELSE "none"]
  BY DEF ShellInit
<1>2. \A t \in Terminals : terms[t] \in TermRow /\ TermFits(terms[t], cliRows)
  BY <1>1, PromptIs
<1>3. terms \in [Terminals -> TermRow]
  BY <1>1, PromptIs
<1>4. ShellTypes
  BY <1>1, <1>3 DEF ShellTypes, ShellTypeOK, TermRow, Holds
<1>5. NoForgottenSession
  BY <1>1 DEF NoForgottenSession
<1> QED  BY <1>2, <1>4, <1>5 DEF ShellInv

-----------------------------------------------------------------------------
(* A command is started.                                                    *)

LEMMA StartKeeps ==
    ASSUME ShellInv, NEW t \in Terminals, NEW cmd \in Commands, NEW token \in Holds,
           NEW pc \in {"prompt", "request", "runs", "local"},
           terms[t].pc = "prompt", terms[t].left > 0,
           Start(t, cmd, token, pc), ClientOnly,
           cmd = "login" => pc = "request" /\ token = NoToken
    PROVE  ShellInv'
<1> DEFINE row == [pc |-> pc, cmd |-> cmd, token |-> token, ok |-> FALSE,
                   left |-> terms[t].left - 1]
<1>1. /\ creds \in Holds \cup {Garbled} /\ cliRows \in CliRows /\ terms[t].left \in Nat
      /\ TermFits(terms[t], cliRows)
  BY ShellTypesNow DEF ShellInv
<1>2. row \in TermRow
  BY <1>1 DEF TermRow
<1>3. terms' = [terms EXCEPT ![t] = row] /\ UNCHANGED <<creds, cliRows, excused>>
  BY DEF Start, ClientOnly
<1>4. TermFits(row, cliRows')
  BY DEF TermFits
<1>5. terms[t].cmd # "login"
  BY <1>1 DEF TermFits
<1> HIDE DEF row
<1> QED  BY <1>1, <1>2, <1>3, <1>4, <1>5, OneTerm

LEMMA ApiKeeps ==
    ASSUME ShellInv, NEW t \in Terminals, NEW cmd \in ApiCommands, Api(t, cmd)
    PROVE  ShellInv'
<1>1. ApiToken(t) \in Holds
  BY ShellAssumption DEF ApiToken, LoadToken, Holds
<1>2. PICK pc \in {"prompt", "request"} : Start(t, cmd, ApiToken(t), pc)
  BY DEF Api
<1>3. terms[t].pc = "prompt" /\ terms[t].left > 0 /\ ClientOnly
  BY DEF Api, Ready
<1>4. cmd \in Commands /\ cmd # "login"
  BY DEF ApiCommands, Commands
<1> QED  BY <1>1, <1>2, <1>3, <1>4, StartKeeps

LEMMA OneRequestKeeps ==
    ASSUME ShellInv, NEW t \in Terminals, OneRequest(t)
    PROVE  ShellInv'
<1>1. CASE \E cmd \in ApiCommands : Api(t, cmd)
  BY <1>1, ApiKeeps
<1>2. CASE SignIn(t)
  <2>1. /\ terms[t].pc = "prompt" /\ terms[t].left > 0
        /\ Start(t, "login", NoToken, "request") /\ ClientOnly
    BY <1>2 DEF SignIn, Ready
  <2> QED  BY <2>1, StartKeeps DEF Commands, Holds
<1>3. CASE \E cmd \in KeyCommands : KeyClient(t, cmd, "request")
  <2>1. PICK cmd \in KeyCommands : KeyClient(t, cmd, "request")
    BY <1>3
  <2>2. PICK pc \in {"prompt", "request"} : Start(t, cmd, NoToken, pc)
    BY <2>1 DEF KeyClient
  <2>3. terms[t].pc = "prompt" /\ terms[t].left > 0 /\ ClientOnly
    BY <2>1 DEF KeyClient, Ready
  <2>4. cmd \in Commands /\ cmd # "login" /\ NoToken \in Holds
    BY DEF KeyCommands, Commands, Holds
  <2> QED  BY <2>2, <2>3, <2>4, StartKeeps
<1> QED  BY <1>1, <1>2, <1>3
      DEF OneRequest, Whoami, ProducerCreate, ProducerList, KeyCreate, KeyList, KeyRevoke,
          TopicList, SignOut, EventsPublish, EventsInspect, EventsReplay,
          ApiCommands, KeyCommands

(* A command ends: what it may have had to lose is in the file or excused.  *)
LEMMA ExitKeeps ==
    ASSUME ShellInv, NEW t \in Terminals, Exit(t), UNCHANGED cliRows,
           creds' \in Holds \cup {Garbled}, excused \subseteq excused',
           \A s \in Tokens : s = creds /\ cliRows[s] = "live" =>
                s = creds' \/ s \in excused',
           \A s \in Tokens : terms[t].cmd = "login" /\ terms[t].token = s =>
                s = creds' \/ s \in excused'
    PROVE  ShellInv'
<1>1. terms[t].left \in Nat /\ cliRows \in CliRows
  BY ShellTypesNow DEF ShellInv
<1> DEFINE row == AtPrompt(terms[t].left)
<1>2. row \in TermRow /\ TermFits(row, cliRows')
  BY <1>1, PromptIs
<1>3. terms' = [terms EXCEPT ![t] = row]
  BY DEF Exit
<1> HIDE DEF row
<1> QED  BY <1>1, <1>2, <1>3, OneTerm

LEMMA NoRequestKeeps ==
    ASSUME ShellInv, NEW t \in Terminals, NoRequest(t)
    PROVE  ShellInv'
<1>1. ASSUME NEW cmd \in Commands \ {"login"}, NEW pc \in {"prompt", "runs", "local"},
             terms[t].pc = "prompt", terms[t].left > 0, Start(t, cmd, NoToken, pc),
             ClientOnly
      PROVE  ShellInv'
  BY <1>1, StartKeeps DEF Holds
<1>2. CASE EventsTail(t)
  <2>1. PICK pc \in {"prompt", "runs"} : Start(t, "events tail", NoToken, pc)
    BY <1>2 DEF EventsTail, KeyClient
  <2>2. terms[t].pc = "prompt" /\ terms[t].left > 0 /\ ClientOnly
    BY <1>2 DEF EventsTail, KeyClient, Ready
  <2> QED  BY <1>1, <2>1, <2>2 DEF Commands
<1>3. CASE Serve(t)
  <2>1. /\ terms[t].pc = "prompt" /\ terms[t].left > 0 /\ ClientOnly
        /\ Start(t, "serve", NoToken, "runs")
    BY <1>3 DEF Serve, Ready
  <2> QED  BY <1>1, <2>1 DEF Commands
<1>4. ASSUME NEW cmd \in LocalCommands, Local(t, cmd) PROVE ShellInv'
  <2>1. /\ terms[t].pc = "prompt" /\ terms[t].left > 0 /\ ClientOnly
        /\ Start(t, cmd, NoToken, "local")
    BY <1>4 DEF Local, Ready
  <2>2. cmd \in Commands \ {"login"}
    BY DEF LocalCommands, Commands
  <2> QED  BY <1>1, <2>1, <2>2
<1>5. CASE LocalDone(t)
  <2>1. terms[t].pc = "local" /\ Exit(t) /\ UNCHANGED <<creds, cliRows, excused>>
    BY <1>5 DEF LocalDone
  <2>2. terms[t].cmd # "login" /\ creds \in Holds \cup {Garbled}
    BY <2>1, ShellTypesNow DEF ShellInv, TermFits
  <2> QED  BY <2>1, <2>2, ExitKeeps
<1>6. CASE \E cmd \in LocalCommands : UserSetActive(t, cmd)
  BY <1>4, <1>6 DEF UserSetActive
<1> QED  BY <1>2, <1>3, <1>4, <1>5, <1>6
      DEF NoRequest, Migrate, Doctor, Work, UserCreate, UserList, UserShow, UserPassword,
          UserRole, LocalCommands

-----------------------------------------------------------------------------
(* A command waits for its answer.                                          *)

LEMMA BecomesKeeps ==
    ASSUME ShellInv, NEW t \in Terminals, NEW pc \in {"answer", "clear", "truncate", "write"},
           NEW token \in Holds, NEW ok \in BOOLEAN, NEW row,
           row = [pc |-> pc, cmd |-> terms[t].cmd, token |-> token, ok |-> ok,
                  left |-> terms[t].left],
           terms' = [terms EXCEPT ![t] = row],
           TermFits(row, cliRows'),
           creds' \in Holds \cup {Garbled}, cliRows' \in CliRows,
           \A s \in Tokens : cliRows[s] = "revoked" => cliRows'[s] = "revoked",
           \A s \in Tokens : cliRows'[s] = "live" =>
                cliRows[s] = "live" \/ (terms[t].cmd = "login" /\ token = s),
           \A s \in Tokens : s = creds => s = creds' \/ s \in excused',
           excused \subseteq excused',
           terms[t].cmd = "login" /\ terms[t].token \in Tokens => token = terms[t].token
    PROVE  ShellInv'
<1>1. terms[t].cmd \in Commands /\ terms[t].left \in Nat
  BY ShellTypesNow DEF ShellInv
<1>2. row \in TermRow /\ row.cmd = terms[t].cmd /\ row.token = token
  BY <1>1 DEF TermRow
<1> QED  BY <1>2, OneTerm

LEMMA ServerStepKeeps ==
    ASSUME ShellInv, NEW t \in Terminals, ServerStep(t)
    PROVE  ShellInv'
<1>1. /\ creds \in Holds \cup {Garbled} /\ cliRows \in CliRows
      /\ terms[t].token \in Holds /\ TermFits(terms[t], cliRows)
  BY ShellTypesNow DEF ShellInv
<1>2. ASSUME NEW cmds, Asked(t, cmds), NEW ok \in BOOLEAN, Answers(t, ok),
             ~ok \/ terms[t].cmd \notin {"login", "logout"},
             UNCHANGED <<creds, cliRows, excused>>
      PROVE  ShellInv'
  <2>1. PICK row : row = [pc |-> "answer", cmd |-> terms[t].cmd, token |-> terms[t].token,
                          ok |-> ok, left |-> terms[t].left]
    OBVIOUS
  <2>2. terms' = [terms EXCEPT ![t] = row]
    BY <1>2, <2>1 DEF Answers, Becomes
  <2>3. TermFits(row, cliRows')
    BY <1>1, <1>2, <2>1 DEF TermFits, Asked
  <2> QED  BY <1>1, <1>2, <2>1, <2>2, <2>3, BecomesKeeps
<1>3. CASE ServeCommand(t)
  <2>1. terms[t].cmd \notin {"login", "logout"}
    BY <1>3 DEF ServeCommand, Asked, ApiCommands, KeyCommands
  <2>2. PICK ok \in BOOLEAN : Answers(t, ok)
    BY <1>3 DEF ServeCommand
  <2> QED  BY <1>2, <1>3, <2>1, <2>2 DEF ServeCommand, ClientOnly
<1>4. CASE ServeLogin(t)
  <2>1. terms[t].pc = "request" /\ terms[t].cmd = "login" /\ terms[t].token = NoToken
        /\ UNCHANGED <<creds, excused>>
    BY <1>1, <1>4 DEF ServeLogin, Asked, TermFits
  <2>2. CASE Answers(t, FALSE) /\ UNCHANGED cliRows
    BY <1>2, <1>4, <2>1, <2>2 DEF ServeLogin
  <2>3. CASE \E s \in Tokens : /\ enabled /\ cliRows[s] = "none"
                               /\ cliRows' = [cliRows EXCEPT ![s] = "live"]
                               /\ Becomes(t, "answer", s, TRUE)
    <3>1. PICK s \in Tokens : /\ cliRows[s] = "none"
                              /\ cliRows' = [cliRows EXCEPT ![s] = "live"]
                              /\ Becomes(t, "answer", s, TRUE)
      BY <2>3
    <3>2. PICK row : row = [pc |-> "answer", cmd |-> terms[t].cmd, token |-> s,
                            ok |-> TRUE, left |-> terms[t].left]
      OBVIOUS
    <3>3. terms' = [terms EXCEPT ![t] = row]
      BY <3>1, <3>2 DEF Becomes
    <3>4. TermFits(row, cliRows')
      BY <2>1, <3>2 DEF TermFits
    <3>5. /\ cliRows' \in CliRows
          /\ \A q \in Tokens : cliRows[q] = "revoked" => cliRows'[q] = "revoked"
          /\ \A q \in Tokens : cliRows'[q] = "live" => cliRows[q] = "live" \/ q = s
      BY <1>1, <3>1 DEF CliRows
    <3>6. NoToken \notin Tokens /\ s \in Holds
      BY ShellAssumption DEF Holds
    <3> QED  BY <1>1, <2>1, <3>2, <3>3, <3>4, <3>5, <3>6, BecomesKeeps
  <2> QED  BY <1>4, <2>2, <2>3 DEF ServeLogin
<1>5. CASE ServeLogout(t)
  <2>1. terms[t].pc = "request" /\ terms[t].cmd = "logout" /\ UNCHANGED <<creds, excused>>
    BY <1>5 DEF ServeLogout, Asked
  <2>2. CASE UNCHANGED cliRows /\ Answers(t, FALSE)
    BY <1>2, <1>5, <2>1, <2>2 DEF ServeLogout
  <2>3. CASE /\ Signed(terms[t].token) /\ cliRows' = Revoked(terms[t].token)
             /\ Answers(t, TRUE)
    <3>1. PICK row : row = [pc |-> "answer", cmd |-> terms[t].cmd,
                            token |-> terms[t].token, ok |-> TRUE, left |-> terms[t].left]
      OBVIOUS
    <3>2. terms' = [terms EXCEPT ![t] = row]
      BY <2>3, <3>1 DEF Answers, Becomes
    <3>3. terms[t].token \in Tokens /\ cliRows[terms[t].token] = "live"
      BY <2>3 DEF Signed
    <3>4. /\ cliRows' \in CliRows /\ cliRows'[terms[t].token] = "revoked"
          /\ \A q \in Tokens : cliRows[q] = "revoked" => cliRows'[q] = "revoked"
          /\ \A q \in Tokens : cliRows'[q] = "live" => cliRows[q] = "live"
      BY <1>1, <2>3, <3>3 DEF CliRows, Revoked
    <3>5. TermFits(row, cliRows')
      BY <2>1, <3>1, <3>3, <3>4 DEF TermFits
    <3>6. /\ creds' \in Holds \cup {Garbled} /\ excused \subseteq excused'
          /\ \A s \in Tokens : s = creds => s = creds' \/ s \in excused'
      BY <1>1, <2>1
    <3>7. \A s \in Tokens : cliRows'[s] = "live" =>
             cliRows[s] = "live" \/ (terms[t].cmd = "login" /\ terms[t].token = s)
      BY <3>4
    <3>8. terms[t].cmd = "login" /\ terms[t].token \in Tokens => terms[t].token = terms[t].token
      OBVIOUS
    <3> QED  BY <1>1, <3>1, <3>2, <3>4, <3>5, <3>6, <3>7, <3>8, BecomesKeeps
  <2> QED  BY <1>5, <2>2, <2>3 DEF ServeLogout
<1> QED  BY <1>3, <1>4, <1>5 DEF ServerStep

LEMMA ProceedKeeps ==
    ASSUME ShellInv, NEW t \in Terminals, NEW pc \in {"clear", "truncate", "write"},
           Proceed(t, pc), UNCHANGED cliRows, creds' \in Holds \cup {Garbled},
           \A s \in Tokens : s = creds => s = creds' \/ s \in excused',
           excused \subseteq excused', pc = "clear" => terms[t].cmd = "logout"
    PROVE  ShellInv'
<1>1. /\ cliRows \in CliRows /\ terms[t] \in TermRow /\ TermFits(terms[t], cliRows)
      /\ terms[t].token \in Holds /\ terms[t].ok \in BOOLEAN
  BY ShellTypesNow DEF ShellInv
<1>2. PICK row : row = [pc |-> pc, cmd |-> terms[t].cmd, token |-> terms[t].token,
                        ok |-> terms[t].ok, left |-> terms[t].left]
  OBVIOUS
<1>3. row = [terms[t] EXCEPT !.pc = pc]
  BY <1>1, <1>2 DEF TermRow
<1>4. terms' = [terms EXCEPT ![t] = row]
  BY <1>3 DEF Proceed
<1>5. TermFits(row, cliRows')
  BY <1>1, <1>2 DEF TermFits
<1>6. terms[t].cmd \in Commands /\ terms[t].left \in Nat
  BY ShellTypesNow DEF ShellInv
<1>7. row \in TermRow /\ row.cmd = terms[t].cmd /\ row.token = terms[t].token
  BY <1>1, <1>2, <1>6 DEF TermRow
<1>8. cliRows' \in CliRows /\ \A s \in Tokens : cliRows'[s] = cliRows[s]
  BY <1>1
<1> QED  BY <1>4, <1>5, <1>7, <1>8, OneTerm

LEMMA ClientStepKeeps ==
    ASSUME ShellInv, NEW t \in Terminals, ClientStep(t)
    PROVE  ShellInv'
<1>1. /\ creds \in Holds \cup {Garbled} /\ cliRows \in CliRows
      /\ terms[t].token \in Holds /\ TermFits(terms[t], cliRows)
      /\ NoToken \notin Tokens /\ Garbled \notin Tokens
  BY ShellTypesNow, ShellAssumption DEF ShellInv
<1>2. CASE CommandDone(t)
  <2>1. terms[t].cmd # "login" /\ Exit(t) /\ UNCHANGED <<creds, cliRows, excused>>
    BY <1>2 DEF CommandDone, Answered, ClientOnly, ApiCommands, KeyCommands
  <2> QED  BY <1>1, <2>1, ExitKeeps
<1>3. CASE SignInAnswered(t)
  <2>1. terms[t].cmd = "login" /\ terms[t].pc = "answer"
        /\ UNCHANGED <<creds, cliRows, excused>>
    BY <1>3 DEF SignInAnswered, Answered, ClientOnly
  <2>2. CASE terms[t].ok
    <3>1. Proceed(t, "truncate")
      BY <1>3, <2>2 DEF SignInAnswered
    <3> QED  BY <1>1, <2>1, <3>1, ProceedKeeps
  <2>3. CASE ~terms[t].ok
    <3>1. Exit(t) /\ terms[t].token = NoToken
      BY <1>1, <1>3, <2>1, <2>3 DEF SignInAnswered, TermFits
    <3> QED  BY <1>1, <2>1, <3>1, ExitKeeps
  <2> QED  BY <2>2, <2>3
<1>4. CASE SignOutAnswered(t)
  <2>1. /\ terms[t].cmd = "logout" /\ Proceed(t, "clear")
        /\ UNCHANGED <<creds, cliRows, excused>>
    BY <1>4 DEF SignOutAnswered, Answered, ClientOnly
  <2> QED  BY <1>1, <2>1, ProceedKeeps
<1>5. CASE Truncate(t)
  <2>1. /\ creds' = Garbled /\ excused' = excused \cup {LoadToken}
        /\ Proceed(t, "write") /\ UNCHANGED cliRows
    BY <1>5 DEF Truncate
  <2>2. \A s \in Tokens : s = creds => s \in excused'
    BY <2>1 DEF LoadToken
  <2> QED  BY <2>1, <2>2, ProceedKeeps
<1>6. CASE WriteToken(t)
  <2>1. /\ Exit(t) /\ UNCHANGED cliRows
        /\ creds' \in IF creds \in Tokens THEN {terms[t].token, Garbled}
                      ELSE {terms[t].token}
        /\ excused' = excused \cup IF creds \in Tokens THEN {creds, terms[t].token} ELSE {}
    BY <1>6 DEF WriteToken
  <2>2. creds' \in Holds \cup {Garbled} /\ excused \subseteq excused'
    BY <1>1, <2>1
  <2>3. \A s \in Tokens : s = creds => s \in excused'
    BY <2>1
  <2>4. \A s \in Tokens : terms[t].token = s => s = creds' \/ s \in excused'
    BY <2>1
  <2> QED  BY <2>1, <2>2, <2>3, <2>4, ExitKeeps
<1>7. CASE ClearToken(t)
  <2>1. /\ terms[t].cmd = "logout" /\ creds' = NoToken /\ Exit(t) /\ UNCHANGED cliRows
        /\ excused' = IF terms[t].ok /\ terms[t].token = LoadToken THEN excused
                      ELSE excused \cup {LoadToken}
    BY <1>1, <1>7 DEF ClearToken, TermFits
  <2>2. ASSUME NEW s \in Tokens, s = creds, cliRows[s] = "live" PROVE s \in excused'
    <3>1. LoadToken = s
      BY <2>2 DEF LoadToken
    <3>2. ~(terms[t].ok /\ terms[t].token = s)
      BY <1>1, <2>1, <2>2 DEF TermFits
    <3> QED  BY <2>1, <3>1, <3>2
  <2>3. creds' \in Holds \cup {Garbled} /\ excused \subseteq excused'
    BY <2>1 DEF Holds
  <2> QED  BY <2>1, <2>2, <2>3, ExitKeeps
<1>8. ASSUME Abandoned(t), Exit(t), UNCHANGED <<creds, cliRows>> PROVE ShellInv'
  <2>1. /\ excused \subseteq excused'
        /\ terms[t].cmd = "login" => terms[t].token \in excused'
    BY <1>8 DEF Abandoned
  <2> QED  BY <1>1, <1>8, <2>1, ExitKeeps
<1>9. CASE Unanswered(t)
  <2>1. CASE terms[t].cmd = "logout"
    <3>1. /\ Becomes(t, "clear", terms[t].token, FALSE) /\ UNCHANGED <<creds, cliRows>>
          /\ excused' = excused
      BY <1>9, <2>1 DEF Unanswered, Abandoned
    <3>2. PICK row : row = [pc |-> "clear", cmd |-> terms[t].cmd,
                            token |-> terms[t].token, ok |-> FALSE, left |-> terms[t].left]
      OBVIOUS
    <3>3. terms' = [terms EXCEPT ![t] = row]
      BY <3>1, <3>2 DEF Becomes
    <3>4. TermFits(row, cliRows')
      BY <2>1, <3>2 DEF TermFits
    <3> QED  BY <1>1, <3>1, <3>2, <3>3, <3>4, BecomesKeeps
  <2>2. CASE terms[t].cmd # "logout"
    BY <1>8, <1>9, <2>2 DEF Unanswered
  <2> QED  BY <2>1, <2>2
<1>10. CASE Interrupt(t)
  BY <1>8, <1>10 DEF Interrupt
<1> QED  BY <1>2, <1>3, <1>4, <1>5, <1>6, <1>7, <1>9, <1>10 DEF ClientStep

(* A request is handled after its command has gone.                         *)
LEMMA LateKeeps ==
    ASSUME ShellInv, NEW a \in late, ServeLate(a)
    PROVE  ShellInv'
<1>1. /\ creds \in Holds \cup {Garbled} /\ cliRows \in CliRows
      /\ terms \in [Terminals -> TermRow]
      /\ UNCHANGED <<creds, terms>>
  BY ShellTypesNow DEF ShellInv, ServeLate
<1>2. /\ cliRows' \in CliRows /\ excused \subseteq excused'
      /\ \A s \in Tokens : cliRows[s] = "revoked" => cliRows'[s] = "revoked"
      /\ \A s \in Tokens : cliRows'[s] = "live" => cliRows[s] = "live" \/ s \in excused'
  <2>1. CASE Signed(a.token) /\ cliRows' = Revoked(a.token) /\ UNCHANGED excused
    BY <1>1, <2>1 DEF Signed, Revoked, CliRows
  <2>2. CASE \E s \in Tokens : /\ cliRows[s] = "none"
                               /\ cliRows' = [cliRows EXCEPT ![s] = "live"]
                               /\ excused' = excused \cup {s}
    BY <1>1, <2>2 DEF CliRows
  <2>3. CASE UNCHANGED <<cliRows, excused>>
    BY <1>1, <2>3
  <2> QED  BY <2>1, <2>2, <2>3 DEF ServeLate
<1>3. ShellTypes'
  BY <1>1, <1>2, ShellTypesAfter
<1>4. \A t \in Terminals : TermFits(terms[t], cliRows')
  BY <1>2 DEF ShellInv, TermFits
<1>5. NoForgottenSession'
  BY <1>1, <1>2 DEF ShellInv, NoForgottenSession
<1> QED  BY <1>1, <1>3, <1>4, <1>5 DEF ShellInv

LEMMA ShellStep == ShellInv /\ [ShellNext]_shellVars => ShellInv'
<1> SUFFICES ASSUME ShellInv, [ShellNext]_shellVars PROVE ShellInv'
  OBVIOUS
<1>1. CASE UNCHANGED shellVars
  BY <1>1 DEF shellVars, ShellInv, ShellTypes, ShellTypeOK, NoForgottenSession
<1> QED  BY <1>1, OneRequestKeeps, NoRequestKeeps, ServerStepKeeps, ClientStepKeeps,
            LateKeeps DEF ShellNext

(* docs/CLI.md:14-16: no session of the shell stays open unaccounted for,   *)
(* though the file is emptied and written in steps by commands that do not  *)
(* know of each other, and answers are lost or come too late.               *)
THEOREM NothingForgotten == ShellSpec => []NoForgottenSession
<1>1. ShellInv => NoForgottenSession
  BY DEF ShellInv
<1> QED  BY <1>1, ShellInitial, ShellStep, PTL DEF ShellSpec

-----------------------------------------------------------------------------
(* Access.                                                                  *)

AccessSpec == AccessInit /\ [][AccessNext]_accessVars

CallRow == [pc : InFlight \cup {"free", "answered", "open", "streams"},
            route : Routes, by : Credentials, age : Nat, late : BOOLEAN,
            exp : Nat, till : Nat, quiet : Nat]
TokenRow == [by : Credentials, left : Nat]

(* A token is minted by a request that is over one CallTime after it began, *)
(* and opens nothing once it has expired.                                   *)
TokenEnd == LongestTtl + CallTime

AccessTypes ==
    /\ AccessTypeOK
    /\ apiKey \in [live : BOOLEAN, scopes : KeyScopes]
    /\ minted \subseteq TokenRow
    /\ calls \in [Calls -> CallRow]

(* Where a request made after the withdrawal can have come to: the steps    *)
(* that let it in look at what was withdrawn.                               *)
LateStops(x) ==
    /\ x.pc \in {"key", "owner", "scope"} => x.by = "key"
    /\ x.pc = "key" /\ x.late => Withdrawn("key")
    /\ x.pc = "owner" /\ x.late => owner = "disabled"
    /\ x.pc \in {"session", "account", "permission"} => x.by \in Operators
    /\ x.pc = "session" => x.by = "bearer"
    /\ x.pc = "session" /\ x.late => Withdrawn("bearer")
    /\ x.pc = "account" /\ x.late => ~AccountLetsIn(x.by) \/ ~operator.role
    /\ x.pc = "permission" /\ x.late => ~operator.role
    /\ x.pc \in {"scope", "save"} => ~x.late
    /\ x.pc = "token" => x.route \in Realtime
    /\ x.pc = "handler" /\ x.late => x.route \in Realtime
    /\ x.pc = "answered" => ~x.late

(* How long ago its credential can have been withdrawn: s is that time.     *)
EndsInTime(x, s) ==
    /\ x.age <= CallTime
    /\ x.pc \in InFlight /\ ~x.late => s <= x.age
    /\ x.pc = "token" /\ x.exp > 0 => s + x.exp <= TokenEnd
    /\ x.pc = "handler" => s <= TokenEnd + x.age
    /\ x.pc = "open" /\ x.till > 0 =>
          s + x.till <= TokenEnd + CallTime + Lifetime + 1 /\ x.quiet <= Silence
    /\ x.pc = "open" /\ x.till = 0 =>
          s + x.quiet <= TokenEnd + CallTime + Lifetime + Silence

TokensEnd == \A token \in minted : since[token.by] + token.left <= TokenEnd
NotSince == \A by \in Credentials : ~Withdrawn(by) => since[by] = 0
CallInv(x) == LateStops(x) /\ EndsInTime(x, since[x.by])

AccessInv == AccessTypes /\ TokensEnd /\ NotSince /\ \A c \in Calls : CallInv(calls[c])

LEMMA AccessTypesNow ==
    ASSUME AccessTypes
    PROVE  /\ since \in [Credentials -> Nat]
           /\ \A c \in Calls :
                 /\ calls[c] \in CallRow
                 /\ calls[c].pc \in InFlight \cup {"free", "answered", "open", "streams"}
                 /\ calls[c].route \in Routes /\ calls[c].by \in Credentials
                 /\ calls[c].age \in Nat /\ calls[c].late \in BOOLEAN
                 /\ calls[c].exp \in Nat /\ calls[c].till \in Nat /\ calls[c].quiet \in Nat
<1>1. \A c \in Calls : calls[c] \in CallRow
  BY DEF AccessTypes
<1>2. 0..(Longest + 1) \subseteq Nat
  BY AccessAssumption DEF Longest
<1> QED  BY <1>1, <1>2 DEF AccessTypes, AccessTypeOK, CallRow

LEMMA FreeIs ==
    /\ Free \in CallRow /\ Free.pc = "free" /\ Free.age = 0
    /\ LateStops(Free) /\ \A s : EndsInTime(Free, s)
<1>1. Free \in CallRow
  BY DEF Free, CallRow, Routes, Credentials
<1>2. LateStops(Free) /\ \A s : EndsInTime(Free, s)
  BY AccessAssumption DEF Free, LateStops, EndsInTime, InFlight
<1> QED  BY <1>1, <1>2 DEF Free

LEMMA RepliedIs ==
    LET row == Replied(FALSE)
    IN  row \in CallRow /\ LateStops(row) /\ \A s : EndsInTime(row, s)
<1> DEFINE row == Replied(FALSE)
<1>1. row \in CallRow
  BY DEF Replied, CallRow, Routes, Credentials
<1>2. row.pc = "answered" /\ row.age = 0 /\ row.late = FALSE
  BY DEF Replied
<1> HIDE DEF row
<1>3. LateStops(row) /\ \A s : EndsInTime(row, s)
  BY <1>2, AccessAssumption DEF LateStops, EndsInTime, InFlight
<1> QED  BY <1>1, <1>3 DEF row

LEMMA AccessInitial == AccessInit => AccessInv
<1> SUFFICES ASSUME AccessInit PROVE AccessInv
  OBVIOUS
<1>1. \A c \in Calls : calls[c] = Free
  BY DEF AccessInit
<1>2. /\ apiKey \in [live : {TRUE}, scopes : KeyScopes] /\ owner = "active"
      /\ operator \in [row : BOOLEAN, enabled : BOOLEAN, role : BOOLEAN, loads : BOOLEAN]
      /\ minted = {} /\ unread = TRUE
      /\ since = [by \in Credentials |-> 0]
  BY DEF AccessInit
<1>3. calls \in [Calls -> CallRow]
  BY <1>1, FreeIs DEF AccessInit
<1>4. AccessTypeOK
  <2>1. since \in [Credentials -> 0..(Longest + 1)]
    BY <1>2, AccessAssumption DEF Longest
  <2>2. \A c \in Calls : calls[c].route \in Routes /\ calls[c].age <= CallTime
    BY <1>1, FreeIs, AccessAssumption DEF CallRow
  <2> QED  BY <1>2, <2>1, <2>2 DEF AccessTypeOK
<1>5. AccessTypes
  BY <1>2, <1>3, <1>4 DEF AccessTypes
<1>6. \A c \in Calls : CallInv(calls[c])
  BY <1>1, FreeIs DEF CallInv
<1>7. TokensEnd /\ NotSince
  BY <1>2 DEF TokensEnd, NotSince
<1> QED  BY <1>5, <1>6, <1>7 DEF AccessInv

(* One call moves, and time and credentials stand still.                    *)
LEMMA OneCall ==
    ASSUME AccessInv, NEW c \in Calls, NEW row \in CallRow,
           calls' = [calls EXCEPT ![c] = row], CallInv(row), unread' \in BOOLEAN,
           \A token \in minted' : token \in minted \/
                /\ token \in TokenRow /\ token.left <= LongestTtl
                /\ since[token.by] + token.left <= TokenEnd,
           UNCHANGED <<apiKey, owner, operator, since>>
    PROVE  AccessInv'
<1>1. AccessTypes /\ calls \in [Calls -> CallRow]
  BY DEF AccessInv, AccessTypes
<1>2. /\ calls' \in [Calls -> CallRow] /\ calls'[c] = row
      /\ \A d \in Calls \ {c} : calls'[d] = calls[d]
  BY <1>1
<1>3. ASSUME NEW d \in Calls PROVE CallInv(calls'[d])
  BY <1>2 DEF AccessInv
<1>4. ASSUME NEW d \in Calls PROVE calls'[d].route \in Routes /\ calls'[d].age <= CallTime
  BY <1>2, <1>3 DEF CallRow, CallInv, EndsInTime
<1>5. minted' \subseteq TokenRow
  BY <1>1 DEF AccessTypes
<1>6. ASSUME NEW token \in minted'
      PROVE  token.by \in Credentials /\ token.left \in 0..LongestTtl
  <2>1. CASE token \in minted
    BY <1>1, <2>1 DEF AccessTypes, AccessTypeOK
  <2>2. CASE token \in TokenRow /\ token.left <= LongestTtl
    BY <2>2, AccessAssumption DEF TokenRow
  <2> QED  BY <2>1, <2>2
<1>7. AccessTypes'
  BY <1>1, <1>2, <1>4, <1>5, <1>6 DEF AccessTypes, AccessTypeOK
<1>8. TokensEnd'
  BY DEF AccessInv, TokensEnd
<1>9. NotSince'
  BY DEF AccessInv, NotSince, Withdrawn, KeyIsLive, AccountLetsIn
<1>10. \A d \in Calls : CallInv(calls[d])'
  BY <1>3 DEF CallInv, LateStops, EndsInTime, Withdrawn, KeyIsLive, AccountLetsIn
<1> QED  BY <1>7, <1>8, <1>9, <1>10 DEF AccessInv

LEMMA FreeKeeps ==
    ASSUME AccessInv, NEW c \in Calls, Waits(c, "free"), unread' \in BOOLEAN,
           UNCHANGED <<apiKey, owner, operator, minted, since>>
    PROVE  AccessInv'
<1>1. calls' = [calls EXCEPT ![c] = Free]
  BY DEF Waits
<1>2. Free \in CallRow /\ CallInv(Free)
  BY FreeIs DEF CallInv
<1> QED  BY <1>1, <1>2, OneCall

LEMMA AnswerKeeps ==
    ASSUME AccessInv, NEW c \in Calls, Waits(c, "answered"), unread' \in BOOLEAN,
           ~calls[c].late,
           \A token \in minted' : token \in minted \/
                /\ token \in TokenRow /\ token.left <= LongestTtl
                /\ since[token.by] + token.left <= TokenEnd,
           UNCHANGED <<apiKey, owner, operator, since>>
    PROVE  AccessInv'
<1>1. PICK row : row = Replied(FALSE)
  OBVIOUS
<1>2. calls' = [calls EXCEPT ![c] = row]
  <2>1. calls[c].late = FALSE
    BY AccessTypesNow DEF AccessInv
  <2> QED  BY <1>1, <2>1 DEF Waits
<1>3. row \in CallRow /\ CallInv(row)
  BY <1>1, RepliedIs DEF CallInv
<1> QED  BY <1>2, <1>3, OneCall

(* A request that is let in a step further, because what it depends on was  *)
(* not withdrawn when the step looked.                                      *)
LEMMA OnlyKeeps ==
    ASSUME AccessInv, NEW c \in Calls, calls[c].pc \in InFlight,
           NEW pc \in {"owner", "scope", "account", "permission", "handler", "save",
                       "streams"},
           Only(c, pc),
           pc = "owner" => calls[c].pc = "key" /\ apiKey.live,
           pc = "scope" => calls[c].pc = "owner" /\ owner = "active",
           pc = "account" => calls[c].pc = "session" /\ operator.row,
           pc = "permission" => calls[c].pc = "account" /\ AccountLetsIn(calls[c].by),
           pc = "handler" => \/ calls[c].pc = "scope"
                             \/ calls[c].pc = "permission" /\ operator.role
                             \/ calls[c].pc = "token" /\ calls[c].exp > 0,
           pc = "save" => calls[c].pc = "handler" /\ calls[c].route \notin Realtime
    PROVE  AccessInv'
<1> DEFINE x == calls[c]
<1>1. /\ x \in CallRow /\ x.age \in Nat /\ x.late \in BOOLEAN /\ x.exp \in Nat
      /\ x.by \in Credentials /\ since[x.by] \in Nat
      /\ LateStops(x) /\ EndsInTime(x, since[x.by])
  BY AccessTypesNow DEF AccessInv, CallInv
<1>2. PICK row : row = [x EXCEPT !.pc = pc]
  OBVIOUS
<1>3. /\ calls' = [calls EXCEPT ![c] = row] /\ unread' = unread
      /\ UNCHANGED <<apiKey, owner, operator, minted, since>>
  BY <1>2 DEF Only, Waits
<1>4. /\ row \in CallRow /\ row.pc = pc /\ row.route = x.route /\ row.by = x.by
      /\ row.age = x.age /\ row.late = x.late /\ row.exp = x.exp
  BY <1>1, <1>2 DEF CallRow, InFlight
<1>5. LateStops(row)
  BY <1>1, <1>4 DEF LateStops, Withdrawn, KeyIsLive, AccountLetsIn, Operators, Realtime
<1>6. EndsInTime(row, since[row.by])
  <2>1. pc = "handler" => since[x.by] <= TokenEnd + x.age
    <3>1. TokenEnd \in Nat
      BY AccessAssumption DEF TokenEnd
    <3>2. CASE x.pc = "scope" \/ (x.pc = "permission" /\ operator.role)
      <4>1. ~x.late
        BY <1>1, <3>2 DEF LateStops, Withdrawn
      <4> QED  BY <1>1, <3>1, <4>1 DEF EndsInTime
    <3>3. CASE x.pc = "token" /\ x.exp > 0
      BY <1>1, <3>1, <3>3 DEF EndsInTime
    <3> QED  BY <3>2, <3>3
  <2> QED  BY <1>1, <1>4, <2>1 DEF EndsInTime
<1> HIDE DEF x
<1>7. unread' \in BOOLEAN
  BY <1>3 DEF AccessInv, AccessTypes, AccessTypeOK
<1> QED  BY <1>3, <1>4, <1>5, <1>6, <1>7, OneCall DEF CallInv

-----------------------------------------------------------------------------
(* A call begins, is let in and is answered.                                *)

LEMMA BeginsKeeps ==
    ASSUME AccessInv, NEW c \in Calls, NEW route \in Routes, NEW by \in Credentials,
           NEW exp \in Nat, NEW pc \in {"key", "token", "session", "account"},
           Begins(c, route, by, exp, pc),
           pc = "key" => by = "key",
           pc = "session" => by = "bearer",
           pc = "account" => by = "cookie",
           pc = "token" => route \in Realtime /\ since[by] + exp <= TokenEnd
    PROVE  AccessInv'
<1>1. PICK gone \in BOOLEAN : gone = Withdrawn(by)
  BY DEF Withdrawn, KeyIsLive, AccessInv, AccessTypes
<1>2. PICK row : row = [pc |-> pc, route |-> route, by |-> by, age |-> 0, late |-> gone,
                        exp |-> exp, till |-> 0, quiet |-> 0]
  OBVIOUS
<1>3. /\ calls' = [calls EXCEPT ![c] = row]
      /\ UNCHANGED <<apiKey, owner, operator, minted, since, unread>>
  BY <1>1, <1>2 DEF Begins, Sends
<1>4. /\ row \in CallRow /\ row.pc = pc /\ row.route = route /\ row.by = by
      /\ row.age = 0 /\ row.late = gone /\ row.exp = exp
  BY <1>2 DEF CallRow, InFlight
<1>5. LateStops(row)
  BY <1>1, <1>4 DEF LateStops, Operators, Withdrawn
<1>6. ~gone => since[by] = 0
  BY <1>1 DEF AccessInv, NotSince
<1>7. EndsInTime(row, since[row.by])
  BY <1>4, <1>6, AccessAssumption DEF EndsInTime
<1>8. unread' \in BOOLEAN
  BY <1>3 DEF AccessInv, AccessTypes, AccessTypeOK
<1> QED  BY <1>3, <1>4, <1>5, <1>7, <1>8, OneCall DEF CallInv

LEMMA UnreadNow == AccessInv => unread \in BOOLEAN
  BY DEF AccessInv, AccessTypes, AccessTypeOK

LEMMA ArrivesKeeps ==
    ASSUME AccessInv, NEW c \in Calls, Arrives(c)
    PROVE  AccessInv'
<1>1. ASSUME NEW route, WithKey(c, route) PROVE AccessInv'
  <2>1. route \in Routes /\ Begins(c, route, "key", 0, "key")
    BY <1>1 DEF WithKey, Routes
  <2> QED  BY <2>1, BeginsKeeps DEF Credentials
<1>2. ASSUME NEW route, AsOperator(c, route) PROVE AccessInv'
  <2>1. /\ route \in Routes
        /\ Begins(c, route, "cookie", 0, "account") \/ Begins(c, route, "bearer", 0, "session")
    BY <1>2 DEF AsOperator, Routes
  <2>2. "cookie" \in Credentials /\ "bearer" \in Credentials
    BY DEF Credentials, Operators
  <2> QED  BY <2>1, <2>2, BeginsKeeps
<1>3. ASSUME NEW route, NEW token \in minted, WithToken(c, route, token) PROVE AccessInv'
  <2>1. /\ route \in Routes /\ route \in Realtime
        /\ Begins(c, route, token.by, token.left, "token")
    BY <1>3 DEF WithToken, Routes
  <2>2. /\ token.by \in Credentials /\ token.left \in Nat
        /\ since[token.by] + token.left <= TokenEnd
    BY DEF AccessInv, AccessTypes, TokenRow, TokensEnd
  <2> QED  BY <2>1, <2>2, BeginsKeeps
<1>4. CASE Health(c)
  <2>1. PICK row : row = Replied(FALSE)
    OBVIOUS
  <2>2. /\ calls' = [calls EXCEPT ![c] = row]
        /\ UNCHANGED <<apiKey, owner, operator, minted, since, unread>>
    BY <1>4, <2>1 DEF Health, Sends
  <2>3. row \in CallRow /\ CallInv(row)
    BY <2>1, RepliedIs DEF CallInv
  <2> QED  BY <2>2, <2>3, UnreadNow, OneCall
<1> QED  BY <1>1, <1>2, <1>3, <1>4 DEF Arrives

LEMMA OnlyFree ==
    ASSUME AccessInv, NEW c \in Calls, Only(c, "free")
    PROVE  AccessInv'
  BY UnreadNow, FreeKeeps DEF Only

LEMMA OnlyAnswered ==
    ASSUME AccessInv, NEW c \in Calls, Only(c, "answered"), ~calls[c].late
    PROVE  AccessInv'
  BY UnreadNow, AnswerKeeps DEF Only

LEMMA LetInKeeps ==
    ASSUME AccessInv, NEW c \in Calls, LetIn(c)
    PROVE  AccessInv'
<1>1. CASE LookUpKey(c)
  <2>1. calls[c].pc = "key" /\ calls[c].pc \in InFlight
    BY <1>1 DEF LookUpKey, In, InFlight
  <2>2. (apiKey.live /\ Only(c, "owner")) \/ Only(c, "free")
    BY <1>1 DEF LookUpKey, KeyIsLive
  <2> QED  BY <2>1, <2>2, OnlyFree, OnlyKeeps
<1>2. CASE LookUpOwner(c)
  <2>1. calls[c].pc = "owner" /\ calls[c].pc \in InFlight
    BY <1>2 DEF LookUpOwner, In, InFlight
  <2>2. (owner = "active" /\ Only(c, "scope")) \/ Only(c, "free")
    BY <1>2 DEF LookUpOwner
  <2> QED  BY <2>1, <2>2, OnlyFree, OnlyKeeps
<1>3. CASE RequireScope(c)
  <2>1. calls[c].pc = "scope" /\ calls[c].pc \in InFlight
    BY <1>3 DEF RequireScope, In, InFlight
  <2>2. Only(c, "handler") \/ Only(c, "free")
    BY <1>3 DEF RequireScope
  <2> QED  BY <2>1, <2>2, OnlyFree, OnlyKeeps
<1>4. CASE DecodeToken(c)
  <2>1. calls[c].pc = "token" /\ calls[c].pc \in InFlight
    BY <1>4 DEF DecodeToken, In, InFlight
  <2>2. (calls[c].exp > 0 /\ Only(c, "handler")) \/ Only(c, "free")
    BY <1>4 DEF DecodeToken
  <2> QED  BY <2>1, <2>2, OnlyFree, OnlyKeeps
<1>5. CASE LookUpSession(c)
  <2>1. calls[c].pc = "session" /\ calls[c].pc \in InFlight
    BY <1>5 DEF LookUpSession, In, InFlight
  <2>2. (operator.row /\ Only(c, "account")) \/ Only(c, "free")
    BY <1>5 DEF LookUpSession
  <2> QED  BY <2>1, <2>2, OnlyFree, OnlyKeeps
<1>6. CASE LookUpAccount(c)
  <2>1. calls[c].pc = "account" /\ calls[c].pc \in InFlight
    BY <1>6 DEF LookUpAccount, In, InFlight
  <2>2. (AccountLetsIn(calls[c].by) /\ Only(c, "permission")) \/ Only(c, "free")
    BY <1>6 DEF LookUpAccount
  <2> QED  BY <2>1, <2>2, OnlyFree, OnlyKeeps
<1>7. CASE RequirePermission(c)
  <2>1. calls[c].pc = "permission" /\ calls[c].pc \in InFlight
    BY <1>7 DEF RequirePermission, In, InFlight
  <2>2. (operator.role /\ Only(c, "handler")) \/ Only(c, "free")
    BY <1>7 DEF RequirePermission
  <2> QED  BY <2>1, <2>2, OnlyFree, OnlyKeeps
<1> QED  BY <1>1, <1>2, <1>3, <1>4, <1>5, <1>6, <1>7 DEF LetIn

(* In a handler of a route that answers, the credential was good when the   *)
(* request began, which is less than CallTime ago.                          *)
LEMMA HandlerIs ==
    ASSUME AccessInv, NEW c \in Calls, NEW route, route \notin Realtime, Handler(c, route)
    PROVE  /\ calls[c].pc \in InFlight /\ calls[c].pc = "handler"
           /\ calls[c].route \notin Realtime
           /\ ~calls[c].late /\ calls[c].by \in Credentials
           /\ since[calls[c].by] <= CallTime
<1>1. /\ calls[c].pc = "handler" /\ calls[c].route = route /\ calls[c].pc \in InFlight
      /\ LateStops(calls[c]) /\ EndsInTime(calls[c], since[calls[c].by])
      /\ calls[c].age \in Nat /\ since[calls[c].by] \in Nat /\ calls[c].by \in Credentials
  BY AccessTypesNow DEF Handler, In, InFlight, AccessInv, CallInv
<1>2. ~calls[c].late
  BY <1>1 DEF LateStops
<1>3. since[calls[c].by] <= calls[c].age /\ calls[c].age <= CallTime
  BY <1>1, <1>2 DEF EndsInTime
<1> QED  BY <1>1, <1>2, <1>3, AccessAssumption

LEMMA MintKeeps ==
    ASSUME AccessInv, NEW c \in Calls, NEW route, route \notin Realtime, Handler(c, route),
           NEW ttl \in 0..LongestTtl, Mint(c, ttl)
    PROVE  AccessInv'
<1>1. ~calls[c].late /\ calls[c].by \in Credentials /\ since[calls[c].by] <= CallTime
  BY HandlerIs
<1>2. since[calls[c].by] \in Nat
  BY <1>1, AccessTypesNow DEF AccessInv
<1>3. PICK new : new = [by |-> calls[c].by, left |-> ttl]
  OBVIOUS
<1>4. /\ new \in TokenRow /\ new.left <= LongestTtl
      /\ since[new.by] + new.left <= TokenEnd
  BY <1>1, <1>2, <1>3, AccessAssumption DEF TokenRow, TokenEnd
<1>5. /\ minted' = minted \cup {new} /\ Waits(c, "answered")
      /\ UNCHANGED <<apiKey, owner, operator, since, unread>>
  BY <1>3 DEF Mint
<1> QED  BY <1>1, <1>4, <1>5, UnreadNow, AnswerKeeps

LEMMA TtlBounded ==
    /\ \A ttl \in AskedTtls : TtlOf(ttl) \in 0..LongestTtl
    /\ PlaygroundTtl \in 0..LongestTtl
  BY AccessAssumption DEF TtlOf

LEMMA RepliesKeep ==
    ASSUME AccessInv, NEW c \in Calls, NEW route, route \notin Realtime, Handler(c, route),
           Only(c, "answered") \/ Replies(c)
    PROVE  AccessInv'
<1>1. ~calls[c].late
  BY HandlerIs
<1>2. Only(c, "answered") \/ Only(c, "free")
  BY DEF Replies
<1> QED  BY <1>1, <1>2, OnlyFree, OnlyAnswered

LEMMA AnswersKeep ==
    ASSUME AccessInv, NEW c \in Calls, Answer(c)
    PROVE  AccessInv'
<1>1. CASE \/ PublishEvents(c) \/ ListEvents(c) \/ GetEvent(c) \/ ReplayEvents(c)
           \/ ListTopics(c) \/ TasksList(c) \/ GetTask(c) \/ NotificationsList(c)
           \/ ListConnections(c) \/ WhoamiKey(c)
           \/ PlaygroundPublish(c) \/ ProducersCreate(c) \/ SubscriptionsCreate(c)
  <2>1. \E route \in V1Routes \cup ControlRoutes :
           Handler(c, route) /\ (Only(c, "answered") \/ Replies(c))
    BY <1>1
    DEF PublishEvents, ListEvents, GetEvent, ReplayEvents, ListTopics, TasksList, GetTask,
        NotificationsList, ListConnections, WhoamiKey, PlaygroundPublish, ProducersCreate,
        SubscriptionsCreate, V1Routes, Scope, ControlRoutes
  <2>2. \A route \in V1Routes \cup ControlRoutes : route \notin Realtime
    BY DEF V1Routes, Scope, ControlRoutes, Realtime
  <2> QED  BY <2>1, <2>2, RepliesKeep
<1>2. CASE ReadNotification(c)
  <2>1. Handler(c, "mark_notification_read") /\ "mark_notification_read" \notin Realtime
    BY <1>2 DEF ReadNotification, Realtime
  <2>2. /\ calls[c].pc \in InFlight /\ calls[c].pc = "handler" /\ ~calls[c].late
        /\ calls[c].route \notin Realtime
    BY <2>1, HandlerIs
  <2>3. Only(c, "save") \/ Only(c, "answered") \/ Only(c, "free")
    BY <1>2 DEF ReadNotification
  <2> QED  BY <2>2, <2>3, OnlyFree, OnlyAnswered, OnlyKeeps
<1>3. CASE SaveNotification(c)
  <2>1. ~calls[c].late
    BY <1>3 DEF SaveNotification, In, AccessInv, CallInv, LateStops
  <2>2. /\ unread' = FALSE /\ Waits(c, "answered")
        /\ UNCHANGED <<apiKey, owner, operator, minted, since>>
    BY <1>3 DEF SaveNotification
  <2> QED  BY <2>1, <2>2, AnswerKeeps
<1>4. CASE IssueRealtimeToken(c)
  <2>1. PICK ttl \in AskedTtls : Mint(c, TtlOf(ttl))
    BY <1>4 DEF IssueRealtimeToken
  <2>2. Handler(c, "issue_realtime_token") /\ "issue_realtime_token" \notin Realtime
    BY <1>4 DEF IssueRealtimeToken, Realtime
  <2> QED  BY <2>1, <2>2, TtlBounded, MintKeeps
<1>5. CASE OperatorRealtimeToken(c)
  <2>1. PICK ttl \in AskedTtls : Mint(c, TtlOf(ttl))
    BY <1>5 DEF OperatorRealtimeToken
  <2>2. Handler(c, "operator_realtime_token") /\ "operator_realtime_token" \notin Realtime
    BY <1>5 DEF OperatorRealtimeToken, Realtime
  <2> QED  BY <2>1, <2>2, TtlBounded, MintKeeps
<1>6. CASE PlaygroundToken(c)
  <2>1. Handler(c, "playground_token") /\ "playground_token" \notin Realtime
    BY <1>6 DEF PlaygroundToken, Realtime
  <2>2. Mint(c, PlaygroundTtl) \/ Only(c, "free")
    BY <1>6 DEF PlaygroundToken
  <2> QED  BY <2>1, <2>2, TtlBounded, MintKeeps, OnlyFree
<1> QED  BY <1>1, <1>2, <1>3, <1>4, <1>5, <1>6 DEF Answer

-----------------------------------------------------------------------------
(* Connections.                                                             *)

LEMMA ConnectedKeeps ==
    ASSUME AccessInv, NEW c \in Calls, Connected(c) \/ Fails(c)
    PROVE  AccessInv'
<1> DEFINE x == calls[c]
<1>1. /\ x \in CallRow /\ x.age \in Nat /\ x.by \in Credentials /\ since[x.by] \in Nat
      /\ x.till \in Nat /\ x.quiet \in Nat /\ LateStops(x) /\ EndsInTime(x, since[x.by])
  BY AccessTypesNow DEF AccessInv, CallInv
<1>2. CASE OpenSocket(c)
  <2>1. x.pc = "handler"
    BY <1>2 DEF OpenSocket, Handler, In
  <2>2. since[x.by] <= TokenEnd + CallTime
    BY <1>1, <2>1, AccessAssumption DEF EndsInTime, TokenEnd
  <2>3. PICK row : row = [pc |-> "open", route |-> "realtime_ws", by |-> x.by, age |-> 0,
                          late |-> FALSE, exp |-> 0, till |-> Lifetime + 1,
                          quiet |-> Silence]
    OBVIOUS
  <2>4. /\ calls' = [calls EXCEPT ![c] = row]
        /\ UNCHANGED <<apiKey, owner, operator, minted, since, unread>>
    BY <1>2, <2>3 DEF OpenSocket
  <2>5. /\ row \in CallRow /\ row.pc = "open" /\ row.by = x.by /\ row.age = 0
        /\ row.late = FALSE /\ row.till = Lifetime + 1 /\ row.quiet = Silence
    BY <1>1, <2>3, AccessAssumption DEF CallRow, Routes, Realtime
  <2>6. LateStops(row)
    BY <2>5 DEF LateStops
  <2>7. EndsInTime(row, since[row.by])
    BY <1>1, <2>2, <2>5, AccessAssumption DEF EndsInTime, InFlight, TokenEnd
  <2> QED  BY <2>4, <2>5, <2>6, <2>7, UnreadNow, OneCall DEF CallInv
<1>3. CASE Frame(c)
  <2>1. x.pc = "open" /\ UNCHANGED <<apiKey, owner, operator, minted, since, unread>>
    BY <1>3 DEF Frame, In
  <2>2. CASE x.till = 0
    <3>1. Waits(c, "free")
      BY <1>3, <2>2 DEF Frame
    <3> QED  BY <2>1, <3>1, UnreadNow, FreeKeeps
  <2>3. CASE x.till # 0
    <3>1. PICK row : row = [x EXCEPT !.quiet = Silence]
      OBVIOUS
    <3>2. calls' = [calls EXCEPT ![c] = row]
      BY <1>3, <2>3, <3>1 DEF Frame
    <3>3. /\ row \in CallRow /\ row.pc = "open" /\ row.by = x.by /\ row.age = x.age
          /\ row.late = x.late /\ row.till = x.till /\ row.quiet = Silence
      BY <1>1, <2>1, <3>1, AccessAssumption DEF CallRow
    <3>4. LateStops(row)
      BY <3>3 DEF LateStops
    <3>5. EndsInTime(row, since[row.by])
      BY <1>1, <2>1, <2>3, <3>3, AccessAssumption DEF EndsInTime, InFlight
    <3> QED  BY <2>1, <3>2, <3>3, <3>4, <3>5, UnreadNow, OneCall DEF CallInv
  <2> QED  BY <2>2, <2>3
<1>4. CASE OpenStream(c)
  <2>1. calls[c].pc \in InFlight /\ Only(c, "streams")
    BY <1>4 DEF OpenStream, Handler, In, InFlight
  <2> QED  BY <2>1, OnlyKeeps
<1>5. CASE FallsSilent(c) \/ HangUp(c) \/ Fails(c)
  BY <1>5, OnlyFree DEF FallsSilent, HangUp, Fails
<1> QED  BY <1>2, <1>3, <1>4, <1>5 DEF Connected

-----------------------------------------------------------------------------
(* The environment withdraws credentials, and time passes.                  *)

LEMMA WithdrawKeeps ==
    ASSUME AccessInv,
           \/ EndKey \/ DisableProducer
           \/ EndOperatorSession \/ DisableOperator \/ ChangeRole
    PROVE  AccessInv'
<1> DEFINE Rows == [row : BOOLEAN, enabled : BOOLEAN, role : BOOLEAN, loads : BOOLEAN]
<1>1. UNCHANGED <<minted, calls, since, unread>>
  BY DEF EndKey, DisableProducer, EndOperatorSession, DisableOperator, ChangeRole, Withdraw
<1>2. /\ operator \in Rows /\ apiKey \in [live : BOOLEAN, scopes : KeyScopes]
      /\ owner \in {"active", "disabled"}
  BY DEF AccessInv, AccessTypes, AccessTypeOK
<1>3. /\ operator' \in Rows
      /\ ~operator.row => ~operator'.row
      /\ ~operator.enabled => ~operator'.enabled
      /\ ~operator.role => ~operator'.role
      /\ operator'.loads <=> operator.loads
  <2>1. CASE EndOperatorSession
    BY <1>2, <2>1 DEF EndOperatorSession, Withdraw
  <2>2. CASE DisableOperator
    BY <1>2, <2>2 DEF DisableOperator, Withdraw
  <2>3. CASE ChangeRole
    BY <1>2, <2>3 DEF ChangeRole, Withdraw
  <2>4. CASE EndKey \/ DisableProducer
    BY <1>2, <2>4 DEF EndKey, DisableProducer
  <2> QED  BY <2>1, <2>2, <2>3, <2>4
<1>4. /\ apiKey' \in [live : BOOLEAN, scopes : KeyScopes] /\ apiKey'.live \in BOOLEAN
      /\ owner' \in {"active", "disabled"}
      /\ ~apiKey.live => ~apiKey'.live
      /\ owner = "disabled" => owner' = "disabled"
  <2>1. CASE EndKey
    BY <1>2, <2>1 DEF EndKey, KeyIsLive
  <2>2. CASE ~EndKey
    BY <1>2, <2>2
    DEF DisableProducer, EndOperatorSession, DisableOperator, ChangeRole, Withdraw
  <2> QED  BY <2>1, <2>2
<1> HIDE DEF Rows
<1>5. \A by : ~AccountLetsIn(by) => ~AccountLetsIn(by)'
  BY <1>3 DEF AccountLetsIn
<1>6. \A by \in Credentials : Withdrawn(by) => Withdrawn(by)'
  BY <1>3, <1>4, <1>5 DEF Withdrawn, KeyIsLive, Credentials, Operators
<1>7. AccessTypes'
  BY <1>1, <1>3, <1>4 DEF AccessInv, AccessTypes, AccessTypeOK, Rows
<1>8. TokensEnd' /\ NotSince'
  BY <1>1, <1>6 DEF AccessInv, TokensEnd, NotSince
<1>9. ASSUME NEW c \in Calls PROVE CallInv(calls[c])'
  <2>1. LateStops(calls[c]) /\ EndsInTime(calls[c], since[calls[c].by])
    BY DEF AccessInv, CallInv
  <2>2. LateStops(calls[c])'
    BY <1>1, <1>3, <1>4, <1>5, <1>6, <2>1 DEF LateStops, Credentials, Operators
  <2>3. EndsInTime(calls[c], since[calls[c].by])'
    BY <1>1, <2>1 DEF EndsInTime
  <2> QED  BY <2>2, <2>3 DEF CallInv
<1> QED  BY <1>7, <1>8, <1>9 DEF AccessInv

LEMMA PassesKeeps ==
    ASSUME AccessInv, Passes
    PROVE  AccessInv'
<1>1. AccessTypes /\ since \in [Credentials -> Nat] /\ Longest \in Nat
  BY AccessTypesNow, AccessAssumption DEF AccessInv, Longest
<1>2. /\ UNCHANGED <<apiKey, owner, operator, unread>>
      /\ calls' = [c \in Calls |-> Older(calls[c])]
      /\ minted' = {[token EXCEPT !.left = @ - 1] : token \in {t \in minted : t.left > 0}}
      /\ since' = [by \in Credentials |->
                     IF Withdrawn(by) /\ since[by] <= Longest THEN since[by] + 1
                     ELSE since[by]]
  BY DEF Passes
<1>3. ASSUME NEW by \in Credentials
      PROVE  /\ since[by] \in 0..(Longest + 1) /\ since'[by] \in 0..(Longest + 1)
             /\ since'[by] \in Nat
             /\ since'[by] <= since[by] + 1
             /\ ~Withdrawn(by) => since'[by] = since[by]
  <2>1. since[by] \in 0..(Longest + 1)
    BY <1>1 DEF AccessTypes, AccessTypeOK
  <2> QED  BY <1>1, <1>2, <2>1
<1>4. /\ \A by \in Credentials : Withdrawn(by)' <=> Withdrawn(by)
      /\ \A by : AccountLetsIn(by)' <=> AccountLetsIn(by)
  BY <1>2 DEF Withdrawn, KeyIsLive, AccountLetsIn
<1>5. ASSUME NEW token \in minted'
      PROVE  /\ token \in TokenRow /\ token.left \in 0..LongestTtl
             /\ since'[token.by] + token.left <= TokenEnd
  <2>1. PICK old \in minted : old.left > 0 /\ token = [old EXCEPT !.left = @ - 1]
    BY <1>2
  <2>2. old \in TokenRow /\ old.left \in 0..LongestTtl
        /\ since[old.by] + old.left <= TokenEnd
    BY <1>1 DEF AccessTypes, AccessTypeOK, AccessInv, TokensEnd
  <2>3. /\ token \in TokenRow /\ token.by = old.by /\ token.left = old.left - 1
        /\ old.by \in Credentials
    BY <2>1, <2>2, AccessAssumption DEF TokenRow
  <2> QED  BY <1>1, <1>3, <2>1, <2>2, <2>3, AccessAssumption DEF TokenEnd
<1>6. ASSUME NEW c \in Calls
      PROVE  calls'[c] \in CallRow /\ LateStops(calls'[c])
             /\ EndsInTime(calls'[c], since'[calls'[c].by])
  <2> DEFINE x == calls[c]
  <2>1. /\ x \in CallRow /\ x.age \in Nat /\ x.by \in Credentials /\ since[x.by] \in Nat
        /\ x.till \in Nat /\ x.quiet \in Nat /\ x.exp \in Nat /\ x.late \in BOOLEAN
        /\ x.route \in Routes
        /\ x.pc \in InFlight \cup {"free", "answered", "open", "streams"}
        /\ LateStops(x) /\ EndsInTime(x, since[x.by])
    BY AccessTypesNow DEF AccessInv, CallInv
  <2>2. /\ x.pc \in InFlight => x.age < CallTime
        /\ x.pc = "open" => x.quiet > 0
    BY DEF Passes, In
  <2>3. PICK row : row = Older(x)
    OBVIOUS
  <2>4. calls'[c] = row
    BY <1>2, <2>3
  <2>5. /\ Less(x.exp) \in Nat /\ Less(x.till) \in Nat /\ Less(x.quiet) \in Nat
        /\ x.exp > 0 => Less(x.exp) = x.exp - 1
        /\ x.exp = 0 => Less(x.exp) = 0
        /\ x.till > 0 => Less(x.till) = x.till - 1
        /\ x.till = 0 => Less(x.till) = 0
        /\ x.quiet > 0 => Less(x.quiet) = x.quiet - 1
    BY <2>1 DEF Less
  <2>6. /\ row \in CallRow /\ row.pc = x.pc /\ row.route = x.route /\ row.by = x.by
        /\ row.late = x.late
        /\ row.age = IF x.pc \in InFlight THEN x.age + 1 ELSE x.age
        /\ row.exp = Less(x.exp) /\ row.till = Less(x.till) /\ row.quiet = Less(x.quiet)
    BY <2>1, <2>3, <2>5 DEF Older, CallRow
  <2>7. LateStops(row)
    BY <2>1, <2>6 DEF LateStops
  <2>8. EndsInTime(row, since'[row.by])
    <3> DEFINE s == since[x.by]
               z == since'[x.by]
    <3>1. s \in Nat /\ z \in Nat /\ z <= s + 1 /\ EndsInTime(x, s) /\ TokenEnd \in Nat
      BY <1>3, <2>1, AccessAssumption DEF TokenEnd
    <3> HIDE DEF s, z
    <3>2. /\ row.age <= CallTime
          /\ row.pc \in InFlight /\ ~row.late => z <= row.age
          /\ row.pc = "handler" => z <= TokenEnd + row.age
      BY <2>1, <2>2, <2>6, <3>1, AccessAssumption DEF EndsInTime, InFlight
    <3>3. row.pc = "token" /\ row.exp > 0 => z + row.exp <= TokenEnd
      BY <2>1, <2>5, <2>6, <3>1 DEF EndsInTime
    <3>4. row.pc = "open" /\ row.till > 0 =>
            z + row.till <= TokenEnd + CallTime + Lifetime + 1 /\ row.quiet <= Silence
      BY <2>1, <2>2, <2>5, <2>6, <3>1, AccessAssumption DEF EndsInTime
    <3>5. row.pc = "open" /\ row.till = 0 =>
            z + row.quiet <= TokenEnd + CallTime + Lifetime + Silence
      <4>1. CASE x.till = 0
        BY <2>1, <2>2, <2>5, <2>6, <3>1, <4>1, AccessAssumption DEF EndsInTime
      <4>2. CASE x.till = 1
        BY <2>1, <2>2, <2>5, <2>6, <3>1, <4>2, AccessAssumption DEF EndsInTime
      <4>3. CASE x.till > 1
        BY <2>1, <2>5, <2>6, <4>3
      <4> QED  BY <2>1, <4>1, <4>2, <4>3
    <3>6. z = since'[row.by]
      BY <2>6 DEF z
    <3> QED  BY <3>2, <3>3, <3>4, <3>5, <3>6 DEF EndsInTime
  <2> QED  BY <2>4, <2>6, <2>7, <2>8
<1>7. calls' \in [Calls -> CallRow]
  BY <1>2, <1>6
<1>8. AccessTypeOK'
  <2>1. \A c \in Calls : calls'[c].route \in Routes /\ calls'[c].age <= CallTime
    BY <1>6 DEF CallRow, EndsInTime
  <2>2. since' \in [Credentials -> 0..(Longest + 1)]
    BY <1>2, <1>3
  <2>3. \A token \in minted' : token.by \in Credentials /\ token.left \in 0..LongestTtl
    BY <1>5 DEF TokenRow
  <2> QED  BY <1>1, <1>2, <2>1, <2>2, <2>3 DEF AccessTypes, AccessTypeOK, Longest
<1>9. AccessTypes'
  BY <1>1, <1>2, <1>5, <1>7, <1>8 DEF AccessTypes
<1>10. TokensEnd'
  BY <1>5 DEF TokensEnd
<1>11. NotSince'
  BY <1>3, <1>4 DEF AccessInv, NotSince
<1>12. \A c \in Calls : CallInv(calls[c])'
  <2>1. ASSUME NEW c \in Calls PROVE LateStops(calls[c])'
    BY <1>2, <1>4, <1>6 DEF LateStops, Credentials, Operators
  <2> QED  BY <1>6, <2>1 DEF CallInv, EndsInTime
<1> QED  BY <1>9, <1>10, <1>11, <1>12 DEF AccessInv

LEMMA AccessStep == AccessInv /\ [AccessNext]_accessVars => AccessInv'
<1> SUFFICES ASSUME AccessInv, [AccessNext]_accessVars PROVE AccessInv'
  OBVIOUS
<1>1. CASE UNCHANGED accessVars
  BY <1>1 DEF accessVars, AccessInv, AccessTypes, AccessTypeOK, TokensEnd, NotSince, CallInv,
              LateStops, EndsInTime, Withdrawn, KeyIsLive, AccountLetsIn
<1> QED  BY <1>1, ArrivesKeeps, LetInKeeps, AnswersKeep, ConnectedKeeps, WithdrawKeeps,
            PassesKeeps DEF AccessNext

LEMMA AccessIsOver == AccessInv => AccessEnds
<1> SUFFICES ASSUME AccessInv, NEW c \in Calls
             PROVE  /\ In(c, "answered") => ~calls[c].late
                    /\ In(c, "open") => since[calls[c].by] <= Longest
  BY DEF AccessEnds
<1> DEFINE x == calls[c]
<1>1. /\ x.by \in Credentials /\ since[x.by] \in Nat /\ x.till \in Nat /\ x.quiet \in Nat
      /\ LateStops(x) /\ EndsInTime(x, since[x.by])
  BY AccessTypesNow DEF AccessInv, CallInv
<1>2. x.pc = "answered" => ~x.late
  BY <1>1 DEF LateStops
<1>3. x.pc = "open" => since[x.by] <= Longest
  BY <1>1, AccessAssumption DEF EndsInTime, TokenEnd, Longest
<1> QED  BY <1>2, <1>3 DEF In

(* app/auth.py:3-12, _common.py:92-143, docs/DEPLOYMENT.md:23-25: no        *)
(* request made after its credential was withdrawn is answered, and the     *)
(* last WebSocket that goes back to the credential - through a token minted *)
(* by the last request under way - is closed when that request, the token,  *)
(* a handshake, a lifetime and a silence are over.  A key and its producer, *)
(* a bearer token's session and account, and the operator's role withdraw   *)
(* it; the session behind a dashboard cookie does not, for its row is not   *)
(* read on the control plane.                                               *)
THEOREM WithdrawalEnds == AccessSpec => []AccessEnds
  BY AccessInitial, AccessStep, AccessIsOver, PTL DEF AccessSpec
=============================================================================
