------------------------------ MODULE MCControl ------------------------------
(***************************************************************************)
(* Those who operate an installation, and what they hold, in one run: in   *)
(* each behaviour one part runs and the others stand still, for they share *)
(* no state.  The control plane: an owner and an administrator, each       *)
(* signed in, one producer with one key, and a few requests of every kind. *)
(* The dashboard: two tabs.  The shell: two terminals, one of which has    *)
(* BEACN_TOKEN.  Access: a key, and an operator's cookie and bearer token. *)
(***************************************************************************)
EXTENDS Control, Web, Shell, Access, TLC

CONSTANTS ana, bo, cy, orders, k1, tab, other, term, script

VARIABLE part

MCUsers == {ana, bo, cy}
MCPresent == {ana, bo}
MCOwners == {ana}
MCProducers == {orders}
MCKeys == {k1}

By == {ana, bo}

MCOperations ==
    {Op(kind, u, None, "") : kind \in {"login"}, u \in By}
    \cup {Op("logout", None, u, "") : u \in By}
    \cup {Op(kind, u, by, "") : kind \in {"enable", "disable"}, u \in By, by \in By}
    \cup {Op("set_role", u, by, role) : u \in By, by \in By, role \in {"ReadOnly", "Operator"}}
    \cup {Op("local_role", bo, None, "Admin"), Op("local_create", cy, None, "Admin"),
          Op("local_disable", bo, None, ""), Op("local_enable", bo, None, "")}
    \cup {Op("create_user", cy, ana, "ReadOnly"), Op("set_role", cy, bo, "Operator"),
          Op("disable", cy, bo, ""), Op("login", cy, None, "")}
    \cup {Op(kind, orders, ana, "") : kind \in {"issue", "issue_expiring",
                                               "activate", "deactivate"}}
    \cup {Op(kind, k1, by, "") : kind \in {"revoke", "rotate"}, by \in By}
    \cup {Op("publish", k1, None, ""), Op("refresh", orders, None, "")}

Symmetry == Permutations(Requests)

MCTabs == {tab, other}
MCVisits == tab :> (Paths \ {"logout"}) @@ other :> {"login_submit", "logout"}
MCMaxVisits == tab :> 1 @@ other :> 1
MCHoldings == {{}, {PagePermission[p] : p \in DOMAIN PagePermission}
                     \cup {ReadPermission[p] : p \in DOMAIN ReadPermission}}

MCTerminals == {term, script}
MCRuns == term :> Commands @@ script :> {"login", "logout", "whoami", "user disable"}
MCGiven == term :> NoToken @@ script :> First
MCMaxCommands == term :> 2 @@ script :> 2

MCAskedOf == [c \in Calls |-> Routes]
\* The key and its producer, the session and the account, in any order, or the
\* role.
MCWithdrawals == SUBSET {"key", "owner"} \cup SUBSET {"row", "enabled"} \cup {{"role"}}
MCKeyScopes == {{"*"}, {"events:read"}}

-----------------------------------------------------------------------------
vars == <<part, ctlVars, webVars, shellVars, accessVars>>

NoControl ==
    /\ keys = [k \in Keys \cup Requests |-> IF k = k1 THEN NewKey(orders, 0) ELSE NoKey]
    /\ producers = [p \in Producers |-> [status |-> "active", used |-> FALSE]]
    /\ accounts = [u \in Users |-> [exists |-> FALSE, active |-> FALSE]]
    /\ groups = [u \in Users |-> {}]
    /\ sessions = [s \in Users \cup Requests |-> NoSession]
    /\ req = [r \in Requests |-> Idle]
    /\ audit = {} /\ raced = {} /\ clock = 0

NoBrowser ==
    /\ jar = NoUser /\ webRows = [s \in SessionRows |-> "none"]
    /\ tabs = [t \in Tabs |-> Blank]
    /\ active = FALSE /\ held = {} /\ loads = FALSE
    /\ visits = MaxVisits /\ changes = MaxChanges

NoShell ==
    /\ creds = NoToken /\ terms = [t \in Terminals |-> AtPrompt(0)]
    /\ cliRows = [s \in Tokens |-> "none"]
    /\ enabled = FALSE /\ late = {} /\ excused = {}

NoAccess ==
    /\ apiKey = [live |-> FALSE, scopes |-> {}]
    /\ owner = "disabled" /\ minted = {} /\ unread = FALSE
    /\ operator = [row |-> FALSE, enabled |-> FALSE, role |-> FALSE, loads |-> FALSE]
    /\ calls = [c \in Calls |-> Free] /\ made = MaxCalls
    /\ since = [by \in Credentials |-> 0]

\* Bound: what concerns the key only and what concerns the cookie only vary
\* together.
Together == operator.loads <=> "*" \in apiKey.scopes

Init ==
    \/ part = "control" /\ CtlInit /\ NoBrowser /\ NoShell /\ NoAccess
    \/ part = "browser" /\ NoControl /\ WebInit /\ NoShell /\ NoAccess
    \/ part = "shell" /\ NoControl /\ NoBrowser /\ ShellInit /\ NoAccess
    \/ part = "access" /\ NoControl /\ NoBrowser /\ NoShell /\ AccessInit /\ Together

Operate == part = "control" /\ CtlNext /\ UNCHANGED <<part, webVars, shellVars, accessVars>>
Browse  == part = "browser" /\ WebNext /\ UNCHANGED <<part, ctlVars, shellVars, accessVars>>
Command == part = "shell" /\ ShellNext /\ UNCHANGED <<part, ctlVars, webVars, accessVars>>
Enter   == part = "access" /\ AccessNext /\ UNCHANGED <<part, ctlVars, webVars, shellVars>>

Next == Operate \/ Browse \/ Command \/ Enter

Spec == Init /\ [][Next]_vars
=============================================================================
