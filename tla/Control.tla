------------------------------- MODULE Control -------------------------------
(***************************************************************************)
(* The control plane's handlers over the rows they share: API keys and     *)
(* producers (routes/api/control.py, database/models/producer.py), the     *)
(* operators' accounts, roles and sign-in sessions                         *)
(* (database/models/identity.py, app/authz.py), the check every request    *)
(* passes first (routes/api/_common.py, app/auth.py), and the two writers  *)
(* that only keep counters in the same rows: the producer's own requests   *)
(* and the RefreshCounters job.                                            *)
(*                                                                         *)
(* Every await of a handler is a step of its own, what it read stays in    *)
(* the request's copy, and save() without update_fields writes the copy    *)
(* back whole.  A request may die at any await.                            *)
(***************************************************************************)
EXTENDS Naturals, FiniteSets

CONSTANTS Users,           \* the operators there are, or will be
          Present,         \* those with an account at the start
          Producers,
          Keys,            \* the API keys there are at the start
          Requests,        \* requests made; a row a request creates has its name
          Owners,          \* the superusers
          Operations,      \* what the requests may ask for
          MaxClock,        \* bound on the clock: expiry times passed
          None

ASSUME ControlAssumption ==
    /\ Owners \subseteq Present /\ Present \subseteq Users
    /\ None \notin Users \cup Producers \cup Keys \cup Requests
    /\ Keys \cap Requests = {} /\ Users \cap Requests = {}
    /\ MaxClock \in Nat

Roles == {"Admin", "Operator", "ReadOnly"}   \* Developer is as ReadOnly here

VARIABLES keys, producers, accounts, groups, sessions,
          req,        \* where each request awaits, and what it has read
          audit,      \* the requests with a row in the audit log
          raced,      \* history: sign-ins that looked an account up before it
                      \*   was disabled, users whose role changes overlapped
          clock

rows == <<keys, producers, accounts, groups, sessions>>
ctlVars == <<rows, req, audit, raced, clock>>

\* A time in expires is one the clock reaches; 0 is no expiry.
Unexpired(row) == row.expires = 0 \/ row.expires > clock

\* ApiKey.is_live, UserSession.is_live
IsLive(row) == row.status = "active" /\ Unexpired(row)

NoKey == [status |-> "none", producer |-> None, expires |-> 0,
          successor |-> None, used |-> FALSE]
NoSession == [status |-> "none", user |-> None, expires |-> 0, used |-> FALSE]
Idle == [pc |-> "idle", op |-> None, actor |-> None, copy |-> None]

\* One request: what it asks for, of which row, in which sign-in session.
Op(kind, on, by, arg) == [kind |-> kind, on |-> on, by |-> by, arg |-> arg]

CtlInit ==
    /\ keys \in [Keys \cup Requests ->
                   {NoKey} \cup [status : {"active"}, producer : Producers,
                                 expires : 0..1, successor : {None}, used : {FALSE}]]
    /\ \A k \in Keys \cup Requests : keys[k] = NoKey <=> k \in Requests
    /\ producers = [p \in Producers |-> [status |-> "active", used |-> FALSE]]
    /\ accounts = [u \in Users |-> [exists |-> u \in Present, active |-> u \in Present]]
    /\ groups = [u \in Users |-> IF u \in Present THEN {"Admin"} ELSE {}]
    /\ sessions = [s \in Users \cup Requests |->
                     IF s \in Present THEN [status |-> "active", user |-> s,
                                          expires |-> 2, used |-> FALSE]
                     ELSE NoSession]
    /\ req = [r \in Requests |-> Idle]
    /\ audit = {} /\ raced = {}
    /\ clock = 0

-----------------------------------------------------------------------------
(* Steps common to the handlers.                                           *)

Kind(r) == req[r].op.kind
On(r) == req[r].op.on

At(r, pc, kinds) == req[r].pc = pc /\ Kind(r) \in kinds

\* The request goes on to its next await, keeping what it read.
Goto(r, pc) == req' = [req EXCEPT ![r].pc = pc]
Keep(r, copy, pc) == req' = [req EXCEPT ![r].copy = copy, ![r].pc = pc]

\* Mutant: bookkeeping saves the whole row it read.
SaveWholeRow(row, copy) == [copy EXCEPT !.used = TRUE]

\* save(update_fields=[...]): the counters and the time of last use only.
Bookkeeping(row, copy) == [row EXCEPT !.used = TRUE]

\* The operations for each permission, and the roles that hold it.
KeyWrites == {"issue", "issue_expiring", "revoke", "rotate"}
ProducerWrites == {"activate", "deactivate"}
UserWrites == {"enable", "disable", "set_role", "create_user"}
ControlWrites == KeyWrites \cup ProducerWrites \cup UserWrites

Holders(kind) == IF kind \in UserWrites THEN {"Admin"} ELSE {"Admin", "Operator"}

MayManage(u) == u \in Owners \/ "Admin" \in groups[u]
Managers == {u \in Users : accounts[u].active /\ MayManage(u)}

RoleChanges == {"set_role", "create_user", "local_role", "local_create"}
LocalSwitches == {"local_enable", "local_disable"}
Audited == ControlWrites       \* a shell command leaves no audit row

\* What each kind of operation names.
ASSUME OperationsAssumption ==
    \A op \in Operations :
        /\ op \in [kind : ControlWrites \cup RoleChanges \cup LocalSwitches
                              \cup {"login", "logout", "publish", "refresh"},
                  on : Users \cup Producers \cup Keys \cup Requests \cup {None},
                  by : Users \cup Requests \cup {None}, arg : Roles \cup {""}]
        /\ op.kind \in {"revoke", "rotate", "publish"} => op.on \in Keys \cup Requests
        /\ op.kind \in {"issue", "issue_expiring", "refresh"} \cup ProducerWrites
              => op.on \in Producers
        /\ op.kind \in {"enable", "disable", "login"} \cup RoleChanges \cup LocalSwitches
              => op.on \in Users
        /\ op.kind \in ControlWrites \cup {"logout"} => op.by \in Users \cup Requests
        /\ op.kind \in RoleChanges => op.arg \in Roles

-----------------------------------------------------------------------------
(* control_endpoint: the session, its user, the permission.  This is the   *)
(* bearer token's way in; the cookie's, which reads no session row, is in  *)
(* Web and Access.                                                         *)

Arrive(r, op) ==
    /\ req[r].pc = "idle"
    /\ req' = [req EXCEPT ![r].op = op,
                 ![r].pc = IF op.kind \in ControlWrites \cup {"logout"} THEN "session"
                           ELSE IF op.kind = "publish" THEN "key" ELSE "read"]
    /\ UNCHANGED <<rows, audit, raced, clock>>

ReadSession(r) ==
    /\ req[r].pc = "session"
    /\ LET s == sessions[req[r].op.by]
       IN  IF IsLive(s) THEN Keep(r, s, "actor") ELSE Goto(r, "refused")
    /\ UNCHANGED <<rows, audit, raced, clock>>

ReadActor(r) ==
    /\ req[r].pc = "actor"
    /\ LET u == req[r].copy.user
       IN  req' = [req EXCEPT ![r].actor = u,
                     ![r].pc = IF accounts[u].active THEN "seen" ELSE "refused"]
    /\ UNCHANGED <<rows, audit, raced, clock>>

\* session.last_seen_at
MarkSeen(r) ==
    /\ req[r].pc = "seen"
    /\ sessions' = [sessions EXCEPT ![req[r].op.by] = Bookkeeping(@, req[r].copy)]
    /\ Keep(r, None, IF Kind(r) = "logout" THEN "read" ELSE "permission")
    /\ UNCHANGED <<keys, producers, accounts, groups, audit, raced, clock>>

\* The superuser flag is on the account; the groups are read now.
Require(r) ==
    /\ req[r].pc = "permission"
    /\ Goto(r, IF \/ req[r].actor \in Owners
                  \/ groups[req[r].actor] \cap Holders(Kind(r)) # {}
               THEN "read" ELSE "refused")
    /\ UNCHANGED <<rows, audit, raced, clock>>

\* audit.record, then the answer.
Audit(r) ==
    /\ req[r].pc = "audit"
    /\ audit' = audit \cup {r}
    /\ Goto(r, "done")
    /\ UNCHANGED <<rows, raced, clock>>

-----------------------------------------------------------------------------
(* API keys.                                                               *)

\* Mutant: rotation revokes the old key before it issues the new one, and
\* stops there.
ReadKeyRevokesFirst(r) ==
    /\ At(r, "read", {"revoke", "rotate"})
    /\ Keep(r, keys[On(r)], IF keys[On(r)] = NoKey THEN "refused" ELSE "revoke")
    /\ UNCHANGED <<rows, audit, raced, clock>>

ReadKey(r) ==
    /\ At(r, "read", {"revoke", "rotate"})
    /\ Keep(r, keys[On(r)],
            IF keys[On(r)] = NoKey THEN "refused"
            ELSE IF Kind(r) = "rotate" THEN "issue" ELSE "revoke")
    /\ UNCHANGED <<rows, audit, raced, clock>>

\* keys_create: the producer's row is read, the key is created from it.
ReadProducer(r) ==
    /\ At(r, "read", {"issue", "issue_expiring", "activate", "deactivate"})
    /\ Keep(r, producers[On(r)],
            IF Kind(r) \in ProducerWrites THEN "write" ELSE "issue")
    /\ UNCHANGED <<rows, audit, raced, clock>>

NewKey(producer, expires) ==
    [NoKey EXCEPT !.status = "active", !.producer = producer, !.expires = expires]

\* ApiKey.issue.  A rotated key's successor takes over its expiry time.
Issue(r) ==
    /\ req[r].pc = "issue"
    /\ keys' = [keys EXCEPT ![r] =
                  IF Kind(r) = "rotate"
                  THEN NewKey(req[r].copy.producer, req[r].copy.expires)
                  ELSE NewKey(On(r), IF Kind(r) = "issue" THEN 0 ELSE clock + 1)]
    /\ Goto(r, IF Kind(r) = "rotate" THEN "revoke" ELSE "audit")
    /\ UNCHANGED <<producers, accounts, groups, sessions, audit, raced, clock>>

\* ApiKey.revoke: the row as read, with its status and its reason.
Revoke(r) ==
    /\ req[r].pc = "revoke"
    /\ keys' = [keys EXCEPT ![On(r)] =
                  [req[r].copy EXCEPT !.status = "revoked",
                     !.successor = IF Kind(r) = "rotate" THEN r ELSE None]]
    /\ Goto(r, "audit")
    /\ UNCHANGED <<producers, accounts, groups, sessions, audit, raced, clock>>

\* producers_set_status: save(update_fields=["status"])
WriteStatus(r) ==
    /\ At(r, "write", ProducerWrites)
    /\ producers' = [producers EXCEPT ![On(r)].status =
                       IF Kind(r) = "activate" THEN "active" ELSE "disabled"]
    /\ Goto(r, "audit")
    /\ UNCHANGED <<keys, accounts, groups, sessions, audit, raced, clock>>

-----------------------------------------------------------------------------
(* A producer's request: resolve_api_key, then the handler, then           *)
(* touch_producer_stats; and the RefreshCounters job.                      *)

ResolveKey(r) ==
    /\ req[r].pc = "key"
    /\ Keep(r, keys[On(r)], IF IsLive(keys[On(r)]) THEN "producer" ELSE "refused")
    /\ UNCHANGED <<rows, audit, raced, clock>>

ResolveProducer(r) ==
    /\ req[r].pc = "producer"
    /\ Goto(r, IF producers[req[r].copy.producer].status = "active"
               THEN "used" ELSE "refused")
    /\ UNCHANGED <<rows, audit, raced, clock>>

MarkUsed(r) ==
    /\ req[r].pc = "used"
    /\ keys' = [keys EXCEPT ![On(r)] = Bookkeeping(@, req[r].copy)]
    /\ Goto(r, "touch")
    /\ UNCHANGED <<producers, accounts, groups, sessions, audit, raced, clock>>

\* The row resolve_api_key fetched; the counters do not matter here.
TouchProducer(r) ==
    /\ At(r, "touch", {"publish"})
    /\ producers' = [producers EXCEPT ![req[r].copy.producer].used = TRUE]
    /\ Goto(r, "done")
    /\ UNCHANGED <<keys, accounts, groups, sessions, audit, raced, clock>>

RefreshRead(r) ==
    /\ At(r, "read", {"refresh"})
    /\ Keep(r, producers[On(r)], "touch")
    /\ UNCHANGED <<rows, audit, raced, clock>>

RefreshSave(r) ==
    /\ At(r, "touch", {"refresh"})
    /\ producers' = [producers EXCEPT ![On(r)] = Bookkeeping(@, req[r].copy)]
    /\ Goto(r, "done")
    /\ UNCHANGED <<keys, accounts, groups, sessions, audit, raced, clock>>

-----------------------------------------------------------------------------
(* Signing in and out.                                                     *)

\* cli_login, login_submit: the account is looked up, the password checked.
LookUp(r) ==
    /\ At(r, "read", {"login"})
    /\ Goto(r, IF accounts[On(r)].active THEN "create" ELSE "refused")
    /\ UNCHANGED <<rows, audit, raced, clock>>

CreateSession(r) ==
    /\ At(r, "create", {"login"})
    /\ sessions' = [sessions EXCEPT ![r] =
                      [status |-> "active", user |-> On(r),
                       expires |-> clock + 1, used |-> TRUE]]
    /\ Goto(r, "done")
    /\ UNCHANGED <<keys, producers, accounts, groups, audit, raced, clock>>

LogoutRead(r) ==
    /\ At(r, "read", {"logout"})
    /\ Keep(r, sessions[req[r].op.by], "write")
    /\ UNCHANGED <<rows, audit, raced, clock>>

\* session.save(): the whole row.
LogoutSave(r) ==
    /\ At(r, "write", {"logout"})
    /\ sessions' = [sessions EXCEPT ![req[r].op.by] =
                      [req[r].copy EXCEPT !.status = "revoked"]]
    /\ Goto(r, "done")
    /\ UNCHANGED <<keys, producers, accounts, groups, audit, raced, clock>>

-----------------------------------------------------------------------------
(* Accounts and roles.                                                     *)

\* A new active account, and only then its role.  The address of an account
\* that exists is refused.
NewAccount(r) ==
    /\ IF accounts[On(r)].exists
       THEN Goto(r, "refused") /\ UNCHANGED accounts
       ELSE /\ accounts' = [accounts EXCEPT ![On(r)] = [exists |-> TRUE, active |-> TRUE]]
            /\ Goto(r, "assign")
    /\ UNCHANGED <<keys, producers, groups, sessions, audit, raced, clock>>

CreateAccount(r) == At(r, "read", {"create_user"}) /\ NewAccount(r)

\* The server's own shell: user create.
LocalCreate(r) == At(r, "read", {"local_create"}) /\ NewAccount(r)

\* Mutant: nothing stops an operator from disabling its own account.
ReadAccountUnguarded(r) ==
    /\ At(r, "read", {"enable", "disable"})
    /\ Keep(r, accounts[On(r)], IF ~accounts[On(r)].exists THEN "refused" ELSE "write")
    /\ UNCHANGED <<rows, audit, raced, clock>>

\* users_set_active refuses the actor's own account.
ReadAccount(r) ==
    /\ At(r, "read", {"enable", "disable"})
    /\ Keep(r, accounts[On(r)],
            IF On(r) = req[r].actor \/ ~accounts[On(r)].exists THEN "refused" ELSE "write")
    /\ UNCHANGED <<rows, audit, raced, clock>>

SigningIn(u) == {r \in Requests : req[r].pc = "create" /\ On(r) = u}

\* User.enable, and the first half of User.disable.
SaveAccount(r) ==
    /\ At(r, "write", {"enable", "disable"})
    /\ accounts' = [accounts EXCEPT ![On(r)] =
                      [req[r].copy EXCEPT !.active = (Kind(r) = "enable")]]
    /\ IF Kind(r) = "disable"
       THEN raced' = raced \cup SigningIn(On(r)) /\ Goto(r, "sweep")
       ELSE Goto(r, "audit") /\ UNCHANGED raced
    /\ UNCHANGED <<keys, producers, groups, sessions, audit, clock>>

\* Mutant: only the sessions seen in use are revoked.
SweepUsed(r) ==
    /\ req[r].pc = "sweep"
    /\ sessions' = [s \in DOMAIN sessions |->
                      IF sessions[s].user = On(r) /\ sessions[s].used
                      THEN [sessions[s] EXCEPT !.status = "revoked"]
                      ELSE sessions[s]]
    /\ Goto(r, "audit")
    /\ UNCHANGED <<keys, producers, accounts, groups, audit, raced, clock>>

\* The second half: one update of all the user's sessions.
SweepSessions(r) ==
    /\ req[r].pc = "sweep"
    /\ sessions' = [s \in DOMAIN sessions |->
                      IF sessions[s].user = On(r)
                      THEN [sessions[s] EXCEPT !.status = "revoked"]
                      ELSE sessions[s]]
    /\ Goto(r, "audit")
    /\ UNCHANGED <<keys, producers, accounts, groups, audit, raced, clock>>

\* user disable and user enable, in the server's own shell.
LocalReadAccount(r) ==
    /\ At(r, "read", LocalSwitches)
    /\ Goto(r, IF accounts[On(r)].exists THEN "write" ELSE "refused")
    /\ UNCHANGED <<rows, audit, raced, clock>>

LiveSessionsOf(u) ==
    {s \in DOMAIN sessions : sessions[s].status = "active" /\ sessions[s].user = u}

\* The framework's set_active: the account's flag, and no more.  The sessions
\* a disable leaves are remembered.
LocalSetActive(r) ==
    /\ At(r, "write", LocalSwitches)
    /\ accounts' = [accounts EXCEPT ![On(r)].active = (Kind(r) = "local_enable")]
    /\ IF Kind(r) = "local_disable"
       THEN raced' = raced \cup SigningIn(On(r)) /\ Keep(r, [left |-> LiveSessionsOf(On(r))], "done")
       ELSE Goto(r, "done") /\ UNCHANGED raced
    /\ UNCHANGED <<keys, producers, groups, sessions, audit, clock>>

\* The requests on their way to giving a user its one role.
ChangingRole(u) ==
    {r \in Requests : req[r].pc \in {"assign", "unassign", "failed"} /\ On(r) = u
                         /\ Kind(r) \in RoleChanges}

\* The groups to remove are read once.
GroupsOf(r) ==
    /\ IF accounts[On(r)].exists
       THEN /\ Keep(r, [groups |-> groups[On(r)]], "unassign")
            /\ raced' = IF ChangingRole(On(r)) \ {r} = {} THEN raced
                        ELSE raced \cup {On(r)}
       ELSE Goto(r, "refused") /\ UNCHANGED raced
    /\ UNCHANGED <<rows, audit, clock>>

\* users_set_role, and the second half of users_create.
ReadGroups(r) ==
    /\ At(r, "assign", {"create_user"}) \/ At(r, "read", {"set_role"})
    /\ GroupsOf(r)

\* user role, and the second half of user create, which have no actor.
LocalRole(r) ==
    /\ At(r, "assign", {"local_create"}) \/ At(r, "read", {"local_role"})
    /\ GroupsOf(r)

\* Mutant: the new group is added and the old ones are left.
AssignOnly(r) ==
    /\ req[r].pc = "unassign"
    /\ groups' = [groups EXCEPT ![On(r)] = @ \cup {req[r].op.arg}]
    /\ Keep(r, None, IF Kind(r) \in Audited THEN "audit" ELSE "done")
    /\ UNCHANGED <<keys, producers, accounts, sessions, audit, raced, clock>>

\* Each group it had is removed, one await each, then the new one is added.
ChangeGroup(r) ==
    /\ req[r].pc = "unassign"
    /\ \/ \E g \in req[r].copy.groups :
             /\ groups' = [groups EXCEPT ![On(r)] = @ \ {g}]
             /\ Keep(r, [groups |-> req[r].copy.groups \ {g}], "unassign")
       \/ /\ req[r].copy.groups = {}
          /\ groups' = [groups EXCEPT ![On(r)] = @ \cup {req[r].op.arg}]
          /\ Keep(r, None, IF Kind(r) \in Audited THEN "audit" ELSE "done")
    /\ UNCHANGED <<keys, producers, accounts, sessions, audit, raced, clock>>

-----------------------------------------------------------------------------
(* The environment.                                                        *)

Ended == {"idle", "done", "refused", "failed"}

\* The process dies, the client's task is cancelled or the database fails.
Fail(r) ==
    /\ req[r].pc \notin Ended
    /\ Goto(r, "failed")
    /\ UNCHANGED <<rows, audit, raced, clock>>

Tick ==
    /\ clock < MaxClock
    /\ clock' = clock + 1
    /\ UNCHANGED <<rows, req, audit, raced>>

Admission(r) == ReadSession(r) \/ ReadActor(r) \/ MarkSeen(r) \/ Require(r)

KeyStep(r) == ReadKey(r) \/ ReadProducer(r) \/ Issue(r) \/ Revoke(r) \/ WriteStatus(r)

ProducerStep(r) ==
    \/ ResolveKey(r) \/ ResolveProducer(r) \/ MarkUsed(r) \/ TouchProducer(r)
    \/ RefreshRead(r) \/ RefreshSave(r)

SessionStep(r) == LookUp(r) \/ CreateSession(r) \/ LogoutRead(r) \/ LogoutSave(r)

AccountStep(r) ==
    \/ CreateAccount(r) \/ LocalCreate(r) \/ ReadAccount(r) \/ SaveAccount(r)
    \/ SweepSessions(r) \/ LocalReadAccount(r) \/ LocalSetActive(r)
    \/ ReadGroups(r) \/ LocalRole(r) \/ ChangeGroup(r)

Handle(r) ==
    \/ Admission(r) \/ KeyStep(r) \/ ProducerStep(r)
    \/ SessionStep(r) \/ AccountStep(r) \/ Audit(r)

CtlNext ==
    \/ \E r \in Requests : \/ \E op \in Operations : Arrive(r, op)
                           \/ Handle(r)
                           \/ Fail(r)
    \/ Tick

-----------------------------------------------------------------------------
KeyRow == [status : {"none", "active", "revoked"}, producer : Producers \cup {None},
           expires : 0..(MaxClock + 1), successor : Requests \cup {None},
           used : BOOLEAN]
SessionRow == [status : {"none", "active", "revoked"}, user : Users \cup {None},
               expires : 0..(MaxClock + 2), used : BOOLEAN]

(* The shape of the rows. *)
CtlTypeOK ==
    /\ keys \in [Keys \cup Requests -> KeyRow]
    /\ producers \in [Producers -> [status : {"active", "disabled"}, used : BOOLEAN]]
    /\ accounts \in [Users -> [exists : BOOLEAN, active : BOOLEAN]]
    /\ groups \in [Users -> SUBSET Roles]
    /\ sessions \in [Users \cup Requests -> SessionRow]
    /\ audit \subseteq Requests /\ raced \subseteq Requests \cup Users
    /\ clock \in 0..MaxClock

(* keys_rotate issues the successor before it revokes: while keys are only  *)
(* rotated, by whoever and wherever the requests fail, a producer keeps a   *)
(* key that is not revoked and expires when the one it had does.            *)
RotationKeepsAccess ==
    \A k \in Keys :
        (\A r \in Requests : req[r].pc = "idle" \/ Kind(r) # "revoke")
          => \E j \in Keys \cup Requests :
                /\ keys[j].status = "active"
                /\ keys[j].producer = keys[k].producer
                /\ keys[j].expires = keys[k].expires

(* A revocation is for ever: no request that read the key or the session    *)
(* before it, and writes the row after it, brings it back.                  *)
RevokedStaysRevoked ==
    [][/\ \A k \in DOMAIN keys : keys[k].status = "revoked" => keys'[k].status = "revoked"
       /\ \A s \in DOMAIN sessions :
             sessions[s].status = "revoked" => sessions'[s].status = "revoked"]_ctlVars

(* app/authz.py:7-8, users_set_active: the last operator able to manage     *)
(* accounts goes only by giving up its own role, by the server's own shell, *)
(* or by a request of an operator who lost that ability after it was        *)
(* checked.                                                                 *)
LastManager ==
    [][(Managers # {} /\ Managers' = {}) =>
         \E r \in Requests :
            /\ req'[r] # req[r]
            /\ \/ Kind(r) \in {"set_role", "local_role", "local_disable"}
                     /\ (Kind(r) = "set_role" => req[r].actor = On(r))
               \/ req[r].actor \notin Managers]_ctlVars

(* identity.py:45-52, User.disable: an account the control plane disabled   *)
(* has no live session, but for a disable of it that died between its two   *)
(* writes, and a sign-in that looked the account up before.  The shell's    *)
(* disable does not call it: what was signed in then stays (see             *)
(* ShellDisableRevokes).                                                    *)
DisabledIsSignedOut ==
    \A s \in DOMAIN sessions :
        (sessions[s].status = "active" /\ ~accounts[sessions[s].user].active)
          => \/ s \in raced \cap Requests
             \/ \E r \in Requests :
                   \/ /\ At(r, "sweep", {"disable"}) \/ At(r, "failed", {"disable"})
                      /\ On(r) = sessions[s].user
                   \/ At(r, "done", {"local_disable"}) /\ s \in req[r].copy.left

(* What docs/SECURITY.md:43-44 says of `beacn user disable`: it revokes the *)
(* account's live sessions.                                                 *)
ShellDisableRevokes ==
    \A r \in Requests : At(r, "done", {"local_disable"}) =>
        \A s \in req[r].copy.left : sessions[s].status # "active"

(* users_create, users_set_role, UserRole: an account has one role, the one *)
(* it was given last, unless two changes of it overlap or one dies half way.*)
OneRole ==
    \A u \in Users \ raced :
        (accounts[u].exists /\ Cardinality(groups[u]) # 1) => ChangingRole(u) # {}
=============================================================================
