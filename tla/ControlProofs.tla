---------------------------- MODULE ControlProofs ----------------------------
(***************************************************************************)
(* The control plane for any number of operators, keys and requests, any   *)
(* operations asked for and any clock: what its rows keep while requests   *)
(* interleave at every await and die there.                                *)
(***************************************************************************)
EXTENDS Control, FiniteSetTheorems, WellFoundedInduction, TLAPS

CtlSpec == CtlInit /\ [][CtlNext]_ctlVars

-----------------------------------------------------------------------------
(* Types, and what a request knows by where it awaits.                     *)

ProducerRow == [status : {"active", "disabled"}, used : BOOLEAN]
AccountRow  == [exists : BOOLEAN, active : BOOLEAN]
GroupsRow   == [groups : SUBSET Roles]

Awaits == {"idle", "session", "actor", "seen", "permission", "read", "issue", "revoke",
           "write", "key", "producer", "used", "touch", "create", "assign", "unassign",
           "sweep", "audit", "done", "refused", "failed"}

LeftRow == [left : SUBSET (Users \cup Requests)]

ReqRow == [pc : Awaits, op : Operations \cup {None}, actor : Users \cup {None},
           copy : KeyRow \cup SessionRow \cup ProducerRow \cup AccountRow
                    \cup GroupsRow \cup LeftRow \cup {None}]

SessionsOwned ==
    \A s \in Users \cup Requests : sessions[s].status # "none" => sessions[s].user \in Users

Waits(r) ==
    /\ req[r].pc # "idle" => req[r].op \in Operations
    /\ req[r].pc \in {"session", "actor", "seen"} => Kind(r) \in ControlWrites \cup {"logout"}
    /\ req[r].pc \in {"actor", "seen"} \/ At(r, "read", {"logout"})
          => sessions[req[r].op.by].status # "none"
    /\ req[r].pc = "actor" => req[r].copy \in SessionRow /\ req[r].copy.user \in Users
    /\ req[r].pc \in {"seen", "permission"} => req[r].actor \in Users
    /\ req[r].pc \in {"permission", "audit"} => Kind(r) \in ControlWrites
    /\ req[r].pc = "issue" => Kind(r) \in {"rotate", "issue", "issue_expiring"}
    /\ At(r, "issue", {"rotate"}) => req[r].copy \in KeyRow
    /\ req[r].pc = "revoke" => Kind(r) \in {"revoke", "rotate"} /\ req[r].copy \in KeyRow
    /\ req[r].pc \in {"key", "producer", "used"} => Kind(r) = "publish"
    /\ req[r].pc = "touch" => Kind(r) \in {"publish", "refresh"}
    /\ req[r].pc = "create" => Kind(r) = "login"
    /\ req[r].pc = "write"
          => Kind(r) \in {"logout", "enable", "disable"} \cup LocalSwitches \cup ProducerWrites
    /\ At(r, "write", {"logout"}) => req[r].copy \in SessionRow /\ req[r].copy.user \in Users
    /\ At(r, "write", {"enable", "disable"}) => req[r].copy \in AccountRow
    /\ req[r].pc = "sweep" => Kind(r) = "disable"
    /\ req[r].pc = "assign" => Kind(r) \in {"create_user", "local_create"}
    /\ req[r].pc = "unassign" => Kind(r) \in RoleChanges /\ req[r].copy \in GroupsRow

TypeInv ==
    /\ CtlTypeOK
    /\ req \in [Requests -> ReqRow]
    /\ SessionsOwned
    /\ \A r \in Requests : Waits(r)

(* The steps of requests: one request moves and the others stay.           *)
Moves(r) == \A q \in Requests \ {r} : req'[q] = req[q]

(* Rows of sign-in sessions are never deleted. *)
SessionsStay ==
    \A s \in Users \cup Requests : sessions[s].status # "none" => sessions'[s].status # "none"

LEMMA OthersWait ==
    ASSUME NEW r \in Requests, TypeInv, Moves(r), SessionsStay
    PROVE  \A q \in Requests \ {r} : Waits(q)'
<1> SUFFICES ASSUME NEW q \in Requests \ {r} PROVE Waits(q)'
  OBVIOUS
<1>1. req'[q] = req[q] /\ Waits(q)
  BY DEF Moves, TypeInv
<1>2. req[q].pc \in {"actor", "seen"} \/ At(q, "read", {"logout"})
        => req[q].op.by \in Users \cup Requests
  <2>1. req[q].pc \in {"actor", "seen"} \/ At(q, "read", {"logout"})
          => req[q].op \in Operations /\ Kind(q) \in ControlWrites \cup {"logout"}
    BY <1>1 DEF Waits, At
  <2> QED  BY <2>1, OperationsAssumption DEF Kind
<1> QED  BY <1>1, <1>2 DEF Waits, SessionsStay, At, Kind

LEMMA CtlInitTypes == CtlInit => TypeInv
<1> SUFFICES ASSUME CtlInit PROVE TypeInv
  OBVIOUS
<1> USE ControlAssumption
<1>1. keys \in [Keys \cup Requests -> KeyRow]
  <2> SUFFICES ASSUME NEW k \in Keys \cup Requests PROVE keys[k] \in KeyRow
    BY DEF CtlInit
  <2>1. NoKey \in KeyRow
    BY DEF NoKey, KeyRow
  <2>2. keys[k] \in {NoKey} \cup [status : {"active"}, producer : Producers,
                                 expires : 0..1, successor : {None}, used : {FALSE}]
    BY DEF CtlInit
  <2>3. [status : {"active"}, producer : Producers, expires : 0..1,
         successor : {None}, used : {FALSE}] \subseteq KeyRow
    <3>1. 0..1 \subseteq 0..(MaxClock + 1)
      OBVIOUS
    <3> QED  BY <3>1 DEF KeyRow
  <2> QED  BY <2>1, <2>2, <2>3
<1>2. sessions \in [Users \cup Requests -> SessionRow] /\ SessionsOwned
  BY DEF CtlInit, SessionRow, NoSession, SessionsOwned
<1>3. req \in [Requests -> ReqRow]
  BY DEF CtlInit, ReqRow, Idle, Awaits
<1>4. \A r \in Requests : Waits(r)
  BY DEF CtlInit, Idle, Waits, At
<1>5. CtlTypeOK
  <2>1. groups \in [Users -> SUBSET Roles]
    BY DEF CtlInit, Roles
  <2>2. producers \in [Producers -> [status : {"active", "disabled"}, used : BOOLEAN]]
    BY DEF CtlInit
  <2>3. accounts \in [Users -> [exists : BOOLEAN, active : BOOLEAN]]
    BY DEF CtlInit
  <2>4. audit \subseteq Requests /\ raced \subseteq Requests \cup Users /\ clock \in 0..MaxClock
    BY DEF CtlInit
  <2> QED  BY <1>1, <1>2, <2>1, <2>2, <2>3, <2>4 DEF CtlTypeOK
<1> QED  BY <1>2, <1>3, <1>4, <1>5 DEF TypeInv

(* A step that moves r, keeps the rows in their types and leaves r with     *)
(* what it should know keeps the invariant.                                *)
LEMMA StepTypes ==
    ASSUME NEW r \in Requests, TypeInv, Moves(r), req' \in [Requests -> ReqRow],
           CtlTypeOK', SessionsOwned', SessionsStay, Waits(r)'
    PROVE  TypeInv'
BY OthersWait DEF TypeInv

LEMMA QuietTypes ==
    ASSUME NEW r \in Requests, TypeInv, Moves(r), req' \in [Requests -> ReqRow],
           UNCHANGED <<rows, raced, clock>>, audit' \subseteq Requests, Waits(r)'
    PROVE  TypeInv'
<1>1. CtlTypeOK' /\ SessionsOwned' /\ SessionsStay
  BY DEF TypeInv, CtlTypeOK, SessionsOwned, SessionsStay, rows
<1> QED  BY <1>1, StepTypes

Copies == KeyRow \cup SessionRow \cup ProducerRow \cup AccountRow \cup GroupsRow
              \cup LeftRow \cup {None}

(* What a request becomes when it goes on to an await. *)
Becomes(r, pc, copy) ==
    /\ Moves(r) /\ req' \in [Requests -> ReqRow]
    /\ req'[r].pc = pc /\ req'[r].copy = copy
    /\ req'[r].op = req[r].op /\ req'[r].actor = req[r].actor

LEMMA KeepMoves ==
    ASSUME NEW r \in Requests, TypeInv, NEW pc \in Awaits, NEW copy \in Copies,
           Keep(r, copy, pc)
    PROVE  Becomes(r, pc, copy)
BY DEF Keep, Moves, TypeInv, ReqRow, Copies, Becomes

LEMMA GotoMoves ==
    ASSUME NEW r \in Requests, TypeInv, NEW pc \in Awaits, Goto(r, pc)
    PROVE  Becomes(r, pc, req[r].copy)
BY DEF Goto, Moves, TypeInv, ReqRow, Copies, Becomes

LEMMA ArriveTypes ==
    ASSUME NEW r \in Requests, NEW op \in Operations, TypeInv, Arrive(r, op)
    PROVE  TypeInv'
<1>1. Moves(r) /\ req' \in [Requests -> ReqRow]
  BY DEF Arrive, Moves, TypeInv, ReqRow, Awaits
<1>2. UNCHANGED <<rows, raced, clock>> /\ audit' \subseteq Requests
  BY DEF Arrive, TypeInv, CtlTypeOK
<1>3. req'[r].op = op /\ req'[r].pc = IF op.kind \in ControlWrites \cup {"logout"} THEN "session"
                           ELSE IF op.kind = "publish" THEN "key" ELSE "read"
  BY DEF Arrive, TypeInv, ReqRow
<1>4. Waits(r)'
  BY <1>3 DEF Waits, At, Kind
<1> QED  BY <1>1, <1>2, <1>4, QuietTypes

LEMMA ReadSessionTypes ==
    ASSUME NEW r \in Requests, TypeInv, ReadSession(r)
    PROVE  TypeInv'
<1> DEFINE s == sessions[req[r].op.by]
<1>1. s \in SessionRow /\ (IsLive(s) => s.status # "none" /\ s.user \in Users)
  BY OperationsAssumption DEF TypeInv, Waits, ReadSession, Kind, IsLive, SessionsOwned, CtlTypeOK
<1>2. UNCHANGED <<rows, raced, clock>> /\ audit' \subseteq Requests
  BY DEF ReadSession, TypeInv, CtlTypeOK
<1>3. CASE IsLive(s)
  <2>1. Becomes(r, "actor", s)
    BY <1>1, <1>3, KeepMoves DEF ReadSession, Awaits, Copies
  <2>2. Waits(r)'
    BY <1>1, <1>2, <1>3, <2>1 DEF ReadSession, Becomes, Waits, At, Kind, TypeInv, rows
  <2> QED  BY <1>2, <2>1, <2>2, QuietTypes DEF Becomes
<1>4. CASE ~IsLive(s)
  <2>1. Becomes(r, "refused", req[r].copy)
    BY <1>4, GotoMoves DEF ReadSession, Awaits
  <2>2. Waits(r)'
    BY <2>1 DEF ReadSession, Becomes, Waits, At, Kind, TypeInv
  <2> QED  BY <1>2, <2>1, <2>2, QuietTypes DEF Becomes
<1> QED  BY <1>3, <1>4

LEMMA ReadActorTypes ==
    ASSUME NEW r \in Requests, TypeInv, ReadActor(r)
    PROVE  TypeInv'
<1> DEFINE u == req[r].copy.user
<1>1. u \in Users
  BY DEF TypeInv, Waits, ReadActor
<1>2. /\ Moves(r) /\ req' \in [Requests -> ReqRow] /\ req'[r].op = req[r].op
      /\ req'[r].actor = u /\ req'[r].pc \in {"seen", "refused"}
  BY <1>1 DEF ReadActor, Moves, TypeInv, ReqRow, Awaits
<1>3. UNCHANGED <<rows, raced, clock>> /\ audit' \subseteq Requests
  BY DEF ReadActor, TypeInv, CtlTypeOK
<1>4. Waits(r)'
  BY <1>1, <1>2, <1>3 DEF ReadActor, Waits, At, Kind, TypeInv, rows
<1> QED  BY <1>2, <1>3, <1>4, QuietTypes

LEMMA MarkSeenTypes ==
    ASSUME NEW r \in Requests, TypeInv, MarkSeen(r)
    PROVE  TypeInv'
<1> DEFINE s == req[r].op.by
           next == IF Kind(r) = "logout" THEN "read" ELSE "permission"
<1>1. s \in Users \cup Requests /\ sessions[s] \in SessionRow /\ sessions[s].status # "none"
  BY OperationsAssumption DEF TypeInv, Waits, MarkSeen, Kind, CtlTypeOK
<1>2. sessions' = [sessions EXCEPT ![s] = [@ EXCEPT !.used = TRUE]]
  BY DEF MarkSeen, Bookkeeping
<1>3. CtlTypeOK' /\ SessionsOwned' /\ SessionsStay
  <2>1. sessions' \in [Users \cup Requests -> SessionRow]
    BY <1>1, <1>2 DEF TypeInv, CtlTypeOK, SessionRow
  <2>2. SessionsOwned' /\ SessionsStay
    BY <1>1, <1>2 DEF TypeInv, CtlTypeOK, SessionRow, SessionsOwned, SessionsStay
  <2> QED  BY <2>1, <2>2 DEF MarkSeen, TypeInv, CtlTypeOK
<1>4. Becomes(r, next, None)
  <2>1. next \in Awaits /\ None \in Copies /\ Keep(r, None, next)
    BY DEF MarkSeen, Awaits, Copies
  <2> QED  BY <2>1, KeepMoves
<1>5. Waits(r)'
  <2>1. req[r].op \in Operations /\ Kind(r) \in ControlWrites \cup {"logout"} /\ req[r].actor \in Users
    BY DEF MarkSeen, TypeInv, Waits
  <2>2. sessions'[s].status # "none"
    BY <1>1, <1>3 DEF SessionsStay
  <2> QED  BY <1>4, <2>1, <2>2 DEF Becomes, Waits, At, Kind
<1> QED  BY <1>3, <1>4, <1>5, StepTypes DEF Becomes

LEMMA RequireTypes ==
    ASSUME NEW r \in Requests, TypeInv, Require(r)
    PROVE  TypeInv'
<1>1. UNCHANGED <<rows, raced, clock>> /\ audit' \subseteq Requests
  BY DEF Require, TypeInv, CtlTypeOK
<1>2. \E pc \in {"read", "refused"} : Goto(r, pc)
  BY DEF Require
<1>3. PICK pc \in {"read", "refused"} : Becomes(r, pc, req[r].copy)
  BY <1>2, GotoMoves DEF Awaits
<1>4. Waits(r)'
  BY <1>3 DEF Require, Becomes, Waits, At, Kind, TypeInv, ControlWrites, KeyWrites,
              ProducerWrites, UserWrites
<1> QED  BY <1>1, <1>3, <1>4, QuietTypes DEF Becomes

LEMMA AuditTypes ==
    ASSUME NEW r \in Requests, TypeInv, Audit(r)
    PROVE  TypeInv'
<1>1. UNCHANGED <<rows, raced, clock>> /\ audit' \subseteq Requests
  BY DEF Audit, TypeInv, CtlTypeOK
<1>2. Becomes(r, "done", req[r].copy)
  BY GotoMoves DEF Audit, Awaits
<1>3. Waits(r)'
  BY <1>2 DEF Audit, Becomes, Waits, At, Kind, TypeInv
<1> QED  BY <1>1, <1>2, <1>3, QuietTypes DEF Becomes

-----------------------------------------------------------------------------
(* The steps on keys and producers.                                        *)

LEMMA ReadKeyTypes ==
    ASSUME NEW r \in Requests, TypeInv, ReadKey(r)
    PROVE  TypeInv'
<1>1. UNCHANGED <<rows, raced, clock>> /\ audit' \subseteq Requests
  BY DEF ReadKey, TypeInv, CtlTypeOK
<1>2. req[r].op \in Operations /\ Kind(r) \in {"revoke", "rotate"} /\ keys[On(r)] \in KeyRow
  BY OperationsAssumption DEF ReadKey, At, TypeInv, Waits, Kind, On, CtlTypeOK
<1>3. \E pc \in {"refused", "issue", "revoke"} :
          Keep(r, keys[On(r)], pc) /\ (pc = "issue" => Kind(r) = "rotate")
  BY DEF ReadKey
<1>4. PICK pc \in {"refused", "issue", "revoke"} :
          Becomes(r, pc, keys[On(r)]) /\ (pc = "issue" => Kind(r) = "rotate")
  BY <1>2, <1>3, KeepMoves DEF Awaits, Copies
<1>5. Waits(r)'
  BY <1>2, <1>4 DEF Becomes, Waits, At, Kind
<1> QED  BY <1>1, <1>4, <1>5, QuietTypes DEF Becomes

LEMMA ReadProducerTypes ==
    ASSUME NEW r \in Requests, TypeInv, ReadProducer(r)
    PROVE  TypeInv'
<1>1. UNCHANGED <<rows, raced, clock>> /\ audit' \subseteq Requests
  BY DEF ReadProducer, TypeInv, CtlTypeOK
<1>2. req[r].op \in Operations /\ Kind(r) \in {"issue", "issue_expiring", "activate", "deactivate"}
      /\ producers[On(r)] \in ProducerRow
  BY OperationsAssumption DEF ReadProducer, At, TypeInv, Waits, Kind, On, CtlTypeOK,
                              ProducerRow, ProducerWrites
<1>3. \E pc \in {"write", "issue"} :
          Keep(r, producers[On(r)], pc) /\ (pc = "write" <=> Kind(r) \in ProducerWrites)
  BY DEF ReadProducer
<1>4. PICK pc \in {"write", "issue"} :
          Becomes(r, pc, producers[On(r)]) /\ (pc = "write" <=> Kind(r) \in ProducerWrites)
  BY <1>2, <1>3, KeepMoves DEF Awaits, Copies
<1>5. Waits(r)'
  BY <1>2, <1>4 DEF Becomes, Waits, At, Kind, ProducerWrites
<1> QED  BY <1>1, <1>4, <1>5, QuietTypes DEF Becomes

(* Only the keys' rows change.                                             *)
LEMMA KeyTypes ==
    ASSUME NEW r \in Requests, TypeInv, NEW pc \in Awaits, Goto(r, pc),
           keys' \in [Keys \cup Requests -> KeyRow], Waits(r)',
           UNCHANGED <<producers, accounts, groups, sessions, audit, raced, clock>>
    PROVE  TypeInv'
<1>1. Becomes(r, pc, req[r].copy)
  BY GotoMoves
<1>2. CtlTypeOK' /\ SessionsOwned' /\ SessionsStay
  BY DEF TypeInv, CtlTypeOK, SessionsOwned, SessionsStay
<1> QED  BY <1>1, <1>2, StepTypes DEF Becomes

LEMMA IssueTypes ==
    ASSUME NEW r \in Requests, TypeInv, Issue(r)
    PROVE  TypeInv'
<1> USE ControlAssumption
<1> DEFINE row == IF Kind(r) = "rotate" THEN NewKey(req[r].copy.producer, req[r].copy.expires)
                  ELSE NewKey(On(r), IF Kind(r) = "issue" THEN 0 ELSE clock + 1)
           pc == IF Kind(r) = "rotate" THEN "revoke" ELSE "audit"
<1>1. /\ req[r].op \in Operations /\ Kind(r) \in {"rotate", "issue", "issue_expiring"}
      /\ Kind(r) = "rotate" => req[r].copy \in KeyRow
  BY DEF Issue, TypeInv, Waits, At
<1>2. row \in KeyRow
  <2>1. CASE Kind(r) = "rotate"
    BY <1>1, <2>1 DEF NewKey, NoKey, KeyRow
  <2>2. CASE Kind(r) # "rotate"
    <3>1. On(r) \in Producers
      BY <1>1, <2>2, OperationsAssumption DEF Kind, On
    <3>2. (IF Kind(r) = "issue" THEN 0 ELSE clock + 1) \in 0..(MaxClock + 1)
      BY DEF TypeInv, CtlTypeOK
    <3>3. row = NewKey(On(r), IF Kind(r) = "issue" THEN 0 ELSE clock + 1)
      BY <2>2
    <3> HIDE DEF row
    <3> QED  BY <3>1, <3>2, <3>3 DEF NewKey, NoKey, KeyRow
  <2> QED  BY <2>1, <2>2
<1>3. keys' \in [Keys \cup Requests -> KeyRow]
  <2>1. keys' = [keys EXCEPT ![r] = row]
    BY DEF Issue
  <2> QED  BY <1>2, <2>1 DEF TypeInv, CtlTypeOK
<1>4. pc \in Awaits /\ Goto(r, pc)
  BY DEF Issue, Awaits
<1>5. Waits(r)'
  BY <1>1, <1>4, GotoMoves DEF Becomes, Waits, At, Kind, ControlWrites, KeyWrites
<1> QED  BY <1>3, <1>4, <1>5, KeyTypes DEF Issue

LEMMA RevokeTypes ==
    ASSUME NEW r \in Requests, TypeInv, Revoke(r)
    PROVE  TypeInv'
<1>1. /\ req[r].op \in Operations /\ Kind(r) \in {"revoke", "rotate"}
      /\ req[r].copy \in KeyRow
  BY DEF Revoke, TypeInv, Waits
<1>2. keys' \in [Keys \cup Requests -> KeyRow]
  <2> DEFINE row == [req[r].copy EXCEPT !.status = "revoked",
                       !.successor = IF Kind(r) = "rotate" THEN r ELSE None]
  <2>1. row \in KeyRow
    BY <1>1 DEF KeyRow
  <2>2. keys' = [keys EXCEPT ![On(r)] = row]
    BY DEF Revoke
  <2> HIDE DEF row
  <2> QED  BY <2>1, <2>2 DEF TypeInv, CtlTypeOK
<1>3. Becomes(r, "audit", req[r].copy)
  BY GotoMoves DEF Revoke, Awaits
<1>4. Waits(r)'
  BY <1>1, <1>3 DEF Becomes, Waits, At, Kind, ControlWrites, KeyWrites
<1> QED  BY <1>2, <1>4, KeyTypes DEF Revoke, Awaits

LEMMA MarkUsedTypes ==
    ASSUME NEW r \in Requests, TypeInv, MarkUsed(r)
    PROVE  TypeInv'
<1>1. req[r].op \in Operations /\ Kind(r) = "publish" /\ On(r) \in Keys \cup Requests
  BY OperationsAssumption DEF MarkUsed, TypeInv, Waits, Kind, On
<1>2. keys' \in [Keys \cup Requests -> KeyRow]
  <2>1. keys[On(r)] \in KeyRow /\ keys \in [Keys \cup Requests -> KeyRow]
    BY <1>1 DEF TypeInv, CtlTypeOK
  <2>2. [keys[On(r)] EXCEPT !.used = TRUE] \in KeyRow
    BY <2>1 DEF KeyRow
  <2> QED  BY <2>1, <2>2 DEF MarkUsed, Bookkeeping
<1>3. Becomes(r, "touch", req[r].copy)
  BY GotoMoves DEF MarkUsed, Awaits
<1>4. Waits(r)'
  BY <1>1, <1>3 DEF Becomes, Waits, At, Kind
<1> QED  BY <1>2, <1>4, KeyTypes DEF MarkUsed, Awaits

(* Only the producers' rows change.                                        *)
LEMMA ProducerTypes ==
    ASSUME NEW r \in Requests, TypeInv, NEW pc \in {"audit", "done"}, Goto(r, pc),
           producers' \in [Producers -> ProducerRow],
           pc = "audit" => Kind(r) \in ControlWrites, req[r].pc # "idle",
           UNCHANGED <<keys, accounts, groups, sessions, audit, raced, clock>>
    PROVE  TypeInv'
<1>1. Becomes(r, pc, req[r].copy)
  BY GotoMoves DEF Awaits
<1>2. CtlTypeOK' /\ SessionsOwned' /\ SessionsStay
  BY DEF TypeInv, CtlTypeOK, SessionsOwned, SessionsStay, ProducerRow
<1>3. Waits(r)'
  BY <1>1 DEF Becomes, Waits, At, Kind, TypeInv
<1> QED  BY <1>1, <1>2, <1>3, StepTypes DEF Becomes

LEMMA WriteStatusTypes ==
    ASSUME NEW r \in Requests, TypeInv, WriteStatus(r)
    PROVE  TypeInv'
<1>1. producers' \in [Producers -> ProducerRow]
  BY DEF WriteStatus, TypeInv, CtlTypeOK, ProducerRow
<1>2. Kind(r) \in ControlWrites /\ req[r].pc # "idle"
  BY DEF WriteStatus, At, ControlWrites
<1> QED  BY <1>1, <1>2, ProducerTypes DEF WriteStatus

LEMMA TouchProducerTypes ==
    ASSUME NEW r \in Requests, TypeInv, TouchProducer(r)
    PROVE  TypeInv'
<1>1. producers' \in [Producers -> ProducerRow]
  BY DEF TouchProducer, TypeInv, CtlTypeOK, ProducerRow
<1> QED  BY <1>1, ProducerTypes DEF TouchProducer, At

LEMMA RefreshSaveTypes ==
    ASSUME NEW r \in Requests, TypeInv, RefreshSave(r)
    PROVE  TypeInv'
<1>1. producers' \in [Producers -> ProducerRow]
  BY DEF RefreshSave, Bookkeeping, TypeInv, CtlTypeOK, ProducerRow
<1> QED  BY <1>1, ProducerTypes DEF RefreshSave, At

LEMMA ResolveKeyTypes ==
    ASSUME NEW r \in Requests, TypeInv, ResolveKey(r)
    PROVE  TypeInv'
<1>1. UNCHANGED <<rows, raced, clock>> /\ audit' \subseteq Requests
  BY DEF ResolveKey, TypeInv, CtlTypeOK
<1>2. req[r].op \in Operations /\ Kind(r) = "publish" /\ keys[On(r)] \in KeyRow
  BY OperationsAssumption DEF ResolveKey, TypeInv, Waits, Kind, On, CtlTypeOK
<1>3. \E pc \in {"producer", "refused"} : Keep(r, keys[On(r)], pc)
  BY DEF ResolveKey
<1>4. PICK pc \in {"producer", "refused"} : Becomes(r, pc, keys[On(r)])
  BY <1>2, <1>3, KeepMoves DEF Awaits, Copies
<1>5. Waits(r)'
  BY <1>2, <1>4 DEF Becomes, Waits, At, Kind
<1> QED  BY <1>1, <1>4, <1>5, QuietTypes DEF Becomes

LEMMA ResolveProducerTypes ==
    ASSUME NEW r \in Requests, TypeInv, ResolveProducer(r)
    PROVE  TypeInv'
<1>1. UNCHANGED <<rows, raced, clock>> /\ audit' \subseteq Requests
  BY DEF ResolveProducer, TypeInv, CtlTypeOK
<1>2. \E pc \in {"used", "refused"} : Goto(r, pc)
  BY DEF ResolveProducer
<1>3. PICK pc \in {"used", "refused"} : Becomes(r, pc, req[r].copy)
  BY <1>2, GotoMoves DEF Awaits
<1>4. Waits(r)'
  BY <1>3 DEF ResolveProducer, Becomes, Waits, At, Kind, TypeInv
<1> QED  BY <1>1, <1>3, <1>4, QuietTypes DEF Becomes

LEMMA RefreshReadTypes ==
    ASSUME NEW r \in Requests, TypeInv, RefreshRead(r)
    PROVE  TypeInv'
<1>1. UNCHANGED <<rows, raced, clock>> /\ audit' \subseteq Requests
  BY DEF RefreshRead, TypeInv, CtlTypeOK
<1>2. req[r].op \in Operations /\ Kind(r) = "refresh" /\ producers[On(r)] \in ProducerRow
  BY OperationsAssumption DEF RefreshRead, At, TypeInv, Waits, Kind, On, CtlTypeOK, ProducerRow
<1>3. Becomes(r, "touch", producers[On(r)])
  BY <1>2, KeepMoves DEF RefreshRead, Awaits, Copies
<1>4. Waits(r)'
  BY <1>2, <1>3 DEF Becomes, Waits, At, Kind
<1> QED  BY <1>1, <1>3, <1>4, QuietTypes DEF Becomes

-----------------------------------------------------------------------------
(* The steps on sessions.                                                  *)

LEMMA LookUpTypes ==
    ASSUME NEW r \in Requests, TypeInv, LookUp(r)
    PROVE  TypeInv'
<1>1. UNCHANGED <<rows, raced, clock>> /\ audit' \subseteq Requests
  BY DEF LookUp, TypeInv, CtlTypeOK
<1>2. \E pc \in {"create", "refused"} : Goto(r, pc)
  BY DEF LookUp
<1>3. PICK pc \in {"create", "refused"} : Becomes(r, pc, req[r].copy)
  BY <1>2, GotoMoves DEF Awaits
<1>4. Waits(r)'
  BY <1>3 DEF LookUp, Becomes, Waits, At, Kind, TypeInv
<1> QED  BY <1>1, <1>3, <1>4, QuietTypes DEF Becomes

(* Only the sessions' rows change, and the request is over or goes on to    *)
(* its audit row.                                                          *)
LEMMA SessionTypes ==
    ASSUME NEW r \in Requests, TypeInv, NEW pc \in {"audit", "done"}, Goto(r, pc),
           sessions' \in [Users \cup Requests -> SessionRow], SessionsOwned', SessionsStay,
           pc = "audit" => Kind(r) \in ControlWrites, req[r].pc # "idle",
           UNCHANGED <<keys, producers, accounts, groups, audit, raced, clock>>
    PROVE  TypeInv'
<1>1. Becomes(r, pc, req[r].copy)
  BY GotoMoves DEF Awaits
<1>2. CtlTypeOK'
  BY DEF TypeInv, CtlTypeOK
<1>3. Waits(r)'
  BY <1>1 DEF Becomes, Waits, At, Kind, TypeInv
<1> QED  BY <1>1, <1>2, <1>3, StepTypes DEF Becomes

LEMMA CreateSessionTypes ==
    ASSUME NEW r \in Requests, TypeInv, CreateSession(r)
    PROVE  TypeInv'
<1> USE ControlAssumption
<1> DEFINE row == [status |-> "active", user |-> On(r), expires |-> clock + 1, used |-> TRUE]
<1>1. req[r].op \in Operations /\ Kind(r) = "login" /\ On(r) \in Users
  BY OperationsAssumption DEF CreateSession, At, TypeInv, Waits, Kind, On
<1>2. row \in SessionRow
  <2>1. clock + 1 \in 0..(MaxClock + 2)
    BY DEF TypeInv, CtlTypeOK
  <2> QED  BY <1>1, <2>1 DEF SessionRow
<1>3. sessions' = [sessions EXCEPT ![r] = row]
  BY DEF CreateSession
<1>4. row.status = "active" /\ row.user \in Users
  BY <1>1
<1> HIDE DEF row
<1>5. sessions' \in [Users \cup Requests -> SessionRow] /\ SessionsOwned' /\ SessionsStay
  BY <1>2, <1>3, <1>4 DEF TypeInv, CtlTypeOK, SessionsOwned, SessionsStay
<1> QED  BY <1>5, SessionTypes DEF CreateSession, At

LEMMA LogoutReadTypes ==
    ASSUME NEW r \in Requests, TypeInv, LogoutRead(r)
    PROVE  TypeInv'
<1> DEFINE s == req[r].op.by
<1>1. UNCHANGED <<rows, raced, clock>> /\ audit' \subseteq Requests
  BY DEF LogoutRead, TypeInv, CtlTypeOK
<1>2. req[r].op \in Operations /\ Kind(r) = "logout" /\ s \in Users \cup Requests
      /\ sessions[s].status # "none"
  BY OperationsAssumption DEF LogoutRead, At, TypeInv, Waits, Kind
<1>3. sessions[s] \in SessionRow /\ sessions[s].user \in Users
  BY <1>2 DEF TypeInv, CtlTypeOK, SessionsOwned
<1>4. Becomes(r, "write", sessions[s])
  BY <1>3, KeepMoves DEF LogoutRead, Awaits, Copies
<1>5. Waits(r)'
  BY <1>2, <1>3, <1>4 DEF Becomes, Waits, At, Kind
<1> QED  BY <1>1, <1>4, <1>5, QuietTypes DEF Becomes

LEMMA LogoutSaveTypes ==
    ASSUME NEW r \in Requests, TypeInv, LogoutSave(r)
    PROVE  TypeInv'
<1> DEFINE row == [req[r].copy EXCEPT !.status = "revoked"]
<1>1. req[r].copy \in SessionRow /\ req[r].copy.user \in Users
  BY DEF LogoutSave, At, TypeInv, Waits
<1>2. row \in SessionRow /\ row.status = "revoked" /\ row.user \in Users
  BY <1>1 DEF SessionRow
<1>3. sessions' = [sessions EXCEPT ![req[r].op.by] = row]
  BY DEF LogoutSave
<1> HIDE DEF row
<1>4. sessions' \in [Users \cup Requests -> SessionRow] /\ SessionsOwned' /\ SessionsStay
  BY <1>2, <1>3 DEF TypeInv, CtlTypeOK, SessionsOwned, SessionsStay
<1> QED  BY <1>4, SessionTypes DEF LogoutSave, At

LEMMA SweepSessionsTypes ==
    ASSUME NEW r \in Requests, TypeInv, SweepSessions(r)
    PROVE  TypeInv'
<1>1. Kind(r) \in ControlWrites
  BY DEF SweepSessions, TypeInv, Waits, ControlWrites, UserWrites
<1>2. \A s \in Users \cup Requests :
         /\ sessions'[s] \in SessionRow /\ sessions'[s].user = sessions[s].user
         /\ sessions'[s].status \in {sessions[s].status, "revoked"}
         /\ sessions[s].user # On(r) => sessions'[s] = sessions[s]
         /\ sessions[s].user = On(r) => sessions'[s].status = "revoked"
  BY DEF SweepSessions, TypeInv, CtlTypeOK, SessionRow
<1>3. On(r) \in Users
  BY OperationsAssumption DEF SweepSessions, TypeInv, Waits, Kind, On
<1>4. sessions' \in [Users \cup Requests -> SessionRow]
  BY <1>2 DEF SweepSessions, TypeInv, CtlTypeOK
<1>5. SessionsOwned' /\ SessionsStay
  BY <1>2, <1>3 DEF TypeInv, SessionsOwned, SessionsStay
<1> QED  BY <1>1, <1>4, <1>5, SessionTypes DEF SweepSessions

-----------------------------------------------------------------------------
(* The steps on accounts and roles.                                        *)

(* Only accounts and groups change, of the types they have.                *)
LEMMA AccountTypes ==
    ASSUME NEW r \in Requests, TypeInv, Moves(r), req' \in [Requests -> ReqRow], Waits(r)',
           accounts' \in [Users -> AccountRow], groups' \in [Users -> SUBSET Roles],
           raced' \subseteq Requests \cup Users,
           UNCHANGED <<keys, producers, sessions, audit, clock>>
    PROVE  TypeInv'
<1>1. CtlTypeOK' /\ SessionsOwned' /\ SessionsStay
  BY DEF TypeInv, CtlTypeOK, SessionsOwned, SessionsStay, AccountRow
<1> QED  BY <1>1, StepTypes

LEMMA NewAccountTypes ==
    ASSUME NEW r \in Requests, TypeInv, At(r, "read", {"create_user", "local_create"}),
           NewAccount(r)
    PROVE  TypeInv'
<1>1. accounts' \in [Users -> AccountRow]
  <2>1. accounts \in [Users -> AccountRow] /\ [exists |-> TRUE, active |-> TRUE] \in AccountRow
    BY DEF TypeInv, CtlTypeOK, AccountRow
  <2>2. accounts' \in {accounts, [accounts EXCEPT ![On(r)] = [exists |-> TRUE, active |-> TRUE]]}
    BY DEF NewAccount
  <2> QED  BY <2>1, <2>2
<1>2. \E pc \in {"refused", "assign"} : Goto(r, pc)
  BY DEF NewAccount
<1>3. PICK pc \in {"refused", "assign"} : Becomes(r, pc, req[r].copy)
  BY <1>2, GotoMoves DEF Awaits
<1>4. Waits(r)'
  BY <1>3 DEF Becomes, Waits, At, Kind, TypeInv
<1> QED  BY <1>1, <1>3, <1>4, AccountTypes DEF NewAccount, Becomes, TypeInv, CtlTypeOK

LEMMA ReadAccountTypes ==
    ASSUME NEW r \in Requests, TypeInv, ReadAccount(r)
    PROVE  TypeInv'
<1>1. UNCHANGED <<rows, raced, clock>> /\ audit' \subseteq Requests
  BY DEF ReadAccount, TypeInv, CtlTypeOK
<1>2. req[r].op \in Operations /\ Kind(r) \in {"enable", "disable"} /\ accounts[On(r)] \in AccountRow
  BY OperationsAssumption DEF ReadAccount, At, TypeInv, Waits, Kind, On, CtlTypeOK, AccountRow
<1>3. \E pc \in {"refused", "write"} : Keep(r, accounts[On(r)], pc)
  BY DEF ReadAccount
<1>4. PICK pc \in {"refused", "write"} : Becomes(r, pc, accounts[On(r)])
  BY <1>2, <1>3, KeepMoves DEF Awaits, Copies
<1>5. Waits(r)'
  BY <1>2, <1>4 DEF Becomes, Waits, At, Kind
<1> QED  BY <1>1, <1>4, <1>5, QuietTypes DEF Becomes

LEMMA SaveAccountTypes ==
    ASSUME NEW r \in Requests, TypeInv, SaveAccount(r)
    PROVE  TypeInv'
<1> DEFINE row == [req[r].copy EXCEPT !.active = (Kind(r) = "enable")]
<1>1. Kind(r) \in {"enable", "disable"} /\ req[r].op \in Operations /\ req[r].copy \in AccountRow
  BY DEF SaveAccount, At, TypeInv, Waits
<1>2. row \in AccountRow
  BY <1>1 DEF AccountRow
<1>3. accounts' = [accounts EXCEPT ![On(r)] = row]
  BY DEF SaveAccount
<1> HIDE DEF row
<1>4. accounts' \in [Users -> AccountRow]
  BY <1>2, <1>3 DEF TypeInv, CtlTypeOK, AccountRow
<1>5. raced' \subseteq Requests \cup Users
  BY DEF SaveAccount, SigningIn, TypeInv, CtlTypeOK
<1>6. \E pc \in {"sweep", "audit"} : Goto(r, pc) /\ (pc = "sweep" => Kind(r) = "disable")
  BY DEF SaveAccount
<1>7. PICK pc \in {"sweep", "audit"} :
         Becomes(r, pc, req[r].copy) /\ (pc = "sweep" => Kind(r) = "disable")
  BY <1>6, GotoMoves DEF Awaits
<1>8. Waits(r)'
  BY <1>1, <1>7 DEF Becomes, Waits, At, Kind, ControlWrites, UserWrites
<1> QED  BY <1>4, <1>5, <1>7, <1>8, AccountTypes DEF SaveAccount, Becomes, TypeInv, CtlTypeOK

LEMMA LocalReadAccountTypes ==
    ASSUME NEW r \in Requests, TypeInv, LocalReadAccount(r)
    PROVE  TypeInv'
<1>1. UNCHANGED <<rows, raced, clock>> /\ audit' \subseteq Requests
  BY DEF LocalReadAccount, TypeInv, CtlTypeOK
<1>2. req[r].op \in Operations /\ Kind(r) \in LocalSwitches
  BY DEF LocalReadAccount, At, TypeInv, Waits
<1>3. PICK pc \in {"refused", "write"} : Becomes(r, pc, req[r].copy)
  BY GotoMoves DEF LocalReadAccount, Awaits
<1>4. Waits(r)'
  BY <1>2, <1>3 DEF Becomes, Waits, At, Kind, LocalSwitches
<1> QED  BY <1>1, <1>3, <1>4, QuietTypes DEF Becomes

(* What the shell's set_active does to the accounts and to its request.     *)
LEMMA LocalSets ==
    ASSUME NEW r \in Requests, TypeInv, LocalSetActive(r)
    PROVE  /\ accounts' \in [Users -> AccountRow]
           /\ \A u \in Users : /\ accounts'[u].exists <=> accounts[u].exists
                               /\ u # On(r) => accounts'[u] = accounts[u]
           /\ On(r) \in Users /\ Kind(r) \in LocalSwitches
           /\ accounts'[On(r)].active <=> Kind(r) = "local_enable"
           /\ \E copy \in Copies : Becomes(r, "done", copy)
           /\ Kind(r) = "local_disable" =>
                 req'[r].copy.left = LiveSessionsOf(On(r)) /\ SigningIn(On(r)) \subseteq raced'
<1> DEFINE row == [accounts[On(r)] EXCEPT !.active = (Kind(r) = "local_enable")]
<1>1. On(r) \in Users /\ Kind(r) \in LocalSwitches
  BY OperationsAssumption DEF LocalSetActive, At, TypeInv, Waits, Kind, On
<1>2. /\ row \in AccountRow /\ row.exists = accounts[On(r)].exists
      /\ row.active <=> Kind(r) = "local_enable"
  BY <1>1 DEF TypeInv, CtlTypeOK, AccountRow
<1>3. accounts' = [accounts EXCEPT ![On(r)] = row]
  BY DEF LocalSetActive
<1> HIDE DEF row
<1>4. /\ accounts' \in [Users -> AccountRow] /\ accounts'[On(r)] = row
      /\ \A u \in Users : u # On(r) => accounts'[u] = accounts[u]
  BY <1>1, <1>2, <1>3 DEF TypeInv, CtlTypeOK, AccountRow
<1>5. CASE Kind(r) = "local_disable"
  <2>1. LiveSessionsOf(On(r)) \subseteq Users \cup Requests
    BY DEF LiveSessionsOf, TypeInv, CtlTypeOK
  <2>2. [left |-> LiveSessionsOf(On(r))] \in Copies
    BY <2>1 DEF Copies, LeftRow
  <2>3. Becomes(r, "done", [left |-> LiveSessionsOf(On(r))])
    BY <1>5, <2>2, KeepMoves DEF LocalSetActive, Awaits
  <2>4. SigningIn(On(r)) \subseteq raced'
    BY <1>5 DEF LocalSetActive
  <2> QED  BY <1>1, <1>2, <1>4, <2>2, <2>3, <2>4 DEF Becomes
<1>6. CASE Kind(r) # "local_disable"
  <2>1. Becomes(r, "done", req[r].copy)
    BY <1>6, GotoMoves DEF LocalSetActive, Awaits
  <2>2. req[r].copy \in Copies
    BY DEF TypeInv, ReqRow, Copies
  <2> QED  BY <1>1, <1>2, <1>4, <1>6, <2>1, <2>2
<1> QED  BY <1>5, <1>6

LEMMA LocalSetActiveTypes ==
    ASSUME NEW r \in Requests, TypeInv, LocalSetActive(r)
    PROVE  TypeInv'
<1>1. PICK copy \in Copies : Becomes(r, "done", copy)
  BY LocalSets
<1>2. req[r].op \in Operations
  BY DEF LocalSetActive, At, TypeInv, Waits
<1>3. Waits(r)'
  BY <1>1, <1>2 DEF Becomes, Waits, At, Kind
<1>4. raced' \subseteq Requests \cup Users
  BY DEF LocalSetActive, SigningIn, TypeInv, CtlTypeOK
<1>5. UNCHANGED <<keys, producers, groups, sessions, audit, clock>>
  BY DEF LocalSetActive
<1>6. groups' \in [Users -> SUBSET Roles]
  BY <1>5 DEF TypeInv, CtlTypeOK
<1> QED  BY <1>1, <1>3, <1>4, <1>5, <1>6, LocalSets, AccountTypes DEF Becomes

LEMMA GroupsOfTypes ==
    ASSUME NEW r \in Requests, TypeInv, req[r].op \in Operations, Kind(r) \in RoleChanges,
           GroupsOf(r)
    PROVE  TypeInv'
<1>1. On(r) \in Users /\ groups[On(r)] \in SUBSET Roles
  BY OperationsAssumption DEF Kind, On, TypeInv, CtlTypeOK
<1>2. raced' \subseteq Requests \cup Users
  BY <1>1 DEF GroupsOf, TypeInv, CtlTypeOK
<1>3. CASE accounts[On(r)].exists
  <2>1. [groups |-> groups[On(r)]] \in GroupsRow
    BY <1>1 DEF GroupsRow
  <2>2. Becomes(r, "unassign", [groups |-> groups[On(r)]])
    BY <1>3, <2>1, KeepMoves DEF GroupsOf, Awaits, Copies
  <2>3. Waits(r)'
    BY <2>1, <2>2 DEF Becomes, Waits, At, Kind
  <2> QED  BY <1>2, <2>2, <2>3, AccountTypes DEF GroupsOf, rows, Becomes, TypeInv, CtlTypeOK, AccountRow
<1>4. CASE ~accounts[On(r)].exists
  <2>1. Becomes(r, "refused", req[r].copy)
    BY <1>4, GotoMoves DEF GroupsOf, Awaits
  <2>2. Waits(r)'
    BY <2>1 DEF Becomes, Waits, At, Kind
  <2> QED  BY <1>2, <2>1, <2>2, AccountTypes DEF GroupsOf, rows, Becomes, TypeInv, CtlTypeOK, AccountRow
<1> QED  BY <1>3, <1>4

LEMMA ReadGroupsTypes ==
    ASSUME NEW r \in Requests, TypeInv, ReadGroups(r) \/ LocalRole(r)
    PROVE  TypeInv'
<1>1. req[r].op \in Operations /\ Kind(r) \in RoleChanges /\ GroupsOf(r)
  BY DEF ReadGroups, LocalRole, At, TypeInv, Waits, RoleChanges
<1> QED  BY <1>1, GroupsOfTypes

LEMMA ChangeGroupTypes ==
    ASSUME NEW r \in Requests, TypeInv, ChangeGroup(r)
    PROVE  TypeInv'
<1>1. req[r].op \in Operations /\ Kind(r) \in RoleChanges /\ req[r].copy \in GroupsRow
  BY DEF ChangeGroup, TypeInv, Waits
<1>2. On(r) \in Users /\ req[r].op.arg \in Roles /\ groups[On(r)] \subseteq Roles
  BY <1>1, OperationsAssumption DEF Kind, On, TypeInv, CtlTypeOK
<1>3. CASE \E g \in req[r].copy.groups :
             /\ groups' = [groups EXCEPT ![On(r)] = @ \ {g}]
             /\ Keep(r, [groups |-> req[r].copy.groups \ {g}], "unassign")
  <2>1. PICK g \in req[r].copy.groups :
             /\ groups' = [groups EXCEPT ![On(r)] = @ \ {g}]
             /\ Keep(r, [groups |-> req[r].copy.groups \ {g}], "unassign")
    BY <1>3
  <2>2. [groups |-> req[r].copy.groups \ {g}] \in GroupsRow
    BY <1>1 DEF GroupsRow
  <2>3. Becomes(r, "unassign", [groups |-> req[r].copy.groups \ {g}])
    BY <2>1, <2>2, KeepMoves DEF Awaits, Copies
  <2>4. Waits(r)'
    BY <1>1, <2>2, <2>3 DEF Becomes, Waits, At, Kind
  <2>5. groups' \in [Users -> SUBSET Roles]
    BY <1>2, <2>1 DEF TypeInv, CtlTypeOK
  <2> QED  BY <2>3, <2>4, <2>5, AccountTypes DEF ChangeGroup, Becomes, TypeInv, CtlTypeOK, AccountRow
<1>4. CASE /\ groups' = [groups EXCEPT ![On(r)] = @ \cup {req[r].op.arg}]
           /\ Keep(r, None, IF Kind(r) \in Audited THEN "audit" ELSE "done")
  <2>1. PICK pc \in {"audit", "done"} : Keep(r, None, pc) /\ (pc = "audit" => Kind(r) \in ControlWrites)
    BY <1>4 DEF Audited
  <2>2. Becomes(r, pc, None)
    BY <2>1, KeepMoves DEF Awaits, Copies
  <2>3. Waits(r)'
    BY <1>1, <2>1, <2>2 DEF Becomes, Waits, At, Kind
  <2>4. groups' \in [Users -> SUBSET Roles]
    BY <1>2, <1>4 DEF TypeInv, CtlTypeOK
  <2> QED  BY <2>2, <2>3, <2>4, AccountTypes DEF ChangeGroup, Becomes, TypeInv, CtlTypeOK, AccountRow
<1> QED  BY <1>3, <1>4 DEF ChangeGroup

-----------------------------------------------------------------------------
(* Every step.                                                             *)

LEMMA FailTypes ==
    ASSUME NEW r \in Requests, TypeInv, Fail(r)
    PROVE  TypeInv'
<1>1. UNCHANGED <<rows, raced, clock>> /\ audit' \subseteq Requests
  BY DEF Fail, TypeInv, CtlTypeOK
<1>2. Becomes(r, "failed", req[r].copy)
  BY GotoMoves DEF Fail, Awaits
<1>3. Waits(r)'
  BY <1>2 DEF Fail, Ended, Becomes, Waits, At, Kind, TypeInv
<1> QED  BY <1>1, <1>2, <1>3, QuietTypes DEF Becomes

LEMMA SameTypes ==
    ASSUME TypeInv, UNCHANGED <<rows, req, audit, raced>>, clock' \in 0..MaxClock
    PROVE  TypeInv'
<1>1. CtlTypeOK' /\ SessionsOwned' /\ req' \in [Requests -> ReqRow]
  BY DEF TypeInv, CtlTypeOK, SessionsOwned, rows
<1>2. \A r \in Requests : Waits(r)'
  BY DEF TypeInv, Waits, At, Kind, rows
<1> QED  BY <1>1, <1>2 DEF TypeInv

LEMMA HandleTypes ==
    ASSUME NEW r \in Requests, TypeInv, Handle(r)
    PROVE  TypeInv'
<1>1. CASE Admission(r)
  BY <1>1, ReadSessionTypes, ReadActorTypes, MarkSeenTypes, RequireTypes DEF Admission
<1>2. CASE KeyStep(r)
  BY <1>2, ReadKeyTypes, ReadProducerTypes, IssueTypes, RevokeTypes, WriteStatusTypes DEF KeyStep
<1>3. CASE ProducerStep(r)
  BY <1>3, ResolveKeyTypes, ResolveProducerTypes, MarkUsedTypes, TouchProducerTypes,
     RefreshReadTypes, RefreshSaveTypes DEF ProducerStep
<1>4. CASE SessionStep(r)
  BY <1>4, LookUpTypes, CreateSessionTypes, LogoutReadTypes, LogoutSaveTypes DEF SessionStep
<1>5. CASE AccountStep(r)
  <2>1. CASE CreateAccount(r) \/ LocalCreate(r)
    BY <2>1, NewAccountTypes DEF CreateAccount, LocalCreate, At
  <2> QED  BY <1>5, <2>1, ReadAccountTypes, SaveAccountTypes, SweepSessionsTypes,
              LocalReadAccountTypes, LocalSetActiveTypes, ReadGroupsTypes, ChangeGroupTypes DEF AccountStep
<1>6. CASE Audit(r)
  BY <1>6, AuditTypes
<1> QED  BY <1>1, <1>2, <1>3, <1>4, <1>5, <1>6 DEF Handle

LEMMA NextTypes == TypeInv /\ [CtlNext]_ctlVars => TypeInv'
<1> SUFFICES ASSUME TypeInv, [CtlNext]_ctlVars PROVE TypeInv'
  OBVIOUS
<1>1. ASSUME NEW r \in Requests, NEW op \in Operations, Arrive(r, op) PROVE TypeInv'
  BY <1>1, ArriveTypes
<1>2. ASSUME NEW r \in Requests, Handle(r) \/ Fail(r) PROVE TypeInv'
  BY <1>2, HandleTypes, FailTypes
<1>3. CASE Tick \/ UNCHANGED ctlVars
  BY <1>3, SameTypes, ControlAssumption DEF Tick, ctlVars, TypeInv, CtlTypeOK
<1> QED  BY <1>1, <1>2, <1>3 DEF CtlNext

(* The rows and the requests keep their types, and a request is where its   *)
(* operation leads, with a copy of the kind it reads there.                 *)
THEOREM ControlTypes == CtlSpec => []CtlTypeOK
<1>1. TypeInv => CtlTypeOK
  BY DEF TypeInv
<1> QED  BY <1>1, CtlInitTypes, NextTypes, PTL DEF CtlSpec

-----------------------------------------------------------------------------
(* Keys: what is issued stays, what is revoked stays so.                   *)

Early == {"idle", "session", "actor", "seen", "permission", "read", "issue"}

Known(k) == keys[k] # NoKey

KeyKnown(r) ==
    /\ req[r].pc \in Early => ~Known(r)
    /\ At(r, "issue", {"rotate"}) \/ req[r].pc = "revoke" =>
          /\ Known(On(r))
          /\ req[r].copy.producer = keys[On(r)].producer
          /\ req[r].copy.expires = keys[On(r)].expires
    /\ req[r].pc \in {"producer", "used"} => Known(On(r))
    /\ At(r, "revoke", {"rotate"}) => Known(r)
    /\ req[r].pc = "audit" \/ r \in audit =>
          /\ Kind(r) \in {"revoke", "rotate"} => keys[On(r)].status = "revoked"
          /\ Kind(r) \in {"rotate", "issue", "issue_expiring"} => Known(r)
    /\ r \in audit => req[r].pc = "done"

KeyInv == \A r \in Requests : KeyKnown(r)

(* What a step of r may do to the keys.                                    *)
KeysKeep(r) ==
    \A k \in Keys \cup Requests :
        /\ ~Known(k) /\ k # r => ~Known(k)'
        /\ Known(k) => /\ Known(k)'
                       /\ keys'[k].producer = keys[k].producer
                       /\ keys'[k].expires = keys[k].expires
                       /\ keys[k].status = "revoked" => keys'[k].status = "revoked"

LEMMA OnKeys ==
    ASSUME TypeInv, NEW r \in Requests, req[r].pc # "idle",
           Kind(r) \in {"revoke", "rotate", "publish"}
    PROVE  On(r) \in Keys \cup Requests
BY OperationsAssumption DEF TypeInv, Waits, Kind, On

LEMMA OthersKnow ==
    ASSUME NEW r \in Requests, TypeInv, KeyInv, Moves(r), KeysKeep(r),
           \A q \in Requests \ {r} : q \in audit' <=> q \in audit
    PROVE  \A q \in Requests \ {r} : KeyKnown(q)'
<1> SUFFICES ASSUME NEW q \in Requests \ {r} PROVE KeyKnown(q)'
  OBVIOUS
<1>1. req'[q] = req[q] /\ KeyKnown(q) /\ Waits(q)
  BY DEF Moves, KeyInv, TypeInv
<1>2. Kind(q)' = Kind(q) /\ On(q)' = On(q)
  BY <1>1 DEF Kind, On
<1>3. Known(q)' <=> Known(q)
  BY DEF KeysKeep
<1>4. Kind(q) \in {"revoke", "rotate", "publish"} /\ req[q].pc # "idle" /\ Known(On(q)) =>
         /\ Known(On(q))'
         /\ keys'[On(q)].producer = keys[On(q)].producer
         /\ keys'[On(q)].expires = keys[On(q)].expires
         /\ keys[On(q)].status = "revoked" => keys'[On(q)].status = "revoked"
  BY <1>2, OnKeys DEF KeysKeep, Known
<1>5. keys[On(q)].status = "revoked" => Known(On(q))
  BY DEF Known, NoKey
<1>6. req[q].pc = "revoke" => Kind(q) \in {"revoke", "rotate"}
  BY <1>1 DEF Waits
<1>7. req[q].pc \in {"producer", "used"} => Kind(q) = "publish"
  BY <1>1 DEF Waits
<1>8. q \in audit' <=> q \in audit
  OBVIOUS
<1>9. /\ req'[q].pc \in Early => ~Known(q)'
      /\ At(q, "revoke", {"rotate"})' => Known(q)'
      /\ q \in audit' => req'[q].pc = "done"
  BY <1>1, <1>2, <1>3, <1>8 DEF KeyKnown, At
<1>10. /\ At(q, "issue", {"rotate"})' \/ req'[q].pc = "revoke" =>
             /\ Known(On(q))'
             /\ req'[q].copy.producer = keys'[On(q)].producer
             /\ req'[q].copy.expires = keys'[On(q)].expires
       /\ req'[q].pc \in {"producer", "used"} => Known(On(q))'
  BY <1>1, <1>2, <1>4, <1>6, <1>7 DEF KeyKnown, At
<1>11. req'[q].pc = "audit" \/ q \in audit' =>
          /\ Kind(q) \in {"revoke", "rotate"} => keys'[On(q)].status = "revoked"
          /\ Kind(q) \in {"rotate", "issue", "issue_expiring"} => Known(q)'
  BY <1>1, <1>3, <1>4, <1>5, <1>8 DEF KeyKnown
<1> QED  BY <1>2, <1>9, <1>10, <1>11 DEF KeyKnown

(* Steps that leave the keys and the audit log alone.                      *)
Quiet(r) ==
    /\ UNCHANGED <<keys, audit>> /\ Moves(r)
    /\ req'[r].op = req[r].op /\ req[r].pc # "done"
    /\ req'[r].pc \in Early => req[r].pc \in Early
    /\ req'[r].pc \notin {"revoke", "producer"}
    /\ req'[r].pc = "issue" => Kind(r) # "rotate"
    /\ req'[r].pc = "used" => req[r].pc = "producer"
    /\ req'[r].pc = "audit" => Kind(r) \notin KeyWrites

LEMMA QuietKnows ==
    ASSUME NEW r \in Requests, TypeInv, KeyInv, Quiet(r)
    PROVE  KeyInv'
<1>1. KeysKeep(r)
  BY DEF KeysKeep, Quiet, Known
<1>2. \A q \in Requests \ {r} : KeyKnown(q)'
  BY <1>1, OthersKnow DEF Quiet
<1>3. Kind(r)' = Kind(r) /\ On(r)' = On(r) /\ Known(r)' = Known(r) /\ Known(On(r))' = Known(On(r))
  BY DEF Quiet, Kind, On, Known
<1>4. KeyKnown(r) /\ r \notin audit'
  BY DEF KeyInv, KeyKnown, Quiet
<1>5. KeyKnown(r)'
  BY <1>3, <1>4 DEF KeyKnown, Quiet, At, KeyWrites
<1> QED  BY <1>2, <1>5 DEF KeyInv

LEMMA QuietSteps ==
    ASSUME NEW r \in Requests, TypeInv,
           \/ Admission(r) \/ SessionStep(r) \/ AccountStep(r) \/ Fail(r)
           \/ ReadProducer(r) \/ WriteStatus(r) \/ ResolveProducer(r)
           \/ TouchProducer(r) \/ RefreshRead(r) \/ RefreshSave(r)
    PROVE  Quiet(r)
<1>1. CASE ReadSession(r)
  BY <1>1 DEF ReadSession, Keep, Goto, TypeInv, ReqRow, Moves, Quiet, Early, rows
<1>2. CASE ReadActor(r)
  BY <1>2 DEF ReadActor, TypeInv, ReqRow, Moves, Quiet, Early, rows
<1>3. CASE MarkSeen(r)
  BY <1>3 DEF MarkSeen, Keep, TypeInv, ReqRow, Moves, Quiet, Early
<1>4. CASE Require(r)
  BY <1>4 DEF Require, Goto, TypeInv, ReqRow, Moves, Quiet, Early, rows
<1>5. CASE LookUp(r)
  BY <1>5 DEF LookUp, At, Goto, TypeInv, ReqRow, Moves, Quiet, Early, rows
<1>6. CASE CreateSession(r)
  BY <1>6 DEF CreateSession, At, Goto, TypeInv, ReqRow, Moves, Quiet, Early, rows
<1>7. CASE LogoutRead(r)
  BY <1>7 DEF LogoutRead, At, Keep, TypeInv, ReqRow, Moves, Quiet, Early, rows
<1>8. CASE LogoutSave(r)
  BY <1>8 DEF LogoutSave, At, Goto, TypeInv, ReqRow, Moves, Quiet, Early, rows
<1>9. CASE CreateAccount(r) \/ LocalCreate(r)
  BY <1>9 DEF CreateAccount, LocalCreate, NewAccount, At, Goto, TypeInv, ReqRow, Moves, Quiet, Early
<1>10. CASE ReadAccount(r)
  BY <1>10 DEF ReadAccount, At, Keep, TypeInv, ReqRow, Moves, Quiet, Early, rows
<1>11. CASE SaveAccount(r)
  BY <1>11 DEF SaveAccount, At, Goto, TypeInv, ReqRow, Moves, Quiet, Early, KeyWrites
<1>12. CASE SweepSessions(r)
  BY <1>12 DEF SweepSessions, Goto, TypeInv, Waits, ReqRow, Moves, Quiet, Early, KeyWrites
<1>13. CASE ReadGroups(r) \/ LocalRole(r)
  BY <1>13 DEF ReadGroups, LocalRole, GroupsOf, At, Keep, Goto, TypeInv, ReqRow, Moves, Quiet, Early, rows
<1>14. CASE ChangeGroup(r)
  <2>1. PICK pc, copy : /\ Keep(r, copy, pc) /\ pc \in {"unassign", "audit", "done"}
                        /\ pc = "audit" => Kind(r) \in Audited
    BY <1>14 DEF ChangeGroup
  <2>2. Moves(r) /\ req'[r].op = req[r].op /\ req'[r].pc = pc
    BY <2>1 DEF Keep, Moves, TypeInv, ReqRow
  <2>3. Kind(r) \in RoleChanges /\ req[r].pc = "unassign" /\ UNCHANGED <<keys, audit>>
    BY <1>14 DEF ChangeGroup, TypeInv, Waits
  <2> QED  BY <2>1, <2>2, <2>3 DEF Quiet, Early, RoleChanges, KeyWrites
<1>15. CASE Fail(r)
  BY <1>15 DEF Fail, Ended, Goto, TypeInv, ReqRow, Moves, Quiet, Early, rows
<1>16. CASE ReadProducer(r)
  BY <1>16 DEF ReadProducer, At, Keep, TypeInv, ReqRow, Moves, Quiet, Early, rows
<1>17. CASE WriteStatus(r)
  <2>1. Becomes(r, "audit", req[r].copy)
    BY <1>17, GotoMoves DEF WriteStatus, Awaits
  <2>2. Kind(r) \notin KeyWrites /\ req[r].pc = "write" /\ UNCHANGED <<keys, audit>>
    BY <1>17 DEF WriteStatus, At, ProducerWrites, KeyWrites
  <2> QED  BY <2>1, <2>2 DEF Becomes, Quiet, Early
<1>18. CASE ResolveProducer(r)
  BY <1>18 DEF ResolveProducer, Goto, TypeInv, ReqRow, Moves, Quiet, Early, rows
<1>19. CASE TouchProducer(r) \/ RefreshSave(r)
  BY <1>19 DEF TouchProducer, RefreshSave, At, Goto, TypeInv, ReqRow, Moves, Quiet, Early
<1>20. CASE RefreshRead(r)
  BY <1>20 DEF RefreshRead, At, Keep, TypeInv, ReqRow, Moves, Quiet, Early, rows
<1>21. CASE LocalReadAccount(r)
  BY <1>21 DEF LocalReadAccount, At, Goto, TypeInv, ReqRow, Moves, Quiet, Early, rows
<1>22. CASE LocalSetActive(r)
  <2>1. PICK copy \in Copies : Becomes(r, "done", copy)
    BY <1>22, LocalSets
  <2>2. req[r].pc = "write" /\ UNCHANGED <<keys, audit>>
    BY <1>22 DEF LocalSetActive, At
  <2> QED  BY <2>1, <2>2 DEF Becomes, Quiet, Early
<1> QED
  BY <1>1, <1>2, <1>3, <1>4, <1>5, <1>6, <1>7, <1>8, <1>9, <1>10, <1>11, <1>12, <1>13,
     <1>14, <1>15, <1>16, <1>17, <1>18, <1>19, <1>20, <1>21, <1>22 DEF Admission, SessionStep, AccountStep

(* The steps that are about keys or the audit log. *)
LEMMA LoudKnows ==
    ASSUME NEW r \in Requests, TypeInv, KeyInv, Moves(r), KeysKeep(r), KeyKnown(r)',
           \A q \in Requests \ {r} : q \in audit' <=> q \in audit
    PROVE  KeyInv'
BY OthersKnow DEF KeyInv

LEMMA SameKeys ==
    ASSUME NEW r \in Requests, UNCHANGED keys
    PROVE  KeysKeep(r)
BY DEF KeysKeep, Known

LEMMA ArriveKnows ==
    ASSUME NEW r \in Requests, NEW op \in Operations, TypeInv, KeyInv, Arrive(r, op)
    PROVE  KeyInv'
<1>1. Moves(r) /\ UNCHANGED <<keys, audit>>
  BY DEF Arrive, Moves, TypeInv, rows
<1>2. req'[r].pc \in {"session", "key", "read"}
  BY DEF Arrive, TypeInv, ReqRow
<1>3. ~Known(r) /\ r \notin audit
  BY DEF Arrive, KeyInv, KeyKnown, Early
<1>4. KeyKnown(r)'
  BY <1>1, <1>2, <1>3 DEF KeyKnown, Known, At
<1> QED  BY <1>1, <1>4, SameKeys, LoudKnows

LEMMA ReadKeyKnows ==
    ASSUME NEW r \in Requests, TypeInv, KeyInv, ReadKey(r)
    PROVE  KeyInv'
<1>1. Kind(r) \in {"revoke", "rotate"} /\ req[r].pc = "read" /\ UNCHANGED <<keys, audit>>
  BY DEF ReadKey, At, rows
<1>2. On(r) \in Keys \cup Requests
  BY <1>1, OnKeys
<1>3. keys[On(r)] \in Copies
  BY <1>2 DEF TypeInv, CtlTypeOK, Copies
<1>4. PICK pc \in {"refused", "issue", "revoke"} :
          /\ Becomes(r, pc, keys[On(r)])
          /\ pc # "refused" => Known(On(r))
          /\ pc = "issue" <=> Kind(r) = "rotate" /\ Known(On(r))
  <2>1. \E pc \in {"refused", "issue", "revoke"} :
          /\ Keep(r, keys[On(r)], pc)
          /\ pc # "refused" => Known(On(r))
          /\ pc = "issue" <=> Kind(r) = "rotate" /\ Known(On(r))
    BY DEF ReadKey, Known
  <2> QED  BY <1>3, <2>1, KeepMoves DEF Awaits
<1>5. ~Known(r) /\ r \notin audit
  BY <1>1 DEF KeyInv, KeyKnown, Early
<1>6. Kind(r)' = Kind(r) /\ On(r)' = On(r)
  BY <1>4 DEF Becomes, Kind, On
<1>7. KeyKnown(r)'
  BY <1>1, <1>4, <1>5, <1>6 DEF Becomes, KeyKnown, Known, At, Early
<1> QED  BY <1>1, <1>4, <1>7, SameKeys, LoudKnows DEF Becomes

LEMMA IssueKnows ==
    ASSUME NEW r \in Requests, TypeInv, KeyInv, Issue(r)
    PROVE  KeyInv' /\ KeysKeep(r) /\ keys'[r].status = "active"
<1>1. /\ Kind(r) \in {"rotate", "issue", "issue_expiring"} /\ req[r].pc = "issue"
      /\ UNCHANGED audit
  BY DEF Issue, TypeInv, Waits
<1>2. /\ \A k \in Keys \cup Requests : k # r => keys'[k] = keys[k]
      /\ keys'[r].status = "active"
  <2> DEFINE row == IF Kind(r) = "rotate" THEN NewKey(req[r].copy.producer, req[r].copy.expires)
                    ELSE NewKey(On(r), IF Kind(r) = "issue" THEN 0 ELSE clock + 1)
  <2>1. keys' = [keys EXCEPT ![r] = row]
    BY DEF Issue
  <2>2. row.status = "active"
    BY DEF NewKey, NoKey
  <2> HIDE DEF row
  <2> QED  BY <2>1, <2>2 DEF TypeInv, CtlTypeOK
<1>3. Known(r)' /\ ~Known(r)
  <2>1. Known(r)'
    BY <1>2 DEF Known, NoKey
  <2>2. ~Known(r)
    BY <1>1 DEF KeyInv, KeyKnown, Early
  <2> QED  BY <2>1, <2>2
<1>4. KeysKeep(r)
  <2> SUFFICES ASSUME NEW k \in Keys \cup Requests
               PROVE  /\ ~Known(k) /\ k # r => ~Known(k)'
                      /\ Known(k) => /\ Known(k)'
                                     /\ keys'[k].producer = keys[k].producer
                                     /\ keys'[k].expires = keys[k].expires
                                     /\ keys[k].status = "revoked" => keys'[k].status = "revoked"
    BY DEF KeysKeep
  <2>1. CASE k = r
    BY <1>3, <2>1
  <2>2. CASE k # r
    BY <1>2, <2>2 DEF Known
  <2> QED  BY <2>1, <2>2
<1>5. PICK pc \in {"revoke", "audit"} :
        Becomes(r, pc, req[r].copy) /\ (pc = "revoke" <=> Kind(r) = "rotate")
  <2>1. \E pc \in {"revoke", "audit"} : Goto(r, pc) /\ (pc = "revoke" <=> Kind(r) = "rotate")
    BY DEF Issue
  <2> QED  BY <2>1, GotoMoves DEF Awaits
<1>6. r \notin audit
  BY <1>1 DEF KeyInv, KeyKnown
<1>7. Kind(r)' = Kind(r) /\ On(r)' = On(r)
  BY <1>5 DEF Becomes, Kind, On
<1>8. Kind(r) = "rotate" => /\ On(r) \in Keys \cup Requests /\ Known(On(r))
                            /\ req[r].copy.producer = keys[On(r)].producer
                            /\ req[r].copy.expires = keys[On(r)].expires
  BY <1>1, OnKeys DEF KeyInv, KeyKnown, At
<1>9. Kind(r) = "rotate" => /\ Known(On(r))'
                            /\ req'[r].copy.producer = keys'[On(r)].producer
                            /\ req'[r].copy.expires = keys'[On(r)].expires
  BY <1>4, <1>5, <1>7, <1>8 DEF KeysKeep, Becomes
<1>10. KeyKnown(r)'
  BY <1>1, <1>3, <1>5, <1>6, <1>7, <1>9 DEF Becomes, KeyKnown, At, Early
<1> QED  BY <1>1, <1>2, <1>4, <1>5, <1>10, LoudKnows DEF Becomes

LEMMA RevokeKnows ==
    ASSUME NEW r \in Requests, TypeInv, KeyInv, Revoke(r)
    PROVE  KeyInv' /\ KeysKeep(r)
<1>1. /\ Kind(r) \in {"revoke", "rotate"} /\ req[r].pc = "revoke" /\ UNCHANGED audit
      /\ req[r].copy \in KeyRow
  BY DEF Revoke, TypeInv, Waits
<1>2. /\ On(r) \in Keys \cup Requests /\ Known(On(r))
      /\ req[r].copy.producer = keys[On(r)].producer
      /\ req[r].copy.expires = keys[On(r)].expires
  BY <1>1, OnKeys DEF KeyInv, KeyKnown
<1>3. /\ \A k \in Keys \cup Requests : k # On(r) => keys'[k] = keys[k]
      /\ keys'[On(r)].status = "revoked"
      /\ keys'[On(r)].producer = keys[On(r)].producer
      /\ keys'[On(r)].expires = keys[On(r)].expires
  BY <1>1, <1>2 DEF Revoke, TypeInv, CtlTypeOK, KeyRow
<1>4. Known(On(r))'
  <2>1. keys'[On(r)] # NoKey
    BY <1>3 DEF NoKey
  <2>2. On(r)' = On(r)
    BY GotoMoves DEF Revoke, Awaits, Becomes, On
  <2> QED  BY <2>1, <2>2 DEF Known
<1>5. KeysKeep(r)
  BY <1>2, <1>3 DEF KeysKeep, Known, NoKey
<1>6. Becomes(r, "audit", req[r].copy)
  BY GotoMoves DEF Revoke, Awaits
<1>7. Kind(r)' = Kind(r) /\ On(r)' = On(r)
  BY <1>6 DEF Becomes, Kind, On
<1>8. (Kind(r) = "rotate" => Known(r)) /\ r \notin audit
  BY <1>1 DEF KeyInv, KeyKnown, At
<1>9. Kind(r) = "rotate" => Known(r)'
  BY <1>5, <1>8 DEF KeysKeep
<1>10. KeyKnown(r)'
  BY <1>1, <1>3, <1>6, <1>7, <1>8, <1>9 DEF Becomes, KeyKnown, At, Early
<1> QED  BY <1>1, <1>5, <1>6, <1>10, LoudKnows DEF Becomes

LEMMA ResolveKeyKnows ==
    ASSUME NEW r \in Requests, TypeInv, KeyInv, ResolveKey(r)
    PROVE  KeyInv'
<1>1. Kind(r) = "publish" /\ req[r].pc = "key" /\ UNCHANGED <<keys, audit>>
  BY DEF ResolveKey, TypeInv, Waits, rows
<1>2. keys[On(r)] \in Copies
  BY <1>1, OnKeys DEF TypeInv, CtlTypeOK, Copies
<1>3. PICK pc \in {"producer", "refused"} :
          Becomes(r, pc, keys[On(r)]) /\ (pc = "producer" => Known(On(r)))
  <2>1. \E pc \in {"producer", "refused"} :
          Keep(r, keys[On(r)], pc) /\ (pc = "producer" => Known(On(r)))
    BY DEF ResolveKey, IsLive, Known, NoKey
  <2> QED  BY <1>2, <2>1, KeepMoves DEF Awaits
<1>4. Kind(r)' = Kind(r) /\ On(r)' = On(r) /\ r \notin audit
  BY <1>1, <1>3 DEF Becomes, Kind, On, KeyInv, KeyKnown
<1>5. KeyKnown(r)'
  BY <1>1, <1>3, <1>4 DEF Becomes, KeyKnown, Known, At, Early
<1> QED  BY <1>1, <1>3, <1>5, SameKeys, LoudKnows DEF Becomes

LEMMA MarkUsedKnows ==
    ASSUME NEW r \in Requests, TypeInv, KeyInv, MarkUsed(r)
    PROVE  KeyInv' /\ KeysKeep(r)
<1>1. Kind(r) = "publish" /\ req[r].pc = "used" /\ UNCHANGED audit
  BY DEF MarkUsed, TypeInv, Waits
<1>2. On(r) \in Keys \cup Requests /\ Known(On(r)) /\ r \notin audit
  BY <1>1, OnKeys DEF KeyInv, KeyKnown
<1>3. /\ \A k \in Keys \cup Requests : k # On(r) => keys'[k] = keys[k]
      /\ keys'[On(r)].status = keys[On(r)].status
      /\ keys'[On(r)].producer = keys[On(r)].producer
      /\ keys'[On(r)].expires = keys[On(r)].expires
      /\ keys'[On(r)].used
  BY <1>2 DEF MarkUsed, Bookkeeping, TypeInv, CtlTypeOK, KeyRow
<1>4. KeysKeep(r)
  BY <1>2, <1>3 DEF KeysKeep, Known, NoKey
<1>5. Becomes(r, "touch", req[r].copy)
  BY GotoMoves DEF MarkUsed, Awaits
<1>6. KeyKnown(r)'
  BY <1>1, <1>2, <1>5 DEF Becomes, KeyKnown, At, Early
<1> QED  BY <1>1, <1>4, <1>5, <1>6, LoudKnows DEF Becomes

LEMMA AuditKnows ==
    ASSUME NEW r \in Requests, TypeInv, KeyInv, Audit(r)
    PROVE  KeyInv'
<1>1. Moves(r) /\ UNCHANGED keys /\ req'[r].op = req[r].op /\ req'[r].pc = "done"
  BY DEF Audit, Goto, Moves, TypeInv, ReqRow, rows
<1>2. \A q \in Requests \ {r} : q \in audit' <=> q \in audit
  BY DEF Audit
<1>3. KeyKnown(r)'
  BY <1>1 DEF Audit, KeyInv, KeyKnown, Known, Kind, On, At, Early
<1> QED  BY <1>1, <1>2, <1>3, SameKeys, LoudKnows

LEMMA CtlInitKnows == CtlInit => KeyInv
BY DEF CtlInit, Idle, KeyInv, KeyKnown, Known, At

(* A key's row is never deleted, its producer and its expiry time never     *)
(* change, and a revocation stays.                                         *)
KeysGoOn ==
    \A k \in Keys \cup Requests :
        Known(k) => /\ Known(k)'
                    /\ keys'[k].producer = keys[k].producer
                    /\ keys'[k].expires = keys[k].expires
                    /\ keys[k].status = "revoked" => keys'[k].status = "revoked"

LEMMA NextKnows ==
    ASSUME TypeInv, KeyInv, [CtlNext]_ctlVars
    PROVE  KeyInv' /\ KeysGoOn
<1>1. ASSUME NEW r \in Requests, KeysKeep(r) PROVE KeysGoOn
  BY <1>1 DEF KeysKeep, KeysGoOn
<1>2. ASSUME UNCHANGED keys PROVE KeysGoOn
  BY <1>2 DEF KeysGoOn, Known
<1>3. ASSUME NEW r \in Requests, NEW op \in Operations, Arrive(r, op) PROVE KeyInv' /\ KeysGoOn
  BY <1>2, <1>3, ArriveKnows DEF Arrive, rows
<1>4. ASSUME NEW r \in Requests, Quiet(r) PROVE KeyInv' /\ KeysGoOn
  BY <1>2, <1>4, QuietKnows DEF Quiet
<1>5. ASSUME NEW r \in Requests, Handle(r) \/ Fail(r) PROVE KeyInv' /\ KeysGoOn
  <2>1. CASE ReadKey(r) \/ ResolveKey(r) \/ Audit(r)
    BY <1>2, <2>1, ReadKeyKnows, ResolveKeyKnows, AuditKnows DEF ReadKey, ResolveKey, Audit, rows
  <2>2. CASE Issue(r) \/ Revoke(r) \/ MarkUsed(r)
    BY <1>1, <2>2, IssueKnows, RevokeKnows, MarkUsedKnows
  <2> QED  BY <1>4, <1>5, <2>1, <2>2, QuietSteps DEF Handle, KeyStep, ProducerStep
<1>6. CASE Tick \/ UNCHANGED ctlVars
  <2>1. UNCHANGED <<keys, req, audit>>
    BY <1>6 DEF Tick, ctlVars, rows
  <2> QED  BY <1>2, <2>1 DEF KeyInv, KeyKnown, Known, At, Kind, On
<1> QED  BY <1>3, <1>5, <1>6 DEF CtlNext

(* What the audit log says was revoked or rotated is revoked, and the       *)
(* successor of a rotated key was issued.                                   *)
AuditTellsTheTruth ==
    \A r \in audit :
        /\ Kind(r) \in {"revoke", "rotate"} => keys[On(r)].status = "revoked"
        /\ Kind(r) \in {"rotate", "issue", "issue_expiring"} => keys[r] # NoKey

(* control.py, audit.record after the write it tells of: no row of the log  *)
(* says what did not happen, or was undone.                                 *)
THEOREM ControlAuditTells == CtlSpec => []AuditTellsTheTruth
<1>1. TypeInv /\ KeyInv => AuditTellsTheTruth
  BY DEF TypeInv, CtlTypeOK, KeyInv, KeyKnown, Known, AuditTellsTheTruth
<1>2. TypeInv /\ KeyInv /\ [CtlNext]_ctlVars => KeyInv'
  BY NextKnows
<1> QED  BY <1>1, <1>2, CtlInitTypes, NextTypes, CtlInitKnows, PTL DEF CtlSpec

-----------------------------------------------------------------------------
(* Where a request may go next.                                            *)
Calm(r) ==
    /\ Moves(r) /\ req'[r].op = req[r].op /\ req'[r].pc # req[r].pc
    /\ req[r].pc \notin Ended /\ req'[r].pc # "idle"
    /\ req'[r].actor # req[r].actor => ReadActor(r)
    /\ req'[r].pc \in Early => req[r].pc \in Early
    /\ req'[r].pc = "create" => LookUp(r) /\ accounts[On(r)].active
    /\ req'[r].pc = "revoke" /\ Kind(r) = "rotate" => Issue(r)
    /\ req'[r].pc = "write" =>
          ReadAccount(r) \/ LogoutRead(r) \/ ReadProducer(r) \/ LocalReadAccount(r)
    /\ req'[r].pc = "unassign" => ReadGroups(r) \/ LocalRole(r)
    /\ req'[r].pc = "assign" => CreateAccount(r) \/ LocalCreate(r)
    /\ req[r].pc = "sweep" => req'[r].pc = "failed" \/ SweepSessions(r)
    /\ req[r].pc = "assign" => req'[r].pc = "failed" \/ ReadGroups(r) \/ LocalRole(r)
    /\ req[r].pc = "unassign" =>
          req'[r].pc = "failed" \/ (ChangeGroup(r) /\ req'[r].pc \in {"audit", "done"})

\* One group removed, and the next one to go.
Continues(r) ==
    /\ ChangeGroup(r) /\ Moves(r)
    /\ req'[r].op = req[r].op /\ req'[r].actor = req[r].actor
    /\ req[r].pc = "unassign" /\ req'[r].pc = "unassign"

LEMMA CalmAdmission ==
    ASSUME NEW r \in Requests, TypeInv, Admission(r) \/ Fail(r) \/ Audit(r)
    PROVE  Calm(r)
<1>1. CASE ReadSession(r)
  BY <1>1 DEF ReadSession, Keep, Goto, TypeInv, ReqRow, Moves, Calm, Early, Ended
<1>2. CASE ReadActor(r)
  BY <1>2 DEF ReadActor, TypeInv, ReqRow, Moves, Calm, Early, Ended
<1>3. CASE MarkSeen(r)
  BY <1>3 DEF MarkSeen, Keep, TypeInv, ReqRow, Moves, Calm, Early, Ended
<1>4. CASE Require(r)
  BY <1>4 DEF Require, Goto, TypeInv, ReqRow, Moves, Calm, Early, Ended
<1>5. CASE Fail(r)
  BY <1>5 DEF Fail, Ended, Goto, TypeInv, ReqRow, Moves, Calm, Early
<1>6. CASE Audit(r)
  BY <1>6 DEF Audit, Ended, Goto, TypeInv, ReqRow, Moves, Calm, Early
<1> QED  BY <1>1, <1>2, <1>3, <1>4, <1>5, <1>6 DEF Admission

LEMMA CalmKeys ==
    ASSUME NEW r \in Requests, TypeInv, KeyStep(r) \/ ProducerStep(r)
    PROVE  Calm(r)
<1>1. CASE ReadKey(r)
  BY <1>1 DEF ReadKey, At, Keep, TypeInv, ReqRow, Moves, Calm, Early, Ended
<1>2. CASE ReadProducer(r)
  BY <1>2 DEF ReadProducer, At, Keep, TypeInv, ReqRow, Moves, Calm, Early, Ended
<1>3. CASE Issue(r)
  BY <1>3 DEF Issue, Goto, TypeInv, ReqRow, Moves, Calm, Early, Ended
<1>4. CASE Revoke(r)
  BY <1>4 DEF Revoke, Goto, TypeInv, ReqRow, Moves, Calm, Early, Ended
<1>5. CASE WriteStatus(r)
  BY <1>5 DEF WriteStatus, At, Goto, TypeInv, ReqRow, Moves, Calm, Early, Ended
<1>6. CASE ResolveKey(r)
  BY <1>6 DEF ResolveKey, Keep, TypeInv, ReqRow, Moves, Calm, Early, Ended
<1>7. CASE ResolveProducer(r)
  BY <1>7 DEF ResolveProducer, Goto, TypeInv, ReqRow, Moves, Calm, Early, Ended
<1>8. CASE MarkUsed(r)
  BY <1>8 DEF MarkUsed, Goto, TypeInv, ReqRow, Moves, Calm, Early, Ended
<1>9. CASE TouchProducer(r) \/ RefreshSave(r)
  BY <1>9 DEF TouchProducer, RefreshSave, At, Goto, TypeInv, ReqRow, Moves, Calm, Early, Ended
<1>10. CASE RefreshRead(r)
  BY <1>10 DEF RefreshRead, At, Keep, TypeInv, ReqRow, Moves, Calm, Early, Ended
<1> QED  BY <1>1, <1>2, <1>3, <1>4, <1>5, <1>6, <1>7, <1>8, <1>9, <1>10 DEF KeyStep, ProducerStep

LEMMA CalmAccounts ==
    ASSUME NEW r \in Requests, TypeInv, SessionStep(r) \/ AccountStep(r)
    PROVE  Calm(r) \/ Continues(r)
<1>1. CASE LookUp(r)
  BY <1>1 DEF LookUp, At, Goto, TypeInv, ReqRow, Moves, Calm, Early, Ended
<1>2. CASE CreateSession(r)
  BY <1>2 DEF CreateSession, At, Goto, TypeInv, ReqRow, Moves, Calm, Early, Ended
<1>3. CASE LogoutRead(r)
  BY <1>3 DEF LogoutRead, At, Keep, TypeInv, ReqRow, Moves, Calm, Early, Ended
<1>4. CASE LogoutSave(r)
  BY <1>4 DEF LogoutSave, At, Goto, TypeInv, ReqRow, Moves, Calm, Early, Ended
<1>5. CASE CreateAccount(r) \/ LocalCreate(r)
  BY <1>5 DEF CreateAccount, LocalCreate, NewAccount, At, Goto, TypeInv, ReqRow, Moves, Calm, Early, Ended
<1>6. CASE ReadAccount(r)
  BY <1>6 DEF ReadAccount, At, Keep, TypeInv, ReqRow, Moves, Calm, Early, Ended
<1>7. CASE SaveAccount(r)
  BY <1>7 DEF SaveAccount, At, Goto, TypeInv, ReqRow, Moves, Calm, Early, Ended
<1>8. CASE SweepSessions(r)
  <2>1. req[r].pc = "sweep" /\ Becomes(r, "audit", req[r].copy)
    BY <1>8, GotoMoves DEF SweepSessions, Awaits
  <2> QED  BY <1>8, <2>1 DEF Becomes, Calm, Early, Ended
<1>9. CASE ReadGroups(r) \/ LocalRole(r)
  BY <1>9 DEF ReadGroups, LocalRole, GroupsOf, At, Keep, Goto, TypeInv, ReqRow, Moves, Calm, Early, Ended
<1>10. CASE ChangeGroup(r)
  <2>1. PICK pc, copy : Keep(r, copy, pc) /\ pc \in {"unassign", "audit", "done"}
    BY <1>10 DEF ChangeGroup
  <2>2. /\ Moves(r) /\ req'[r].op = req[r].op /\ req'[r].pc = pc
        /\ req'[r].actor = req[r].actor
    BY <2>1 DEF Keep, Moves, TypeInv, ReqRow
  <2>3. req[r].pc = "unassign"
    BY <1>10 DEF ChangeGroup
  <2> QED  BY <1>10, <2>1, <2>2, <2>3 DEF Calm, Continues, Early, Ended
<1>11. CASE LocalReadAccount(r)
  BY <1>11 DEF LocalReadAccount, At, Goto, TypeInv, ReqRow, Moves, Calm, Early, Ended
<1>12. CASE LocalSetActive(r)
  <2>1. PICK copy \in Copies : Becomes(r, "done", copy)
    BY <1>12, LocalSets
  <2>2. req[r].pc = "write"
    BY <1>12 DEF LocalSetActive, At
  <2> QED  BY <2>1, <2>2 DEF Becomes, Calm, Early, Ended
<1> QED
  BY <1>1, <1>2, <1>3, <1>4, <1>5, <1>6, <1>7, <1>8, <1>9, <1>10, <1>11, <1>12
  DEF SessionStep, AccountStep

(* Every step is the arrival of a request, one that only has a clock to     *)
(* move, or a step of one request.                                         *)
LEMMA Steps ==
    ASSUME TypeInv, [CtlNext]_ctlVars
    PROVE  \/ \E r \in Requests, op \in Operations : Arrive(r, op)
           \/ UNCHANGED <<rows, req, audit, raced>>
           \/ \E r \in Requests : (Handle(r) \/ Fail(r)) /\ (Calm(r) \/ Continues(r))
<1>1. ASSUME NEW r \in Requests, Handle(r) \/ Fail(r)
      PROVE  Calm(r) \/ Continues(r)
  BY <1>1, CalmAdmission, CalmKeys, CalmAccounts DEF Handle
<1> QED  BY <1>1 DEF CtlNext, Tick, ctlVars

(* Who writes which rows.                                                  *)
LEMMA Writers ==
    ASSUME NEW r \in Requests, Handle(r) \/ Fail(r)
    PROVE  /\ \/ UNCHANGED sessions
              \/ MarkSeen(r) \/ CreateSession(r) \/ LogoutSave(r) \/ SweepSessions(r)
           /\ \/ UNCHANGED accounts
              \/ CreateAccount(r) \/ LocalCreate(r) \/ SaveAccount(r) \/ LocalSetActive(r)
           /\ UNCHANGED groups \/ ChangeGroup(r)
           /\ \/ UNCHANGED raced
              \/ SaveAccount(r) \/ LocalSetActive(r) \/ ReadGroups(r) \/ LocalRole(r)
           /\ UNCHANGED keys \/ Issue(r) \/ Revoke(r) \/ MarkUsed(r)
<1>1. CASE Admission(r) \/ Audit(r) \/ Fail(r)
  BY <1>1 DEF Admission, ReadSession, ReadActor, MarkSeen, Require, Audit, Fail, rows
<1>2. CASE KeyStep(r)
  BY <1>2 DEF KeyStep, ReadKey, ReadProducer, Issue, Revoke, WriteStatus, rows
<1>3. CASE ProducerStep(r)
  BY <1>3 DEF ProducerStep, ResolveKey, ResolveProducer, MarkUsed, TouchProducer,
              RefreshRead, RefreshSave, rows
<1>4. CASE SessionStep(r)
  BY <1>4 DEF SessionStep, LookUp, CreateSession, LogoutRead, LogoutSave, rows
<1>5. CASE AccountStep(r)
  <2>1. CASE CreateAccount(r) \/ LocalCreate(r)
    BY <2>1 DEF CreateAccount, LocalCreate, NewAccount
  <2>2. CASE ReadAccount(r) \/ SaveAccount(r) \/ SweepSessions(r)
    BY <2>2 DEF ReadAccount, SaveAccount, SweepSessions, rows
  <2>3. CASE ReadGroups(r) \/ LocalRole(r)
    BY <2>3 DEF ReadGroups, LocalRole, GroupsOf, rows
  <2>4. CASE ChangeGroup(r)
    BY <2>4 DEF ChangeGroup
  <2>5. CASE LocalReadAccount(r) \/ LocalSetActive(r)
    BY <2>5 DEF LocalReadAccount, LocalSetActive, rows
  <2> QED  BY <1>5, <2>1, <2>2, <2>3, <2>4, <2>5 DEF AccountStep
<1> QED  BY <1>1, <1>2, <1>3, <1>4, <1>5 DEF Handle

-----------------------------------------------------------------------------
(* Sessions: a row is created once, by the sign-in it is named after, and   *)
(* once revoked stays so.                                                  *)

SessionKnown(r) ==
    /\ req[r].pc \in Early \cup {"create"} => sessions[r].status = "none"
    /\ At(r, "write", {"logout"}) => sessions[req[r].op.by].status # "none"

SessionInv ==
    /\ \A r \in Requests : SessionKnown(r)
    /\ \A s \in Users \cup Requests : sessions[s].status = "none" => sessions[s].user = None

(* What a step of r may do to the sessions.                                *)
SessionsGo(r) ==
    \A s \in Users \cup Requests :
        /\ sessions[s].status = "revoked" => sessions'[s].status = "revoked"
        /\ sessions[s].status # "none" => sessions'[s].status # "none"
        /\ sessions[s].status = "none" /\ sessions'[s].status # "none"
              => s = r /\ CreateSession(r)
        /\ sessions'[s].status = "active" =>
              \/ /\ sessions[s].status = "active" /\ sessions'[s].user = sessions[s].user
                 /\ SweepSessions(r) => sessions[s].user # On(r)
              \/ s = r /\ CreateSession(r) /\ sessions'[s].user = On(r)

LEMMA SessionsMove ==
    ASSUME NEW r \in Requests, TypeInv, SessionInv, Handle(r) \/ Fail(r)
    PROVE  /\ SessionsGo(r)
           /\ \A s \in Users \cup Requests :
                 sessions'[s].status = "none" => sessions'[s].user = None
<1>1. CASE SweepSessions(r)
  <2>1. \A s \in Users \cup Requests :
           \/ sessions[s].user # On(r) /\ sessions'[s] = sessions[s]
           \/ sessions[s].user = On(r) /\ sessions'[s].status = "revoked"
    BY <1>1 DEF SweepSessions, TypeInv, CtlTypeOK, SessionRow
  <2>2. On(r) \in Users
    BY <1>1, OperationsAssumption DEF SweepSessions, TypeInv, Waits, Kind, On
  <2>3. \A s \in Users \cup Requests : sessions[s].status = "none" => sessions[s].user # On(r)
    BY <2>2, ControlAssumption DEF SessionInv
  <2> QED  BY <2>1, <2>3 DEF SessionsGo, SessionInv
<1>2. CASE UNCHANGED sessions /\ ~SweepSessions(r)
  BY <1>2 DEF SessionsGo, SessionInv
<1>3. CASE MarkSeen(r)
  <2> DEFINE b == req[r].op.by
  <2>1. b \in Users \cup Requests /\ sessions[b].status # "none" /\ ~SweepSessions(r)
    BY <1>3, OperationsAssumption DEF MarkSeen, SweepSessions, TypeInv, Waits, Kind
  <2>2. sessions' = [sessions EXCEPT ![b] = [@ EXCEPT !.used = TRUE]]
    BY <1>3 DEF MarkSeen, Bookkeeping
  <2>3. \A s \in Users \cup Requests :
           sessions'[s].status = sessions[s].status /\ sessions'[s].user = sessions[s].user
    BY <2>1, <2>2 DEF TypeInv, CtlTypeOK, SessionRow
  <2> QED  BY <2>1, <2>3 DEF SessionsGo, SessionInv
<1>4. CASE CreateSession(r)
  <2> DEFINE row == [status |-> "active", user |-> On(r), expires |-> clock + 1, used |-> TRUE]
  <2>1. sessions' = [sessions EXCEPT ![r] = row] /\ row.status = "active" /\ row.user = On(r)
    BY <1>4 DEF CreateSession
  <2> HIDE DEF row
  <2>2. sessions[r].status = "none" /\ ~SweepSessions(r)
    BY <1>4 DEF CreateSession, SweepSessions, At, SessionInv, SessionKnown
  <2>3. \A s \in Users \cup Requests : s # r => sessions'[s] = sessions[s]
    BY <2>1 DEF TypeInv, CtlTypeOK
  <2>4. sessions'[r].status = "active" /\ sessions'[r].user = On(r)
    BY <2>1 DEF TypeInv, CtlTypeOK
  <2> QED  BY <1>4, <2>2, <2>3, <2>4 DEF SessionsGo, SessionInv
<1>5. CASE LogoutSave(r)
  <2> DEFINE b == req[r].op.by
             row == [req[r].copy EXCEPT !.status = "revoked"]
  <2>1. sessions[b].status # "none" /\ ~SweepSessions(r)
    BY <1>5 DEF LogoutSave, SweepSessions, At, SessionInv, SessionKnown
  <2>2. sessions' = [sessions EXCEPT ![b] = row]
    BY <1>5 DEF LogoutSave
  <2>3. row.status = "revoked"
    BY <1>5 DEF LogoutSave, At, TypeInv, Waits, SessionRow
  <2> HIDE DEF row
  <2>4. \A s \in Users \cup Requests :
           \/ sessions'[s] = sessions[s]
           \/ s = b /\ sessions'[s].status = "revoked"
    BY <2>2, <2>3 DEF TypeInv, CtlTypeOK
  <2> QED  BY <2>1, <2>4 DEF SessionsGo, SessionInv
<1> QED  BY <1>1, <1>2, <1>3, <1>4, <1>5, Writers

LEMMA CtlInitSessions == CtlInit => SessionInv
BY ControlAssumption DEF CtlInit, SessionInv, SessionKnown, Idle, NoSession, At

(* A sign-in session's row, once revoked, stays so.                        *)
SessionsGoOn ==
    \A s \in Users \cup Requests :
        sessions[s].status = "revoked" => sessions'[s].status = "revoked"

LEMMA NextSessions ==
    ASSUME TypeInv, SessionInv, [CtlNext]_ctlVars
    PROVE  SessionInv' /\ SessionsGoOn
<1>1. ASSUME NEW r \in Requests, NEW op \in Operations, Arrive(r, op)
      PROVE  SessionInv' /\ SessionsGoOn
  <2>1. UNCHANGED sessions /\ Moves(r) /\ req'[r].pc \in {"session", "key", "read"}
        /\ req[r].pc = "idle"
    BY <1>1 DEF Arrive, Moves, TypeInv, ReqRow, rows
  <2> QED  BY <2>1 DEF SessionInv, SessionKnown, SessionsGoOn, Moves, At, Kind, Early
<1>2. CASE UNCHANGED <<rows, req, audit, raced>>
  BY <1>2 DEF SessionInv, SessionKnown, SessionsGoOn, At, Kind, rows
<1>3. ASSUME NEW r \in Requests, Handle(r) \/ Fail(r), Moves(r), req'[r].op = req[r].op,
             req'[r].pc \in Early \cup {"create"} =>
                 req[r].pc \in Early \cup {"create"} /\ ~CreateSession(r),
             At(r, "write", {"logout"})' => LogoutRead(r)
      PROVE  SessionInv' /\ SessionsGoOn
  <2>1. /\ SessionsGo(r)
        /\ \A s \in Users \cup Requests :
              sessions'[s].status = "none" => sessions'[s].user = None
    BY <1>3, SessionsMove
  <2>2. ASSUME NEW q \in Requests \ {r} PROVE SessionKnown(q)'
    <3>1. req'[q] = req[q] /\ SessionKnown(q) /\ Waits(q)
      BY <1>3 DEF Moves, SessionInv, TypeInv
    <3>2. At(q, "write", {"logout"}) => req[q].op.by \in Users \cup Requests
      BY <3>1, OperationsAssumption DEF At, Waits, Kind
    <3> QED  BY <2>1, <3>1, <3>2 DEF SessionKnown, SessionsGo, At, Kind
  <2>3. SessionKnown(r)'
    <3>1. req'[r].pc \in Early \cup {"create"} => sessions'[r].status = "none"
      BY <1>3, <2>1 DEF SessionsGo, SessionInv, SessionKnown
    <3>2. LogoutRead(r) => /\ sessions[req[r].op.by].status # "none"
                           /\ req[r].op.by \in Users \cup Requests
      BY OperationsAssumption DEF LogoutRead, At, Kind, TypeInv, Waits
    <3> QED  BY <1>3, <2>1, <3>1, <3>2 DEF SessionsGo, SessionKnown
  <2> QED  BY <2>1, <2>2, <2>3 DEF SessionInv, SessionsGo, SessionsGoOn
<1>4. ASSUME NEW r \in Requests, Handle(r) \/ Fail(r), Calm(r)
      PROVE  SessionInv' /\ SessionsGoOn
  <2>1. req'[r].pc \in Early => ~CreateSession(r)
    BY <1>4 DEF Calm, CreateSession, At, Early
  <2>2. req'[r].pc = "create" => ~CreateSession(r) /\ req[r].pc \in Early
    BY <1>4 DEF Calm, CreateSession, LookUp, At, Early
  <2>3. At(r, "write", {"logout"})' => LogoutRead(r)
    BY <1>4 DEF Calm, At, Kind, ReadAccount, ReadProducer, LocalReadAccount, LocalSwitches
  <2> QED  BY <1>3, <1>4, <2>1, <2>2, <2>3 DEF Calm
<1>5. ASSUME NEW r \in Requests, Handle(r) \/ Fail(r), Continues(r)
      PROVE  SessionInv' /\ SessionsGoOn
  BY <1>3, <1>5 DEF Continues, Early, At
<1> QED  BY <1>1, <1>2, <1>4, <1>5, Steps

(* ApiKey.revoke, UserSession.revoke, logout: no writer of a key or a       *)
(* session row, whatever it read and however late it writes, brings a       *)
(* revoked one back.                                                       *)
THEOREM ControlRevoked == CtlSpec => RevokedStaysRevoked
<1> DEFINE Inv == TypeInv /\ KeyInv /\ SessionInv
<1>1. CtlInit => Inv
  BY CtlInitTypes, CtlInitKnows, CtlInitSessions
<1>2. Inv /\ [CtlNext]_ctlVars => Inv'
  BY NextTypes, NextKnows, NextSessions
<1>3. Inv /\ [CtlNext]_ctlVars =>
        [/\ \A k \in DOMAIN keys : keys[k].status = "revoked" => keys'[k].status = "revoked"
         /\ \A s \in DOMAIN sessions :
               sessions[s].status = "revoked" => sessions'[s].status = "revoked"]_ctlVars
  <2> SUFFICES ASSUME Inv, [CtlNext]_ctlVars
               PROVE  /\ \A k \in DOMAIN keys :
                            keys[k].status = "revoked" => keys'[k].status = "revoked"
                      /\ \A s \in DOMAIN sessions :
                            sessions[s].status = "revoked" => sessions'[s].status = "revoked"
    OBVIOUS
  <2>1. KeysGoOn /\ SessionsGoOn
    BY NextKnows, NextSessions
  <2> QED  BY <2>1 DEF KeysGoOn, SessionsGoOn, Known, NoKey, TypeInv, CtlTypeOK
<1> QED  BY <1>1, <1>2, <1>3, PTL DEF CtlSpec, RevokedStaysRevoked

-----------------------------------------------------------------------------
(* A disabled account: every live session of it is excused by a disable     *)
(* that has not swept yet, or never will, by a sign-in that was first, or   *)
(* by the shell's disable, which left it.                                  *)

SignInKnown(r) ==
    req[r].pc = "create" => accounts[On(r)].active \/ r \in raced

SignInInv == \A r \in Requests : SignInKnown(r)

OnUsers(r) ==
    (req[r].pc # "idle" /\ Kind(r) \in {"enable", "disable", "login"} \cup RoleChanges
                               \cup LocalSwitches)
       => On(r) \in Users

LEMMA OnUser ==
    ASSUME TypeInv, NEW r \in Requests
    PROVE  OnUsers(r)
BY OperationsAssumption DEF OnUsers, TypeInv, Waits, Kind, On

LEMMA RacedGrows ==
    ASSUME NEW r \in Requests, Handle(r) \/ Fail(r)
    PROVE  raced \subseteq raced'
BY Writers DEF SaveAccount, LocalSetActive, ReadGroups, LocalRole, GroupsOf

(* An account is disabled by the write of a disable, the control plane's or *)
(* the shell's, which knows of the sign-ins under way.                     *)
LEMMA AccountsMove ==
    ASSUME NEW r \in Requests, TypeInv, Handle(r) \/ Fail(r), NEW u \in Users
    PROVE  accounts[u].active /\ ~accounts'[u].active =>
               /\ \/ SaveAccount(r) /\ Kind(r) = "disable"
                  \/ LocalSetActive(r) /\ Kind(r) = "local_disable"
               /\ On(r) = u /\ SigningIn(u) \subseteq raced'
<1>1. CASE UNCHANGED accounts
  BY <1>1
<1>2. CASE CreateAccount(r) \/ LocalCreate(r)
  <2>1. accounts' \in {accounts, [accounts EXCEPT ![On(r)] = [exists |-> TRUE, active |-> TRUE]]}
    BY <1>2 DEF CreateAccount, LocalCreate, NewAccount
  <2> QED  BY <2>1 DEF TypeInv, CtlTypeOK
<1>3. CASE SaveAccount(r)
  <2> DEFINE row == [req[r].copy EXCEPT !.active = (Kind(r) = "enable")]
  <2>1. Kind(r) \in {"enable", "disable"} /\ req[r].copy \in AccountRow
    BY <1>3 DEF SaveAccount, At, TypeInv, Waits
  <2>2. accounts' = [accounts EXCEPT ![On(r)] = row]
    BY <1>3 DEF SaveAccount
  <2>3. row.active <=> Kind(r) = "enable"
    BY <2>1 DEF AccountRow
  <2> HIDE DEF row
  <2>4. accounts[u].active /\ ~accounts'[u].active => On(r) = u /\ Kind(r) = "disable"
    BY <2>1, <2>2, <2>3 DEF TypeInv, CtlTypeOK
  <2>5. Kind(r) = "disable" => SigningIn(On(r)) \subseteq raced'
    BY <1>3 DEF SaveAccount
  <2> QED  BY <1>3, <2>4, <2>5
<1>4. CASE LocalSetActive(r)
  <2>1. /\ u # On(r) => accounts'[u] = accounts[u]
        /\ Kind(r) \in LocalSwitches
        /\ accounts'[On(r)].active <=> Kind(r) = "local_enable"
        /\ Kind(r) = "local_disable" => SigningIn(On(r)) \subseteq raced'
    BY <1>4, LocalSets
  <2> QED  BY <1>4, <2>1 DEF LocalSwitches
<1> QED  BY <1>1, <1>2, <1>3, <1>4, Writers

LEMMA NextSignIn ==
    ASSUME TypeInv, SignInInv, [CtlNext]_ctlVars
    PROVE  SignInInv'
<1>1. ASSUME NEW r \in Requests, NEW op \in Operations, Arrive(r, op) PROVE SignInInv'
  <2>1. UNCHANGED <<accounts, raced>> /\ Moves(r) /\ req'[r].pc \in {"session", "key", "read"}
    BY <1>1 DEF Arrive, Moves, TypeInv, ReqRow, rows
  <2> QED  BY <2>1 DEF SignInInv, SignInKnown, Moves, On
<1>2. CASE UNCHANGED <<rows, req, audit, raced>>
  BY <1>2 DEF SignInInv, SignInKnown, On, rows
<1>3. ASSUME NEW r \in Requests, Handle(r) \/ Fail(r), Moves(r), req'[r].op = req[r].op,
             req'[r].pc = "create" => LookUp(r) /\ accounts[On(r)].active
      PROVE  SignInInv'
  <2>1. ASSUME NEW q \in Requests \ {r} PROVE SignInKnown(q)'
    <3>1. req'[q] = req[q] /\ SignInKnown(q)
      BY <1>3 DEF Moves, SignInInv
    <3>2. req[q].pc = "create" => On(q) \in Users /\ q \in SigningIn(On(q))
      BY OnUser DEF OnUsers, TypeInv, Waits, SigningIn
    <3> QED  BY <1>3, <3>1, <3>2, AccountsMove, RacedGrows DEF SignInKnown, On
  <2>2. SignInKnown(r)'
    BY <1>3 DEF LookUp, SignInKnown, On, rows
  <2> QED  BY <2>1, <2>2 DEF SignInInv
<1>4. ASSUME NEW r \in Requests, Handle(r) \/ Fail(r), Calm(r) PROVE SignInInv'
  BY <1>3, <1>4 DEF Calm
<1>5. ASSUME NEW r \in Requests, Handle(r) \/ Fail(r), Continues(r) PROVE SignInInv'
  BY <1>3, <1>5 DEF Continues
<1> QED  BY <1>1, <1>2, <1>4, <1>5, Steps

\* A request that excuses a live session of a disabled account.
ExcusedBy(q, s, u) ==
    \/ (At(q, "sweep", {"disable"}) \/ At(q, "failed", {"disable"})) /\ On(q) = u
    \/ At(q, "done", {"local_disable"}) /\ s \in req[q].copy.left

LEMMA NextSignedOut ==
    ASSUME TypeInv, SessionInv, SignInInv, DisabledIsSignedOut, [CtlNext]_ctlVars
    PROVE  DisabledIsSignedOut'
<1>1. ASSUME NEW r \in Requests, NEW op \in Operations, Arrive(r, op) PROVE DisabledIsSignedOut'
  <2>1. UNCHANGED <<sessions, accounts, raced>> /\ Moves(r) /\ req[r].pc = "idle"
    BY <1>1 DEF Arrive, Moves, TypeInv, ReqRow, rows
  <2> QED  BY <2>1 DEF DisabledIsSignedOut, Moves, At, Kind, On
<1>2. CASE UNCHANGED <<rows, req, audit, raced>>
  BY <1>2 DEF DisabledIsSignedOut, At, Kind, On, rows
<1>3. ASSUME NEW r \in Requests, Handle(r) \/ Fail(r), Moves(r), req'[r].op = req[r].op,
             req[r].pc \notin {"failed", "done"},
             req[r].pc = "sweep" => req'[r].pc = "failed" \/ SweepSessions(r)
      PROVE  DisabledIsSignedOut'
  <2> SUFFICES ASSUME NEW s \in Users \cup Requests, NEW u, u = sessions'[s].user,
                      sessions'[s].status = "active", ~accounts'[u].active
               PROVE  \/ s \in raced' \cap Requests
                      \/ \E q \in Requests : ExcusedBy(q, s, u)'
    BY NextTypes DEF DisabledIsSignedOut, ExcusedBy, TypeInv, CtlTypeOK
  <2>1. /\ raced \subseteq raced'
        /\ \A v \in Users : accounts[v].active /\ ~accounts'[v].active =>
              /\ \/ SaveAccount(r) /\ Kind(r) = "disable"
                 \/ LocalSetActive(r) /\ Kind(r) = "local_disable"
              /\ On(r) = v
    BY <1>3, AccountsMove, RacedGrows
  <2>2. CASE s = r /\ CreateSession(r) /\ u = On(r)
    <3>1. UNCHANGED <<accounts, raced>> /\ req[r].pc = "create"
      BY <2>2 DEF CreateSession, At
    <3> QED  BY <2>2, <3>1 DEF SignInInv, SignInKnown
  <2>3. CASE /\ sessions[s].status = "active" /\ u = sessions[s].user
             /\ SweepSessions(r) => u # On(r)
    <3>1. u \in Users
      BY <2>3 DEF TypeInv, SessionsOwned
    <3>2. CASE accounts[u].active
      <4>1. /\ \/ SaveAccount(r) /\ Kind(r) = "disable"
               \/ LocalSetActive(r) /\ Kind(r) = "local_disable"
            /\ On(r) = u
        BY <2>1, <3>1, <3>2
      <4>2. CASE SaveAccount(r) /\ Kind(r) = "disable"
        <5>1. Becomes(r, "sweep", req[r].copy)
          BY <4>2, GotoMoves DEF SaveAccount, Awaits
        <5> QED  BY <4>1, <4>2, <5>1 DEF Becomes, ExcusedBy, At, Kind, On
      <4>3. CASE LocalSetActive(r) /\ Kind(r) = "local_disable"
        <5>1. req'[r].pc = "done" /\ req'[r].op = req[r].op
          BY <4>3, LocalSets DEF Becomes
        <5>2. s \in req'[r].copy.left
          <6>1. req'[r].copy.left = LiveSessionsOf(On(r))
            BY <4>3, LocalSets
          <6> QED  BY <2>3, <4>1, <6>1 DEF LiveSessionsOf, TypeInv, CtlTypeOK
        <5> QED  BY <4>3, <5>1, <5>2 DEF ExcusedBy, At, Kind
      <4> QED  BY <4>1, <4>2, <4>3
    <3>3. CASE ~accounts[u].active
      <4>1. \/ s \in raced \cap Requests
            \/ \E q \in Requests : ExcusedBy(q, s, u)
        BY <2>3, <3>3 DEF DisabledIsSignedOut, ExcusedBy, TypeInv, CtlTypeOK
      <4>2. CASE s \in raced \cap Requests
        BY <2>1, <4>2
      <4>3. ASSUME NEW q \in Requests, ExcusedBy(q, s, u) PROVE ExcusedBy(q, s, u)'
        <5>1. CASE q # r
          <6>1. req'[q] = req[q]
            BY <1>3, <5>1 DEF Moves
          <6> QED  BY <4>3, <6>1 DEF ExcusedBy, At, Kind, On
        <5>2. CASE q = r
          BY <1>3, <2>3, <4>3, <5>2 DEF ExcusedBy, At, Kind, On
        <5> QED  BY <5>1, <5>2
      <4> QED  BY <4>1, <4>2, <4>3
    <3> QED  BY <3>2, <3>3
  <2> QED  BY <1>3, <2>2, <2>3, SessionsMove DEF SessionsGo
<1>4. ASSUME NEW r \in Requests, Handle(r) \/ Fail(r), Calm(r) PROVE DisabledIsSignedOut'
  BY <1>3, <1>4 DEF Calm, Ended
<1>5. ASSUME NEW r \in Requests, Handle(r) \/ Fail(r), Continues(r) PROVE DisabledIsSignedOut'
  BY <1>3, <1>5 DEF Continues
<1> QED  BY <1>1, <1>2, <1>4, <1>5, Steps

LEMMA CtlInitSignedOut == CtlInit => SignInInv /\ DisabledIsSignedOut
<1> SUFFICES ASSUME CtlInit PROVE SignInInv /\ DisabledIsSignedOut
  OBVIOUS
<1>1. SignInInv
  BY DEF CtlInit, SignInInv, SignInKnown, Idle
<1>2. \A s \in DOMAIN sessions :
         sessions[s].status = "active" => s \in Present /\ sessions[s].user = s
  BY DEF CtlInit, NoSession
<1>3. \A u \in Present : accounts[u].active
  BY ControlAssumption DEF CtlInit
<1> QED  BY <1>1, <1>2, <1>3 DEF DisabledIsSignedOut

(* identity.py:45-52, User.disable, next to the shell's disable, which does *)
(* not call it (cli/users.py:218-230): whoever signs in, out or is enabled  *)
(* again meanwhile, a live session of a disabled account is one that a      *)
(* disable which died between its two writes, a sign-in that read the       *)
(* account before them, or the shell has left.                             *)
THEOREM ControlSignsOut == CtlSpec => []DisabledIsSignedOut
<1> DEFINE Inv == TypeInv /\ SessionInv /\ SignInInv /\ DisabledIsSignedOut
<1>1. CtlInit => Inv
  BY CtlInitTypes, CtlInitSessions, CtlInitSignedOut
<1>2. Inv /\ [CtlNext]_ctlVars => Inv'
  BY NextTypes, NextSessions, NextSignIn, NextSignedOut
<1> QED  BY <1>1, <1>2, PTL DEF CtlSpec

-----------------------------------------------------------------------------
(* Accounts are never deleted, and who acts on one has one.                *)

AccountKnown(r) ==
    /\ At(r, "write", {"enable", "disable"}) =>
          req[r].copy.exists /\ accounts[On(r)].exists /\ req[r].actor # On(r)
    /\ At(r, "write", LocalSwitches) => accounts[On(r)].exists
    /\ req[r].pc \in {"assign", "unassign"} =>
          /\ accounts[On(r)].exists
          /\ Kind(r) \in {"create_user", "local_create"} => req[r].actor # On(r)
    /\ req[r].pc # "refused" /\ req[r].actor \in Users => accounts[req[r].actor].exists

AccountInv ==
    /\ \A r \in Requests : AccountKnown(r)
    /\ \A u \in Users : accounts[u].active => accounts[u].exists

(* What a step of r may do to the accounts.                                *)
AccountsGo(r) ==
    \A u \in Users :
        /\ accounts[u].exists => accounts'[u].exists
        /\ accounts'[u].active => accounts'[u].exists
        /\ ~accounts[u].exists /\ accounts'[u].exists =>
              /\ On(r) = u /\ Kind(r) \in {"create_user", "local_create"}
              /\ req'[r].pc = "assign"

LEMMA NewAccountsGo ==
    ASSUME NEW r \in Requests, TypeInv, AccountInv, NewAccount(r),
           At(r, "read", {"create_user", "local_create"})
    PROVE  /\ AccountsGo(r)
           /\ req'[r].pc = "assign" => ~accounts[On(r)].exists /\ accounts'[On(r)].exists
<1>1. On(r) \in Users
  BY OnUser DEF OnUsers, At, RoleChanges
<1>2. CASE accounts[On(r)].exists
  <2>1. Becomes(r, "refused", req[r].copy) /\ UNCHANGED accounts
    BY <1>2, GotoMoves DEF NewAccount, Awaits
  <2> QED  BY <2>1 DEF Becomes, AccountsGo, AccountInv
<1>3. CASE ~accounts[On(r)].exists
  <2> DEFINE row == [exists |-> TRUE, active |-> TRUE]
  <2>1. Becomes(r, "assign", req[r].copy) /\ accounts' = [accounts EXCEPT ![On(r)] = row]
    BY <1>3, GotoMoves DEF NewAccount, Awaits
  <2>2. row.exists
    OBVIOUS
  <2> HIDE DEF row
  <2>3. /\ accounts'[On(r)] = row
        /\ \A u \in Users : u # On(r) => accounts'[u] = accounts[u]
    BY <1>1, <2>1 DEF TypeInv, CtlTypeOK
  <2>4. req'[r].pc = "assign" /\ Kind(r) \in {"create_user", "local_create"}
    BY <2>1 DEF Becomes, At
  <2> QED  BY <1>3, <2>2, <2>3, <2>4 DEF AccountsGo, AccountInv
<1> QED  BY <1>2, <1>3

LEMMA AccountsGoOn ==
    ASSUME NEW r \in Requests, TypeInv, AccountInv, Handle(r) \/ Fail(r)
    PROVE  AccountsGo(r)
<1>1. CASE UNCHANGED accounts
  BY <1>1 DEF AccountsGo, AccountInv
<1>2. CASE CreateAccount(r) \/ LocalCreate(r)
  BY <1>2, NewAccountsGo DEF CreateAccount, LocalCreate, At
<1>3. CASE SaveAccount(r)
  <2> DEFINE row == [req[r].copy EXCEPT !.active = (Kind(r) = "enable")]
  <2>1. req[r].copy \in AccountRow /\ req[r].copy.exists
    BY <1>3 DEF SaveAccount, At, TypeInv, Waits, AccountInv, AccountKnown
  <2>2. accounts' = [accounts EXCEPT ![On(r)] = row]
    BY <1>3 DEF SaveAccount
  <2>3. row.exists
    BY <2>1 DEF AccountRow
  <2> HIDE DEF row
  <2>4. \A u \in Users : accounts'[u] = accounts[u] \/ (u = On(r) /\ accounts'[u] = row)
    BY <2>2 DEF TypeInv, CtlTypeOK
  <2>5. accounts[On(r)].exists
    BY <1>3 DEF SaveAccount, At, AccountInv, AccountKnown
  <2> QED  BY <2>3, <2>4, <2>5 DEF AccountsGo, AccountInv
<1>4. CASE LocalSetActive(r)
  <2>1. /\ \A u \in Users : /\ accounts'[u].exists <=> accounts[u].exists
                            /\ u # On(r) => accounts'[u] = accounts[u]
        /\ On(r) \in Users /\ (accounts'[On(r)].active <=> Kind(r) = "local_enable")
    BY <1>4, LocalSets
  <2>2. accounts[On(r)].exists
    BY <1>4 DEF LocalSetActive, At, AccountInv, AccountKnown
  <2>3. accounts'[On(r)].exists
    BY <2>1, <2>2
  <2>4. ASSUME NEW u \in Users, u # On(r) PROVE accounts'[u] = accounts[u]
    BY <2>1, <2>4
  <2>5. ASSUME NEW u \in Users
        PROVE  /\ accounts[u].exists => accounts'[u].exists
               /\ accounts'[u].active => accounts'[u].exists
               /\ ~accounts[u].exists => ~accounts'[u].exists
    BY <2>2, <2>3, <2>4, <2>5 DEF AccountInv
  <2> QED  BY <2>5 DEF AccountsGo
<1> QED  BY <1>1, <1>2, <1>3, <1>4, Writers

(* What the step's own request knows after it. *)
LEMMA OwnAccount ==
    ASSUME NEW r \in Requests, TypeInv, AccountInv, Handle(r) \/ Fail(r), Calm(r)
    PROVE  AccountKnown(r)'
<1>1. AccountKnown(r) /\ AccountsGo(r) /\ Kind(r)' = Kind(r) /\ On(r)' = On(r)
  BY AccountsGoOn DEF AccountInv, Calm, Kind, On
<1>2. At(r, "write", {"enable", "disable"})' =>
         req'[r].copy.exists /\ accounts'[On(r)].exists /\ req'[r].actor # On(r)
  <2> SUFFICES ASSUME At(r, "write", {"enable", "disable"})'
               PROVE  req'[r].copy.exists /\ accounts'[On(r)].exists /\ req'[r].actor # On(r)
    OBVIOUS
  <2>1. ReadAccount(r) /\ req'[r].pc = "write"
    BY <1>1 DEF Calm, At, LogoutRead, ReadProducer, LocalReadAccount, ProducerWrites, LocalSwitches
  <2>2. On(r) # req[r].actor /\ accounts[On(r)].exists /\ Keep(r, accounts[On(r)], "write")
    BY <2>1 DEF ReadAccount, Keep, TypeInv, ReqRow
  <2>3. req'[r].copy = accounts[On(r)] /\ req'[r].actor = req[r].actor /\ UNCHANGED accounts
    BY <2>1, <2>2 DEF ReadAccount, Keep, TypeInv, ReqRow, rows
  <2> QED  BY <2>2, <2>3
<1>3. req'[r].pc = "assign" =>
         /\ accounts'[On(r)].exists
         /\ Kind(r) \in {"create_user", "local_create"} => req'[r].actor # On(r)
  <2> SUFFICES ASSUME req'[r].pc = "assign"
               PROVE  accounts'[On(r)].exists /\ req'[r].actor # On(r)
    OBVIOUS
  <2>1. NewAccount(r) /\ At(r, "read", {"create_user", "local_create"})
    BY DEF Calm, CreateAccount, LocalCreate, At
  <2>2. ~accounts[On(r)].exists /\ accounts'[On(r)].exists
    BY <2>1, NewAccountsGo
  <2>3. On(r) \in Users /\ req'[r].actor = req[r].actor
    BY <2>1, OnUser DEF OnUsers, At, RoleChanges, Calm, ReadActor
  <2>4. req[r].actor # On(r)
    BY <1>1, <2>1, <2>2, <2>3 DEF AccountKnown, At
  <2> QED  BY <2>2, <2>3, <2>4
<1>4. req'[r].pc = "unassign" =>
         /\ accounts'[On(r)].exists
         /\ Kind(r) \in {"create_user", "local_create"} => req'[r].actor # On(r)
  <2> SUFFICES ASSUME req'[r].pc = "unassign"
               PROVE  /\ accounts'[On(r)].exists
                      /\ Kind(r) \in {"create_user", "local_create"} => req'[r].actor # On(r)
    OBVIOUS
  <2>1. GroupsOf(r) /\ \/ At(r, "assign", {"create_user", "local_create"})
                       \/ At(r, "read", {"set_role", "local_role"})
    BY DEF Calm, ReadGroups, LocalRole, At
  <2>2. accounts[On(r)].exists
    BY <2>1 DEF GroupsOf, Goto, TypeInv, ReqRow
  <2>3. On(r) \in Users /\ req'[r].actor = req[r].actor
    BY <2>1, OnUser DEF OnUsers, At, RoleChanges, Calm, ReadActor
  <2>4. Kind(r) \in {"create_user", "local_create"} => req[r].actor # On(r)
    BY <1>1, <2>1 DEF AccountKnown, At
  <2> QED  BY <1>1, <2>2, <2>3, <2>4 DEF AccountsGo
<1>5. req'[r].pc # "refused" /\ req'[r].actor \in Users => accounts'[req'[r].actor].exists
  <2>1. CASE ReadActor(r)
    <3>1. req'[r].actor = req[r].copy.user /\ UNCHANGED accounts
          /\ (accounts[req[r].copy.user].active \/ req'[r].pc = "refused")
      BY <2>1 DEF ReadActor, TypeInv, ReqRow, rows
    <3> QED  BY <3>1 DEF AccountInv
  <2>2. CASE ~ReadActor(r)
    <3>1. req'[r].actor = req[r].actor /\ req[r].pc # "refused"
      BY <2>2 DEF Calm, Ended
    <3> QED  BY <1>1, <3>1 DEF AccountKnown, AccountsGo
  <2> QED  BY <2>1, <2>2
<1>6. At(r, "write", LocalSwitches)' => accounts'[On(r)].exists
  <2> SUFFICES ASSUME At(r, "write", LocalSwitches)' PROVE accounts'[On(r)].exists
    OBVIOUS
  <2>1. LocalReadAccount(r) /\ req'[r].pc = "write"
    BY <1>1 DEF Calm, At, LogoutRead, ReadProducer, ReadAccount, ProducerWrites, LocalSwitches
  <2>2. accounts[On(r)].exists /\ UNCHANGED accounts
    BY <2>1 DEF LocalReadAccount, Goto, TypeInv, ReqRow, rows
  <2> QED  BY <2>2
<1> QED  BY <1>1, <1>2, <1>3, <1>4, <1>5, <1>6 DEF AccountKnown, At, Kind, On

LEMMA NextAccounts ==
    ASSUME TypeInv, AccountInv, [CtlNext]_ctlVars
    PROVE  AccountInv'
<1>1. ASSUME NEW r \in Requests, NEW op \in Operations, Arrive(r, op) PROVE AccountInv'
  <2>1. /\ UNCHANGED accounts /\ Moves(r) /\ req'[r].pc \in {"session", "key", "read"}
        /\ req'[r].actor = req[r].actor /\ req[r].pc = "idle"
    BY <1>1 DEF Arrive, Moves, TypeInv, ReqRow, rows
  <2>2. AccountKnown(r)'
    BY <2>1 DEF AccountInv, AccountKnown, At
  <2>3. ASSUME NEW q \in Requests \ {r} PROVE AccountKnown(q)'
    BY <2>1 DEF AccountInv, AccountKnown, Moves, At, Kind, On
  <2> QED  BY <2>1, <2>2, <2>3 DEF AccountInv
<1>2. CASE UNCHANGED <<rows, req, audit, raced>>
  BY <1>2 DEF AccountInv, AccountKnown, At, Kind, On, rows
<1>3. ASSUME NEW r \in Requests, Handle(r) \/ Fail(r), Moves(r), AccountKnown(r)'
      PROVE  AccountInv'
  <2>1. AccountsGo(r)
    BY <1>3, AccountsGoOn
  <2>2. ASSUME NEW q \in Requests \ {r} PROVE AccountKnown(q)'
    <3>1. req'[q] = req[q] /\ AccountKnown(q)
      BY <1>3 DEF Moves, AccountInv
    <3>2. req[q].pc \in {"assign", "unassign"}
             \/ At(q, "write", {"enable", "disable"} \cup LocalSwitches)
            => On(q) \in Users
      BY OnUser DEF OnUsers, TypeInv, Waits, RoleChanges, At
    <3> QED  BY <2>1, <3>1, <3>2 DEF AccountKnown, AccountsGo, At, Kind, On
  <2> QED  BY <1>3, <2>1, <2>2 DEF AccountInv, AccountsGo
<1>4. ASSUME NEW r \in Requests, Handle(r) \/ Fail(r), Calm(r) PROVE AccountInv'
  BY <1>3, <1>4, OwnAccount DEF Calm
<1>5. ASSUME NEW r \in Requests, Handle(r) \/ Fail(r), Continues(r) PROVE AccountInv'
  <2>1. UNCHANGED accounts /\ AccountKnown(r)
    BY <1>5 DEF Continues, ChangeGroup, AccountInv
  <2>2. AccountKnown(r)'
    BY <1>5, <2>1 DEF Continues, AccountKnown, At, Kind, On
  <2> QED  BY <1>3, <1>5, <2>2 DEF Continues
<1> QED  BY <1>1, <1>2, <1>4, <1>5, Steps

LEMMA CtlInitAccounts == CtlInit => AccountInv
BY ControlAssumption DEF CtlInit, Idle, AccountInv, AccountKnown, At

-----------------------------------------------------------------------------
(* One role for each account.                                              *)

GroupsRight ==
    /\ \A u \in Users : ~accounts[u].exists => groups[u] = {}
    /\ \A u \in Users \ raced :
          accounts[u].exists /\ ChangingRole(u) = {} => \E g \in Roles : groups[u] = {g}

\* Who removes a user's groups knows them, and is alone in it.
Unassigning ==
    \A r \in Requests :
        req[r].pc = "unassign" /\ On(r) \notin raced =>
            /\ groups[On(r)] = req[r].copy.groups
            /\ \A q \in Requests : req[q].pc = "unassign" /\ On(q) = On(r) => q = r

GroupInv == GroupsRight /\ Unassigning

(* What a step of r does to the groups.                                    *)
LEMMA GroupsMove ==
    ASSUME NEW r \in Requests, TypeInv, Handle(r) \/ Fail(r), UNCHANGED groups \/ ChangeGroup(r)
    PROVE  \A u \in Users : groups'[u] = groups[u] \/ (On(r) = u /\ req[r].pc = "unassign")
<1>1. CASE ChangeGroup(r)
  <2>1. PICK new : groups' = [groups EXCEPT ![On(r)] = new]
    BY <1>1 DEF ChangeGroup
  <2> QED  BY <1>1, <2>1 DEF ChangeGroup, TypeInv, CtlTypeOK
<1> QED  BY <1>1

(* The two halves of a removal step. *)
LEMMA ChangeGroupDoes ==
    ASSUME NEW r \in Requests, TypeInv, ChangeGroup(r)
    PROVE  /\ On(r) \in Users /\ Kind(r) \in RoleChanges /\ req[r].op.arg \in Roles
           /\ req'[r].pc = "unassign" =>
                 \E g : /\ groups'[On(r)] = groups[On(r)] \ {g}
                       /\ g \in req[r].copy.groups
                       /\ req'[r].copy.groups = req[r].copy.groups \ {g}
           /\ req'[r].pc # "unassign" =>
                 /\ req[r].copy.groups = {}
                 /\ groups'[On(r)] = groups[On(r)] \cup {req[r].op.arg}
<1>1. Kind(r) \in RoleChanges /\ req[r].op \in Operations /\ req[r].copy \in GroupsRow
  BY DEF ChangeGroup, TypeInv, Waits
<1>2. On(r) \in Users /\ req[r].op.arg \in Roles
  BY <1>1, OperationsAssumption DEF Kind, On
<1>3. CASE \E g \in req[r].copy.groups :
             /\ groups' = [groups EXCEPT ![On(r)] = @ \ {g}]
             /\ Keep(r, [groups |-> req[r].copy.groups \ {g}], "unassign")
  <2>1. PICK g \in req[r].copy.groups :
             /\ groups' = [groups EXCEPT ![On(r)] = @ \ {g}]
             /\ Keep(r, [groups |-> req[r].copy.groups \ {g}], "unassign")
    BY <1>3
  <2>2. [groups |-> req[r].copy.groups \ {g}] \in Copies
    BY <1>1 DEF GroupsRow, Copies
  <2>3. Becomes(r, "unassign", [groups |-> req[r].copy.groups \ {g}])
    BY <2>1, <2>2, KeepMoves DEF Awaits
  <2>4. groups'[On(r)] = groups[On(r)] \ {g}
    BY <1>2, <2>1 DEF TypeInv, CtlTypeOK
  <2>5. req'[r].pc = "unassign" /\ req'[r].copy.groups = req[r].copy.groups \ {g}
    BY <2>3 DEF Becomes
  <2> QED  BY <1>1, <1>2, <2>4, <2>5
<1>4. CASE /\ req[r].copy.groups = {}
           /\ groups' = [groups EXCEPT ![On(r)] = @ \cup {req[r].op.arg}]
           /\ Keep(r, None, IF Kind(r) \in Audited THEN "audit" ELSE "done")
  <2>1. groups'[On(r)] = groups[On(r)] \cup {req[r].op.arg}
    BY <1>2, <1>4 DEF TypeInv, CtlTypeOK
  <2>2. req'[r].pc \in {"audit", "done"}
    BY <1>4 DEF Keep, TypeInv, ReqRow
  <2> QED  BY <1>1, <1>2, <1>4, <2>1, <2>2
<1> QED  BY <1>3, <1>4 DEF ChangeGroup

(* A request goes on to remove groups with all the user has, and marks the  *)
(* user when another request is at its role.                               *)
LEMMA GroupsOfDoes ==
    ASSUME NEW r \in Requests, TypeInv, GroupsOf(r), req'[r].pc = "unassign"
    PROVE  /\ req'[r].copy.groups = groups[On(r)] /\ UNCHANGED groups
           /\ ChangingRole(On(r)) \ {r} # {} => On(r) \in raced'
<1>1. accounts[On(r)].exists
  BY DEF GroupsOf, Goto, TypeInv, ReqRow
<1> QED  BY <1>1 DEF GroupsOf, Keep, TypeInv, ReqRow, rows

LEMMA UnassigningStep ==
    ASSUME NEW r \in Requests, TypeInv, AccountInv, GroupInv, Handle(r) \/ Fail(r), Moves(r),
           req'[r].op = req[r].op,
           req'[r].pc = "unassign" =>
              GroupsOf(r) \/ (ChangeGroup(r) /\ req[r].pc = "unassign")
    PROVE  Unassigning'
<1> SUFFICES ASSUME NEW q \in Requests, req'[q].pc = "unassign", On(q)' \notin raced'
             PROVE  /\ groups'[On(q)'] = req'[q].copy.groups
                    /\ \A p \in Requests : req'[p].pc = "unassign" /\ On(p)' = On(q)' => p = q
  BY DEF Unassigning
<1>1. \A p \in Requests : On(p)' = On(p)
  BY DEF On, Moves
<1>2. On(q) \notin raced
  BY <1>1, RacedGrows
<1>3. \A p \in Requests \ {r} : req'[p] = req[p]
  BY DEF Moves
<1>4. \A p \in Requests : req[p].pc = "unassign" => On(p) \in Users /\ Kind(p) \in RoleChanges
  BY OnUser DEF OnUsers, TypeInv, Waits
<1>5. ASSUME NEW p \in Requests, NEW p2 \in Requests, req[p].pc = "unassign",
             req[p2].pc = "unassign", On(p) = On(p2), On(p) \notin raced
      PROVE  p = p2
  BY <1>5 DEF GroupInv, Unassigning
<1>6. ASSUME NEW p \in Requests \ {r}, req[p].pc = "unassign", On(p) = On(r),
             On(r) \notin raced'
      PROVE  req'[r].pc # "unassign"
  <2> SUFFICES ASSUME req'[r].pc = "unassign" PROVE FALSE
    OBVIOUS
  <2>1. CASE GroupsOf(r)
    <3>1. p \in ChangingRole(On(r)) \ {r}
      BY <1>4, <1>6 DEF ChangingRole
    <3> QED  BY <1>6, <2>1, <3>1, GroupsOfDoes
  <2>2. CASE req[r].pc = "unassign"
    BY <1>5, <1>6, <2>2, RacedGrows
  <2> QED  BY <2>1, <2>2
<1>7. \A p \in Requests : req'[p].pc = "unassign" /\ On(p)' = On(q)' => p = q
  BY <1>1, <1>2, <1>3, <1>5, <1>6
<1>8. groups'[On(q)] = req'[q].copy.groups
  <2>1. CASE q # r
    <3>1. req[q].pc = "unassign" /\ req'[q].copy = req[q].copy
      BY <1>3, <2>1
    <3>2. ~(On(r) = On(q) /\ req[r].pc = "unassign")
      BY <1>2, <1>5, <2>1, <3>1
    <3>3. groups'[On(q)] = groups[On(q)]
      BY <1>4, <3>1, <3>2, GroupsMove, Writers
    <3> QED  BY <1>2, <3>1, <3>3 DEF GroupInv, Unassigning
  <2>2. CASE q = r /\ GroupsOf(r)
    BY <2>2, GroupsOfDoes
  <2>3. CASE q = r /\ ChangeGroup(r) /\ req[r].pc = "unassign"
    <3>1. groups[On(r)] = req[r].copy.groups
      BY <1>2, <2>3 DEF GroupInv, Unassigning
    <3> QED  BY <2>3, <3>1, ChangeGroupDoes
  <2> QED  BY <2>1, <2>2, <2>3
<1> QED  BY <1>1, <1>7, <1>8

LEMMA GroupsRightStep ==
    ASSUME NEW r \in Requests, TypeInv, AccountInv, GroupInv, Handle(r) \/ Fail(r), Moves(r),
           req'[r].op = req[r].op, req[r].pc \notin Ended,
           req[r].pc = "assign" => req'[r].pc = "failed" \/ GroupsOf(r),
           req[r].pc = "unassign" => req'[r].pc \in {"failed", "unassign"} \/ ChangeGroup(r)
    PROVE  GroupsRight'
<1>1. AccountsGo(r) /\ Kind(r)' = Kind(r) /\ On(r)' = On(r) /\ raced \subseteq raced'
  BY AccountsGoOn, RacedGrows DEF Kind, On
<1>2. \A u \in Users : groups'[u] = groups[u] \/ (On(r) = u /\ req[r].pc = "unassign")
  BY GroupsMove, Writers
<1>3. ASSUME NEW u \in Users, ~accounts'[u].exists PROVE groups'[u] = {}
  <2>1. ~accounts[u].exists
    BY <1>1, <1>3 DEF AccountsGo
  <2>2. groups[u] = {}
    BY <2>1 DEF GroupInv, GroupsRight
  <2> QED  BY <1>2, <2>1, <2>2 DEF AccountInv, AccountKnown
<1>4. ASSUME NEW u \in Users \ raced', accounts'[u].exists, ChangingRole(u)' = {}
      PROVE  \E g \in Roles : groups'[u] = {g}
  <2>1. ~(On(r) = u /\ Kind(r) \in RoleChanges
            /\ req'[r].pc \in {"assign", "unassign", "failed"})
    BY <1>1, <1>4 DEF ChangingRole
  <2>2. accounts[u].exists
    BY <1>1, <1>4, <2>1 DEF AccountsGo, RoleChanges
  <2>3. \A q \in Requests \ {r} : q \notin ChangingRole(u)
    BY <1>4 DEF ChangingRole, Moves, Kind, On
  <2>4. CASE r \notin ChangingRole(u)
    <3>1. ChangingRole(u) = {}
      BY <2>3, <2>4 DEF ChangingRole
    <3>2. ~(On(r) = u /\ req[r].pc = "unassign")
      BY <2>4 DEF ChangingRole, TypeInv, Waits
    <3> QED  BY <1>1, <1>2, <1>4, <2>2, <3>1, <3>2 DEF GroupInv, GroupsRight
  <2>5. CASE r \in ChangingRole(u)
    <3>1. req[r].pc \in {"assign", "unassign"} /\ On(r) = u /\ Kind(r) \in RoleChanges
      BY <2>5 DEF ChangingRole, Ended
    <3>2. req'[r].pc \notin {"assign", "unassign", "failed"}
      BY <2>1, <3>1
    <3>3. req[r].pc # "assign"
      <4> SUFFICES ASSUME GroupsOf(r) PROVE req'[r].pc = "unassign"
        BY <3>2
      <4> QED  BY <2>2, <3>1 DEF GroupsOf, Keep, TypeInv, ReqRow
    <3>4. ChangeGroup(r) /\ req[r].pc = "unassign"
      BY <3>1, <3>2, <3>3
    <3>5. groups[u] = req[r].copy.groups
      BY <1>1, <1>4, <3>1, <3>4 DEF GroupInv, Unassigning
    <3> QED  BY <3>1, <3>2, <3>4, <3>5, ChangeGroupDoes
  <2> QED  BY <2>4, <2>5
<1> QED  BY <1>3, <1>4 DEF GroupsRight

LEMMA NextGroups ==
    ASSUME TypeInv, AccountInv, GroupInv, [CtlNext]_ctlVars
    PROVE  GroupInv'
<1>1. ASSUME NEW r \in Requests, NEW op \in Operations, Arrive(r, op) PROVE GroupInv'
  <2>1. /\ UNCHANGED <<accounts, groups, raced>> /\ Moves(r)
        /\ req'[r].pc \in {"session", "key", "read"} /\ req[r].pc = "idle"
    BY <1>1 DEF Arrive, Moves, TypeInv, ReqRow, rows
  <2>2. \A u \in Users : ChangingRole(u)' = ChangingRole(u)
    BY <2>1 DEF ChangingRole, Moves, Kind, On
  <2>3. \A q \in Requests : req'[q].pc = "unassign" => req'[q] = req[q]
    BY <2>1 DEF Moves
  <2>4. GroupsRight'
    BY <2>1, <2>2 DEF GroupInv, GroupsRight
  <2>5. Unassigning'
    BY <2>1, <2>3 DEF GroupInv, Unassigning, On
  <2> QED  BY <2>4, <2>5 DEF GroupInv
<1>2. CASE UNCHANGED <<rows, req, audit, raced>>
  BY <1>2 DEF GroupInv, GroupsRight, Unassigning, ChangingRole, Kind, On, rows
<1>3. ASSUME NEW r \in Requests, Handle(r) \/ Fail(r), Calm(r) PROVE GroupInv'
  <2>1. /\ req'[r].pc = "unassign" => GroupsOf(r)
        /\ req[r].pc = "assign" => req'[r].pc = "failed" \/ GroupsOf(r)
    BY <1>3 DEF Calm, ReadGroups, LocalRole
  <2>2. Unassigning'
    BY <1>3, <2>1, UnassigningStep DEF Calm
  <2>3. GroupsRight'
    BY <1>3, <2>1, GroupsRightStep DEF Calm
  <2> QED  BY <2>2, <2>3 DEF GroupInv
<1>4. ASSUME NEW r \in Requests, Handle(r) \/ Fail(r), Continues(r) PROVE GroupInv'
  <2>1. Unassigning'
    BY <1>4, UnassigningStep DEF Continues
  <2>2. GroupsRight'
    BY <1>4, GroupsRightStep DEF Continues, Ended
  <2> QED  BY <2>1, <2>2 DEF GroupInv
<1> QED  BY <1>1, <1>2, <1>3, <1>4, Steps

LEMMA CtlInitGroups == CtlInit => GroupInv
<1> SUFFICES ASSUME CtlInit PROVE GroupInv
  OBVIOUS
<1>1. \A u \in Users : groups[u] = IF u \in Present THEN {"Admin"} ELSE {}
  BY DEF CtlInit
<1>2. \A u \in Users : accounts[u].exists <=> u \in Present
  BY DEF CtlInit
<1>3. \A r \in Requests : req[r].pc = "idle"
  BY DEF CtlInit, Idle
<1> QED  BY <1>1, <1>2, <1>3 DEF GroupInv, GroupsRight, Unassigning, Roles

(* users_create, users_set_role, UserRole: requests that change roles, each *)
(* one await at a time, leave an account with one role unless two of them   *)
(* are at the same account or one dies there.                              *)
THEOREM ControlOneRole == CtlSpec => []OneRole
<1> DEFINE Inv == TypeInv /\ AccountInv /\ GroupInv
<1>1. CtlInit => Inv
  BY CtlInitTypes, CtlInitAccounts, CtlInitGroups
<1>2. Inv /\ [CtlNext]_ctlVars => Inv'
  BY NextTypes, NextAccounts, NextGroups
<1>3. Inv => OneRole
  <2> SUFFICES ASSUME Inv, NEW u \in Users \ raced, accounts[u].exists, ChangingRole(u) = {}
               PROVE  Cardinality(groups[u]) = 1
    BY DEF OneRole
  <2>1. PICK g \in Roles : groups[u] = {g}
    BY DEF GroupInv, GroupsRight
  <2> QED  BY <2>1, FS_Singleton
<1> QED  BY <1>1, <1>2, <1>3, PTL DEF CtlSpec

-----------------------------------------------------------------------------
(* The last manager.                                                       *)

LEMMA ManagersStep ==
    ASSUME NEW r \in Requests, TypeInv, AccountInv, Handle(r) \/ Fail(r),
           Calm(r) \/ Continues(r), Managers # {}, Managers' = {}
    PROVE  /\ req'[r] # req[r]
           /\ \/ Kind(r) \in {"set_role", "local_role", "local_disable"}
                   /\ (Kind(r) = "set_role" => req[r].actor = On(r))
              \/ req[r].actor \notin Managers
<1>1. PICK m \in Users : m \in Managers
  BY DEF Managers
<1>2. m \notin Managers'
  OBVIOUS
<1>3. req'[r] # req[r]
  <2>1. CASE Calm(r)
    BY <2>1 DEF Calm
  <2>2. CASE Continues(r)
    <3>1. ChangeGroup(r) /\ req'[r].pc = "unassign"
      BY <2>2 DEF Continues
    <3> QED  BY <3>1, ChangeGroupDoes
  <2> QED  BY <2>1, <2>2
<1>4. CASE SaveAccount(r)
  <2>1. UNCHANGED groups /\ req[r].actor # On(r)
    BY <1>4 DEF SaveAccount, At, AccountInv, AccountKnown
  <2>2. \A u \in Users : u # On(r) => accounts'[u] = accounts[u]
    BY <1>4 DEF SaveAccount, TypeInv, CtlTypeOK
  <2>3. req[r].actor \notin Managers
    BY <2>1, <2>2 DEF Managers, MayManage
  <2> QED  BY <1>3, <2>3
<1>5. CASE LocalSetActive(r) /\ Kind(r) = "local_disable"
  BY <1>3, <1>5
<1>6. CASE ~SaveAccount(r) /\ ~(LocalSetActive(r) /\ Kind(r) = "local_disable")
  <2>1. accounts'[m].active
    BY <1>1, <1>6, AccountsMove DEF Managers
  <2>2. ~MayManage(m)'
    BY <1>2, <2>1 DEF Managers
  <2>3. groups'[m] # groups[m]
    BY <1>1, <2>2 DEF MayManage, Managers
  <2>4. ChangeGroup(r) /\ On(r) = m
    BY <2>3, GroupsMove, Writers
  <2>5. Kind(r) \in RoleChanges /\ UNCHANGED accounts
        /\ \A u \in Users : u # On(r) => groups'[u] = groups[u]
    BY <2>4, GroupsMove, ChangeGroupDoes DEF ChangeGroup
  <2>6. Kind(r) \in {"create_user", "local_create"} => req[r].actor # On(r)
    BY <2>4 DEF ChangeGroup, AccountInv, AccountKnown
  <2>7. req[r].actor # On(r) => req[r].actor \notin Managers
    BY <2>5 DEF Managers, MayManage
  <2> QED  BY <1>3, <2>5, <2>6, <2>7 DEF RoleChanges
<1> QED  BY <1>4, <1>5, <1>6

(* app/authz.py:7-8, users_set_active: with any number of operators and     *)
(* requests at once, the last operator able to manage accounts is lost only *)
(* as LastManager says.                                                    *)
THEOREM ControlLastManager == CtlSpec => LastManager
<1> DEFINE Inv == TypeInv /\ AccountInv
           Lost(r) == /\ req'[r] # req[r]
                      /\ \/ Kind(r) \in {"set_role", "local_role", "local_disable"}
                               /\ (Kind(r) = "set_role" => req[r].actor = On(r))
                         \/ req[r].actor \notin Managers
<1>1. CtlInit => Inv
  BY CtlInitTypes, CtlInitAccounts
<1>2. Inv /\ [CtlNext]_ctlVars => Inv'
  BY NextTypes, NextAccounts
<1>3. Inv /\ [CtlNext]_ctlVars =>
        [(Managers # {} /\ Managers' = {}) => \E r \in Requests : Lost(r)]_ctlVars
  <2> SUFFICES ASSUME Inv, [CtlNext]_ctlVars, Managers # {}, Managers' = {}
               PROVE  \E r \in Requests : Lost(r)
    OBVIOUS
  <2>1. CASE UNCHANGED <<accounts, groups>>
    <3>1. Managers' = Managers
      BY <2>1 DEF Managers, MayManage
    <3> QED  BY <3>1
  <2>2. ASSUME NEW r \in Requests, Handle(r) \/ Fail(r), Calm(r) \/ Continues(r)
        PROVE  Lost(r)
    BY <2>2, ManagersStep
  <2> QED  BY <2>1, <2>2, Steps DEF Arrive, rows
<1> QED  BY <1>1, <1>2, <1>3, PTL DEF CtlSpec, LastManager

-----------------------------------------------------------------------------
(* Rotation.  Keys are ranked by when they were issued: a revoked key has a *)
(* successor of greater rank, so the last of them is not revoked.          *)

Replaces(r, k, rank) ==
    /\ Known(r) /\ rank[k] < rank[r]
    /\ keys[r].producer = keys[k].producer /\ keys[r].expires = keys[k].expires

Ranked(n, rank) ==
    /\ \A k \in Keys \cup Requests : Known(k) => rank[k] < n
    /\ \A r \in Requests : At(r, "revoke", {"rotate"}) => Replaces(r, On(r), rank)
    /\ \A k \in Keys \cup Requests : keys[k].status = "revoked" =>
          \E r \in Requests : Replaces(r, k, rank)

OnlyRotated == \A r \in Requests : req[r].pc = "idle" \/ Kind(r) # "revoke"

Ranks == [Keys \cup Requests -> Nat]

RankInv ==
    /\ \A k \in Keys : Known(k)
    /\ \A k \in Keys \cup Requests : Known(k) => keys[k].status # "none"
    /\ OnlyRotated => \E n \in Nat, rank \in Ranks : Ranked(n, rank)

LEMMA Least ==
    ASSUME NEW S, S \subseteq Nat, S # {}
    PROVE  \E m \in S : \A n \in S : m <= n
<1> DEFINE R == OpToRel(<, Nat)
<1>1. IsWellFoundedOn(R, Nat)
  BY NatLessThanWellFounded
<1>2. \A x, y \in Nat : x < y => <<x, y>> \in R
  BY DEF OpToRel
<1> HIDE DEF R
<1>3. PICK m \in S : \A n \in S : ~ (<<n, m>> \in R)
  BY <1>1, WFMin
<1>4. ASSUME NEW n \in S PROVE m <= n
  <2>1. ~(n < m)
    BY <1>2, <1>3
  <2> QED  BY <2>1
<1> QED  BY <1>4

LEMMA RanksSuffice == TypeInv /\ RankInv => RotationKeepsAccess
<1> SUFFICES ASSUME TypeInv, RankInv, OnlyRotated, NEW k \in Keys
             PROVE  \E j \in Keys \cup Requests :
                       /\ keys[j].status = "active"
                       /\ keys[j].producer = keys[k].producer
                       /\ keys[j].expires = keys[k].expires
  BY DEF RotationKeepsAccess, OnlyRotated
<1>1. PICK n \in Nat, rank \in Ranks : Ranked(n, rank)
  BY DEF RankInv
<1> DEFINE Like == {j \in Keys \cup Requests :
                       Known(j) /\ keys[j].producer = keys[k].producer
                                /\ keys[j].expires = keys[k].expires}
           S == {n - rank[j] : j \in Like}
<1>2. k \in Like
  BY DEF RankInv
<1>3. \A j \in Like : rank[j] \in Nat /\ rank[j] < n
  BY <1>1 DEF Ranks, Ranked
<1>4. S \subseteq Nat /\ S # {}
  BY <1>2, <1>3
<1> HIDE DEF S
<1>5. PICK m \in S : \A x \in S : m <= x
  BY <1>4, Least
<1>6. PICK j \in Like : m = n - rank[j]
  BY <1>5 DEF S
<1>7. keys[j].status # "revoked"
  <2> SUFFICES ASSUME keys[j].status = "revoked" PROVE FALSE
    OBVIOUS
  <2>1. PICK r \in Requests : Replaces(r, j, rank)
    BY <1>1, <1>6 DEF Ranked
  <2>2. r \in Like /\ rank[j] < rank[r]
    BY <1>6, <2>1 DEF Replaces
  <2>3. n - rank[r] \in S
    BY <2>2 DEF S
  <2>4. m <= n - rank[r]
    BY <1>5, <2>3
  <2> QED  BY <1>3, <1>6, <2>2, <2>4
<1>8. keys[j].status = "active"
  <2>1. Known(j) /\ keys[j].status \in {"none", "active", "revoked"}
    BY <1>6 DEF TypeInv, CtlTypeOK, KeyRow
  <2> QED  BY <1>6, <1>7, <2>1 DEF RankInv
<1> QED  BY <1>6, <1>8

LEMMA CtlInitRanks == CtlInit => RankInv
<1> SUFFICES ASSUME CtlInit PROVE RankInv
  OBVIOUS
<1>1. \A k \in Keys : Known(k)
  BY ControlAssumption DEF CtlInit, Known
<1>2. \A k \in Keys \cup Requests : keys[k] = NoKey \/ keys[k].status = "active"
  BY DEF CtlInit
<1>3. Ranked(1, [k \in Keys \cup Requests |-> 0])
  BY <1>2 DEF Ranked, CtlInit, Idle, At, NoKey
<1>4. [k \in Keys \cup Requests |-> 0] \in Ranks
  BY DEF Ranks
<1> QED  BY <1>1, <1>2, <1>3, <1>4 DEF RankInv, Known

(* What a step of r does to the keys. *)
LEMMA KeysMove ==
    ASSUME NEW r \in Requests, TypeInv, KeyInv, Handle(r) \/ Fail(r)
    PROVE  /\ KeysKeep(r)
           /\ ~Issue(r) => \A k \in Keys \cup Requests : Known(k)' => Known(k)
           /\ \A k \in Keys \cup Requests :
                 /\ Known(k)' /\ keys'[k].status = "none" => Known(k) /\ keys[k].status = "none"
                 /\ keys'[k].status = "revoked" /\ keys[k].status # "revoked"
                       => Revoke(r) /\ On(r) = k
<1>1. CASE UNCHANGED keys
  BY <1>1 DEF KeysKeep, Known
<1>2. CASE Issue(r)
  <2>1. KeysKeep(r) /\ keys'[r].status = "active"
    BY <1>2, IssueKnows
  <2>2. \A k \in Keys \cup Requests : k # r => keys'[k] = keys[k]
    BY <1>2 DEF Issue, TypeInv, CtlTypeOK
  <2> QED  BY <1>2, <2>1, <2>2 DEF Known
<1>3. CASE Revoke(r)
  <2>1. KeysKeep(r)
    BY <1>3, RevokeKnows
  <2>2. Known(On(r)) /\ req[r].copy \in KeyRow /\ ~Issue(r)
    BY <1>3 DEF Revoke, Issue, KeyInv, KeyKnown, TypeInv, Waits
  <2>3. \A k \in Keys \cup Requests :
           keys'[k] = keys[k] \/ (k = On(r) /\ keys'[k].status = "revoked")
    BY <1>3, <2>2 DEF Revoke, TypeInv, CtlTypeOK, KeyRow
  <2> QED  BY <1>3, <2>1, <2>2, <2>3 DEF Known
<1>4. CASE MarkUsed(r)
  <2>1. KeysKeep(r)
    BY <1>4, MarkUsedKnows
  <2>2. Known(On(r)) /\ ~Issue(r)
    BY <1>4 DEF MarkUsed, Issue, KeyInv, KeyKnown
  <2>3. \A k \in Keys \cup Requests :
           keys'[k] = keys[k] \/ (k = On(r) /\ keys'[k].status = keys[k].status)
    BY <1>4 DEF MarkUsed, Bookkeeping, TypeInv, CtlTypeOK, KeyRow
  <2> QED  BY <2>1, <2>2, <2>3 DEF Known
<1> QED  BY <1>1, <1>2, <1>3, <1>4, Writers

(* Who replaces a key goes on doing so, while ranks of known keys stay.    *)
LEMMA StillReplaces ==
    ASSUME NEW r \in Requests, TypeInv, KeysKeep(r), NEW rank, NEW rank2,
           NEW q \in Requests, NEW k \in Keys \cup Requests,
           Replaces(q, k, rank), Known(k), rank2[q] = rank[q], rank2[k] = rank[k]
    PROVE  Replaces(q, k, rank2)'
BY DEF Replaces, KeysKeep

LEMMA RankStep ==
    ASSUME NEW r \in Requests, TypeInv, KeyInv, RankInv, Handle(r) \/ Fail(r), Moves(r),
           req'[r].op = req[r].op, req'[r].pc # "idle",
           At(r, "revoke", {"rotate"})' => Issue(r)
    PROVE  RankInv'
<1>1. KeysKeep(r) /\ \A k \in Keys \cup Requests :
         /\ Known(k)' /\ keys'[k].status = "none" => Known(k) /\ keys[k].status = "none"
         /\ keys'[k].status = "revoked" /\ keys[k].status # "revoked" => Revoke(r) /\ On(r) = k
  BY KeysMove
<1>2. /\ \A k \in Keys : Known(k)'
      /\ \A k \in Keys \cup Requests : Known(k)' => keys'[k].status # "none"
  BY <1>1 DEF RankInv, KeysKeep
<1>3. ASSUME OnlyRotated' PROVE \E n \in Nat, rank \in Ranks : Ranked(n, rank)'
  <2>1. OnlyRotated /\ Kind(r) # "revoke"
    <3>1. Kind(r) # "revoke"
      BY <1>3 DEF OnlyRotated, Kind
    <3>2. \A q \in Requests \ {r} : req[q].pc = "idle" \/ Kind(q) # "revoke"
      BY <1>3 DEF OnlyRotated, Moves, Kind
    <3> QED  BY <3>1, <3>2 DEF OnlyRotated
  <2>2. PICK n \in Nat, rank \in Ranks : Ranked(n, rank)
    BY <2>1 DEF RankInv
  <2>3. \A k \in Keys \cup Requests : keys[k].status = "revoked" => Known(k)
    BY DEF Known, NoKey
  <2>4. \A q \in Requests : At(q, "revoke", {"rotate"}) => Known(On(q)) /\ Known(q)
          /\ On(q) \in Keys \cup Requests
    BY OnKeys DEF KeyInv, KeyKnown, At
  <2>5. \A q \in Requests : On(q)' = On(q) /\ Kind(q)' = Kind(q)
    BY DEF On, Kind, Moves
  <2>6. CASE Issue(r)
    <3> DEFINE rank2 == [rank EXCEPT ![r] = n]
    <3>1. ~Known(r)
      BY <2>6 DEF Issue, KeyInv, KeyKnown, Early
    <3>2. rank2 \in Ranks /\ rank2[r] = n
          /\ \A k \in Keys \cup Requests : Known(k) => rank2[k] = rank[k]
      BY <2>2, <3>1 DEF Ranks
    <3> HIDE DEF rank2
    <3>3. ASSUME NEW k \in Keys \cup Requests, Known(k)' PROVE rank2[k] < n + 1
      <4>1. CASE k = r
        BY <3>2, <4>1
      <4>2. CASE k # r
        <5>1. Known(k) /\ rank[k] \in Nat
          BY <1>1, <3>3, <4>2 DEF KeysKeep, Ranks
        <5> QED  BY <2>2, <3>2, <5>1 DEF Ranked
      <4> QED  BY <4>1, <4>2
    <3>4. ASSUME NEW q \in Requests, At(q, "revoke", {"rotate"})'
          PROVE  Replaces(q, On(q), rank2)'
      <4>1. CASE q = r
        <5>1. At(r, "issue", {"rotate"})
          BY <2>5, <2>6, <3>4, <4>1 DEF Issue, At
        <5>2. /\ On(r) \in Keys \cup Requests /\ Known(On(r))
              /\ req[r].copy.producer = keys[On(r)].producer
              /\ req[r].copy.expires = keys[On(r)].expires
          BY <5>1, OnKeys DEF KeyInv, KeyKnown, At
        <5>3. /\ keys'[r].producer = req[r].copy.producer
              /\ keys'[r].expires = req[r].copy.expires /\ Known(r)'
          <6> DEFINE row == NewKey(req[r].copy.producer, req[r].copy.expires)
          <6>1. keys' = [keys EXCEPT ![r] = row]
            BY <2>6, <5>1 DEF Issue, At
          <6>2. /\ row.producer = req[r].copy.producer /\ row.expires = req[r].copy.expires
                /\ row # NoKey
            BY DEF NewKey, NoKey
          <6> HIDE DEF row
          <6> QED  BY <6>1, <6>2 DEF Known, TypeInv, CtlTypeOK
        <5>4. rank2[On(r)] < rank2[r]
          BY <2>2, <3>2, <5>2 DEF Ranked
        <5>5. /\ keys'[On(r)].producer = keys[On(r)].producer
              /\ keys'[On(r)].expires = keys[On(r)].expires
          BY <1>1, <5>2 DEF KeysKeep
        <5> QED  BY <2>5, <4>1, <5>2, <5>3, <5>4, <5>5 DEF Replaces
      <4>2. CASE q # r
        <5>1. At(q, "revoke", {"rotate"})
          BY <3>4, <4>2 DEF At, Kind, Moves
        <5> QED  BY <1>1, <2>2, <2>4, <2>5, <3>2, <5>1, StillReplaces DEF Ranked
      <4> QED  BY <4>1, <4>2
    <3>5. ASSUME NEW k \in Keys \cup Requests, keys'[k].status = "revoked"
          PROVE  \E q \in Requests : Replaces(q, k, rank2)'
      <4>1. keys[k].status = "revoked" /\ Known(k)
        BY <1>1, <2>3, <2>6, <3>5 DEF Issue, Revoke
      <4>2. PICK q \in Requests : Replaces(q, k, rank)
        BY <2>2, <4>1 DEF Ranked
      <4>3. Known(q)
        BY <4>2 DEF Replaces
      <4> QED  BY <1>1, <3>2, <4>1, <4>2, <4>3, StillReplaces
    <3>6. Ranked(n + 1, rank2)'
      BY <3>3, <3>4, <3>5 DEF Ranked
    <3> QED  BY <3>2, <3>6
  <2>7. CASE ~Issue(r)
    <3>1. \A k \in Keys \cup Requests : Known(k)' => Known(k)
      BY <2>7, KeysMove
    <3>2. ASSUME NEW q \in Requests, At(q, "revoke", {"rotate"})'
          PROVE  Replaces(q, On(q), rank)'
      <4>1. At(q, "revoke", {"rotate"})
        BY <2>7, <3>2 DEF At, Kind, Moves
      <4> QED  BY <1>1, <2>2, <2>4, <2>5, <4>1, StillReplaces DEF Ranked
    <3>3. ASSUME NEW k \in Keys \cup Requests, keys'[k].status = "revoked"
          PROVE  \E q \in Requests : Replaces(q, k, rank)'
      <4>1. CASE keys[k].status = "revoked"
        BY <1>1, <2>2, <2>3, <4>1, StillReplaces DEF Ranked
      <4>2. CASE keys[k].status # "revoked"
        <5>1. At(r, "revoke", {"rotate"}) /\ On(r) = k
          BY <1>1, <2>1, <3>3, <4>2 DEF Revoke, At, TypeInv, Waits
        <5> QED  BY <1>1, <2>2, <2>4, <5>1, StillReplaces DEF Ranked
      <4> QED  BY <4>1, <4>2
    <3> QED  BY <2>2, <3>1, <3>2, <3>3 DEF Ranked
  <2> QED  BY <2>6, <2>7
<1> QED  BY <1>2, <1>3 DEF RankInv

LEMMA NextRanks ==
    ASSUME TypeInv, KeyInv, RankInv, [CtlNext]_ctlVars
    PROVE  RankInv'
<1>1. ASSUME UNCHANGED keys, OnlyRotated' => OnlyRotated,
             \A q \in Requests : req'[q].pc = "revoke" => req'[q] = req[q]
      PROVE  RankInv'
  <2>1. \A k \in Keys \cup Requests : Known(k)' = Known(k)
    BY <1>1 DEF Known
  <2>2. ASSUME NEW n, NEW rank, Ranked(n, rank) PROVE Ranked(n, rank)'
    <3>1. \A q \in Requests : \A k : Replaces(q, k, rank)' = Replaces(q, k, rank)
      BY <1>1 DEF Replaces, Known
    <3>2. \A k \in Keys \cup Requests : Known(k)' => rank[k] < n
      BY <2>1, <2>2 DEF Ranked
    <3>3. ASSUME NEW q \in Requests, At(q, "revoke", {"rotate"})'
          PROVE  Replaces(q, On(q), rank)'
      <4>1. At(q, "revoke", {"rotate"}) /\ On(q)' = On(q)
        <5>1. req'[q] = req[q]
          BY <1>1, <3>3 DEF At
        <5> QED  BY <3>3, <5>1 DEF At, Kind, On
      <4>2. Replaces(q, On(q), rank)
        BY <2>2, <4>1 DEF Ranked
      <4> QED  BY <1>1, <4>1, <4>2 DEF Replaces, Known
    <3>4. \A k \in Keys \cup Requests : keys'[k].status = "revoked" =>
             \E q \in Requests : Replaces(q, k, rank)'
      BY <1>1, <2>2, <3>1 DEF Ranked
    <3> QED  BY <3>2, <3>3, <3>4 DEF Ranked
  <2>3. OnlyRotated' => \E n \in Nat, rank \in Ranks : Ranked(n, rank)'
    BY <1>1, <2>2 DEF RankInv
  <2> QED  BY <1>1, <2>1, <2>3 DEF RankInv
<1>2. ASSUME NEW r \in Requests, NEW op \in Operations, Arrive(r, op) PROVE RankInv'
  <2>1. /\ UNCHANGED keys /\ Moves(r) /\ req'[r].pc \in {"session", "key", "read"}
        /\ req[r].pc = "idle"
    BY <1>2 DEF Arrive, Moves, TypeInv, ReqRow, rows
  <2>2. OnlyRotated' => OnlyRotated
    BY <2>1 DEF OnlyRotated, Moves, Kind
  <2>3. \A q \in Requests : req'[q].pc = "revoke" => req'[q] = req[q]
    BY <2>1 DEF Moves
  <2> QED  BY <1>1, <2>1, <2>2, <2>3
<1>3. CASE UNCHANGED <<rows, req, audit, raced>>
  BY <1>1, <1>3 DEF OnlyRotated, Kind, rows
<1>4. ASSUME NEW r \in Requests, Handle(r) \/ Fail(r), Calm(r) PROVE RankInv'
  <2>1. At(r, "revoke", {"rotate"})' => Issue(r)
    BY <1>4 DEF Calm, At, Kind
  <2> QED  BY <1>4, <2>1, RankStep DEF Calm, Ended
<1>5. ASSUME NEW r \in Requests, Handle(r) \/ Fail(r), Continues(r) PROVE RankInv'
  <2>1. ~At(r, "revoke", {"rotate"})' /\ req[r].pc # "idle"
    BY <1>5 DEF Continues, At
  <2> QED  BY <1>5, <2>1, RankStep DEF Continues
<1> QED  BY <1>2, <1>3, <1>4, <1>5, Steps

(* keys_rotate: whatever fails and whoever rotates at once, a producer      *)
(* whose keys are only rotated keeps one that works as long.               *)
THEOREM ControlRotation == CtlSpec => []RotationKeepsAccess
<1> DEFINE Inv == TypeInv /\ KeyInv /\ RankInv
<1>1. CtlInit => Inv
  BY CtlInitTypes, CtlInitKnows, CtlInitRanks
<1>2. Inv /\ [CtlNext]_ctlVars => Inv'
  BY NextTypes, NextKnows, NextRanks
<1>3. Inv => RotationKeepsAccess
  BY RanksSuffice
<1> QED  BY <1>1, <1>2, <1>3, PTL DEF CtlSpec
=============================================================================
