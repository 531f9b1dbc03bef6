---------------------------- MODULE IngestProofs ----------------------------
(***************************************************************************)
(* What the ingestion pipeline promises for any requests, processes,       *)
(* topics and keys, any number of faults and any topic edits.              *)
(***************************************************************************)
EXTENDS Ingest, SequenceTheorems, TLAPS

(***************************************************************************)
(* Ids: what an id made from a request, a position and a topic stands for. *)
(***************************************************************************)
LEMMA IdOfPosition ==
    ASSUME NEW r \in Requests, NEW n \in DOMAIN Batch[r], NEW t \in Topics
    PROVE  /\ <<r, n, t>> \in Ids
           /\ KeyOf(<<r, n, t>>) = Batch[r][n].key
           /\ RootOf(<<r, n, t>>) = <<r, n, Batch[r][n].topic>>
  BY DEF Ids, KeyOf, RootOf

LEMMA EnvelopeAt ==
    ASSUME NEW r \in Requests, NEW n \in 1..Len(Batch[r])
    PROVE  /\ n \in DOMAIN Batch[r]
           /\ Batch[r][n] \in Envelopes
  BY IngestAssumption

LEMMA RootIsId ==
    ASSUME NEW id \in Ids
    PROVE  RootOf(id) \in Ids /\ RootOf(id) # None
<1>. PICK r \in Requests : id \in {r} \X (DOMAIN Batch[r]) \X Topics
  BY DEF Ids
<1>1. PICK n \in DOMAIN Batch[r], t \in Topics : id = <<r, n, t>>
  OBVIOUS
<1>2. n \in 1..Len(Batch[r])
  BY IngestAssumption
<1>3. Batch[r][n].topic \in Topics
  BY <1>2, EnvelopeAt DEF Envelopes
<1>4. RootOf(id) = <<r, n, Batch[r][n].topic>>
  BY <1>1, IdOfPosition
<1>. QED  BY <1>3, <1>4, IdOfPosition, NoneAssumption

(* What a request works on has the types its batch gives it.               *)
LEMMA WorkType ==
    ASSUME TypeOK, NEW r \in Requests
    PROVE  /\ at[r] \in DOMAIN Batch[r]
           /\ Env(r) \in Envelopes
           /\ TopicOf(r) \in Topics
           /\ Home[r] \in Instances
           /\ IdOf(r) \in Ids
           /\ KeyOf(IdOf(r)) = Env(r).key
           /\ RootOf(IdOf(r)) = <<r, at[r], Env(r).topic>>
           /\ RootOf(IdOf(r)) \in Ids
<1>1. at[r] \in DOMAIN Batch[r] /\ Env(r) \in Envelopes
  BY EnvelopeAt DEF TypeOK, Env
<1>2. TopicOf(r) \in Topics
  <2>1. hop[r] \in Seq(Topics)
    BY DEF TypeOK
  <2>2. hop[r] # <<>> => Head(hop[r]) \in Topics
    BY <2>1
  <2>. QED  BY <1>1, <2>2 DEF TopicOf, Nested, Envelopes
<1>3. Home[r] \in Instances
  BY IngestAssumption
<1>. QED  BY <1>1, <1>2, <1>3, IdOfPosition, RootIsId DEF IdOf, Env

-----------------------------------------------------------------------------
(* The parts of the type invariant: requests, tables, topics.               *)
RequestsTyped ==
    /\ pc \in [Requests -> Active \cup Ended \cup {"idle"}]
    /\ at \in [Requests -> Nat]
    /\ \A r \in Requests : at[r] \in 1..Len(Batch[r])
    /\ hop \in [Requests -> Seq(Topics)]
    /\ snap \in [Requests -> TopicRows \cup {None}]
    /\ draft \in [Requests -> Drafts \cup {None}]
    /\ answers \in [Requests -> Seq([id : Ids, key : Keys \cup {NoKey},
                                     dup : BOOLEAN])]

TablesTyped ==
    /\ marker \in [Keys -> Ids \cup {None}]
    /\ expired \subseteq Keys
    /\ events \subseteq Ids
    /\ task \in Drafts \cup {None}
    /\ notices \subseteq Ids
    /\ fanned \subseteq Ids

TopicsTyped ==
    /\ rows \in [Topics -> TopicRows]
    /\ cache \in [Instances -> [Topics -> TopicRows \cup {None}]]
    /\ saved \subseteq Instances
    /\ edits \subseteq Edits

LEMMA TypeParts ==
    TypeOK <=> /\ RequestsTyped /\ TablesTyped /\ TopicsTyped
               /\ faults \in 0..MaxFaults
  BY DEF TypeOK, RequestsTyped, TablesTyped, TopicsTyped

(* What is known of a request by where it waits: it begins with its first   *)
(* envelope; only an envelope with a key is looked up; copies are neither   *)
(* looked up nor routed; and a query for a topic row has returned one of    *)
(* the rows the topic has ever had.                                        *)
WaitsWell(r) ==
    /\ pc[r] = "idle" => at[r] = 1 /\ hop[r] = <<>>
    /\ pc[r] \in {"dedupe", "claim", "reread"} =>
          Env(r).key \in Keys /\ hop[r] = <<>>
    /\ pc[r] \in {"route", "refill"} => hop[r] = <<>>
    /\ pc[r] \in {"fill", "refill"} => snap[r] \in RowsEver(TopicOf(r))

Waiting == \A r \in Requests : WaitsWell(r)

(* Rows and cached rows are rows the topic has had at some time.            *)
RowsKnown ==
    /\ \A t \in Topics : rows[t] \in RowsEver(t)
    /\ \A i \in Instances, t \in Topics : cache[i][t] \in RowsEver(t) \cup {None}

TypeInv == TypeOK /\ Waiting /\ RowsKnown

LEMMA RowsEverTyped ==
    ASSUME NEW t \in Topics
    PROVE  RowsEver(t) \subseteq TopicRows
  BY IngestAssumption DEF RowsEver

LEMMA InitTypeInv == Init => TypeInv
<1>. SUFFICES ASSUME Init PROVE TypeInv
  OBVIOUS
<1>1. \A r \in Requests : 1 \in 1..Len(Batch[r])
  BY IngestAssumption
<1>2. RequestsTyped
  BY <1>1 DEF Init, RequestsTyped, Active, Ended
<1>3. TablesTyped
  BY DEF Init, TablesTyped
<1>4. TopicsTyped /\ faults \in 0..MaxFaults
  BY IngestAssumption DEF Init, TopicsTyped
<1>5. Waiting
  BY DEF Init, Waiting, WaitsWell
<1>6. RowsKnown
  BY DEF Init, RowsKnown, RowsEver
<1>. QED  BY <1>2, <1>3, <1>4, <1>5, <1>6, TypeParts DEF TypeInv

-----------------------------------------------------------------------------
(* A step of request r leaves the other requests where they are.            *)
OthersWait(r) ==
    \A q \in Requests \ {r} :
       /\ pc'[q] = pc[q] /\ at'[q] = at[q] /\ hop'[q] = hop[q]
       /\ snap'[q] = snap[q] /\ draft'[q] = draft[q]
       /\ answers'[q] = answers[q]

(* Accept: the answer is appended, and the request is done or begins with   *)
(* the next envelope.                                                      *)
LEMMA AcceptMoves ==
    ASSUME TypeOK, NEW r \in Requests, NEW id \in Ids, NEW dup \in BOOLEAN,
           Accept(r, id, dup)
    PROVE  /\ pc' \in [Requests -> Active \cup Ended \cup {"idle"}]
           /\ at' \in [Requests -> Nat]
           /\ \A q \in Requests : at'[q] \in 1..Len(Batch[q])
           /\ hop' \in [Requests -> Seq(Topics)]
           /\ answers' \in [Requests -> Seq([id : Ids, key : Keys \cup {NoKey},
                                             dup : BOOLEAN])]
           /\ pc'[r] \in {"dedupe", "settings", "done"}
           /\ pc'[r] = "dedupe" => Batch[r][at'[r]].key \in Keys
           /\ pc'[r] = "settings" => Batch[r][at'[r]].key = NoKey
           /\ hop'[r] = <<>>
           /\ answers'[r] = Append(answers[r],
                                   [id |-> id, key |-> Env(r).key, dup |-> dup])
           /\ \A q \in Requests \ {r} :
                 /\ pc'[q] = pc[q] /\ at'[q] = at[q] /\ hop'[q] = hop[q]
                 /\ answers'[q] = answers[q]
<1>1. Env(r) \in Envelopes
  BY WorkType
<1>2. [id |-> id, key |-> Env(r).key, dup |-> dup]
         \in [id : Ids, key : Keys \cup {NoKey}, dup : BOOLEAN]
  BY <1>1 DEF Envelopes
<1>3. answers' \in [Requests -> Seq([id : Ids, key : Keys \cup {NoKey},
                                     dup : BOOLEAN])]
  BY <1>2, AppendProperties DEF Accept, TypeOK
<1>4. hop' \in [Requests -> Seq(Topics)] /\ hop'[r] = <<>>
  BY DEF Accept, TypeOK
<1>5. CASE at[r] = Len(Batch[r])
  BY <1>3, <1>4, <1>5 DEF Accept, Goto, TypeOK, Active, Ended
<1>6. CASE at[r] # Len(Batch[r])
  <2>1. at[r] \in 1..Len(Batch[r]) /\ Len(Batch[r]) \in Nat
    BY IngestAssumption DEF TypeOK
  <2>2. at[r] + 1 \in 1..Len(Batch[r])
    BY <1>6, <2>1
  <2>3. Batch[r][at[r] + 1] \in Envelopes
    BY <2>2, EnvelopeAt
  <2>4. at' = [at EXCEPT ![r] = at[r] + 1]
    BY <1>6 DEF Accept
  <2>5. pc' = [pc EXCEPT ![r] = Entry(Batch[r][at[r] + 1])]
    BY <1>6 DEF Accept, Goto
  <2>6. at' \in [Requests -> Nat] /\ \A q \in Requests : at'[q] \in 1..Len(Batch[q])
    BY <2>2, <2>4 DEF TypeOK
  <2>7. Entry(Batch[r][at[r] + 1]) \in {"dedupe", "settings"}
    BY DEF Entry
  <2>8. /\ Entry(Batch[r][at[r] + 1]) = "dedupe" => Batch[r][at[r] + 1].key \in Keys
        /\ Entry(Batch[r][at[r] + 1]) = "settings" => Batch[r][at[r] + 1].key = NoKey
    BY <2>3 DEF Entry, Envelopes
  <2>9. at[r] \in Nat
    BY DEF TypeOK
  <2>. QED
    BY <1>3, <1>4, <2>4, <2>5, <2>6, <2>7, <2>8, <2>9
    DEF TypeOK, Accept, Active, Ended
<1>. QED  BY <1>5, <1>6

LEMMA RequestStep ==
    ASSUME TypeInv, NEW r \in Requests, OthersWait(r),
           RequestsTyped', TablesTyped', TopicsTyped', (faults \in 0..MaxFaults)',
           RowsKnown', WaitsWell(r)'
    PROVE  TypeInv'
<1>1. ASSUME NEW q \in Requests \ {r} PROVE WaitsWell(q)'
  <2>1. Env(q)' = Env(q) /\ TopicOf(q)' = TopicOf(q)
    BY <1>1 DEF OthersWait, Env, TopicOf, Nested
  <2>2. WaitsWell(q)
    BY DEF TypeInv, Waiting
  <2>. QED  BY <2>1, <2>2 DEF OthersWait, WaitsWell, RowsEver
<1>2. Waiting'
  BY <1>1 DEF Waiting
<1>. QED  BY <1>2, TypeParts DEF TypeInv, TypeOK, RequestsTyped, TablesTyped, TopicsTyped

LEMMA DedupeTypeInv ==
    ASSUME TypeInv, NEW r \in Requests,
           GetMarker(r) \/ ClaimMarker(r) \/ RereadMarker(r)
    PROVE  TypeInv'
<1>1. /\ TypeOK /\ RowsKnown /\ WaitsWell(r)
      /\ RequestsTyped /\ TablesTyped /\ TopicsTyped
  BY TypeParts DEF TypeInv, Waiting
<1>2. /\ TopicsTyped' /\ RowsKnown' /\ (faults \in 0..MaxFaults)'
  <2>1. UNCHANGED <<topicVars, faults>>
    BY DEF GetMarker, ClaimMarker, RereadMarker
  <2>. QED  BY <1>1, <2>1, TypeParts DEF TopicsTyped, RowsKnown, RowsEver, topicVars
<1>3. /\ Env(r).key \in Keys /\ hop[r] = <<>> /\ Env(r) \in Envelopes
      /\ at[r] \in DOMAIN Batch[r] /\ TopicOf(r) = Env(r).topic
      /\ IdOf(r) \in Ids
  BY <1>1, WorkType DEF WaitsWell, GetMarker, ClaimMarker, RereadMarker, TopicOf, Nested
<1>4. ASSUME marker[Env(r).key] # None, Accept(r, marker[Env(r).key], TRUE),
             UNCHANGED <<snap, draft, dbVars>>
      PROVE  RequestsTyped' /\ TablesTyped' /\ WaitsWell(r)' /\ OthersWait(r)
  <2>1. marker[Env(r).key] \in Ids
    BY <1>1, <1>3, <1>4 DEF TablesTyped
  <2>2. TablesTyped'
    BY <1>1, <1>4 DEF TablesTyped, dbVars
  <2>3. /\ pc'[r] \in {"dedupe", "settings", "done"}
        /\ pc'[r] = "dedupe" => Batch[r][at'[r]].key \in Keys
        /\ hop'[r] = <<>>
    BY <1>1, <1>4, <2>1, AcceptMoves
  <2>4. WaitsWell(r)'
    BY <2>3 DEF WaitsWell, Env
  <2>5. RequestsTyped'
    BY <1>1, <1>4, <2>1, AcceptMoves DEF RequestsTyped
  <2>6. OthersWait(r)
    BY <1>1, <1>4, <2>1, AcceptMoves DEF OthersWait
  <2>. QED  BY <2>2, <2>4, <2>5, <2>6
<1>5. ASSUME NEW label \in {"claim", "reread", "settings"}, Goto(r, label),
             UNCHANGED <<at, hop, snap, draft, answers>>
      PROVE  RequestsTyped' /\ WaitsWell(r)' /\ OthersWait(r)
  BY <1>1, <1>3, <1>5
  DEF Goto, RequestsTyped, WaitsWell, OthersWait, Env, TopicOf, Nested, Active
<1>6. CASE GetMarker(r)
  <2>1. CASE marker[Env(r).key] # None
    BY <1>1, <1>2, <1>4, <1>6, <2>1, RequestStep DEF GetMarker
  <2>2. CASE marker[Env(r).key] = None
    <3>1. TablesTyped'
      BY <1>1, <1>6 DEF GetMarker, dbVars, TablesTyped
    <3>. QED  BY <1>1, <1>2, <1>5, <1>6, <2>2, <3>1, RequestStep DEF GetMarker
  <2>. QED  BY <2>1, <2>2
<1>7. CASE ClaimMarker(r)
  <2>1. TablesTyped'
    BY <1>1, <1>3, <1>7 DEF ClaimMarker, TablesTyped
  <2>2. \E label \in {"claim", "reread", "settings"} : Goto(r, label)
    BY <1>7 DEF ClaimMarker
  <2>. QED  BY <1>2, <1>5, <1>7, <2>1, <2>2, RequestStep DEF ClaimMarker
<1>8. CASE RereadMarker(r)
  <2>1. CASE marker[Env(r).key] # None
    BY <1>1, <1>2, <1>4, <1>8, <2>1, RequestStep DEF RereadMarker
  <2>2. CASE marker[Env(r).key] = None
    <3>1. TablesTyped'
      BY <1>1, <1>8 DEF RereadMarker, dbVars, TablesTyped
    <3>. QED  BY <1>1, <1>2, <1>5, <1>8, <2>2, <3>1, RequestStep DEF RereadMarker
  <2>. QED  BY <2>1, <2>2
<1>. QED  BY <1>6, <1>7, <1>8

(* Which states settings and side effects lead to.                          *)
LEMMA SideEffectStates ==
    ASSUME NEW r \in Requests, NEW row
    PROVE  /\ SideEffect(r) \in {"apply", "notice", "fanout"}
           /\ AfterSettings(r, row) \in {"store", "apply", "notice", "fanout"}
  BY DEF SideEffect, AfterSettings

LEMMA SettingsTypeInv ==
    ASSUME TypeInv, NEW r \in Requests,
           ReadSettings(r) \/ FillSettings(r) \/ Store(r)
    PROVE  TypeInv'
<1>1. /\ TypeOK /\ RowsKnown /\ WaitsWell(r)
      /\ RequestsTyped /\ TablesTyped /\ TopicsTyped /\ faults \in 0..MaxFaults
  BY TypeParts DEF TypeInv, Waiting
<1>2. TopicOf(r) \in Topics /\ IdOf(r) \in Ids /\ Home[r] \in Instances
  BY <1>1, WorkType
<1>3. RowsEver(TopicOf(r)) \subseteq TopicRows
  BY <1>2, RowsEverTyped
<1>4. CASE ReadSettings(r)
  <2>1. TablesTyped' /\ TopicsTyped' /\ (faults \in 0..MaxFaults)' /\ RowsKnown'
    BY <1>1, <1>4
    DEF ReadSettings, TablesTyped, TopicsTyped, RowsKnown, RowsEver, dbVars, topicVars
  <2>2. PICK label \in {"fill", "store", "apply", "notice", "fanout"} : Goto(r, label)
    BY <1>4, SideEffectStates DEF ReadSettings
  <2>3. rows[TopicOf(r)] \in RowsEver(TopicOf(r))
    BY <1>1, <1>2 DEF RowsKnown
  <2>4. RequestsTyped'
    BY <1>1, <1>3, <1>4, <2>2, <2>3 DEF ReadSettings, Goto, RequestsTyped, Active
  <2>5. pc'[r] = "fill" => snap'[r] = rows[TopicOf(r)]
    BY <1>1, <1>4, SideEffectStates DEF ReadSettings, Goto, RequestsTyped
  <2>6. WaitsWell(r)'
    BY <1>1, <1>4, <2>2, <2>3, <2>5
    DEF ReadSettings, Goto, RequestsTyped, WaitsWell, TopicOf, Nested, Env, RowsEver
  <2>7. OthersWait(r)
    BY <1>1, <1>4, <2>2 DEF ReadSettings, Goto, RequestsTyped, OthersWait
  <2>. QED  BY <2>1, <2>4, <2>6, <2>7, RequestStep
<1>5. CASE FillSettings(r)
  <2>1. TablesTyped' /\ (faults \in 0..MaxFaults)'
    BY <1>1, <1>5 DEF FillSettings, TablesTyped, dbVars
  <2>2. snap[r] \in RowsEver(TopicOf(r))
    BY <1>1, <1>5 DEF FillSettings, WaitsWell
  <2>3. cache' = [cache EXCEPT ![Home[r]][TopicOf(r)] = snap[r]]
    BY <1>5 DEF FillSettings, CacheRow
  <2>4. TopicsTyped'
    BY <1>1, <1>2, <1>3, <1>5, <2>2, <2>3 DEF FillSettings, TopicsTyped
  <2>5. RowsKnown'
    BY <1>1, <1>2, <1>5, <2>2, <2>3 DEF FillSettings, TopicsTyped, RowsKnown, RowsEver
  <2>6. PICK label \in {"store", "apply", "notice", "fanout"} : Goto(r, label)
    BY <1>5, SideEffectStates DEF FillSettings
  <2>7. RequestsTyped'
    BY <1>1, <1>5, <2>6 DEF FillSettings, Goto, RequestsTyped, Active
  <2>8. WaitsWell(r)' /\ OthersWait(r)
    BY <1>1, <1>5, <2>6 DEF FillSettings, Goto, RequestsTyped, WaitsWell, OthersWait
  <2>. QED  BY <2>1, <2>4, <2>5, <2>7, <2>8, RequestStep
<1>6. CASE Store(r)
  <2>1. TablesTyped' /\ TopicsTyped' /\ (faults \in 0..MaxFaults)' /\ RowsKnown'
    BY <1>1, <1>2, <1>6
    DEF Store, TablesTyped, TopicsTyped, RowsKnown, RowsEver, topicVars
  <2>2. PICK label \in {"apply", "notice", "fanout"} : Goto(r, label)
    BY <1>6, SideEffectStates DEF Store
  <2>3. RequestsTyped' /\ WaitsWell(r)' /\ OthersWait(r)
    BY <1>1, <1>6, <2>2 DEF Store, Goto, RequestsTyped, WaitsWell, OthersWait, Active
  <2>. QED  BY <2>1, <2>3, RequestStep
<1>. QED  BY <1>4, <1>5, <1>6

LEMMA ApplyTaskTyped ==
    ASSUME NEW row \in Drafts, NEW status \in Statuses
    PROVE  ApplyTask(row, status) \in Drafts
  BY DEF ApplyTask, Drafts

LEMMA SideEffectTypeInv ==
    ASSUME TypeInv, NEW r \in Requests, ReadTask(r) \/ SaveTask(r) \/ Notify(r)
    PROVE  TypeInv'
<1>1. /\ TypeOK /\ RowsKnown
      /\ RequestsTyped /\ TablesTyped /\ TopicsTyped /\ faults \in 0..MaxFaults
  BY TypeParts DEF TypeInv, Waiting
<1>2. TopicsTyped' /\ (faults \in 0..MaxFaults)' /\ RowsKnown'
  BY <1>1
  DEF ReadTask, SaveTask, Notify, TopicsTyped, RowsKnown, RowsEver, topicVars
<1>3. CASE ReadTask(r)
  <2>1. TablesTyped'
    BY <1>1, <1>3 DEF ReadTask, TablesTyped, dbVars
  <2>2. task \in Drafts \cup {None}
    BY <1>1 DEF TablesTyped
  <2>3. RequestsTyped' /\ WaitsWell(r)' /\ OthersWait(r)
    BY <1>1, <1>3, <2>2 DEF ReadTask, Goto, RequestsTyped, WaitsWell, OthersWait, Active
  <2>. QED  BY <1>2, <2>1, <2>3, RequestStep
<1>4. CASE SaveTask(r)
  <2>1. Env(r).status \in Statuses
    BY <1>1, WorkType DEF Envelopes
  <2>2. NewTask \in Drafts
    BY DEF NewTask, Drafts, Statuses
  <2>3. draft[r] \in Drafts \cup {None}
    BY <1>1 DEF RequestsTyped
  <2>4. task' \in Drafts \cup {None}
    BY <1>1, <1>4, <2>1, <2>2, <2>3, ApplyTaskTyped DEF SaveTask, TablesTyped
  <2>5. TablesTyped'
    BY <1>1, <1>4, <2>4 DEF SaveTask, TablesTyped
  <2>6. RequestsTyped' /\ WaitsWell(r)' /\ OthersWait(r)
    BY <1>1, <1>4 DEF SaveTask, Goto, RequestsTyped, WaitsWell, OthersWait, Active
  <2>. QED  BY <1>2, <2>5, <2>6, RequestStep
<1>5. CASE Notify(r)
  <2>1. TablesTyped'
    BY <1>1, <1>5, WorkType DEF Notify, TablesTyped
  <2>2. RequestsTyped' /\ WaitsWell(r)' /\ OthersWait(r)
    BY <1>1, <1>5 DEF Notify, Goto, RequestsTyped, WaitsWell, OthersWait, Active
  <2>. QED  BY <1>2, <2>1, <2>2, RequestStep
<1>. QED  BY <1>3, <1>4, <1>5

(* What is typed about the control of the requests after a step of r that   *)
(* moves on with the loop over the copies: the parts Accept, AfterFanout    *)
(* and Propagate determine.                                                *)
LoopMoves(r) ==
    /\ pc' \in [Requests -> Active \cup Ended \cup {"idle"}]
    /\ at' \in [Requests -> Nat]
    /\ \A q \in Requests : at'[q] \in 1..Len(Batch[q])
    /\ hop' \in [Requests -> Seq(Topics)]
    /\ answers' \in [Requests -> Seq([id : Ids, key : Keys \cup {NoKey},
                                      dup : BOOLEAN])]
    /\ pc'[r] \in {"dedupe", "settings", "route", "done"}
    /\ pc'[r] = "dedupe" => Batch[r][at'[r]].key \in Keys
    /\ pc'[r] \in {"dedupe", "route"} => hop'[r] = <<>>
    /\ \A q \in Requests \ {r} :
          /\ pc'[q] = pc[q] /\ at'[q] = at[q] /\ hop'[q] = hop[q]
          /\ answers'[q] = answers[q]

LEMMA AcceptLoops ==
    ASSUME TypeOK, NEW r \in Requests, NEW id \in Ids, NEW dup \in BOOLEAN,
           Accept(r, id, dup)
    PROVE  LoopMoves(r)
  BY AcceptMoves DEF LoopMoves

LEMMA AfterFanoutMoves ==
    ASSUME TypeOK, NEW r \in Requests, AfterFanout(r)
    PROVE  LoopMoves(r)
<1>1. CASE Nested(r) /\ Len(hop[r]) > 1
  <2>1. hop[r] \in Seq(Topics) /\ Tail(hop[r]) \in Seq(Topics)
    BY <1>1 DEF TypeOK, Nested
  <2>2. /\ hop' = [hop EXCEPT ![r] = Tail(hop[r])]
        /\ pc' = [pc EXCEPT ![r] = "settings"]
        /\ UNCHANGED <<at, answers>>
    BY <1>1 DEF AfterFanout, NextCopy, Goto
  <2>. QED  BY <2>1, <2>2 DEF TypeOK, LoopMoves, Active
<1>2. CASE Nested(r) /\ ~(Len(hop[r]) > 1)
  BY <1>2, WorkType, AcceptLoops DEF AfterFanout, NextCopy
<1>3. CASE ~Nested(r)
  <2>1. pc' = [pc EXCEPT ![r] = "route"] /\ UNCHANGED <<at, hop, answers>>
    BY <1>3 DEF AfterFanout, Goto
  <2>. QED  BY <1>3, <2>1 DEF TypeOK, LoopMoves, Nested, Active
<1>. QED  BY <1>1, <1>2, <1>3

LEMMA PropagateMoves ==
    ASSUME TypeOK, NEW r \in Requests, NEW targets \in Seq(Topics),
           Propagate(r, targets)
    PROVE  LoopMoves(r)
<1>1. CASE targets = <<>>
  BY <1>1, WorkType, AcceptLoops DEF Propagate
<1>2. CASE targets # <<>>
  <2>1. /\ hop' = [hop EXCEPT ![r] = targets]
        /\ pc' = [pc EXCEPT ![r] = "settings"]
        /\ UNCHANGED <<at, answers>>
    BY <1>2 DEF Propagate, Goto
  <2>. QED  BY <2>1 DEF TypeOK, LoopMoves, Active
<1>. QED  BY <1>1, <1>2

LEMMA LoopStep ==
    ASSUME TypeInv, NEW r \in Requests, LoopMoves(r),
           snap' \in [Requests -> TopicRows \cup {None}],
           draft' \in [Requests -> Drafts \cup {None}],
           \A q \in Requests \ {r} : snap'[q] = snap[q] /\ draft'[q] = draft[q],
           TablesTyped', TopicsTyped', (faults \in 0..MaxFaults)', RowsKnown'
    PROVE  TypeInv'
<1>1. RequestsTyped'
  BY DEF LoopMoves, RequestsTyped
<1>2. OthersWait(r)
  BY DEF LoopMoves, OthersWait
<1>3. WaitsWell(r)'
  BY DEF LoopMoves, WaitsWell, Env
<1>. QED  BY <1>1, <1>2, <1>3, RequestStep

LEMMA FanoutTypeInv ==
    ASSUME TypeInv, NEW r \in Requests, Fanout(r)
    PROVE  TypeInv'
<1>1. /\ TypeOK /\ RowsKnown /\ RequestsTyped /\ TablesTyped /\ TopicsTyped
      /\ faults \in 0..MaxFaults
  BY TypeParts DEF TypeInv
<1>2. /\ TablesTyped' /\ TopicsTyped' /\ (faults \in 0..MaxFaults)' /\ RowsKnown'
  BY <1>1, WorkType DEF Fanout, TablesTyped, TopicsTyped, RowsKnown, RowsEver, topicVars
<1>3. LoopMoves(r)
  BY <1>1, AfterFanoutMoves DEF Fanout
<1>. QED  BY <1>1, <1>2, <1>3, LoopStep DEF Fanout, RequestsTyped

LEMMA RouteTypeInv ==
    ASSUME TypeInv, NEW r \in Requests, ReadTargets(r) \/ FillTargets(r)
    PROVE  TypeInv'
<1>1. /\ TypeOK /\ RowsKnown /\ RequestsTyped /\ TablesTyped /\ TopicsTyped
      /\ faults \in 0..MaxFaults /\ WaitsWell(r)
  BY TypeParts DEF TypeInv, Waiting
<1>2. TopicOf(r) \in Topics /\ Home[r] \in Instances
  BY <1>1, WorkType
<1>3. RowsEver(TopicOf(r)) \subseteq TopicRows
  BY <1>2, RowsEverTyped
<1>4. TablesTyped' /\ (faults \in 0..MaxFaults)'
  BY <1>1 DEF ReadTargets, FillTargets, TablesTyped, dbVars
<1>5. CASE ReadTargets(r)
  <2>1. TopicsTyped' /\ RowsKnown'
    BY <1>1, <1>5 DEF ReadTargets, TopicsTyped, RowsKnown, RowsEver, topicVars
  <2>2. CASE CacheOf(r)[TopicOf(r)] # None
    <3>1. CacheOf(r)[TopicOf(r)] \in TopicRows
      BY <1>1, <1>2, <2>2 DEF CacheOf, TopicsTyped
    <3>2. CacheOf(r)[TopicOf(r)].targets \in Seq(Topics)
      BY <3>1 DEF TopicRows
    <3>3. LoopMoves(r)
      BY <1>1, <1>5, <2>2, <3>2, PropagateMoves DEF ReadTargets
    <3>. QED  BY <1>1, <1>4, <1>5, <2>1, <2>2, <3>3, LoopStep DEF ReadTargets, RequestsTyped
  <2>3. CASE CacheOf(r)[TopicOf(r)] = None
    <3>1. /\ snap' = [snap EXCEPT ![r] = rows[TopicOf(r)]]
          /\ pc' = [pc EXCEPT ![r] = "refill"]
          /\ UNCHANGED <<at, hop, answers, draft>>
      BY <1>5, <2>3 DEF ReadTargets, Goto
    <3>2. rows[TopicOf(r)] \in RowsEver(TopicOf(r))
      BY <1>1, <1>2 DEF RowsKnown
    <3>3. RequestsTyped' /\ OthersWait(r)
      BY <1>1, <1>3, <3>1, <3>2 DEF RequestsTyped, OthersWait, Active
    <3>4. WaitsWell(r)'
      BY <1>1, <1>5, <3>1, <3>2
      DEF ReadTargets, RequestsTyped, WaitsWell, TopicOf, Nested, Env, RowsEver
    <3>. QED  BY <1>4, <2>1, <3>3, <3>4, RequestStep
  <2>. QED  BY <2>2, <2>3
<1>6. CASE FillTargets(r)
  <2>1. snap[r] \in RowsEver(TopicOf(r)) /\ snap[r] \in TopicRows
    BY <1>1, <1>3, <1>6 DEF FillTargets, WaitsWell
  <2>2. cache' = [cache EXCEPT ![Home[r]][TopicOf(r)] = snap[r]]
    BY <1>6 DEF FillTargets, CacheRow
  <2>3. TopicsTyped'
    BY <1>1, <1>2, <1>6, <2>1, <2>2 DEF FillTargets, TopicsTyped
  <2>4. RowsKnown'
    BY <1>1, <1>2, <1>6, <2>1, <2>2 DEF FillTargets, TopicsTyped, RowsKnown, RowsEver
  <2>5. snap[r].targets \in Seq(Topics)
    BY <2>1 DEF TopicRows
  <2>6. LoopMoves(r)
    BY <1>1, <1>6, <2>5, PropagateMoves DEF FillTargets
  <2>. QED  BY <1>1, <1>4, <1>6, <2>3, <2>4, <2>6, LoopStep DEF FillTargets, RequestsTyped
<1>. QED  BY <1>5, <1>6

LEMMA StartTypeInv ==
    ASSUME TypeInv, NEW r \in Requests, Start(r)
    PROVE  TypeInv'
<1>1. /\ TypeOK /\ RowsKnown /\ RequestsTyped /\ TablesTyped /\ TopicsTyped
      /\ faults \in 0..MaxFaults
  BY TypeParts DEF TypeInv
<1>2. /\ TablesTyped' /\ TopicsTyped' /\ (faults \in 0..MaxFaults)' /\ RowsKnown'
  BY <1>1
  DEF Start, TablesTyped, TopicsTyped, RowsKnown, RowsEver, dbVars, topicVars
<1>3. /\ at[r] = 1 /\ hop[r] = <<>>
      /\ UNCHANGED <<at, hop, snap, draft, answers>>
  BY DEF Start, TypeInv, Waiting, WaitsWell
<1>4. PICK label \in {"dedupe", "settings"} :
         /\ Goto(r, label)
         /\ label = "dedupe" => Env(r).key \in Keys
  <2>1. Env(r) \in Envelopes
    BY <1>1, WorkType
  <2>2. Goto(r, Entry(Env(r)))
    BY <1>3 DEF Start, Env
  <2>. QED  BY <2>1, <2>2 DEF Entry, Envelopes
<1>5. RequestsTyped' /\ OthersWait(r)
  BY <1>1, <1>3, <1>4 DEF Goto, RequestsTyped, OthersWait, Active
<1>6. WaitsWell(r)'
  BY <1>1, <1>3, <1>4 DEF Goto, RequestsTyped, WaitsWell, Env
<1>. QED  BY <1>2, <1>5, <1>6, RequestStep

LEMMA FaultTypeInv ==
    ASSUME TypeInv, NEW r \in Requests, DatabaseError(r) \/ SwallowedError(r)
    PROVE  TypeInv'
<1>1. /\ TypeOK /\ RowsKnown /\ RequestsTyped /\ TablesTyped /\ TopicsTyped
      /\ faults \in 0..MaxFaults
  BY TypeParts DEF TypeInv
<1>2. /\ TablesTyped' /\ TopicsTyped' /\ RowsKnown'
  BY <1>1
  DEF DatabaseError, SwallowedError, TablesTyped, TopicsTyped, RowsKnown, RowsEver,
      dbVars, topicVars
<1>3. (faults \in 0..MaxFaults)'
  <2>1. faults < MaxFaults /\ faults' = faults + 1
    BY DEF DatabaseError, SwallowedError, Fault
  <2>. QED  BY <1>1, <2>1, IngestAssumption
<1>4. ASSUME NEW label \in {"failed", "fanout"}, Goto(r, label),
             UNCHANGED <<at, hop, answers, snap>>,
             draft' \in [Requests -> Drafts \cup {None}],
             \A q \in Requests \ {r} : draft'[q] = draft[q]
      PROVE  TypeInv'
  <2>1. RequestsTyped' /\ WaitsWell(r)' /\ OthersWait(r)
    BY <1>1, <1>4
    DEF Goto, RequestsTyped, WaitsWell, OthersWait, Active, Ended
  <2>. QED  BY <1>2, <1>3, <2>1, RequestStep
<1>5. CASE DatabaseError(r)
  <2>1. CASE Nested(r)
    <3>1. LoopMoves(r)
      BY <1>1, <1>5, <2>1, WorkType, AcceptLoops DEF DatabaseError
    <3>. QED  BY <1>1, <1>2, <1>3, <1>5, <3>1, LoopStep DEF DatabaseError, RequestsTyped
  <2>2. CASE ~Nested(r)
    BY <1>1, <1>4, <1>5, <2>2 DEF DatabaseError, RequestsTyped
  <2>. QED  BY <2>1, <2>2
<1>6. CASE SwallowedError(r)
  <2>1. /\ draft' \in [Requests -> Drafts \cup {None}]
        /\ \A q \in Requests \ {r} : draft'[q] = draft[q]
        /\ snap' = snap
    BY <1>1, <1>6 DEF SwallowedError, RequestsTyped
  <2>2. CASE AfterFanout(r)
    <3>1. LoopMoves(r)
      BY <1>1, <2>2, AfterFanoutMoves
    <3>. QED  BY <1>1, <1>2, <1>3, <2>1, <3>1, LoopStep DEF RequestsTyped
  <2>3. CASE ~AfterFanout(r)
    BY <1>4, <1>6, <2>1, <2>3 DEF SwallowedError
  <2>. QED  BY <2>2, <2>3
<1>. QED  BY <1>5, <1>6

LEMMA CrashTypeInv ==
    ASSUME TypeInv, NEW i \in Instances, Crash(i)
    PROVE  TypeInv'
<1>1. /\ TypeOK /\ RowsKnown /\ Waiting /\ RequestsTyped /\ TablesTyped /\ TopicsTyped
      /\ faults \in 0..MaxFaults
  BY TypeParts DEF TypeInv
<1>2. TablesTyped' /\ TopicsTyped' /\ RowsKnown'
  BY <1>1 DEF Crash, TablesTyped, TopicsTyped, RowsKnown, RowsEver, dbVars
<1>3. (faults \in 0..MaxFaults)'
  BY <1>1, IngestAssumption DEF Crash, Fault
<1>4. RequestsTyped'
  BY <1>1 DEF Crash, RequestsTyped, Ended
<1>5. ASSUME NEW q \in Requests PROVE WaitsWell(q)'
  <2>1. WaitsWell(q) /\ pc'[q] \in {"lost", pc[q]}
    BY <1>1 DEF Crash, Waiting
  <2>2. UNCHANGED <<at, hop, snap>>
    BY DEF Crash
  <2>. QED  BY <2>1, <2>2 DEF WaitsWell, Env, TopicOf, Nested, RowsEver
<1>. QED  BY <1>2, <1>3, <1>4, <1>5, TypeParts DEF TypeInv, Waiting, TypeOK,
             RequestsTyped, TablesTyped, TopicsTyped

LEMMA OperatorTypeInv ==
    ASSUME TypeInv,
           \/ \E i \in Instances : UpsertTopic(i) \/ InvalidateCache(i)
           \/ \E k \in Keys : SweepIdempotency(k)
    PROVE  TypeInv'
<1>1. /\ TypeOK /\ RowsKnown /\ Waiting /\ RequestsTyped /\ TablesTyped /\ TopicsTyped
      /\ faults \in 0..MaxFaults
  BY TypeParts DEF TypeInv
<1>2. UNCHANGED <<reqVars, faults>>
  BY DEF UpsertTopic, InvalidateCache, SweepIdempotency
<1>3. RequestsTyped' /\ (faults \in 0..MaxFaults)'
  BY <1>1, <1>2 DEF RequestsTyped, reqVars
<1>4. Waiting'
  BY <1>1, <1>2 DEF Waiting, WaitsWell, Env, TopicOf, Nested, RowsEver, reqVars
<1>5. TablesTyped'
  BY <1>1 DEF UpsertTopic, InvalidateCache, SweepIdempotency, TablesTyped, dbVars
<1>6. TopicsTyped' /\ RowsKnown'
  <2>1. CASE \E i \in Instances : UpsertTopic(i)
    <3>1. PICK i \in Instances, e \in edits :
             /\ rows' = [rows EXCEPT ![e.topic] = e.row]
             /\ edits' = edits \ {e} /\ saved' = saved \cup {i}
             /\ cache' = cache
      BY <2>1 DEF UpsertTopic
    <3>2. e \in Edits /\ e \in [topic : Topics, row : TopicRows]
      BY <1>1, IngestAssumption DEF TopicsTyped
    <3>3. e.topic \in Topics /\ e.row \in TopicRows
      BY <3>2
    <3>4. e.row \in RowsEver(e.topic)
      BY <3>2 DEF RowsEver
    <3>5. TopicsTyped'
      BY <1>1, <3>1, <3>3 DEF TopicsTyped
    <3>6. RowsKnown'
      BY <1>1, <3>1, <3>3, <3>4 DEF TopicsTyped, RowsKnown, RowsEver
    <3>. QED  BY <3>5, <3>6
  <2>2. CASE \E i \in Instances : InvalidateCache(i)
    BY <1>1, <2>2 DEF InvalidateCache, TopicsTyped, RowsKnown, RowsEver
  <2>3. CASE \E k \in Keys : SweepIdempotency(k)
    BY <1>1, <2>3 DEF SweepIdempotency, TopicsTyped, RowsKnown, RowsEver, topicVars
  <2>. QED  BY <2>1, <2>2, <2>3
<1>. QED  BY <1>3, <1>4, <1>5, <1>6, TypeParts DEF TypeInv, TypeOK,
             RequestsTyped, TablesTyped, TopicsTyped

LEMMA NextTypeInv == TypeInv /\ [Next]_vars => TypeInv'
<1>. SUFFICES ASSUME TypeInv, [Next]_vars PROVE TypeInv'
  OBVIOUS
<1>1. ASSUME NEW r \in Requests, Step(r) PROVE TypeInv'
  BY <1>1, DedupeTypeInv, SettingsTypeInv, SideEffectTypeInv, FanoutTypeInv, RouteTypeInv
  DEF Step
<1>2. CASE UNCHANGED vars
  BY <1>2
  DEF TypeInv, TypeOK, Waiting, WaitsWell, RowsKnown, RowsEver, Env, TopicOf, Nested,
      vars, reqVars, dbVars, topicVars
<1>. QED
  BY <1>1, <1>2, StartTypeInv, FaultTypeInv, CrashTypeInv, OperatorTypeInv DEF Next

(* Type correctness: requests, tables and caches keep their shape, for any  *)
(* instance (ingest.py).                                                   *)
THEOREM IngestTypes == Spec => []TypeOK
<1>1. TypeInv => TypeOK
  BY DEF TypeInv
<1>. QED  BY <1>1, InitTypeInv, NextTypeInv, PTL DEF Spec

-----------------------------------------------------------------------------
(***************************************************************************)
(* Idempotency.  A request past _dedupe owns the marker of its key, until   *)
(* the marker is swept; a request that lost the race finds one.            *)
(***************************************************************************)
Working == {"settings", "fill", "store", "apply", "save", "notice", "fanout",
            "route", "refill"}

\* The promise about key k still holds.
Bound(k) == k # NoKey /\ k \notin expired

KeyOwned(r) ==
    /\ (pc[r] \in Working /\ Bound(Env(r).key)) =>
          marker[Env(r).key] = RootOf(IdOf(r))
    /\ (pc[r] = "reread" /\ Bound(Env(r).key)) => marker[Env(r).key] # None

Owned == \A r \in Requests : KeyOwned(r)

\* While the promise holds, the owner of a key does not change.
OwnersStay ==
    \A k \in Keys : k \notin expired' =>
       /\ k \notin expired
       /\ marker[k] # None => marker'[k] = marker[k]

LEMMA RootAt ==
    ASSUME TypeOK, NEW r \in Requests
    PROVE  /\ RootOf(IdOf(r)) = <<r, at[r], Batch[r][at[r]].topic>>
           /\ hop[r] = <<>> => IdOf(r) = RootOf(IdOf(r))
           /\ RootOf(IdOf(r)) # None
           /\ Env(r).key \in Keys \cup {NoKey}
  BY WorkType, NoneAssumption DEF IdOf, TopicOf, Nested, Env, Envelopes

LEMMA StepOwnersStay ==
    ASSUME TypeInv, [Next]_vars
    PROVE  OwnersStay
<1>1. ASSUME UNCHANGED <<marker, expired>> PROVE OwnersStay
  BY <1>1 DEF OwnersStay
<1>2. ASSUME NEW r \in Requests, ClaimMarker(r) PROVE OwnersStay
  BY <1>2 DEF ClaimMarker, OwnersStay, TypeInv, TypeOK
<1>3. ASSUME NEW k \in Keys, SweepIdempotency(k) PROVE OwnersStay
  BY <1>3 DEF SweepIdempotency, OwnersStay, TypeInv, TypeOK
<1>4. ASSUME NEW r \in Requests, Start(r) \/ DatabaseError(r) \/ SwallowedError(r)
      PROVE  OwnersStay
  BY <1>1, <1>4 DEF Start, DatabaseError, SwallowedError, dbVars
<1>5. ASSUME NEW r \in Requests, Step(r) PROVE OwnersStay
  BY <1>1, <1>2, <1>5
  DEF Step, GetMarker, RereadMarker, ReadSettings, FillSettings, Store,
      ReadTask, SaveTask, Notify, Fanout, ReadTargets, FillTargets, dbVars
<1>6. ASSUME NEW i \in Instances, Crash(i) \/ UpsertTopic(i) \/ InvalidateCache(i)
      PROVE  OwnersStay
  BY <1>1, <1>6 DEF Crash, UpsertTopic, InvalidateCache, dbVars
<1>7. CASE UNCHANGED vars
  BY <1>1, <1>7 DEF vars, dbVars
<1>. QED  BY <1>3, <1>4, <1>5, <1>6, <1>7 DEF Next

(* A request that does not move keeps its key.                              *)
LEMMA OthersOwned ==
    ASSUME TypeInv, OwnersStay, NEW q \in Requests, KeyOwned(q),
           pc'[q] \in {pc[q], "lost", "done", "failed"},
           at'[q] = at[q], hop'[q] = hop[q]
    PROVE  KeyOwned(q)'
<1>1. Env(q)' = Env(q) /\ IdOf(q)' = IdOf(q) /\ RootOf(IdOf(q))' = RootOf(IdOf(q))
  BY DEF Env, IdOf, TopicOf, Nested, RootOf
<1>2. Env(q).key \in Keys \cup {NoKey} /\ RootOf(IdOf(q)) # None
  BY RootAt DEF TypeInv
<1>3. Bound(Env(q).key)' => Bound(Env(q).key) /\ Env(q).key \in Keys
  BY <1>1, <1>2 DEF Bound, OwnersStay
<1>4. ASSUME Bound(Env(q).key)' PROVE
         marker[Env(q).key] # None => marker'[Env(q).key] = marker[Env(q).key]
  BY <1>1, <1>3, <1>4 DEF Bound, OwnersStay
<1>5. ASSUME pc'[q] \in Working \cup {"reread"} PROVE pc'[q] = pc[q]
  BY <1>5 DEF Working
<1>. QED  BY <1>1, <1>2, <1>3, <1>4, <1>5 DEF KeyOwned, Working

-----------------------------------------------------------------------------
(***************************************************************************)
(* The steps of the pipeline as steps of IdempotentPublish.                 *)
(***************************************************************************)

\* Nothing the promise speaks of changes.
Unseen == UNCHANGED <<marker, expired, Visible, answers>>

LEMMA UnseenStep ==
    ASSUME Unseen
    PROVE  [Promise!Next]_(Promise!vars)
  BY DEF Unseen, Promise!vars

\* The event in hand becomes visible.
LEMMA ShowStep ==
    ASSUME TypeInv, NEW r \in Requests, KeyOwned(r), pc[r] \in Working,
           Visible' = Visible \cup {IdOf(r)},
           UNCHANGED <<marker, expired, answers>>
    PROVE  Promise!Next
<1>1. IdOf(r) \in Ids /\ KeyOf(IdOf(r)) = Env(r).key
  BY WorkType DEF TypeInv
<1>2. Promise!Entitled(IdOf(r))
  BY <1>1 DEF KeyOwned, Bound, Promise!Entitled
<1>. QED  BY <1>1, <1>2 DEF Promise!Next, Promise!Show, Promise!Reveal

\* An answer is appended, perhaps as the last copy becomes visible.
LEMMA AnswerStep ==
    ASSUME TypeInv, NEW r \in Requests, NEW id \in Ids, NEW dup \in BOOLEAN,
           Bound(Env(r).key) => marker[Env(r).key] = id,
           answers' = [answers EXCEPT ![r] =
                         Append(@, [id |-> id, key |-> Env(r).key, dup |-> dup])],
           UNCHANGED <<marker, expired>>,
           \/ Visible' = Visible
           \/ KeyOwned(r) /\ pc[r] \in Working /\ Visible' = Visible \cup {IdOf(r)}
    PROVE  Promise!Next
<1>1. /\ IdOf(r) \in Ids /\ KeyOf(IdOf(r)) = Env(r).key
      /\ Env(r).key \in Keys \cup {NoKey}
  BY WorkType, RootAt DEF TypeInv
<1>2. Visible' = Visible \/ \E shown \in Ids : Promise!Reveal(shown)
  <2>1. ASSUME KeyOwned(r), pc[r] \in Working, Visible' = Visible \cup {IdOf(r)}
        PROVE  Promise!Reveal(IdOf(r))
    BY <1>1, <2>1 DEF KeyOwned, Bound, Promise!Entitled, Promise!Reveal
  <2>. QED  BY <1>1, <2>1
<1>3. Promise!Answer(r, Env(r).key, id)
  BY <1>2 DEF Bound, Promise!Answer
<1>. QED  BY <1>1, <1>3 DEF Promise!Next

\* What a step of request r has to show.
Keeps(r) == KeyOwned(r)' /\ [Promise!Next]_(Promise!vars)

LEMMA AcceptOwned ==
    ASSUME TypeInv, NEW r \in Requests, NEW id \in Ids, NEW dup \in BOOLEAN,
           Accept(r, id, dup)
    PROVE  KeyOwned(r)'
<1>1. /\ pc'[r] \in {"dedupe", "settings", "done"}
      /\ pc'[r] = "settings" => Batch[r][at'[r]].key = NoKey
  BY AcceptMoves DEF TypeInv
<1>. QED  BY <1>1 DEF KeyOwned, Working, Bound, Env

LEMMA AcceptAnswers ==
    ASSUME NEW r \in Requests, NEW id, NEW dup, Accept(r, id, dup)
    PROVE  answers' = [answers EXCEPT ![r] =
                         Append(@, [id |-> id, key |-> Env(r).key, dup |-> dup])]
  BY DEF Accept

\* Moving on with the same envelope keeps its key and its root.
LEMMA SameEnvelope ==
    ASSUME TypeInv, NEW r \in Requests, KeyOwned(r), pc[r] \in Working,
           pc'[r] \in Working, at'[r] = at[r], UNCHANGED <<marker, expired>>
    PROVE  KeyOwned(r)'
<1>1. /\ Env(r)' = Env(r)
      /\ RootOf(IdOf(r)) = <<r, at[r], Batch[r][at[r]].topic>>
      /\ RootOf(IdOf(r))' = <<r, at[r], Batch[r][at[r]].topic>>
  BY RootAt DEF TypeInv, Env, IdOf, RootOf
<1>. QED  BY <1>1 DEF KeyOwned, Working, Bound

LEMMA DedupeKeeps ==
    ASSUME TypeInv, NEW r \in Requests, KeyOwned(r),
           GetMarker(r) \/ ClaimMarker(r) \/ RereadMarker(r)
    PROVE  Keeps(r)
<1>1. /\ Env(r).key \in Keys /\ hop[r] = <<>>
      /\ IdOf(r) = RootOf(IdOf(r)) /\ IdOf(r) # None /\ IdOf(r) \in Ids
      /\ KeyOf(IdOf(r)) = Env(r).key
      /\ RootOf(IdOf(r)) = <<r, at[r], Batch[r][at[r]].topic>>
  BY RootAt, WorkType
  DEF TypeInv, Waiting, WaitsWell, GetMarker, ClaimMarker, RereadMarker
<1>2. ASSUME marker[Env(r).key] # None, Accept(r, marker[Env(r).key], TRUE),
             UNCHANGED dbVars
      PROVE  Keeps(r)
  <2>1. marker[Env(r).key] \in Ids
    BY <1>1, <1>2 DEF TypeInv, TypeOK
  <2>2. UNCHANGED <<marker, expired, Visible>>
    BY <1>2 DEF dbVars, Visible
  <2>3. KeyOwned(r)'
    BY <1>2, <2>1, AcceptOwned
  <2>4. answers' = [answers EXCEPT ![r] =
                      Append(@, [id |-> marker[Env(r).key], key |-> Env(r).key,
                                 dup |-> TRUE])]
    BY <1>2, AcceptAnswers
  <2>5. Promise!Next
    BY <2>1, <2>2, <2>4, AnswerStep
  <2>. QED  BY <2>3, <2>5 DEF Keeps
<1>3. CASE GetMarker(r)
  <2>1. CASE marker[Env(r).key] # None
    BY <1>2, <1>3, <2>1 DEF GetMarker
  <2>2. CASE marker[Env(r).key] = None
    <3>1. Unseen /\ Goto(r, "claim")
      BY <1>3, <2>2 DEF GetMarker, Unseen, Visible, dbVars
    <3>2. KeyOwned(r)'
      BY <3>1 DEF Goto, KeyOwned, Working, TypeInv, TypeOK
    <3>. QED  BY <3>1, <3>2, UnseenStep DEF Keeps
  <2>. QED  BY <2>1, <2>2
<1>4. CASE ClaimMarker(r)
  <2>1. UNCHANGED <<expired, Visible, answers, at, hop>>
    BY <1>4 DEF ClaimMarker, Visible
  <2>2. /\ Env(r)' = Env(r)
        /\ RootOf(IdOf(r))' = RootOf(IdOf(r))
    BY <1>1, <2>1 DEF Env, IdOf, TopicOf, Nested, RootOf
  <2>3. CASE marker[Env(r).key] = None
    <3>1. /\ marker' = [marker EXCEPT ![Env(r).key] = IdOf(r)]
          /\ pc' = [pc EXCEPT ![r] = "settings"]
      BY <1>4, <2>3 DEF ClaimMarker, Goto
    <3>2. KeyOwned(r)'
      BY <1>1, <2>1, <2>2, <3>1 DEF KeyOwned, TypeInv, TypeOK
    <3>3. Promise!Claim(Env(r).key, IdOf(r))
      BY <1>1, <2>1, <2>3, <3>1 DEF Promise!Claim
    <3>. QED  BY <1>1, <3>2, <3>3 DEF Keeps, Promise!Next
  <2>4. CASE marker[Env(r).key] # None
    <3>1. Unseen /\ pc' = [pc EXCEPT ![r] = "reread"]
      BY <1>4, <2>1, <2>4 DEF ClaimMarker, Goto, Unseen
    <3>2. KeyOwned(r)'
      BY <2>2, <2>4, <3>1 DEF KeyOwned, Unseen, Working, TypeInv, TypeOK
    <3>. QED  BY <3>1, <3>2, UnseenStep DEF Keeps
  <2>. QED  BY <2>3, <2>4
<1>5. CASE RereadMarker(r)
  <2>1. CASE marker[Env(r).key] # None
    BY <1>2, <1>5, <2>1 DEF RereadMarker
  <2>2. CASE marker[Env(r).key] = None
    <3>1. Unseen /\ UNCHANGED <<at, hop>> /\ ~Bound(Env(r).key)
      BY <1>5, <2>2 DEF RereadMarker, KeyOwned, Unseen, Visible, dbVars
    <3>2. ~Bound(Env(r).key)'
      BY <3>1 DEF Env, Bound, Unseen
    <3>. QED  BY <3>1, <3>2, UnseenStep DEF Keeps, KeyOwned
  <2>. QED  BY <2>1, <2>2
<1>. QED  BY <1>3, <1>4, <1>5

LEMMA PersistKeeps ==
    ASSUME TypeInv, NEW r \in Requests, KeyOwned(r),
           \/ ReadSettings(r) \/ FillSettings(r) \/ Store(r)
           \/ ReadTask(r) \/ SaveTask(r) \/ Notify(r)
    PROVE  Keeps(r)
<1>1. /\ pc[r] \in Working /\ UNCHANGED <<marker, expired, at, answers>>
  BY DEF ReadSettings, FillSettings, Store, ReadTask, SaveTask, Notify, Working, dbVars
<1>2. PICK label \in Working : Goto(r, label)
  BY SideEffectStates
  DEF ReadSettings, FillSettings, Store, ReadTask, SaveTask, Notify, Working
<1>3. pc'[r] \in Working
  BY <1>2 DEF Goto, TypeInv, TypeOK
<1>4. KeyOwned(r)'
  BY <1>1, <1>3, SameEnvelope
<1>5. CASE Store(r)
  <2>1. Visible' = Visible \cup {IdOf(r)}
    BY <1>5 DEF Store, Visible
  <2>. QED  BY <1>1, <1>4, <2>1, ShowStep DEF Keeps
<1>6. CASE ~Store(r)
  <2>1. Unseen
    BY <1>1, <1>6
    DEF ReadSettings, FillSettings, ReadTask, SaveTask, Notify, Unseen, Visible, dbVars
  <2>. QED  BY <1>4, <2>1, UnseenStep DEF Keeps
<1>. QED  BY <1>5, <1>6

\* After the fan-out, successful or not.
LEMMA AfterFanoutKeeps ==
    ASSUME TypeInv, NEW r \in Requests, KeyOwned(r), pc[r] = "fanout",
           AfterFanout(r), UNCHANGED <<marker, expired>>,
           Visible' = Visible \/ Visible' = Visible \cup {IdOf(r)}
    PROVE  Keeps(r)
<1>1. pc[r] \in Working
  BY DEF Working
<1>2. CASE Nested(r) /\ ~(Len(hop[r]) > 1)
  <2>1. Accept(r, RootOf(IdOf(r)), FALSE) /\ RootOf(IdOf(r)) \in Ids
    BY <1>2, WorkType DEF AfterFanout, NextCopy, TypeInv
  <2>2. answers' = [answers EXCEPT ![r] =
                      Append(@, [id |-> RootOf(IdOf(r)), key |-> Env(r).key,
                                 dup |-> FALSE])]
    BY <2>1, AcceptAnswers
  <2>3. Bound(Env(r).key) => marker[Env(r).key] = RootOf(IdOf(r))
    BY <1>1 DEF KeyOwned
  <2>4. Promise!Next
    BY <1>1, <2>1, <2>2, <2>3, AnswerStep
  <2>5. KeyOwned(r)'
    BY <2>1, AcceptOwned
  <2>. QED  BY <2>4, <2>5 DEF Keeps
<1>3. CASE ~(Nested(r) /\ ~(Len(hop[r]) > 1))
  <2>1. /\ UNCHANGED <<at, answers>>
        /\ Goto(r, "settings") \/ Goto(r, "route")
    BY <1>3 DEF AfterFanout, NextCopy
  <2>2. pc'[r] \in Working
    BY <2>1 DEF Goto, Working, TypeInv, TypeOK
  <2>3. KeyOwned(r)'
    BY <1>1, <2>1, <2>2, SameEnvelope
  <2>4. CASE Visible' = Visible
    BY <2>1, <2>3, <2>4, UnseenStep DEF Keeps, Unseen
  <2>5. CASE Visible' = Visible \cup {IdOf(r)}
    BY <1>1, <2>1, <2>3, <2>5, ShowStep DEF Keeps
  <2>. QED  BY <2>4, <2>5
<1>. QED  BY <1>2, <1>3

LEMMA RouteKeeps ==
    ASSUME TypeInv, NEW r \in Requests, KeyOwned(r),
           ReadTargets(r) \/ FillTargets(r)
    PROVE  Keeps(r)
<1>1. /\ pc[r] \in Working /\ UNCHANGED <<marker, expired, Visible>>
      /\ hop[r] = <<>>
  BY DEF ReadTargets, FillTargets, Working, Visible, dbVars, TypeInv, Waiting, WaitsWell
<1>2. IdOf(r) \in Ids /\ IdOf(r) = RootOf(IdOf(r))
  BY <1>1, WorkType, RootAt DEF TypeInv
<1>3. ASSUME Accept(r, IdOf(r), FALSE) PROVE Keeps(r)
  <2>1. answers' = [answers EXCEPT ![r] =
                      Append(@, [id |-> IdOf(r), key |-> Env(r).key, dup |-> FALSE])]
    BY <1>3, AcceptAnswers
  <2>2. Bound(Env(r).key) => marker[Env(r).key] = IdOf(r)
    BY <1>1, <1>2 DEF KeyOwned
  <2>3. Promise!Next
    BY <1>1, <1>2, <2>1, <2>2, AnswerStep
  <2>4. KeyOwned(r)'
    BY <1>2, <1>3, AcceptOwned
  <2>. QED  BY <2>3, <2>4 DEF Keeps
<1>4. ASSUME UNCHANGED <<at, answers>>, Goto(r, "settings") \/ Goto(r, "refill")
      PROVE  Keeps(r)
  <2>1. pc'[r] \in Working
    BY <1>4 DEF Goto, Working, TypeInv, TypeOK
  <2>2. KeyOwned(r)'
    BY <1>1, <1>4, <2>1, SameEnvelope
  <2>. QED  BY <1>1, <1>4, <2>2, UnseenStep DEF Keeps, Unseen
<1>5. \/ Accept(r, IdOf(r), FALSE)
      \/ UNCHANGED <<at, answers>> /\ (Goto(r, "settings") \/ Goto(r, "refill"))
  BY DEF ReadTargets, FillTargets, Propagate
<1>. QED  BY <1>3, <1>4, <1>5

LEMMA FaultKeeps ==
    ASSUME TypeInv, NEW r \in Requests, KeyOwned(r),
           DatabaseError(r) \/ SwallowedError(r)
    PROVE  Keeps(r)
<1>1. UNCHANGED <<marker, expired, Visible>>
  BY DEF DatabaseError, SwallowedError, Visible, dbVars
<1>2. CASE DatabaseError(r)
  <2>1. CASE Nested(r)
    <3>1. Accept(r, RootOf(IdOf(r)), FALSE) /\ RootOf(IdOf(r)) \in Ids
      BY <1>2, <2>1, WorkType DEF DatabaseError, TypeInv
    <3>2. answers' = [answers EXCEPT ![r] =
                        Append(@, [id |-> RootOf(IdOf(r)), key |-> Env(r).key,
                                   dup |-> FALSE])]
      BY <3>1, AcceptAnswers
    <3>3. pc[r] \in Working
      BY <1>2, <2>1 DEF DatabaseError, Working, Nested, TypeInv, Waiting, WaitsWell
    <3>4. Bound(Env(r).key) => marker[Env(r).key] = RootOf(IdOf(r))
      BY <3>3 DEF KeyOwned
    <3>5. Promise!Next
      BY <1>1, <3>1, <3>2, <3>4, AnswerStep
    <3>6. KeyOwned(r)'
      BY <3>1, AcceptOwned
    <3>. QED  BY <3>5, <3>6 DEF Keeps
  <2>2. CASE ~Nested(r)
    <3>1. Goto(r, "failed") /\ Unseen
      BY <1>1, <1>2, <2>2 DEF DatabaseError, Unseen
    <3>2. KeyOwned(r)'
      BY <3>1 DEF Goto, KeyOwned, Working, TypeInv, TypeOK
    <3>. QED  BY <3>1, <3>2, UnseenStep DEF Keeps
  <2>. QED  BY <2>1, <2>2
<1>3. CASE SwallowedError(r)
  <2>1. CASE pc[r] = "fanout" /\ AfterFanout(r)
    BY <1>1, <2>1, AfterFanoutKeeps
  <2>2. CASE ~(pc[r] = "fanout" /\ AfterFanout(r))
    <3>1. /\ pc[r] \in Working /\ Goto(r, "fanout") /\ UNCHANGED <<at, answers>>
      BY <1>3, <2>2 DEF SwallowedError, Working
    <3>2. pc'[r] \in Working
      BY <3>1 DEF Goto, Working, TypeInv, TypeOK
    <3>3. KeyOwned(r)'
      BY <1>1, <3>1, <3>2, SameEnvelope
    <3>. QED  BY <1>1, <3>1, <3>3, UnseenStep DEF Keeps, Unseen
  <2>. QED  BY <2>1, <2>2
<1>. QED  BY <1>2, <1>3

LEMMA StartKeeps ==
    ASSUME TypeInv, NEW r \in Requests, Start(r)
    PROVE  Keeps(r)
<1>1. Unseen /\ at' = at /\ at[r] = 1
  BY DEF Start, Unseen, Visible, dbVars, TypeInv, Waiting, WaitsWell
<1>2. pc' = [pc EXCEPT ![r] = Entry(Env(r))]
  BY <1>1 DEF Start, Goto, Env
<1>3. /\ pc'[r] \in {"settings", "dedupe"}
      /\ pc'[r] = "settings" => Env(r).key = NoKey
  BY <1>2 DEF Entry, TypeInv, TypeOK
<1>4. KeyOwned(r)'
  BY <1>1, <1>3 DEF KeyOwned, Bound, Env, Working
<1>. QED  BY <1>1, <1>4, UnseenStep DEF Keeps

\* A step of one request: the lemmas above, and the other requests wait.
RequestMoves(r) ==
    Start(r) \/ Step(r) \/ DatabaseError(r) \/ SwallowedError(r)

LEMMA RequestKeeps ==
    ASSUME TypeInv, NEW r \in Requests, KeyOwned(r), RequestMoves(r)
    PROVE  Keeps(r)
<1>1. CASE Fanout(r)
  <2>1. /\ pc[r] = "fanout" /\ AfterFanout(r) /\ UNCHANGED <<marker, expired>>
        /\ Visible' = Visible \cup {IdOf(r)}
    BY <1>1 DEF Fanout, Visible
  <2>. QED  BY <2>1, AfterFanoutKeeps
<1>. QED
  BY <1>1, StartKeeps, FaultKeeps, DedupeKeeps, PersistKeeps, RouteKeeps
  DEF RequestMoves, Step

LEMMA MovesAlone ==
    ASSUME TypeInv, NEW r \in Requests, RequestMoves(r)
    PROVE  \A q \in Requests \ {r} : pc'[q] = pc[q] /\ at'[q] = at[q] /\ hop'[q] = hop[q]
<1>. DEFINE Alone == \A q \in Requests \ {r} :
                        pc'[q] = pc[q] /\ at'[q] = at[q] /\ hop'[q] = hop[q]
<1>1. TypeOK
  BY DEF TypeInv
<1>2. ASSUME NEW label, Goto(r, label), UNCHANGED <<at, hop>> PROVE Alone
  BY <1>1, <1>2 DEF Goto, TypeOK
<1>3. ASSUME NEW id, NEW dup, Accept(r, id, dup) PROVE Alone
  BY <1>1, <1>3 DEF Accept, Goto, TypeOK
<1>4. ASSUME AfterFanout(r) PROVE Alone
  BY <1>1, <1>4, AfterFanoutMoves DEF LoopMoves
<1>5. ASSUME NEW targets, Propagate(r, targets) PROVE Alone
  <2>1. CASE targets = <<>>
    BY <1>3, <1>5, <2>1 DEF Propagate
  <2>2. CASE targets # <<>>
    BY <1>1, <1>5, <2>2 DEF Propagate, Goto, TypeOK
  <2>. QED  BY <2>1, <2>2
<1>. HIDE DEF Alone
<1>6. ASSUME GetMarker(r) \/ ClaimMarker(r) \/ RereadMarker(r) PROVE Alone
  BY <1>2, <1>3, <1>6 DEF GetMarker, ClaimMarker, RereadMarker
<1>7. ASSUME \/ ReadSettings(r) \/ FillSettings(r) \/ Store(r)
             \/ ReadTask(r) \/ SaveTask(r) \/ Notify(r) \/ Start(r)
      PROVE  Alone
  BY <1>2, <1>7
  DEF ReadSettings, FillSettings, Store, ReadTask, SaveTask, Notify, Start
<1>8. ASSUME Fanout(r) \/ ReadTargets(r) \/ FillTargets(r) PROVE Alone
  BY <1>2, <1>4, <1>5, <1>8 DEF Fanout, ReadTargets, FillTargets
<1>9. ASSUME DatabaseError(r) \/ SwallowedError(r) PROVE Alone
  BY <1>2, <1>3, <1>4, <1>9 DEF DatabaseError, SwallowedError
<1>10. Alone
  BY <1>6, <1>7, <1>8, <1>9 DEF RequestMoves, Step
<1>. QED  BY <1>10 DEF Alone

LEMMA NextOwned ==
    ASSUME TypeInv, Owned, [Next]_vars
    PROVE  Owned' /\ [Promise!Next]_(Promise!vars)
<1>1. OwnersStay
  BY StepOwnersStay
<1>2. ASSUME NEW r \in Requests, RequestMoves(r)
      PROVE  Owned' /\ [Promise!Next]_(Promise!vars)
  <2>1. Keeps(r)
    BY <1>2, RequestKeeps DEF Owned
  <2>2. ASSUME NEW q \in Requests \ {r} PROVE KeyOwned(q)'
    BY <1>1, <1>2, <2>2, MovesAlone, OthersOwned DEF Owned
  <2>. QED  BY <2>1, <2>2 DEF Keeps, Owned
<1>3. ASSUME UNCHANGED <<at, hop>>,
             \A q \in Requests : pc'[q] \in {pc[q], "lost"}
      PROVE  Owned'
  BY <1>1, <1>3, OthersOwned DEF Owned
<1>4. ASSUME NEW i \in Instances, Crash(i)
      PROVE  Owned' /\ [Promise!Next]_(Promise!vars)
  <2>1. Unseen
    BY <1>4 DEF Crash, Unseen, Visible, dbVars
  <2>2. Owned'
    BY <1>3, <1>4 DEF Crash
  <2>. QED  BY <2>1, <2>2, UnseenStep
<1>5. ASSUME NEW i \in Instances, UpsertTopic(i) \/ InvalidateCache(i)
      PROVE  Owned' /\ [Promise!Next]_(Promise!vars)
  <2>1. Unseen
    BY <1>5 DEF UpsertTopic, InvalidateCache, Unseen, Visible, dbVars, reqVars
  <2>2. Owned'
    BY <1>3, <1>5 DEF UpsertTopic, InvalidateCache, reqVars
  <2>. QED  BY <2>1, <2>2, UnseenStep
<1>6. ASSUME NEW k \in Keys, SweepIdempotency(k)
      PROVE  Owned' /\ [Promise!Next]_(Promise!vars)
  <2>1. Promise!Expire(k)
    BY <1>6 DEF SweepIdempotency, Promise!Expire, Visible, reqVars
  <2>2. Owned'
    BY <1>3, <1>6 DEF SweepIdempotency, reqVars
  <2>. QED  BY <2>1, <2>2 DEF Promise!Next
<1>7. CASE UNCHANGED vars
  <2>1. Unseen
    BY <1>7 DEF vars, Unseen, Visible, dbVars, reqVars
  <2>2. Owned'
    BY <1>3, <1>7 DEF vars, reqVars
  <2>. QED  BY <2>1, <2>2, UnseenStep
<1>. QED  BY <1>2, <1>4, <1>5, <1>6, <1>7 DEF Next, RequestMoves

LEMMA InitOwned == Init => Owned /\ Promise!Init
  BY DEF Init, Owned, KeyOwned, Working, Promise!Init, Visible

(* The pipeline implements the promise of idempotent publishing: keys have  *)
(* one owner, nothing else under a key becomes visible, and every answer    *)
(* names the owner (docs/EVENT_MODEL.md, Idempotency).                     *)
THEOREM IngestImplementsPromise == Spec => ImplementsPromise
<1>1. Init => TypeInv /\ Owned /\ Promise!Init
  BY InitTypeInv, InitOwned
<1>2. TypeInv /\ Owned /\ [Next]_vars
         => TypeInv' /\ Owned' /\ [Promise!Next]_(Promise!vars)
  BY NextTypeInv, NextOwned
<1>. QED  BY <1>1, <1>2, PTL DEF Spec, ImplementsPromise, Promise!Spec

-----------------------------------------------------------------------------
(***************************************************************************)
(* What follows from the promise: while a key is bound, everything visible  *)
(* and every answer under it belongs to the owner of its marker.           *)
(***************************************************************************)
VisibleOwned ==
    \A id \in Visible : Bound(KeyOf(id)) => marker[KeyOf(id)] = RootOf(id)

AnswersOwned ==
    \A r \in Requests : \A j \in DOMAIN answers[r] :
       Bound(answers[r][j].key) => marker[answers[r][j].key] = answers[r][j].id

LEMMA VisibleType ==
    ASSUME TypeInv, NEW id \in Visible
    PROVE  id \in Ids /\ RootOf(id) # None /\ KeyOf(id) \in Keys \cup {NoKey}
<1>1. id \in Ids
  BY DEF TypeInv, TypeOK, Visible
<1>2. PICK r \in Requests : id \in {r} \X (DOMAIN Batch[r]) \X Topics
  BY <1>1 DEF Ids
<1>3. PICK n \in DOMAIN Batch[r], t \in Topics : id = <<r, n, t>>
  BY <1>2
<1>4. Batch[r][n] \in Envelopes
  BY IngestAssumption, EnvelopeAt
<1>. QED  BY <1>1, <1>3, <1>4, RootIsId, IdOfPosition DEF Envelopes

LEMMA AnswerType ==
    ASSUME TypeInv, NEW r \in Requests, NEW j \in DOMAIN answers[r]
    PROVE  /\ answers[r][j].id \in Ids /\ answers[r][j].id # None
           /\ answers[r][j].key \in Keys \cup {NoKey}
<1>. DEFINE Entries == [id : Ids, key : Keys \cup {NoKey}, dup : BOOLEAN]
            entry == answers[r][j]
<1>1. answers[r] \in Seq(Entries)
  BY DEF TypeInv, TypeOK
<1>2. entry \in Entries
  <2>. HIDE DEF Entries
  <2>. QED  BY <1>1
<1>. HIDE DEF entry
<1>3. entry.id \in Ids /\ entry.key \in Keys \cup {NoKey}
  BY <1>2
<1>. QED  BY <1>3, NoneAssumption DEF entry

LEMMA VisibleStaysOwned ==
    ASSUME TypeInv, OwnersStay, VisibleOwned, [Promise!Next]_(Promise!vars)
    PROVE  VisibleOwned'
<1>. SUFFICES ASSUME NEW id \in Visible', Bound(KeyOf(id))'
              PROVE  marker'[KeyOf(id)] = RootOf(id)
  BY DEF VisibleOwned, KeyOf, RootOf
<1>1. CASE id \in Visible
  <2>1. KeyOf(id) \in Keys /\ Bound(KeyOf(id)) /\ RootOf(id) # None
    BY <1>1, VisibleType DEF Bound, OwnersStay, KeyOf
  <2>2. marker[KeyOf(id)] = RootOf(id)
    BY <1>1, <2>1 DEF VisibleOwned
  <2>. QED  BY <2>1, <2>2 DEF OwnersStay, Bound, KeyOf
<1>2. CASE id \notin Visible
  <2>1. Promise!Reveal(id) /\ UNCHANGED <<marker, expired>>
    BY <1>2
    DEF Promise!Next, Promise!Show, Promise!Answer, Promise!Reveal, Promise!Claim,
        Promise!Expire, Promise!vars
  <2>. QED  BY <2>1 DEF Promise!Reveal, Promise!Entitled, Bound, KeyOf
<1>. QED  BY <1>1, <1>2

LEMMA AnswersStayOwned ==
    ASSUME TypeInv, OwnersStay, AnswersOwned, [Promise!Next]_(Promise!vars)
    PROVE  AnswersOwned'
<1>. SUFFICES ASSUME NEW r \in Requests, NEW j \in DOMAIN answers'[r],
                     Bound(answers[r][j].key)'
              PROVE  marker'[answers'[r][j].key] = answers'[r][j].id
  BY DEF AnswersOwned
<1>1. CASE j \in DOMAIN answers[r] /\ answers'[r][j] = answers[r][j]
  <2>1. /\ answers[r][j].key \in Keys /\ Bound(answers[r][j].key)
        /\ answers[r][j].id # None
    BY <1>1, AnswerType DEF Bound, OwnersStay
  <2>2. marker[answers[r][j].key] = answers[r][j].id
    BY <1>1, <2>1 DEF AnswersOwned
  <2>. QED  BY <1>1, <2>1, <2>2 DEF OwnersStay, Bound
<1>2. CASE ~(j \in DOMAIN answers[r] /\ answers'[r][j] = answers[r][j])
  <2>1. PICK q \in Requests, k \in Keys \cup {NoKey}, id \in Ids : Promise!Answer(q, k, id)
    BY <1>2
    DEF Promise!Next, Promise!Show, Promise!Reveal, Promise!Claim, Promise!Expire,
        Promise!vars
  <2>2. PICK dup \in BOOLEAN :
           answers' = [answers EXCEPT ![q] =
                         Append(@, [id |-> id, key |-> k, dup |-> dup])]
    BY <2>1 DEF Promise!Answer
  <2>3. /\ q = r /\ answers'[r] = Append(answers[r], [id |-> id, key |-> k, dup |-> dup])
        /\ answers[r] \in Seq([id : Ids, key : Keys \cup {NoKey}, dup : BOOLEAN])
    BY <1>2, <2>2 DEF TypeInv, TypeOK
  <2>4. answers'[r][j] = [id |-> id, key |-> k, dup |-> dup]
    BY <1>2, <2>3
  <2>. QED  BY <2>1, <2>4 DEF Promise!Answer, Bound
<1>. QED  BY <1>1, <1>2

KeyInv == TypeInv /\ Owned /\ VisibleOwned /\ AnswersOwned

LEMMA KeyInvariant == Spec => []KeyInv
<1>1. Init => KeyInv
  BY InitTypeInv, InitOwned DEF KeyInv, Init, VisibleOwned, AnswersOwned, Visible
<1>2. KeyInv /\ [Next]_vars => KeyInv'
  BY NextTypeInv, NextOwned, StepOwnersStay, VisibleStaysOwned, AnswersStayOwned
  DEF KeyInv
<1>. QED  BY <1>1, <1>2, PTL DEF Spec

(* docs/EVENT_MODEL.md, Idempotency: at most one event per key, whatever     *)
(* races, fails, crashes and is retried, on any number of instances.        *)
THEOREM IngestOneEventPerKey == Spec => []OneEventPerKey
<1>1. KeyInv => OneEventPerKey
  BY DEF KeyInv, VisibleOwned, OneEventPerKey, Bound
<1>. QED  BY <1>1, KeyInvariant, PTL

(* README, Idempotency: every answer to a key names the same event.          *)
THEOREM IngestAnswersAgree == Spec => []AnswersAgree
<1>1. ASSUME KeyInv PROVE AnswersAgree
  <2>. SUFFICES ASSUME NEW k \in Keys \ expired,
                       NEW a \in AnswersTo(k), NEW b \in AnswersTo(k)
                PROVE  a.id = b.id
    BY DEF AnswersAgree
  <2>1. Bound(k)
    BY IngestAssumption DEF Bound
  <2>2. ASSUME NEW c \in AnswersTo(k) PROVE marker[k] = c.id
    <3>1. PICK r \in Requests : \E j \in DOMAIN answers[r] : c = answers[r][j] /\ c.key = k
      BY <2>2 DEF AnswersTo
    <3>. QED  BY <1>1, <2>1, <3>1 DEF KeyInv, AnswersOwned
  <2>. QED  BY <2>2
<1>. QED  BY <1>1, KeyInvariant, PTL

-----------------------------------------------------------------------------
(***************************************************************************)
(* Persistence before fan-out, and one hop.  What a request is about to do  *)
(* with the event in hand is justified by a row its topic has had; the      *)
(* copies still to do are targets of the topic it was published to.        *)
(***************************************************************************)
MayPersist(t) == \E row \in RowsEver(t) : row.persist
MustPersist(t) == \A row \in RowsEver(t) : row.persist

Placed(r) ==
    /\ pc[r] = "store" => MayPersist(TopicOf(r))
    /\ (pc[r] \in {"apply", "save", "notice", "fanout"} /\ MustPersist(TopicOf(r)))
          => IdOf(r) \in events
    /\ \A j \in DOMAIN hop[r] : hop[r][j] \in TargetsEver(Env(r).topic)

AllPlaced == \A r \in Requests : Placed(r)

PlaceInv == TypeInv /\ AllPlaced /\ PersistenceFirst /\ OneHop

\* A request that waits, or ends, stays placed.
LEMMA StaysPlaced ==
    ASSUME NEW q \in Requests, Placed(q), events \subseteq events',
           pc'[q] \in {pc[q], "lost", "done", "failed"},
           at'[q] = at[q], hop'[q] = hop[q]
    PROVE  Placed(q)'
<1>1. Env(q)' = Env(q) /\ IdOf(q)' = IdOf(q) /\ TopicOf(q)' = TopicOf(q)
  BY DEF Env, IdOf, TopicOf, Nested
<1>. QED  BY <1>1 DEF Placed, MayPersist, MustPersist, RowsEver, TargetsEver

\* The event in hand is where an envelope or one of its targets belongs.
LEMMA OnTarget ==
    ASSUME TypeInv, NEW r \in Requests, Placed(r)
    PROVE  LET id == IdOf(r)
           IN  /\ id[3] = TopicOf(r)
               /\ id[3] # RootOf(id)[3] => id[3] \in TargetsEver(RootOf(id)[3])
<1>1. /\ RootOf(IdOf(r)) = <<r, at[r], Env(r).topic>>
      /\ hop[r] \in Seq(Topics)
  BY WorkType DEF TypeInv, TypeOK
<1>2. IdOf(r)[3] = TopicOf(r) /\ RootOf(IdOf(r))[3] = Env(r).topic
  BY <1>1 DEF IdOf
<1>3. hop[r] # <<>> => Head(hop[r]) \in TargetsEver(Env(r).topic)
  <2>. SUFFICES ASSUME hop[r] # <<>> PROVE Head(hop[r]) \in TargetsEver(Env(r).topic)
    OBVIOUS
  <2>1. 1 \in DOMAIN hop[r] /\ Head(hop[r]) = hop[r][1]
    BY <1>1
  <2>. QED  BY <2>1 DEF Placed
<1>. QED  BY <1>2, <1>3 DEF TopicOf, Nested

LEMMA AcceptPlaced ==
    ASSUME TypeInv, NEW r \in Requests, NEW id \in Ids, NEW dup \in BOOLEAN,
           Accept(r, id, dup)
    PROVE  Placed(r)'
<1>1. pc'[r] \in {"dedupe", "settings", "done"} /\ hop'[r] = <<>>
  BY AcceptMoves DEF TypeInv
<1>. QED  BY <1>1 DEF Placed

\* Moving on without touching the batch position or the copies.
LEMMA OnwardPlaced ==
    ASSUME TypeInv, NEW r \in Requests, Placed(r), NEW label, Goto(r, label),
           UNCHANGED <<at, hop>>,
           label = "store" => MayPersist(TopicOf(r)),
           (label \in {"apply", "save", "notice", "fanout"} /\ MustPersist(TopicOf(r)))
              => IdOf(r) \in events'
    PROVE  Placed(r)'
<1>1. /\ Env(r)' = Env(r) /\ IdOf(r)' = IdOf(r) /\ TopicOf(r)' = TopicOf(r)
      /\ pc'[r] = label
  BY DEF Env, IdOf, TopicOf, Nested, Goto, TypeInv, TypeOK
<1>. QED  BY <1>1 DEF Placed, MayPersist, MustPersist, RowsEver, TargetsEver

LEMMA SettingsPlaced ==
    ASSUME TypeInv, NEW r \in Requests, Placed(r), NEW row \in RowsEver(TopicOf(r)),
           Goto(r, AfterSettings(r, row)), UNCHANGED <<at, hop>>
    PROVE  Placed(r)'
<1>1. row \in TopicRows
  BY WorkType, RowsEverTyped DEF TypeInv
<1>2. row.persist \in BOOLEAN
  BY <1>1 DEF TopicRows
<1>3. AfterSettings(r, row) = "store" => MayPersist(TopicOf(r))
  BY <1>2, SideEffectStates DEF AfterSettings, MayPersist
<1>4. AfterSettings(r, row) # "store" => ~MustPersist(TopicOf(r))
  BY <1>2 DEF AfterSettings, MustPersist
<1>5. AfterSettings(r, row) \in {"store", "apply", "notice", "fanout"}
  BY SideEffectStates
<1>. QED  BY <1>3, <1>4, <1>5, OnwardPlaced

LEMMA AfterFanoutPlaced ==
    ASSUME TypeInv, NEW r \in Requests, Placed(r), AfterFanout(r)
    PROVE  Placed(r)'
<1>1. CASE Nested(r) /\ Len(hop[r]) > 1
  <2>1. /\ hop[r] \in Seq(Topics) /\ hop' = [hop EXCEPT ![r] = Tail(hop[r])]
        /\ Goto(r, "settings") /\ UNCHANGED at
    BY <1>1 DEF AfterFanout, NextCopy, TypeInv, TypeOK
  <2>2. pc'[r] = "settings" /\ hop'[r] = Tail(hop[r]) /\ Env(r)' = Env(r)
    BY <2>1 DEF Goto, Env, TypeInv, TypeOK
  <2>3. \A j \in DOMAIN Tail(hop[r]) :
           j + 1 \in DOMAIN hop[r] /\ Tail(hop[r])[j] = hop[r][j + 1]
    BY <1>1, <2>1, HeadTailProperties DEF Nested
  <2>. QED  BY <2>2, <2>3 DEF Placed, TargetsEver, RowsEver
<1>2. CASE Nested(r) /\ ~(Len(hop[r]) > 1)
  BY <1>2, WorkType, AcceptPlaced DEF AfterFanout, NextCopy, TypeInv
<1>3. CASE ~Nested(r)
  <2>1. Goto(r, "route") /\ UNCHANGED <<at, hop>>
    BY <1>3 DEF AfterFanout
  <2>. QED  BY <2>1, OnwardPlaced
<1>. QED  BY <1>1, <1>2, <1>3

LEMMA PropagatePlaced ==
    ASSUME TypeInv, NEW r \in Requests, hop[r] = <<>>,
           NEW row \in RowsEver(TopicOf(r)), Propagate(r, row.targets)
    PROVE  Placed(r)'
<1>1. CASE row.targets = <<>>
  BY <1>1, WorkType, AcceptPlaced DEF Propagate, TypeInv
<1>2. CASE row.targets # <<>>
  <2>1. pc'[r] = "settings" /\ hop'[r] = row.targets /\ Env(r)' = Env(r)
    BY <1>2 DEF Propagate, Goto, Env, TypeInv, TypeOK
  <2>2. TopicOf(r) = Env(r).topic
    BY DEF TopicOf, Nested
  <2>3. \A j \in DOMAIN row.targets : row.targets[j] \in TargetsEver(Env(r).topic)
    BY <2>2 DEF TargetsEver
  <2>. QED  BY <2>1, <2>3 DEF Placed, TargetsEver, RowsEver
<1>. QED  BY <1>1, <1>2

\* What a step of r has to show of the tables.
Justified(r) ==
    /\ \/ events' = events
       \/ events' = events \cup {IdOf(r)} /\ MayPersist(TopicOf(r))
    /\ \/ fanned' = fanned
       \/ /\ fanned' = fanned \cup {IdOf(r)}
          /\ MustPersist(TopicOf(r)) => IdOf(r) \in events

LEMMA PlaceStep ==
    ASSUME PlaceInv, TypeInv', NEW r \in Requests, RequestMoves(r),
           Placed(r)', Justified(r)
    PROVE  PlaceInv'
<1>1. events \subseteq events'
  BY DEF Justified
<1>2. ASSUME NEW q \in Requests \ {r} PROVE Placed(q)'
  BY <1>1, <1>2, MovesAlone, StaysPlaced DEF PlaceInv, AllPlaced
<1>3. AllPlaced'
  BY <1>2 DEF AllPlaced
<1>4. /\ IdOf(r)[3] = TopicOf(r)
      /\ IdOf(r)[3] # RootOf(IdOf(r))[3] => IdOf(r)[3] \in TargetsEver(RootOf(IdOf(r))[3])
  BY OnTarget DEF PlaceInv, AllPlaced
<1>5. OneHop'
  <2>1. Visible' \subseteq Visible \cup {IdOf(r)}
    BY DEF Visible, Justified
  <2>. QED  BY <1>4, <2>1 DEF PlaceInv, OneHop, TargetsEver, RowsEver, RootOf
<1>6. PersistenceFirst'
  <2>1. ASSUME NEW id \in fanned', \A row \in RowsEver(id[3]) : row.persist
        PROVE  id \in events'
    BY <1>1, <1>4, <2>1 DEF Justified, MustPersist, PlaceInv, PersistenceFirst
  <2>2. ASSUME NEW id \in events' PROVE \E row \in RowsEver(id[3]) : row.persist
    BY <1>4, <2>2 DEF Justified, MayPersist, PlaceInv, PersistenceFirst
  <2>. QED  BY <2>1, <2>2 DEF PersistenceFirst, RowsEver
<1>. QED  BY <1>3, <1>5, <1>6 DEF PlaceInv

LEMMA RequestPlaced ==
    ASSUME PlaceInv, NEW r \in Requests, RequestMoves(r)
    PROVE  Placed(r)' /\ Justified(r)
<1>1. /\ TypeInv /\ TypeOK /\ RowsKnown /\ WaitsWell(r) /\ Placed(r)
      /\ TopicOf(r) \in Topics /\ Home[r] \in Instances
  BY WorkType DEF PlaceInv, AllPlaced, TypeInv, Waiting
<1>2. rows[TopicOf(r)] \in RowsEver(TopicOf(r))
  BY <1>1 DEF RowsKnown
<1>3. CacheOf(r)[TopicOf(r)] # None => CacheOf(r)[TopicOf(r)] \in RowsEver(TopicOf(r))
  BY <1>1 DEF RowsKnown, CacheOf
<1>4. ASSUME UNCHANGED <<events, fanned>> PROVE Justified(r)
  BY <1>4 DEF Justified
<1>5. ASSUME GetMarker(r) \/ ClaimMarker(r) \/ RereadMarker(r)
      PROVE  Placed(r)' /\ Justified(r)
  <2>1. UNCHANGED <<events, fanned>>
    BY <1>5 DEF GetMarker, ClaimMarker, RereadMarker, dbVars
  <2>2. marker[Env(r).key] \in Ids \cup {None}
    BY <1>1, <1>5
    DEF TypeOK, WaitsWell, GetMarker, ClaimMarker, RereadMarker
  <2>3. \/ marker[Env(r).key] # None /\ Accept(r, marker[Env(r).key], TRUE)
        \/ \E label \in {"claim", "reread", "settings"} :
              Goto(r, label) /\ UNCHANGED <<at, hop>>
    BY <1>5 DEF GetMarker, ClaimMarker, RereadMarker
  <2>4. CASE marker[Env(r).key] # None /\ Accept(r, marker[Env(r).key], TRUE)
    BY <1>1, <1>4, <2>1, <2>2, <2>4, AcceptPlaced
  <2>5. CASE \E label \in {"claim", "reread", "settings"} :
                Goto(r, label) /\ UNCHANGED <<at, hop>>
    BY <1>1, <1>4, <2>1, <2>5, OnwardPlaced
  <2>. QED  BY <2>3, <2>4, <2>5
<1>6. ASSUME ReadSettings(r) PROVE Placed(r)' /\ Justified(r)
  <2>1. UNCHANGED <<events, fanned, at, hop>>
    BY <1>6 DEF ReadSettings, dbVars
  <2>2. CASE CacheOf(r)[TopicOf(r)] # None
    BY <1>1, <1>3, <1>4, <1>6, <2>1, <2>2, SettingsPlaced DEF ReadSettings
  <2>3. CASE CacheOf(r)[TopicOf(r)] = None
    <3>1. Goto(r, "fill")
      BY <1>6, <2>3 DEF ReadSettings
    <3>. QED  BY <1>1, <1>4, <2>1, <3>1, OnwardPlaced
  <2>. QED  BY <2>2, <2>3
<1>7. ASSUME FillSettings(r) PROVE Placed(r)' /\ Justified(r)
  <2>1. UNCHANGED <<events, fanned, at, hop>> /\ Goto(r, AfterSettings(r, snap[r]))
    BY <1>7 DEF FillSettings, dbVars
  <2>2. snap[r] \in RowsEver(TopicOf(r))
    BY <1>1, <1>7 DEF FillSettings, WaitsWell
  <2>. QED  BY <1>1, <1>4, <2>1, <2>2, SettingsPlaced
<1>8. ASSUME Store(r) PROVE Placed(r)' /\ Justified(r)
  <2>1. /\ events' = events \cup {IdOf(r)} /\ UNCHANGED <<at, hop, fanned>>
        /\ Goto(r, SideEffect(r)) /\ MayPersist(TopicOf(r))
    BY <1>1, <1>8 DEF Store, Placed
  <2>2. SideEffect(r) # "store"
    BY SideEffectStates
  <2>. QED  BY <1>1, <2>1, <2>2, OnwardPlaced DEF Justified
<1>9. ASSUME ReadTask(r) \/ SaveTask(r) \/ Notify(r) PROVE Placed(r)' /\ Justified(r)
  <2>1. /\ UNCHANGED <<events, fanned, at, hop>>
        /\ pc[r] \in {"apply", "save", "notice"}
        /\ \E label \in {"save", "fanout"} : Goto(r, label)
    BY <1>9 DEF ReadTask, SaveTask, Notify, dbVars
  <2>2. MustPersist(TopicOf(r)) => IdOf(r) \in events'
    BY <1>1, <2>1 DEF Placed
  <2>. QED  BY <1>1, <1>4, <2>1, <2>2, OnwardPlaced
<1>10. ASSUME Fanout(r) PROVE Placed(r)' /\ Justified(r)
  <2>1. /\ UNCHANGED events /\ fanned' = fanned \cup {IdOf(r)} /\ AfterFanout(r)
        /\ MustPersist(TopicOf(r)) => IdOf(r) \in events
    BY <1>1, <1>10 DEF Fanout, Placed
  <2>. QED  BY <1>1, <2>1, AfterFanoutPlaced DEF Justified
<1>11. ASSUME ReadTargets(r) \/ FillTargets(r) PROVE Placed(r)' /\ Justified(r)
  <2>1. UNCHANGED <<events, fanned>> /\ hop[r] = <<>>
    BY <1>1, <1>11 DEF ReadTargets, FillTargets, dbVars, WaitsWell
  <2>2. \/ \E row \in RowsEver(TopicOf(r)) : Propagate(r, row.targets)
        \/ Goto(r, "refill") /\ UNCHANGED <<at, hop>>
    BY <1>1, <1>3, <1>11 DEF ReadTargets, FillTargets, WaitsWell
  <2>3. CASE \E row \in RowsEver(TopicOf(r)) : Propagate(r, row.targets)
    BY <1>1, <1>4, <2>1, <2>3, PropagatePlaced
  <2>4. CASE Goto(r, "refill") /\ UNCHANGED <<at, hop>>
    BY <1>1, <1>4, <2>1, <2>4, OnwardPlaced
  <2>. QED  BY <2>2, <2>3, <2>4
<1>12. ASSUME Start(r) PROVE Placed(r)' /\ Justified(r)
  <2>1. /\ UNCHANGED <<events, fanned, at, hop>>
        /\ \E label \in {"dedupe", "settings"} : Goto(r, label)
    BY <1>12 DEF Start, Entry, dbVars
  <2>. QED  BY <1>1, <1>4, <2>1, OnwardPlaced
<1>13. ASSUME DatabaseError(r) PROVE Placed(r)' /\ Justified(r)
  <2>1. UNCHANGED <<events, fanned>>
    BY <1>13 DEF DatabaseError, dbVars
  <2>2. CASE Nested(r)
    BY <1>1, <1>4, <1>13, <2>1, <2>2, WorkType, AcceptPlaced DEF DatabaseError
  <2>3. CASE ~Nested(r)
    <3>1. Goto(r, "failed") /\ UNCHANGED <<at, hop>>
      BY <1>13, <2>3 DEF DatabaseError
    <3>. QED  BY <1>1, <1>4, <2>1, <3>1, OnwardPlaced
  <2>. QED  BY <2>2, <2>3
<1>14. ASSUME SwallowedError(r) PROVE Placed(r)' /\ Justified(r)
  <2>1. UNCHANGED <<events, fanned>>
    BY <1>14 DEF SwallowedError, dbVars
  <2>2. CASE AfterFanout(r)
    BY <1>1, <1>4, <2>1, <2>2, AfterFanoutPlaced
  <2>3. CASE ~AfterFanout(r)
    <3>1. /\ pc[r] \in {"apply", "save", "notice"}
          /\ Goto(r, "fanout") /\ UNCHANGED <<at, hop>>
      BY <1>14, <2>3 DEF SwallowedError
    <3>2. MustPersist(TopicOf(r)) => IdOf(r) \in events'
      BY <1>1, <2>1, <3>1 DEF Placed
    <3>. QED  BY <1>1, <1>4, <2>1, <3>1, <3>2, OnwardPlaced
  <2>. QED  BY <2>2, <2>3
<1>. QED
  BY <1>5, <1>6, <1>7, <1>8, <1>9, <1>10, <1>11, <1>12, <1>13, <1>14
  DEF RequestMoves, Step

LEMMA PlaceInvariant == Spec => []PlaceInv
<1>1. Init => PlaceInv
  <2>. SUFFICES ASSUME Init PROVE PlaceInv
    OBVIOUS
  <2>1. AllPlaced
    BY DEF Init, AllPlaced, Placed
  <2>2. PersistenceFirst /\ OneHop
    BY DEF Init, PersistenceFirst, OneHop, Visible
  <2>. QED  BY <2>1, <2>2, InitTypeInv DEF PlaceInv
<1>2. PlaceInv /\ [Next]_vars => PlaceInv'
  <2>. SUFFICES ASSUME PlaceInv, [Next]_vars PROVE PlaceInv'
    OBVIOUS
  <2>1. TypeInv'
    BY NextTypeInv DEF PlaceInv
  <2>2. ASSUME NEW r \in Requests, RequestMoves(r) PROVE PlaceInv'
    BY <2>1, <2>2, RequestPlaced, PlaceStep
  <2>3. CASE \/ \E i \in Instances : Crash(i) \/ UpsertTopic(i) \/ InvalidateCache(i)
             \/ \E k \in Keys : SweepIdempotency(k)
             \/ UNCHANGED vars
    <3>1. /\ UNCHANGED <<at, hop, events, fanned>>
          /\ \A q \in Requests : pc'[q] \in {pc[q], "lost"}
      BY <2>3
      DEF Crash, UpsertTopic, InvalidateCache, SweepIdempotency, vars, reqVars, dbVars
    <3>2. AllPlaced'
      BY <3>1, StaysPlaced DEF PlaceInv, AllPlaced
    <3>3. PersistenceFirst' /\ OneHop'
      BY <3>1
      DEF PlaceInv, PersistenceFirst, OneHop, Visible, RowsEver, TargetsEver, RootOf
    <3>. QED  BY <2>1, <3>2, <3>3 DEF PlaceInv
  <2>. QED  BY <2>2, <2>3 DEF Next, RequestMoves
<1>. QED  BY <1>1, <1>2, PTL DEF Spec

(* docs/PERFORMANCE.md, persistence before fan-out: no consumer sees an     *)
(* event of a persistent topic before it is in the store, whatever the      *)
(* topic caches hold (ingest.py:144-168).                                  *)
THEOREM IngestPersistenceFirst == Spec => []PersistenceFirst
<1>1. PlaceInv => PersistenceFirst
  BY DEF PlaceInv
<1>. QED  BY <1>1, PlaceInvariant, PTL

(* ingest.py:125-130: copies go one hop from the topic of the publish.       *)
THEOREM IngestOneHop == Spec => []OneHop
<1>1. PlaceInv => OneHop
  BY DEF PlaceInv
<1>. QED  BY <1>1, PlaceInvariant, PTL

-----------------------------------------------------------------------------
(***************************************************************************)
(* Task rows.  A row is saved whole from a row that was read whole, so it   *)
(* stays consistent with itself although updates overwrite each other.      *)
(***************************************************************************)
Consistent(row) == /\ row.finished <=> row.status \in Terminal
                   /\ row.finished => row.started

TaskInv ==
    /\ TypeInv
    /\ task # None => Consistent(task)
    /\ \A r \in Requests : draft[r] # None => Consistent(draft[r])

LEMMA ApplyTaskConsistent ==
    ASSUME NEW row \in Drafts, Consistent(row), NEW status \in Statuses
    PROVE  Consistent(ApplyTask(row, status))
  BY DEF Drafts, Consistent, ApplyTask

LEMMA TaskInvariant == Spec => []TaskInv
<1>1. Init => TaskInv
  BY InitTypeInv DEF Init, TaskInv
<1>2. TaskInv /\ [Next]_vars => TaskInv'
  <2>. SUFFICES ASSUME TaskInv, [Next]_vars PROVE TaskInv'
    OBVIOUS
  <2>1. TypeInv' /\ TypeOK
    BY NextTypeInv DEF TaskInv, TypeInv
  <2>2. ASSUME NEW r \in Requests, ReadTask(r) PROVE TaskInv'
    BY <2>1, <2>2 DEF ReadTask, TaskInv, TypeOK, dbVars
  <2>3. ASSUME NEW r \in Requests, SaveTask(r) PROVE TaskInv'
    <3>1. Env(r).status \in Statuses /\ draft[r] \in Drafts \cup {None}
      BY <2>1, WorkType DEF Envelopes, TypeOK
    <3>2. NewTask \in Drafts /\ Consistent(NewTask)
      BY DEF NewTask, Drafts, Statuses, Consistent, Terminal
    <3>3. task' = task \/ Consistent(task')
      BY <2>3, <3>1, <3>2, ApplyTaskConsistent DEF SaveTask, TaskInv
    <3>4. draft' = [draft EXCEPT ![r] = None]
      BY <2>3 DEF SaveTask
    <3>. QED  BY <2>1, <3>3, <3>4 DEF TaskInv, TypeOK
  <2>4. ASSUME task' = task, \A q \in Requests : draft'[q] \in {draft[q], None}
        PROVE  TaskInv'
    BY <2>1, <2>4 DEF TaskInv
  <2>5. ASSUME NEW r \in Requests, SwallowedError(r) PROVE TaskInv'
    BY <2>1, <2>4, <2>5 DEF SwallowedError, TypeOK, dbVars
  <2>6. ASSUME NEW r \in Requests,
               \/ GetMarker(r) \/ ClaimMarker(r) \/ RereadMarker(r)
               \/ ReadSettings(r) \/ FillSettings(r) \/ Store(r) \/ Notify(r)
               \/ Fanout(r) \/ ReadTargets(r) \/ FillTargets(r)
               \/ Start(r) \/ DatabaseError(r)
        PROVE  TaskInv'
    <3>1. UNCHANGED <<task, draft>>
      BY <2>6
      DEF GetMarker, ClaimMarker, RereadMarker, ReadSettings, FillSettings, Store,
          Notify, Fanout, ReadTargets, FillTargets, Start, DatabaseError, dbVars
    <3>. QED  BY <2>4, <3>1
  <2>7. CASE \/ \E i \in Instances : Crash(i) \/ UpsertTopic(i) \/ InvalidateCache(i)
             \/ \E k \in Keys : SweepIdempotency(k)
             \/ UNCHANGED vars
    <3>1. UNCHANGED <<task, draft>>
      BY <2>7
      DEF Crash, UpsertTopic, InvalidateCache, SweepIdempotency, vars, reqVars, dbVars
    <3>. QED  BY <2>4, <3>1
  <2>. QED  BY <2>2, <2>3, <2>5, <2>6, <2>7 DEF Next, Step
<1>. QED  BY <1>1, <1>2, PTL DEF Spec

(* database/models/task.py:60-104: whatever events of one task are applied  *)
(* at once, its row says finished exactly when its status is terminal, and  *)
(* then also started.                                                      *)
THEOREM IngestTaskRowConsistent == Spec => []TaskRowConsistent
<1>1. TaskInv => TaskRowConsistent
  BY DEF TaskInv, Consistent, TaskRowConsistent
<1>. QED  BY <1>1, TaskInvariant, PTL

-----------------------------------------------------------------------------
(***************************************************************************)
(* What is accepted has been delivered.  While no fault has happened, an    *)
(* event that waits for its targets has been fanned out, and of the targets *)
(* of a topic nobody edits each is still to do or has its copy.             *)
(***************************************************************************)
RootIn(r) == <<r, at[r], Env(r).topic>>

RootFanned(r) ==
    pc[r] \in {"route", "refill"} \/ Nested(r) => RootIn(r) \in fanned

CopiesFanned(r) ==
    Nested(r) /\ Unedited(Env(r).topic) =>
       \A t \in TargetsEver(Env(r).topic) :
          \/ <<r, at[r], t>> \in fanned
          \/ \E j \in DOMAIN hop[r] : hop[r][j] = t

AnswersPromised(r) ==
    \A j \in DOMAIN answers[r] : ~answers[r][j].dup => Promised(answers[r][j].id)

OnItsWay(r) == RootFanned(r) /\ CopiesFanned(r) /\ AnswersPromised(r)

DeliveryInv == TypeInv /\ (faults = 0 => \A r \in Requests : OnItsWay(r))

\* Deliveries are never taken back.
LEMMA StaysPromised ==
    ASSUME NEW id, Promised(id), fanned \subseteq fanned'
    PROVE  Promised(id)'
  BY DEF Promised, Unedited, TargetsEver, RowsEver

LEMMA StaysOnItsWay ==
    ASSUME NEW q \in Requests, OnItsWay(q), fanned \subseteq fanned',
           pc'[q] \in {pc[q], "lost"}, at'[q] = at[q], hop'[q] = hop[q],
           answers'[q] = answers[q]
    PROVE  OnItsWay(q)'
<1>1. RootIn(q)' = RootIn(q) /\ Env(q)' = Env(q) /\ Nested(q)' = Nested(q)
  BY DEF RootIn, Env, Nested
<1>2. RootFanned(q)'
  BY <1>1 DEF OnItsWay, RootFanned
<1>3. CopiesFanned(q)'
  BY <1>1 DEF OnItsWay, CopiesFanned, Unedited, TargetsEver, RowsEver
<1>4. AnswersPromised(q)'
  BY StaysPromised DEF OnItsWay, AnswersPromised
<1>. QED  BY <1>2, <1>3, <1>4 DEF OnItsWay

\* Moving on without touching the batch position, the copies or the answers.
LEMMA OnwardOnItsWay ==
    ASSUME TypeInv, NEW r \in Requests, OnItsWay(r), fanned \subseteq fanned',
           NEW label, Goto(r, label), UNCHANGED <<at, hop, answers>>,
           label \in {"route", "refill"} => RootIn(r) \in fanned'
    PROVE  OnItsWay(r)'
<1>1. /\ RootIn(r)' = RootIn(r) /\ Env(r)' = Env(r) /\ Nested(r)' = Nested(r)
      /\ pc'[r] = label
  BY DEF RootIn, Env, Nested, Goto, TypeInv, TypeOK
<1>2. RootFanned(r)'
  BY <1>1 DEF OnItsWay, RootFanned
<1>3. CopiesFanned(r)'
  BY <1>1 DEF OnItsWay, CopiesFanned, Unedited, TargetsEver, RowsEver
<1>4. AnswersPromised(r)'
  BY StaysPromised DEF OnItsWay, AnswersPromised
<1>. QED  BY <1>2, <1>3, <1>4 DEF OnItsWay

\* A first answer may be given once what it promises has been delivered.
LEMMA AcceptDelivers ==
    ASSUME TypeInv, NEW r \in Requests, OnItsWay(r), fanned \subseteq fanned',
           NEW id \in Ids, NEW dup \in BOOLEAN, Accept(r, id, dup),
           dup \/ Promised(id)'
    PROVE  OnItsWay(r)'
<1>1. /\ pc'[r] \in {"dedupe", "settings", "done"} /\ hop'[r] = <<>>
      /\ answers'[r] = Append(answers[r],
                              [id |-> id, key |-> Env(r).key, dup |-> dup])
      /\ answers[r] \in Seq([id : Ids, key : Keys \cup {NoKey}, dup : BOOLEAN])
  BY AcceptMoves DEF TypeInv, TypeOK
<1>2. RootFanned(r)' /\ CopiesFanned(r)'
  BY <1>1 DEF RootFanned, CopiesFanned, Nested
<1>3. PICK next : next = answers'[r]
  OBVIOUS
<1>4. ASSUME NEW j \in DOMAIN next, ~next[j].dup
      PROVE  Promised(next[j].id)'
  <2>1. \/ j \in DOMAIN answers[r] /\ next[j] = answers[r][j]
        \/ next[j] = [id |-> id, key |-> Env(r).key, dup |-> dup]
    BY <1>1, <1>3, <1>4
  <2>2. CASE j \in DOMAIN answers[r] /\ next[j] = answers[r][j]
    <3>1. Promised(next[j].id)
      BY <1>4, <2>2 DEF OnItsWay, AnswersPromised
    <3>. QED  BY <3>1, StaysPromised
  <2>3. CASE next[j] = [id |-> id, key |-> Env(r).key, dup |-> dup]
    <3>1. next[j].id = id /\ next[j].dup = dup
      BY <2>3
    <3>. QED  BY <1>4, <3>1
  <2>. QED  BY <2>1, <2>2, <2>3
<1>5. AnswersPromised(r)'
  BY <1>3, <1>4 DEF AnswersPromised
<1>. QED  BY <1>2, <1>5 DEF OnItsWay

\* The targets of a topic nobody edits are those of any row read for it.
LEMMA UneditedTargets ==
    ASSUME NEW t, Unedited(t), NEW row \in RowsEver(t)
    PROVE  TargetsEver(t) = {row.targets[j] : j \in DOMAIN row.targets}
<1>1. RowsEver(t) = {row}
  BY DEF Unedited
<1>. QED  BY <1>1 DEF TargetsEver

LEMMA PropagateDelivers ==
    ASSUME TypeInv, NEW r \in Requests, OnItsWay(r), UNCHANGED fanned,
           pc[r] \in {"route", "refill"}, hop[r] = <<>>,
           NEW row \in RowsEver(TopicOf(r)), Propagate(r, row.targets)
    PROVE  OnItsWay(r)'
<1>1. /\ TopicOf(r) = Env(r).topic /\ IdOf(r) = RootIn(r) /\ IdOf(r) \in Ids
      /\ RootIn(r) \in fanned /\ row.targets \in Seq(Topics)
  BY WorkType, RowsEverTyped
  DEF TopicOf, Nested, IdOf, RootIn, OnItsWay, RootFanned, TypeInv, TopicRows
<1>2. ASSUME Unedited(Env(r).topic), NEW t \in TargetsEver(Env(r).topic)
      PROVE  \E j \in DOMAIN row.targets : row.targets[j] = t
  BY <1>1, <1>2, UneditedTargets
<1>3. CASE row.targets = <<>>
  <2>1. Unedited(Env(r).topic) => TargetsEver(Env(r).topic) = {}
    BY <1>2, <1>3
  <2>2. Promised(RootIn(r))
    BY <1>1, <2>1 DEF Promised, RootIn
  <2>3. PICK id : id = RootIn(r)
    OBVIOUS
  <2>4. Promised(id)'
    BY <2>2, <2>3, StaysPromised
  <2>5. Accept(r, id, FALSE)
    BY <1>1, <1>3, <2>3 DEF Propagate
  <2>. QED  BY <1>1, <2>3, <2>4, <2>5, AcceptDelivers
<1>4. CASE row.targets # <<>>
  <2>1. /\ hop'[r] = row.targets /\ at'[r] = at[r] /\ answers'[r] = answers[r]
        /\ Env(r)' = Env(r) /\ RootIn(r)' = RootIn(r)
    BY <1>4 DEF Propagate, Goto, Env, RootIn, TypeInv, TypeOK
  <2>2. RootFanned(r)'
    BY <1>1, <2>1 DEF RootFanned
  <2>3. CopiesFanned(r)'
    BY <1>2, <2>1 DEF CopiesFanned, Unedited, TargetsEver, RowsEver
  <2>4. AnswersPromised(r)'
    BY <2>1, StaysPromised DEF OnItsWay, AnswersPromised
  <2>. QED  BY <2>2, <2>3, <2>4 DEF OnItsWay
<1>. QED  BY <1>3, <1>4

LEMMA FanoutDelivers ==
    ASSUME TypeInv, NEW r \in Requests, OnItsWay(r), Fanout(r)
    PROVE  OnItsWay(r)'
<1>1. /\ fanned' = fanned \cup {IdOf(r)} /\ AfterFanout(r)
      /\ TypeOK /\ hop[r] \in Seq(Topics)
      /\ IdOf(r) = <<r, at[r], TopicOf(r)>>
      /\ RootOf(IdOf(r)) = RootIn(r) /\ RootIn(r) \in Ids
  BY WorkType DEF Fanout, TypeInv, TypeOK, IdOf, RootIn
<1>2. CASE ~Nested(r)
  <2>1. TopicOf(r) = Env(r).topic /\ RootIn(r) \in fanned'
    BY <1>1, <1>2 DEF TopicOf, RootIn
  <2>. QED  BY <1>1, <1>2, <2>1, OnwardOnItsWay DEF AfterFanout
<1>3. ASSUME Nested(r), NEW t \in TargetsEver(Env(r).topic), Unedited(Env(r).topic)
      PROVE  \/ <<r, at[r], t>> \in fanned'
             \/ \E j \in 2..Len(hop[r]) : hop[r][j] = t
  <2>1. CASE <<r, at[r], t>> \in fanned
    BY <1>1, <2>1
  <2>2. CASE \E j \in DOMAIN hop[r] : hop[r][j] = t
    <3>1. PICK j \in 1..Len(hop[r]) : hop[r][j] = t
      BY <1>1, <2>2
    <3>2. CASE j = 1
      <4>1. Head(hop[r]) = t
        BY <1>1, <3>1, <3>2
      <4>2. IdOf(r) = <<r, at[r], t>>
        BY <1>1, <1>3, <4>1 DEF TopicOf
      <4>. QED  BY <1>1, <4>2
    <3>3. CASE j # 1
      <4>1. j \in 2..Len(hop[r])
        BY <1>1, <3>3
      <4>. QED  BY <3>1, <4>1
    <3>. QED  BY <3>2, <3>3
  <2>. QED  BY <1>3, <2>1, <2>2 DEF OnItsWay, CopiesFanned
<1>4. CASE Nested(r) /\ Len(hop[r]) > 1
  <2>1. /\ hop'[r] = Tail(hop[r]) /\ at'[r] = at[r] /\ answers'[r] = answers[r]
        /\ Env(r)' = Env(r) /\ RootIn(r)' = RootIn(r)
    BY <1>1, <1>4 DEF AfterFanout, NextCopy, Goto, Env, RootIn, TypeOK
  <2>2. \A j \in 2..Len(hop[r]) :
           j - 1 \in DOMAIN Tail(hop[r]) /\ Tail(hop[r])[j - 1] = hop[r][j]
    BY <1>1, <1>4
  <2>3. RootFanned(r)'
    BY <1>1, <1>4, <2>1 DEF OnItsWay, RootFanned
  <2>4. CopiesFanned(r)'
    BY <1>3, <1>4, <2>1, <2>2 DEF CopiesFanned, Unedited, TargetsEver, RowsEver
  <2>5. AnswersPromised(r)'
    BY <1>1, <2>1, StaysPromised DEF OnItsWay, AnswersPromised
  <2>. QED  BY <2>3, <2>4, <2>5 DEF OnItsWay
<1>5. CASE Nested(r) /\ ~(Len(hop[r]) > 1)
  <2>1. PICK id \in Ids : id = RootIn(r)
    BY <1>1
  <2>2. Accept(r, id, FALSE)
    BY <1>1, <1>5, <2>1 DEF AfterFanout, NextCopy
  <2>3. id \in fanned' /\ id[1] = r /\ id[2] = at[r] /\ id[3] = Env(r).topic
    BY <1>1, <1>5, <2>1 DEF OnItsWay, RootFanned, RootIn
  <2>4. 2..Len(hop[r]) = {}
    BY <1>1, <1>5
  <2>5. ASSUME Unedited(id[3]), NEW t \in TargetsEver(id[3])
        PROVE  <<id[1], id[2], t>> \in fanned'
    BY <1>3, <1>5, <2>3, <2>4, <2>5
  <2>6. Promised(id)'
    BY <2>3, <2>5 DEF Promised, Unedited, TargetsEver, RowsEver
  <2>. QED  BY <1>1, <2>2, <2>6, AcceptDelivers
<1>. QED  BY <1>2, <1>4, <1>5

LEMMA RequestDelivers ==
    ASSUME TypeInv, NEW r \in Requests, OnItsWay(r), Start(r) \/ Step(r)
    PROVE  OnItsWay(r)'
<1>1. /\ TypeOK /\ RowsKnown /\ WaitsWell(r)
      /\ TopicOf(r) \in Topics /\ Home[r] \in Instances
  BY WorkType DEF TypeInv, Waiting
<1>2. ASSUME GetMarker(r) \/ ClaimMarker(r) \/ RereadMarker(r) PROVE OnItsWay(r)'
  <2>1. UNCHANGED fanned
    BY <1>2 DEF GetMarker, ClaimMarker, RereadMarker, dbVars
  <2>2. marker[Env(r).key] \in Ids \cup {None}
    BY <1>1, <1>2 DEF TypeOK, WaitsWell, GetMarker, ClaimMarker, RereadMarker
  <2>3. CASE marker[Env(r).key] # None /\ Accept(r, marker[Env(r).key], TRUE)
    BY <1>1, <2>1, <2>2, <2>3, AcceptDelivers
  <2>4. CASE \E label \in {"claim", "reread", "settings"} :
                Goto(r, label) /\ UNCHANGED <<at, hop, answers>>
    BY <1>1, <2>1, <2>4, OnwardOnItsWay
  <2>. QED  BY <1>2, <2>3, <2>4 DEF GetMarker, ClaimMarker, RereadMarker
<1>3. ASSUME \/ Start(r) \/ ReadSettings(r) \/ FillSettings(r) \/ Store(r)
             \/ ReadTask(r) \/ SaveTask(r) \/ Notify(r)
      PROVE  OnItsWay(r)'
  <2>1. UNCHANGED <<fanned, at, hop, answers>>
    BY <1>3
    DEF Start, ReadSettings, FillSettings, Store, ReadTask, SaveTask, Notify, dbVars
  <2>2. \E label \in Active \ {"route", "refill"} : Goto(r, label)
    BY <1>3, SideEffectStates
    DEF Start, Entry, ReadSettings, FillSettings, Store, ReadTask, SaveTask, Notify,
        Active
  <2>. QED  BY <1>1, <2>1, <2>2, OnwardOnItsWay
<1>4. ASSUME Fanout(r) PROVE OnItsWay(r)'
  BY <1>4, FanoutDelivers
<1>5. ASSUME ReadTargets(r) \/ FillTargets(r) PROVE OnItsWay(r)'
  <2>1. /\ UNCHANGED fanned /\ hop[r] = <<>>
        /\ pc[r] \in {"route", "refill"} /\ RootIn(r) \in fanned
    BY <1>1, <1>5 DEF ReadTargets, FillTargets, dbVars, WaitsWell, OnItsWay, RootFanned
  <2>2. CacheOf(r)[TopicOf(r)] # None => CacheOf(r)[TopicOf(r)] \in RowsEver(TopicOf(r))
    BY <1>1 DEF RowsKnown, CacheOf
  <2>3. \/ \E row \in RowsEver(TopicOf(r)) : Propagate(r, row.targets)
        \/ Goto(r, "refill") /\ UNCHANGED <<at, hop, answers>>
    BY <1>1, <1>5, <2>2 DEF ReadTargets, FillTargets, WaitsWell
  <2>4. CASE \E row \in RowsEver(TopicOf(r)) : Propagate(r, row.targets)
    BY <2>1, <2>4, PropagateDelivers
  <2>5. CASE Goto(r, "refill") /\ UNCHANGED <<at, hop, answers>>
    BY <2>1, <2>5, OnwardOnItsWay
  <2>. QED  BY <2>3, <2>4, <2>5
<1>. QED  BY <1>2, <1>3, <1>4, <1>5 DEF Step

\* A step of r leaves the answers of the others alone.
LEMMA AnswersAlone ==
    ASSUME TypeInv, NEW r \in Requests, Start(r) \/ Step(r)
    PROVE  /\ \A q \in Requests \ {r} : answers'[q] = answers[q]
           /\ fanned \subseteq fanned'
<1>1. \/ UNCHANGED answers
      \/ \E id, dup : Accept(r, id, dup)
  BY DEF Start, Step, GetMarker, ClaimMarker, RereadMarker, ReadSettings,
         FillSettings, Store, ReadTask, SaveTask, Notify, Fanout, AfterFanout,
         NextCopy, ReadTargets, FillTargets, Propagate
<1>2. \A q \in Requests \ {r} : answers'[q] = answers[q]
  BY <1>1 DEF Accept, TypeInv, TypeOK
<1>3. fanned \subseteq fanned'
  BY DEF Start, Step, GetMarker, ClaimMarker, RereadMarker, ReadSettings,
         FillSettings, Store, ReadTask, SaveTask, Notify, Fanout, ReadTargets,
         FillTargets, dbVars
<1>. QED  BY <1>2, <1>3

LEMMA DeliveryInvariant == Spec => []DeliveryInv
<1>1. Init => DeliveryInv
  <2>. SUFFICES ASSUME Init PROVE DeliveryInv
    OBVIOUS
  <2>1. \A r \in Requests : OnItsWay(r)
    BY DEF Init, OnItsWay, RootFanned, CopiesFanned, AnswersPromised, Nested
  <2>. QED  BY <2>1, InitTypeInv DEF DeliveryInv
<1>2. DeliveryInv /\ [Next]_vars => DeliveryInv'
  <2>. SUFFICES ASSUME DeliveryInv, [Next]_vars PROVE DeliveryInv'
    OBVIOUS
  <2>1. TypeInv /\ TypeInv'
    BY NextTypeInv DEF DeliveryInv
  <2>2. ASSUME NEW r \in Requests, Start(r) \/ Step(r) PROVE DeliveryInv'
    <3>1. UNCHANGED faults
      BY <2>2 DEF Start, Step, GetMarker, ClaimMarker, RereadMarker, ReadSettings,
         FillSettings, Store, ReadTask, SaveTask, Notify, Fanout, ReadTargets,
         FillTargets
    <3>2. ASSUME faults = 0, NEW q \in Requests PROVE OnItsWay(q)'
      <4>1. OnItsWay(q)
        BY <3>2 DEF DeliveryInv
      <4>2. CASE q = r
        BY <2>1, <2>2, <4>1, <4>2, RequestDelivers
      <4>3. CASE q # r
        BY <2>1, <2>2, <4>1, <4>3, MovesAlone, AnswersAlone, StaysOnItsWay
        DEF RequestMoves
      <4>. QED  BY <4>2, <4>3
    <3>. QED  BY <2>1, <3>1, <3>2 DEF DeliveryInv
  <2>3. ASSUME \/ \E r \in Requests : DatabaseError(r) \/ SwallowedError(r)
               \/ \E i \in Instances : Crash(i)
        PROVE  DeliveryInv'
    <3>1. faults' = faults + 1
      BY <2>3 DEF DatabaseError, SwallowedError, Crash, Fault
    <3>2. faults \in 0..MaxFaults
      BY <2>1 DEF TypeInv, TypeOK
    <3>3. faults' # 0
      BY <3>1, <3>2, IngestAssumption
    <3>. QED  BY <2>1, <3>3 DEF DeliveryInv
  <2>4. CASE \/ \E i \in Instances : UpsertTopic(i) \/ InvalidateCache(i)
             \/ \E k \in Keys : SweepIdempotency(k)
             \/ UNCHANGED vars
    <3>1. UNCHANGED <<pc, at, hop, answers, fanned, faults>>
      BY <2>4
      DEF UpsertTopic, InvalidateCache, SweepIdempotency, vars, reqVars, dbVars
    <3>2. ASSUME NEW q \in Requests, OnItsWay(q) PROVE OnItsWay(q)'
      BY <3>1, <3>2, StaysOnItsWay
    <3>. QED  BY <2>1, <3>1, <3>2 DEF DeliveryInv
  <2>. QED  BY <2>2, <2>3, <2>4 DEF Next
<1>. QED  BY <1>1, <1>2, PTL DEF Spec

(* ingest.py:163-191: while nothing fails, an accepted envelope has been    *)
(* delivered with a copy to every target of its topic, whichever requests   *)
(* share the instance's topic cache.                                       *)
THEOREM IngestAcceptedIsDelivered == Spec => []AcceptedIsDelivered
<1>1. DeliveryInv => AcceptedIsDelivered
  BY DEF DeliveryInv, AcceptedIsDelivered, OnItsWay, AnswersPromised
<1>. QED  BY <1>1, DeliveryInvariant, PTL
=============================================================================
