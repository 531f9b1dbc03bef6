------------------------------- MODULE Ingest -------------------------------
(***************************************************************************)
(* app/services/ingest.py: validate, dedupe, persist, maintain the task    *)
(* and notification tables, fan out, propagate; with the handlers around   *)
(* it: publish_events (routes/api/v1.py), topics_upsert                    *)
(* (routes/api/control.py) and the idempotency sweeper (app/jobs.py).      *)
(*                                                                         *)
(* Each publish request is a coroutine of one server process (instance).   *)
(* Coroutines interleave where they await, so every database call is a     *)
(* step of its own, and what was read before it may be stale after it.     *)
(* The processes share the database; each has its own topic cache.         *)
(*                                                                         *)
(* A request handles its batch envelope by envelope.  While it processes   *)
(* the propagated copies of one envelope, hop holds the target topics      *)
(* still to do: the nested call of ingest with propagate = FALSE.          *)
(***************************************************************************)
EXTENDS Naturals, Sequences, FiniteSets

CONSTANTS Requests,    \* publish requests
          Instances,   \* server processes
          Topics,
          Keys,        \* (environment, producer, idempotency_key) triples
          NoKey,       \* an envelope without an idempotency key
          None,
          Home,        \* the instance that serves each request
          Batch,       \* the envelopes of each request
          InitRows,    \* the topic rows at the start
          Edits,       \* the saves operators may make: [topic, row]
          MaxFaults    \* bound on database errors, bus errors and crashes

(***************************************************************************)
(* A topic row is the part of it ingestion reads; targets is the           *)
(* propagate_to list with empty names, repetitions and the topic itself    *)
(* left out, as topics_upsert and _topic_settings do.                      *)
(***************************************************************************)
TopicRows == [persist : BOOLEAN, targets : Seq(Topics)]

Kinds == {"event", "task", "notification"}

\* domain/events.py TASK_STATES, the ones apply_event tells apart.
Terminal == {"completed", "failed", "revoked"}
Statuses == {"created", "started", "retrying"} \cup Terminal

Envelopes == [key : Keys \cup {NoKey}, topic : Topics, kind : Kinds,
              status : Statuses]

ASSUME IngestAssumption ==
    /\ NoKey \notin Keys
    /\ Home \in [Requests -> Instances]
    /\ Batch \in [Requests -> Seq(Envelopes)]
    /\ \A r \in Requests : Batch[r] # <<>>
    /\ InitRows \in [Topics -> TopicRows]
    /\ Edits \subseteq [topic : Topics, row : TopicRows]
    /\ MaxFaults \in Nat

\* An event id: the request and batch position it was minted for, and its
\* topic; a propagated copy gets a fresh id, so it differs in the topic.
Ids == UNION {{r} \X (DOMAIN Batch[r]) \X Topics : r \in Requests}

ASSUME NoneAssumption == None \notin Ids

KeyOf(id) == Batch[id[1]][id[2]].key
RootOf(id) == <<id[1], id[2], Batch[id[1]][id[2]].topic>>

VARIABLES pc,        \* where each request awaits
          at,        \* the batch position it works on
          hop,       \* propagation targets still to do for that position
          snap,      \* the topic row a query returned to it
          draft,     \* the task row it read and will save
          answers,   \* history: the Accepted entries of its response
          marker,    \* event_idempotency: key -> event id, or None
          expired,   \* history: keys whose marker was swept
          events,    \* the events table
          task,      \* one row of the tasks table, or None
          notices,   \* the notifications table: the events they came from
          fanned,    \* history: ids handed to the bus for local delivery
          rows,      \* the topics table
          cache,     \* _topic_cache of each instance; None is a miss
          saved,     \* instances where an upsert saved and has not yet invalidated
          edits,     \* operator saves still to come
          faults     \* faults injected so far

reqVars == <<pc, at, hop, snap, draft, answers>>
dbVars == <<marker, expired, events, task, notices, fanned>>
topicVars == <<rows, cache, saved, edits>>
vars == <<reqVars, dbVars, topicVars, faults>>

Env(r) == Batch[r][at[r]]
Nested(r) == hop[r] # <<>>
TopicOf(r) == IF Nested(r) THEN Head(hop[r]) ELSE Env(r).topic
IdOf(r) == <<r, at[r], TopicOf(r)>>
CacheOf(r) == cache[Home[r]]

\* _dedupe returns at once for an envelope without a key.
Entry(env) == IF env.key = NoKey THEN "settings" ELSE "dedupe"

\* Where an envelope goes once it is stored, or need not be.
SideEffect(r) == CASE Env(r).kind = "task" -> "apply"
                   [] Env(r).kind = "notification" -> "notice"
                   [] OTHER -> "fanout"

Active == {"dedupe", "claim", "reread", "settings", "fill", "store",
           "apply", "save", "notice", "fanout", "route", "refill"}
Ended == {"done", "failed", "lost"}

Goto(r, label) == pc' = [pc EXCEPT ![r] = label]

-----------------------------------------------------------------------------
Init == /\ pc = [r \in Requests |-> "idle"]
        /\ at = [r \in Requests |-> 1]
        /\ hop = [r \in Requests |-> <<>>]
        /\ snap = [r \in Requests |-> None]
        /\ draft = [r \in Requests |-> None]
        /\ answers = [r \in Requests |-> <<>>]
        /\ marker = [k \in Keys |-> None]
        /\ expired = {}
        /\ events = {}
        /\ task = None
        /\ notices = {}
        /\ fanned = {}
        /\ rows = InitRows
        /\ cache = [i \in Instances |-> [t \in Topics |-> None]]
        /\ saved = {}
        /\ edits = Edits
        /\ faults = 0

(***************************************************************************)
(* publish_events: the body is parsed and the batch enters the pipeline.   *)
(***************************************************************************)
Start(r) == /\ pc[r] = "idle"
            /\ Goto(r, Entry(Batch[r][1]))
            /\ UNCHANGED <<at, hop, snap, draft, answers, dbVars, topicVars, faults>>

(***************************************************************************)
(* One envelope is accounted for: its Accepted entry is appended and the   *)
(* loop goes on, or the response is sent.                                  *)
(***************************************************************************)
Accept(r, id, dup) ==
    /\ answers' = [answers EXCEPT ![r] =
                     Append(@, [id |-> id, key |-> Env(r).key, dup |-> dup])]
    /\ hop' = [hop EXCEPT ![r] = <<>>]
    /\ IF at[r] = Len(Batch[r])
       THEN Goto(r, "done") /\ UNCHANGED at
       ELSE /\ at' = [at EXCEPT ![r] = @ + 1]
            /\ Goto(r, Entry(Batch[r][at[r] + 1]))

-----------------------------------------------------------------------------
(* _dedupe: look the key up, claim it, or read the winner's marker.        *)

GetMarker(r) ==
    /\ pc[r] = "dedupe"
    /\ IF marker[Env(r).key] # None
       THEN Accept(r, marker[Env(r).key], TRUE)
       ELSE Goto(r, "claim") /\ UNCHANGED <<at, hop, answers>>
    /\ UNCHANGED <<snap, draft, dbVars, topicVars, faults>>

\* Mutants: no unique constraint; the fresh claim is taken for a repeat.
ClaimMarkerOverwrites(r) ==
    /\ pc[r] = "claim"
    /\ marker' = [marker EXCEPT ![Env(r).key] = IdOf(r)]
    /\ Goto(r, "settings")
    /\ UNCHANGED <<at, hop, snap, draft, answers, expired, events, task,
                   notices, fanned, topicVars, faults>>

ClaimMarkerAnswers(r) ==
    /\ pc[r] = "claim"
    /\ marker[Env(r).key] = None
    /\ marker' = [marker EXCEPT ![Env(r).key] = IdOf(r)]
    /\ Accept(r, IdOf(r), TRUE)
    /\ UNCHANGED <<snap, draft, expired, events, task, notices, fanned,
                   topicVars, faults>>

ClaimMarker(r) ==
    /\ pc[r] = "claim"
    /\ IF marker[Env(r).key] = None
       THEN /\ marker' = [marker EXCEPT ![Env(r).key] = IdOf(r)]
            /\ Goto(r, "settings")
       ELSE Goto(r, "reread") /\ UNCHANGED marker      \* IntegrityError
    /\ UNCHANGED <<at, hop, snap, draft, answers, expired, events, task,
                   notices, fanned, topicVars, faults>>

\* Mutant: the loser carries on.
RereadMarkerIgnored(r) ==
    /\ pc[r] = "reread"
    /\ Goto(r, "settings")
    /\ UNCHANGED <<at, hop, answers, snap, draft, dbVars, topicVars, faults>>

RereadMarker(r) ==
    /\ pc[r] = "reread"
    /\ IF marker[Env(r).key] # None
       THEN Accept(r, marker[Env(r).key], TRUE)
       ELSE Goto(r, "settings") /\ UNCHANGED <<at, hop, answers>>
    /\ UNCHANGED <<snap, draft, dbVars, topicVars, faults>>

-----------------------------------------------------------------------------
(* _topic_settings before the insert: a cached row decides at once; a miss *)
(* awaits the query, then fills the cache with what the query saw.         *)

\* Mutant: the event is fanned out without being stored.
AfterSettingsUnstored(r, row) == SideEffect(r)

AfterSettings(r, row) == IF row.persist THEN "store" ELSE SideEffect(r)

ReadSettings(r) ==
    /\ pc[r] = "settings"
    /\ IF CacheOf(r)[TopicOf(r)] # None
       THEN /\ Goto(r, AfterSettings(r, CacheOf(r)[TopicOf(r)]))
            /\ UNCHANGED snap
       ELSE /\ snap' = [snap EXCEPT ![r] = rows[TopicOf(r)]]
            /\ Goto(r, "fill")
    /\ UNCHANGED <<at, hop, draft, answers, dbVars, topicVars, faults>>

CacheRow(r) == cache' = [cache EXCEPT ![Home[r]][TopicOf(r)] = snap[r]]

FillSettings(r) ==
    /\ pc[r] = "fill"
    /\ CacheRow(r)
    /\ Goto(r, AfterSettings(r, snap[r]))
    /\ snap' = [snap EXCEPT ![r] = None]
    /\ UNCHANGED <<at, hop, draft, answers, dbVars, rows, saved, edits, faults>>

\* Event.create; ids are unique, so IntegrityError does not arise.
Store(r) ==
    /\ pc[r] = "store"
    /\ events' = events \cup {IdOf(r)}
    /\ Goto(r, SideEffect(r))
    /\ UNCHANGED <<at, hop, snap, draft, answers, marker, expired, task,
                   notices, fanned, topicVars, faults>>

-----------------------------------------------------------------------------
(* Task.apply_event and Notification.from_event; ingest swallows every     *)
(* exception they raise.                                                   *)

NewTask == [status |-> "created", started |-> FALSE, finished |-> FALSE,
            attempts |-> 0]

\* Mutant: a late event moves a terminal task backwards.
ApplyTaskBackwards(row, status) ==
    [status   |-> status,
     started  |-> row.started \/ status = "started" \/ status \in Terminal,
     finished |-> row.finished \/ status \in Terminal,
     attempts |-> row.attempts]

\* The row after an event of this status, from the row that was read.
ApplyTask(row, status) ==
    LET ends == status \in Terminal
    IN  [status   |-> IF row.status \in Terminal /\ ~ends
                      THEN row.status ELSE status,
         started  |-> row.started \/ status = "started" \/ ends,
         finished |-> row.finished \/ ends,
         attempts |-> IF status = "retrying" THEN row.attempts + 1
                                             ELSE row.attempts]

ReadTask(r) ==
    /\ pc[r] = "apply"
    /\ draft' = [draft EXCEPT ![r] = task]
    /\ Goto(r, "save")
    /\ UNCHANGED <<at, hop, snap, answers, dbVars, topicVars, faults>>

\* save() inserts a row that was read as missing and otherwise overwrites
\* every column; an insert that lost the race raises and is swallowed.
SaveTask(r) ==
    /\ pc[r] = "save"
    /\ IF draft[r] = None
       THEN IF task = None
            THEN task' = ApplyTask(NewTask, Env(r).status)
            ELSE UNCHANGED task
       ELSE task' = ApplyTask(draft[r], Env(r).status)
    /\ draft' = [draft EXCEPT ![r] = None]
    /\ Goto(r, "fanout")
    /\ UNCHANGED <<at, hop, snap, answers, marker, expired, events, notices,
                   fanned, topicVars, faults>>

Notify(r) ==
    /\ pc[r] = "notice"
    /\ notices' = notices \cup {IdOf(r)}
    /\ Goto(r, "fanout")
    /\ UNCHANGED <<at, hop, snap, draft, answers, marker, expired, events,
                   task, fanned, topicVars, faults>>

-----------------------------------------------------------------------------
(* Fan-out, and the loop over the propagation targets.                     *)

\* After a copy is published: the next copy, or the envelope is accepted.
NextCopy(r) ==
    IF Len(hop[r]) > 1
    THEN /\ hop' = [hop EXCEPT ![r] = Tail(@)]
         /\ Goto(r, "settings")
         /\ UNCHANGED <<at, answers>>
    ELSE Accept(r, RootOf(IdOf(r)), FALSE)

\* Mutant: a copy is propagated in its turn.
AfterFanoutTransitive(r) == Goto(r, "route") /\ UNCHANGED <<at, hop, answers>>

AfterFanout(r) == IF Nested(r) THEN NextCopy(r)
                  ELSE Goto(r, "route") /\ UNCHANGED <<at, hop, answers>>

Fanout(r) ==
    /\ pc[r] = "fanout"
    /\ fanned' = fanned \cup {IdOf(r)}
    /\ AfterFanout(r)
    /\ UNCHANGED <<snap, draft, marker, expired, events, task, notices,
                   topicVars, faults>>

\* Mutant: copies keep the idempotency key, so they look like repeats of
\* their own original (tests/test_topic_propagation.py:79).
PropagateWithKey(r, targets) ==
    IF targets = <<>> \/ Env(r).key # NoKey
    THEN Accept(r, IdOf(r), FALSE)
    ELSE /\ hop' = [hop EXCEPT ![r] = targets]
         /\ Goto(r, "settings")
         /\ UNCHANGED <<at, answers>>

\* With targets the copies start; without, the envelope is accepted.
Propagate(r, targets) ==
    IF targets = <<>>
    THEN Accept(r, IdOf(r), FALSE)
    ELSE /\ hop' = [hop EXCEPT ![r] = targets]
         /\ Goto(r, "settings")
         /\ UNCHANGED <<at, answers>>

ReadTargets(r) ==
    /\ pc[r] = "route"
    /\ IF CacheOf(r)[TopicOf(r)] # None
       THEN /\ Propagate(r, CacheOf(r)[TopicOf(r)].targets)
            /\ UNCHANGED snap
       ELSE /\ snap' = [snap EXCEPT ![r] = rows[TopicOf(r)]]
            /\ Goto(r, "refill")
            /\ UNCHANGED <<at, hop, answers>>
    /\ UNCHANGED <<draft, dbVars, topicVars, faults>>

FillTargets(r) ==
    /\ pc[r] = "refill"
    /\ CacheRow(r)
    /\ Propagate(r, snap[r].targets)
    /\ snap' = [snap EXCEPT ![r] = None]
    /\ UNCHANGED <<draft, dbVars, rows, saved, edits, faults>>

-----------------------------------------------------------------------------
(* Failures.                                                               *)

Fault == faults < MaxFaults /\ faults' = faults + 1

\* A database error outside the swallowed parts ends the request with a
\* server error; inside the nested call it ends the propagation only.
DatabaseError(r) ==
    /\ pc[r] \in {"dedupe", "claim", "reread", "settings", "store", "route"}
    /\ pc[r] \in {"settings", "route"} => CacheOf(r)[TopicOf(r)] = None
    /\ Fault
    /\ IF Nested(r)
       THEN Accept(r, RootOf(IdOf(r)), FALSE)
       ELSE Goto(r, "failed") /\ UNCHANGED <<at, hop, answers>>
    /\ UNCHANGED <<snap, draft, dbVars, topicVars>>

\* The task or notification write fails, or the fan-out does: logged.
SwallowedError(r) ==
    /\ Fault
    /\ \/ /\ pc[r] \in {"apply", "save", "notice"}
          /\ Goto(r, "fanout")
          /\ UNCHANGED <<at, hop, answers>>
       \/ pc[r] = "fanout" /\ AfterFanout(r)
    /\ draft' = [draft EXCEPT ![r] = None]
    /\ UNCHANGED <<snap, dbVars, topicVars>>

\* The process dies: its requests end without an answer, its cache is gone.
Crash(i) ==
    /\ Fault
    /\ pc' = [r \in Requests |-> IF Home[r] = i /\ pc[r] \in Active
                                 THEN "lost" ELSE pc[r]]
    /\ cache' = [cache EXCEPT ![i] = [t \in Topics |-> None]]
    /\ saved' = saved \ {i}
    /\ UNCHANGED <<at, hop, snap, draft, answers, dbVars, rows, edits>>

-----------------------------------------------------------------------------
(* The operator and the sweeper.                                           *)

\* topics_upsert awaits row.save() ...
UpsertTopic(i) ==
    /\ i \notin saved
    /\ \E e \in edits : /\ rows' = [rows EXCEPT ![e.topic] = e.row]
                       /\ edits' = edits \ {e}
    /\ saved' = saved \cup {i}
    /\ UNCHANGED <<reqVars, dbVars, cache, faults>>

\* ... and then forgets every cached row of its own process.
InvalidateCache(i) ==
    /\ i \in saved
    /\ cache' = [cache EXCEPT ![i] = [t \in Topics |-> None]]
    /\ saved' = saved \ {i}
    /\ UNCHANGED <<reqVars, dbVars, rows, edits, faults>>

\* Bound: a key's marker outlives its TTL once.
SweepIdempotency(k) ==
    /\ k \notin expired
    /\ marker[k] # None
    /\ marker' = [marker EXCEPT ![k] = None]
    /\ expired' = expired \cup {k}
    /\ UNCHANGED <<reqVars, events, task, notices, fanned, topicVars, faults>>

-----------------------------------------------------------------------------
Step(r) == \/ GetMarker(r) \/ ClaimMarker(r) \/ RereadMarker(r)
           \/ ReadSettings(r) \/ FillSettings(r) \/ Store(r)
           \/ ReadTask(r) \/ SaveTask(r) \/ Notify(r)
           \/ Fanout(r) \/ ReadTargets(r) \/ FillTargets(r)

Next == \/ \E r \in Requests : Start(r) \/ Step(r) \/ DatabaseError(r)
                              \/ SwallowedError(r)
        \/ \E i \in Instances : Crash(i) \/ UpsertTopic(i) \/ InvalidateCache(i)
        \/ \E k \in Keys : SweepIdempotency(k)

\* A coroutine whose await has returned is resumed by the event loop.
Spec == Init /\ [][Next]_vars /\ \A r \in Requests : WF_vars(Step(r))

-----------------------------------------------------------------------------
Drafts == [status : Statuses, started : BOOLEAN, finished : BOOLEAN,
           attempts : Nat]

(* The shape of the state. *)
TypeOK ==
    /\ pc \in [Requests -> Active \cup Ended \cup {"idle"}]
    /\ at \in [Requests -> Nat]
    /\ \A r \in Requests : at[r] \in 1..Len(Batch[r])
    /\ hop \in [Requests -> Seq(Topics)]
    /\ snap \in [Requests -> TopicRows \cup {None}]
    /\ draft \in [Requests -> Drafts \cup {None}]
    /\ answers \in [Requests -> Seq([id : Ids, key : Keys \cup {NoKey},
                                     dup : BOOLEAN])]
    /\ marker \in [Keys -> Ids \cup {None}]
    /\ expired \subseteq Keys
    /\ events \subseteq Ids
    /\ task \in Drafts \cup {None}
    /\ notices \subseteq Ids
    /\ fanned \subseteq Ids
    /\ rows \in [Topics -> TopicRows]
    /\ cache \in [Instances -> [Topics -> TopicRows \cup {None}]]
    /\ saved \subseteq Instances
    /\ edits \subseteq Edits
    /\ faults \in 0..MaxFaults

Visible == events \cup fanned

(* docs/EVENT_MODEL.md, Idempotency: until a key's marker is swept, at most *)
(* one event with that key is ever stored or delivered, however publishes   *)
(* race, fail, crash and are retried, on whichever instances.               *)
OneEventPerKey ==
    \A a, b \in Visible :
       (KeyOf(a) = KeyOf(b) /\ KeyOf(a) \notin expired \cup {NoKey})
          => RootOf(a) = RootOf(b)

(* README, Idempotency: every answer to a key names the same event id,     *)
(* the one that claimed it, first publish and repeats alike.               *)
AnswersTo(k) == {a \in UNION {{answers[r][j] : j \in DOMAIN answers[r]} :
                                 r \in Requests} : a.key = k}

AnswersAgree ==
    \A k \in Keys \ expired : \A a, b \in AnswersTo(k) : a.id = b.id

(* ingest.py:7-9 and docs/PERFORMANCE.md, persistence before fan-out: no    *)
(* consumer sees an event of a persistent topic before it is in the store, *)
(* propagated copies included, whatever the topic cache holds; and a topic  *)
(* that never was persistent leaves nothing there.                         *)
RowsEver(t) == {InitRows[t]} \cup {e.row : e \in {x \in Edits : x.topic = t}}

PersistenceFirst ==
    /\ \A id \in fanned :
          (\A row \in RowsEver(id[3]) : row.persist) => id \in events
    /\ \A id \in events : \E row \in RowsEver(id[3]) : row.persist

(* ingest.py:125-130: an event is expanded one level from the topic it was *)
(* published to; copies never travel on along the targets' own lists.      *)
TargetsEver(t) == UNION {{row.targets[j] : j \in DOMAIN row.targets} :
                           row \in RowsEver(t)}

OneHop ==
    \A id \in Visible :
       id[3] # RootOf(id)[3] => id[3] \in TargetsEver(RootOf(id)[3])

\* Nobody edits the row of the topic.
Unedited(t) == RowsEver(t) = {InitRows[t]}

\* The event was fanned out on its topic and, that unedited, on its targets.
Promised(id) ==
    /\ id \in fanned
    /\ Unedited(id[3]) => \A t \in TargetsEver(id[3]) : <<id[1], id[2], t>> \in fanned

(* ingest.py:163-191: with no failure, when an envelope is accepted it has  *)
(* been delivered, and so has a copy to every target of its topic (for      *)
(* topics nobody edits meanwhile).                                         *)
AcceptedIsDelivered ==
    faults = 0 =>
       \A r \in Requests : \A j \in DOMAIN answers[r] :
          ~answers[r][j].dup => Promised(answers[r][j].id)

(* database/models/task.py: whole-row saves keep a task row consistent      *)
(* with itself even when two events of one task are applied at once.        *)
TaskRowConsistent ==
    task # None => /\ task.finished <=> task.status \in Terminal
                   /\ task.finished => task.started

(* Every accepted request is answered, although two topics may name each    *)
(* other as targets; and an event named in an answer to a repeat is         *)
(* delivered, unless something failed.                                     *)
RepeatIsDelivered ==
    /\ <>[](\A r \in Requests : pc[r] \notin Active)
    /\ \A k \in Keys : (AnswersTo(k) # {})
          ~> (faults > 0 \/ \E a \in AnswersTo(k) : a.id \in fanned)

(* The refinement mapping to the promise of idempotent publishing.         *)
Promise == INSTANCE IdempotentPublish WITH owner <- marker, visible <- Visible

ImplementsPromise == Promise!Spec

-----------------------------------------------------------------------------
(* A statement of the repository that the code does not keep.              *)

(* docs/EVENT_MODEL.md:74, task.py:81: a terminal task is never moved       *)
(* backwards.                                                              *)
TerminalKept ==
    [][(task # None /\ task.status \in Terminal)
         => task'.status \in Terminal]_vars
=============================================================================
