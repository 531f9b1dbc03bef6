------------------------------ MODULE RedisBus ------------------------------
(***************************************************************************)
(* realtime/bus.py, RedisBus: an event published on one instance is        *)
(* delivered there at once and sent through Redis pub/sub to the other     *)
(* instances, whose listeners deliver it locally.  Pub/sub is at most      *)
(* once: what is sent while an instance is not subscribed, or in flight    *)
(* when its connection breaks, is gone.  A bounded set of recently seen    *)
(* ids keeps an instance from delivering the echo of its own publish.      *)
(*                                                                         *)
(* publish and _listen are coroutines of one process; each await is the    *)
(* end of a step.  Redis and the network are the environment: Redis may    *)
(* answer, be gone, or keep its connections and answer nothing.  The       *)
(* client is made without a socket timeout (bus.py:133), so a call that    *)
(* awaits a silent Redis waits until it answers or the connection breaks.  *)
(***************************************************************************)
EXTENDS Naturals, Sequences

CONSTANTS Instances,
          Ids,         \* the events published
          Envs,        \* environments: one channel each
          Origin,      \* the instance that ingests each event
          EnvOf,       \* the environment of each event
          Cap,         \* the capacity of the seen set
          MaxOutages,  \* bound on Redis outages
          MaxSilences, \* bound on the times Redis falls silent
          MaxErrors    \* bound on publish errors while Redis is up

ASSUME RedisBusAssumption ==
    /\ Origin \in [Ids -> Instances]
    /\ EnvOf \in [Ids -> Envs]
    /\ Cap \in Nat \ {0}
    /\ MaxOutages \in Nat
    /\ MaxSilences \in Nat
    /\ MaxErrors \in Nat

VARIABLES ppc,        \* where each publish call awaits
          lpc,        \* the listener of each instance: polling or sleeping
          seen,       \* _seen, oldest first
          evicted,    \* history: ids the seen set has dropped
          channels,   \* _channels: what the instance believes it is subscribed to
          live,       \* what its pubsub object is subscribed to
          conn,       \* that object's connection: never made, usable, or lost
          inbox,      \* frames Redis pushed to it and it has not read
          degraded,   \* _degraded
          delivered,  \* history: how often it delivered each event locally
          redis,      \* Redis: it answers, is connected but silent, or is gone
          outages,    \* outages so far
          silences,   \* how often it fell silent
          errors      \* publish errors so far

busVars == <<ppc, lpc, seen, evicted, channels, degraded, delivered>>
netVars == <<live, conn, inbox, redis, outages, silences, errors>>
vars == <<busVars, netVars>>

Members(s) == {s[k] : k \in DOMAIN s}

-----------------------------------------------------------------------------
Init == /\ ppc = [e \in Ids |-> "idle"]
        /\ lpc = [i \in Instances |-> "poll"]
        /\ seen = [i \in Instances |-> <<>>]
        /\ evicted = [i \in Instances |-> {}]
        /\ channels = [i \in Instances |-> {}]
        /\ live = [i \in Instances |-> {}]
        /\ inbox = [i \in Instances |-> <<>>]
        /\ conn = [i \in Instances |-> "none"]
        /\ degraded = [i \in Instances |-> FALSE]
        /\ delivered = [i \in Instances |-> [e \in Ids |-> 0]]
        /\ redis = "up"
        /\ outages = 0
        /\ silences = 0
        /\ errors = 0

(***************************************************************************)
(* _SeenSet.add: a known id changes nothing; a new one goes to the end and *)
(* pushes the oldest out when the set is full.                             *)
(***************************************************************************)
Remember(i, e) ==
    IF e \in Members(seen[i])
    THEN UNCHANGED <<seen, evicted>>
    ELSE IF Len(seen[i]) < Cap
    THEN /\ seen' = [seen EXCEPT ![i] = Append(@, e)]
         /\ UNCHANGED evicted
    ELSE /\ seen' = [seen EXCEPT ![i] = Append(Tail(@), e)]
         /\ evicted' = [evicted EXCEPT ![i] = @ \cup {Head(seen[i])}]

DeliverLocal(i, e) == delivered' = [delivered EXCEPT ![i][e] = @ + 1]

-----------------------------------------------------------------------------
(* publish: local delivery first, then Redis unless degraded.              *)

\* Mutant: the instance does not remember its own publish.
PublishLocalForgets(e) ==
    /\ ppc[e] = "idle"
    /\ DeliverLocal(Origin[e], e)
    /\ ppc' = [ppc EXCEPT ![e] = "local"]
    /\ UNCHANGED <<lpc, seen, evicted, channels, degraded, netVars>>

PublishLocal(e) ==
    /\ ppc[e] = "idle"
    /\ Remember(Origin[e], e)
    /\ DeliverLocal(Origin[e], e)
    /\ ppc' = [ppc EXCEPT ![e] = "local"]
    /\ UNCHANGED <<lpc, channels, degraded, netVars>>

CheckDegraded(e) ==
    /\ ppc[e] = "local"
    /\ ppc' = [ppc EXCEPT ![e] =
                 IF degraded[Origin[e]] THEN "done"
                 ELSE IF EnvOf[e] \in channels[Origin[e]] THEN "send"
                 ELSE "subscribe"]
    /\ UNCHANGED <<lpc, seen, evicted, channels, degraded, delivered, netVars>>

\* _lock is held by a publish call that awaits its SUBSCRIBE; the listener
\* takes it for each poll.
LockFree(i) == \A e \in Ids : Origin[e] = i => ppc[e] \notin {"subscribing", "orphaned"}

\* _ensure_subscribed: SUBSCRIBE is sent on the current pubsub object.
SubscribeCall(e) ==
    /\ ppc[e] = "subscribe"
    /\ LockFree(Origin[e])
    /\ ppc' = [ppc EXCEPT ![e] = "subscribing"]
    /\ UNCHANGED <<lpc, seen, evicted, channels, degraded, delivered, netVars>>

\* The answer comes.  A pubsub object that has lost its connection makes a
\* new one and subscribes that to all it knows.  An orphaned call awaits an
\* object the listener has replaced: nobody reads it any more.
Subscribed(e) ==
    LET i == Origin[e] IN
    /\ ppc[e] \in {"subscribing", "orphaned"}
    /\ redis = "up"
    /\ ppc' = [ppc EXCEPT ![e] = "send"]
    /\ channels' = [channels EXCEPT ![i] = @ \cup {EnvOf[e]}]
    /\ IF ppc[e] = "orphaned"
       THEN UNCHANGED <<live, conn>>
       ELSE /\ live' = [live EXCEPT ![i] = @ \cup {EnvOf[e]}]
            /\ conn' = [conn EXCEPT ![i] = "ok"]
    /\ UNCHANGED <<lpc, seen, evicted, degraded, delivered, inbox, redis,
                   outages, silences, errors>>

\* Redis is gone, or the call fails although it answers.  A silent Redis
\* fails no call: nothing times out.
CallFails == \/ redis = "down" /\ UNCHANGED errors
             \/ redis = "up" /\ errors < MaxErrors /\ errors' = errors + 1

\* The exception is suppressed and the publish goes on.
SubscribeFails(e) ==
    /\ ppc[e] \in {"subscribing", "orphaned"}
    /\ CallFails
    /\ ppc' = [ppc EXCEPT ![e] = "send"]
    /\ UNCHANGED <<lpc, seen, evicted, channels, degraded, delivered, live,
                   conn, inbox, redis, outages, silences>>

\* Redis pushes the frame to every connection subscribed to the channel.
Push(e) ==
    inbox' = [j \in Instances |-> IF conn[j] = "ok" /\ EnvOf[e] \in live[j]
                                  THEN Append(inbox[j], e) ELSE inbox[j]]

Send(e) ==
    /\ ppc[e] = "send"
    /\ redis = "up"
    /\ Push(e)
    /\ ppc' = [ppc EXCEPT ![e] = "done"]
    /\ UNCHANGED <<lpc, seen, evicted, channels, degraded, delivered, live,
                   conn, redis, outages, silences, errors>>

\* Mutant: the publish waits for Redis to come back.
SendFailsOnlyUp(e) ==
    /\ ppc[e] = "send"
    /\ redis = "up"
    /\ CallFails
    /\ degraded' = [degraded EXCEPT ![Origin[e]] = TRUE]
    /\ ppc' = [ppc EXCEPT ![e] = "done"]
    /\ UNCHANGED <<lpc, seen, evicted, channels, delivered, live, conn,
                   inbox, redis, outages, silences>>

\* A call whose answer is lost may have reached Redis.
SendFails(e) ==
    /\ ppc[e] = "send"
    /\ CallFails
    /\ UNCHANGED inbox \/ (redis = "up" /\ Push(e))
    /\ degraded' = [degraded EXCEPT ![Origin[e]] = TRUE]
    /\ ppc' = [ppc EXCEPT ![e] = "done"]
    /\ UNCHANGED <<lpc, seen, evicted, channels, delivered, live, conn,
                   redis, outages, silences>>

-----------------------------------------------------------------------------
(* _listen: read a frame, drop the echo of an own publish, deliver others. *)

Polls(i) == lpc[i] = "poll" /\ channels[i] # {} /\ LockFree(i)

\* Mutant: an echo ends the poll and what came with it is dropped.
ReceiveDropsBatch(i) ==
    /\ Polls(i)
    /\ conn[i] = "ok"
    /\ inbox[i] # <<>>
    /\ LET e == Head(inbox[i]) IN
       /\ Remember(i, e)
       /\ IF e \in Members(seen[i])
          THEN UNCHANGED <<degraded, delivered>> /\ inbox' = [inbox EXCEPT ![i] = <<>>]
          ELSE /\ degraded' = [degraded EXCEPT ![i] = FALSE]
               /\ DeliverLocal(i, e)
               /\ inbox' = [inbox EXCEPT ![i] = Tail(@)]
    /\ UNCHANGED <<ppc, lpc, channels, live, conn, redis, outages, silences,
                   errors>>

Receive(i) ==
    /\ Polls(i)
    /\ conn[i] = "ok"
    /\ inbox[i] # <<>>
    /\ LET e == Head(inbox[i]) IN
       /\ Remember(i, e)
       /\ IF e \in Members(seen[i])
          THEN UNCHANGED <<degraded, delivered>>
          ELSE /\ degraded' = [degraded EXCEPT ![i] = FALSE]
               /\ DeliverLocal(i, e)
    /\ inbox' = [inbox EXCEPT ![i] = Tail(@)]
    /\ UNCHANGED <<ppc, lpc, channels, live, conn, redis, outages, silences,
                   errors>>

\* get_message raises without a connection, at once if there never was one;
\* one that is lost is tried again first, which a silent Redis leaves
\* unanswered.  The listener backs off.
ListenError(i) ==
    /\ Polls(i)
    /\ conn[i] = "none" \/ (conn[i] = "lost" /\ redis # "silent")
    /\ degraded' = [degraded EXCEPT ![i] = TRUE]
    /\ lpc' = [lpc EXCEPT ![i] = "sleep"]
    /\ UNCHANGED <<ppc, seen, evicted, channels, delivered, netVars>>

\* After RECONNECT_DELAY a new pubsub object replaces the old one, with all
\* that was unread, and is subscribed to the same channels; the lock is not
\* taken.  If Redis is gone the next poll fails too; if it is silent the
\* listener awaits the answer and neither object hears anything.
Reconnect(i) ==
    /\ lpc[i] = "sleep"
    /\ redis # "silent"
    /\ lpc' = [lpc EXCEPT ![i] = "poll"]
    /\ ppc' = [e \in Ids |-> IF Origin[e] = i /\ ppc[e] = "subscribing"
                             THEN "orphaned" ELSE ppc[e]]
    /\ inbox' = [inbox EXCEPT ![i] = <<>>]
    /\ IF redis = "up"
       THEN /\ live' = [live EXCEPT ![i] = channels[i]]
            /\ conn' = [conn EXCEPT ![i] = "ok"]
            /\ degraded' = [degraded EXCEPT ![i] = FALSE]
       ELSE /\ live' = [live EXCEPT ![i] = {}]
            /\ conn' = [conn EXCEPT ![i] = "none"]
            /\ UNCHANGED degraded
    /\ UNCHANGED <<seen, evicted, channels, delivered, redis, outages, silences,
                   errors>>

-----------------------------------------------------------------------------
(* The environment.                                                        *)

\* Connections break and lose what was in flight.
RedisDown ==
    /\ redis # "down"
    /\ outages < MaxOutages
    /\ redis' = "down"
    /\ outages' = outages + 1
    /\ conn' = [i \in Instances |-> IF conn[i] = "ok" THEN "lost" ELSE conn[i]]
    /\ inbox' = [i \in Instances |-> <<>>]
    /\ UNCHANGED <<busVars, live, silences, errors>>

\* A stopped process or a stalled network: connections stay, no answer comes.
FallsSilent ==
    /\ redis = "up"
    /\ silences < MaxSilences
    /\ redis' = "silent"
    /\ silences' = silences + 1
    /\ UNCHANGED <<busVars, live, conn, inbox, outages, errors>>

RedisUp == /\ redis # "up"
           /\ redis' = "up"
           /\ UNCHANGED <<busVars, live, conn, inbox, outages, silences, errors>>

-----------------------------------------------------------------------------
Publish(e) == \/ PublishLocal(e) \/ CheckDegraded(e)
              \/ SubscribeCall(e) \/ Subscribed(e) \/ SubscribeFails(e)
              \/ Send(e) \/ SendFails(e)

Listen(i) == Receive(i) \/ ListenError(i) \/ Reconnect(i)

Next == \/ \E e \in Ids : Publish(e)
        \/ \E i \in Instances : Listen(i)
        \/ RedisDown \/ FallsSilent \/ RedisUp

\* The event loop resumes a publish call whose await is over and runs the
\* listener; nothing makes producers publish, an outage end or a silent
\* Redis answer.
BusFairness ==
    /\ \A e \in Ids : WF_vars(ppc[e] # "idle" /\ Publish(e))
    /\ \A i \in Instances : WF_vars(Listen(i))

Spec == Init /\ [][Next]_vars /\ BusFairness

-----------------------------------------------------------------------------
(* The shape of the state; bus.py:90-104, the seen set stays bounded.       *)
TypeOK ==
    /\ ppc \in [Ids -> {"idle", "local", "subscribe", "subscribing",
                     "orphaned", "send", "done"}]
    /\ lpc \in [Instances -> {"poll", "sleep"}]
    /\ seen \in [Instances -> Seq(Ids)]
    /\ \A i \in Instances : Len(seen[i]) <= Cap
    /\ evicted \in [Instances -> SUBSET Ids]
    /\ channels \in [Instances -> SUBSET Envs]
    /\ live \in [Instances -> SUBSET Envs]
    /\ inbox \in [Instances -> Seq(Ids)]
    /\ conn \in [Instances -> {"none", "ok", "lost"}]
    /\ degraded \in [Instances -> BOOLEAN]
    /\ delivered \in [Instances -> [Ids -> Nat]]
    /\ redis \in {"up", "silent", "down"}
    /\ outages \in 0..MaxOutages
    /\ silences \in 0..MaxSilences
    /\ errors \in 0..MaxErrors

(* bus.py:14-16: an instance delivers an event to its consumers at most     *)
(* once, its own echo, a send that seemed to fail and a reconnect          *)
(* notwithstanding;                                                        *)
(* only an id the bounded seen set has already dropped may come again.     *)
AtMostOnce ==
    \A i \in Instances, e \in Ids : delivered[i][e] > 1 => e \in evicted[i]

(* bus.py:172-185: a publish call ends however often Redis is lost, calls    *)
(* fail and other calls hold the lock, and in an outage that never ends,     *)
(* unless Redis is silent for ever (IngestionNeverBlocks).                   *)
PublishEnds ==
    <>[](redis # "silent") => <>[](\A e \in Ids : ppc[e] \in {"idle", "done"})

(* bus.py:164-171: _ensure_subscribed never subscribes to a channel again,  *)
(* so what an instance believes must be what Redis has it subscribed to,    *)
(* failed and concurrent calls included.  An outage in which the listener   *)
(* replaces a pubsub object while a publish awaits its SUBSCRIBE breaks     *)
(* this, so it is stated up to the first one.                              *)
BelievesWhatIs ==
    /\ \A i \in Instances : live[i] \subseteq channels[i]
    /\ outages = 0 => channels = live

(* bus.py:187-217, docs/ARCHITECTURE.md, Failure strategy: an instance that *)
(* listens on a channel delivers every event then sent on it, whatever      *)
(* faults came before, as long as no further one comes; and once Redis      *)
(* stays up, one whose connection was lost is listening again.  What it     *)
(* believes to listen on is what it listens on.                            *)
ListenersHear ==
    /\ []BelievesWhatIs
    /\ \A i \in Instances :
          /\ \A e \in {d \in Ids : Origin[d] # i} :
                (/\ ppc[e] = "send" /\ redis = "up" /\ outages = MaxOutages
                 /\ silences = MaxSilences /\ errors = MaxErrors
                 /\ conn[i] = "ok" /\ lpc[i] = "poll" /\ EnvOf[e] \in live[i])
                   ~> (delivered[i][e] > 0)
          /\ []<>(redis # "up")
             \/ ((conn[i] = "lost") ~> (conn[i] = "ok" /\ lpc[i] = "poll"))

-----------------------------------------------------------------------------
(* Statements of the repository that the code does not keep.               *)

(* bus.py:6-8, docs/ARCHITECTURE.md:51-52: with Redis up and no error, an   *)
(* event reaches every instance.                                           *)
EveryInstanceHears ==
    \A e \in Ids : (ppc[e] = "done") ~> (\A i \in Instances : delivered[i][e] > 0)

(* bus.py:19-20, docs/ARCHITECTURE.md:193: an unavailable Redis never blocks *)
(* ingestion, so a publish call that began ends (ingestion awaits it,       *)
(* realtime/__init__.py:61).                                                *)
IngestionNeverBlocks == \A e \in Ids : (ppc[e] # "idle") ~> (ppc[e] = "done")
=============================================================================
