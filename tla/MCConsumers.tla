----------------------------- MODULE MCConsumers -----------------------------
(***************************************************************************)
(* A consumer that replays, and the parts of the Python client, in one run: *)
(* they share no state, so in each behaviour one of them runs and the      *)
(* others are over from the start.                                         *)
(***************************************************************************)
EXTENDS Delivery, PyPublish, PyConsumer, History, CeleryTask

CONSTANTS t1, t2

VARIABLE part

MCWanted == <<t1, t2>>
MCAllowed == {t1, t2}

MCCalls ==
    {Call("one", "sync", 1, {}), Call("batch", "sync", 2, {1}),
     Call("batch", "sync", 2, {1, 2}), Call("batch", "async", 2, {1, 2})}

replayingVars == vars      \* Delivery's

partVars == <<part, replayingVars, pubVars, consVars, histVars, taskVars>>

NoReplaying ==
    /\ stored = {} /\ tardy = {} /\ ever = {} /\ fanned = {}
    /\ queue = <<>> /\ dropped = {}
    /\ rp = "idle" /\ since = None /\ oldest = None /\ page = {}
    /\ answer = NoAnswer
    /\ link = "live" /\ aside = <<>> /\ lastId = None /\ processed = {}
    /\ disconnects = 0

NoCall ==
    /\ call = Call("one", "sync", 1, {})
    /\ pub = [pc |-> "returned", attempt |-> 0, until |-> 0]
    /\ requests = [a \in Attempts |-> Pending]
    /\ markers = {} /\ copies = [i \in Items |-> 1]
    /\ now = 0

NoConsumer ==
    /\ mode = "sse"
    /\ reader = [pc |-> "returned", token |-> TRUE, last |-> NoId, since |-> NoId]
    /\ got = {} /\ excused = {} /\ log = <<>> /\ conn = 0
    /\ links = [c \in Connections |-> NoLink]
    /\ inbox = <<>> /\ rows = {} /\ outbox = <<>> /\ sink = <<>>
    /\ failures = 0

NoListing ==
    /\ listing = [kind |-> "audit", order |-> "desc", limit |-> 1, cursor |-> Start, pc |-> "done"]
    /\ matching = {} /\ kept = {} /\ times = [r \in RowIds |-> 0]

NoTask ==
    /\ worker = [pc |-> "ended", runs |-> MaxRuns] /\ last = "completed"
    /\ sent = {} /\ unsure = {} /\ late = {} /\ claimed = {} /\ status = "none"

ConsumersInit ==
    \/ part = "replay" /\ Init /\ NoCall /\ NoConsumer /\ NoListing /\ NoTask
    \/ part = "publish" /\ NoReplaying /\ PubInit /\ NoConsumer /\ NoListing /\ NoTask
    \/ part = "consume" /\ NoReplaying /\ NoCall /\ ConsInit /\ NoListing /\ NoTask
    \/ part = "list" /\ NoReplaying /\ NoCall /\ NoConsumer /\ HistInit /\ NoTask
    \/ part = "celery" /\ NoReplaying /\ NoCall /\ NoConsumer /\ NoListing /\ TaskInit

Replaying ==
    part = "replay" /\ Next /\ UNCHANGED <<part, pubVars, consVars, histVars, taskVars>>
Publishing ==
    /\ part = "publish" /\ PubNext
    /\ UNCHANGED <<part, replayingVars, consVars, histVars, taskVars>>
Consuming ==
    /\ part = "consume" /\ ConsNext
    /\ UNCHANGED <<part, replayingVars, pubVars, histVars, taskVars>>
Listing ==
    /\ part = "list" /\ HistNext
    /\ UNCHANGED <<part, replayingVars, pubVars, consVars, taskVars>>
Celery ==
    /\ part = "celery" /\ TaskNext
    /\ UNCHANGED <<part, replayingVars, pubVars, consVars, histVars>>

ConsumersNext == Replaying \/ Publishing \/ Consuming \/ Listing \/ Celery

ConsumersSpec == /\ ConsumersInit /\ [][ConsumersNext]_partVars
                 /\ DeliveryFairness /\ PubFairness /\ ConsFairness
=============================================================================
