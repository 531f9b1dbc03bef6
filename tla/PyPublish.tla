------------------------------ MODULE PyPublish ------------------------------
(***************************************************************************)
(* One publish or publish_batch call of the Python SDK (sdk/python/        *)
(* beacn.py, Beacn and AsyncBeacn), against a server that throttles,       *)
(* refuses, fails half way through a batch or dies: RetryPolicy, the       *)
(* decision that a request is idempotent, and the loop of _request.  Every *)
(* attempt is a request of its own, which the server may still be working  *)
(* on when the client has given it up.  The server is Ingest seen from     *)
(* outside: a key's marker is committed before its event (ingest.py).      *)
(***************************************************************************)
EXTENDS Naturals

CONSTANTS Calls,          \* the calls made: see Call
          MaxAttempts,    \* RetryPolicy
          MaxElapsed, BaseDelay, MaxDelay,
          AttemptTime     \* assumed: the longest an attempt takes

\* A batch of no events is refused before any is looked at (parse_batch).
ASSUME PyPublishAssumption ==
    /\ Calls \subseteq [form : {"one", "batch"}, client : {"sync", "async"},
                       size : Nat \ {0}, keyed : SUBSET Nat]
    /\ \A c \in Calls : c.keyed \subseteq 1..c.size
    /\ MaxAttempts \in Nat \ {0}
    /\ {MaxElapsed, BaseDelay, MaxDelay, AttemptTime} \subseteq Nat

Attempts == 1..MaxAttempts

VARIABLES call,        \* what was asked: form, client, number of items, keyed ones
          pub,         \* the _request loop: where, which attempt, until when
          requests,    \* the attempts as the server sees them
          markers,     \* the items whose idempotency key is claimed
          copies,      \* how often each item was stored
          now          \* time.time() since the call

pubVars == <<call, pub, requests, markers, copies, now>>

Call(form, client, size, keyed) ==
    [form |-> form, client |-> client, size |-> size, keyed |-> keyed]

Items == 1..call.size
Pending == [pc |-> "none", item |-> 1, status |-> 0]

PubInit ==
    /\ call \in Calls
    /\ pub = [pc |-> "ready", attempt |-> 0, until |-> 0]
    /\ requests = [a \in Attempts |-> Pending]
    /\ markers = {}
    /\ copies = [i \in Items |-> 0]
    /\ now = 0

-----------------------------------------------------------------------------
(* The client.                                                             *)

\* Mutant: one key is enough to repeat a batch.
IdempotentAny(c) == c.keyed # {}

\* A publish is a POST: repeatable with a key, a batch when each of its
\* events has one.  The asynchronous client never repeats a batch.
Idempotent(c) ==
    /\ c.keyed = 1..c.size
    /\ c.form = "batch" => c.client = "sync"

Least2(a, b) == IF a < b THEN a ELSE b

\* delay_for: full jitter, or what a 429 asks for.  The error of a 429 looks
\* for retry_after in the body's details; the server puts its rate and its
\* burst there, and the time to wait in a header.
Delays(status) ==
    IF status = 429 THEN {Least2(MaxDelay, 1)}
    ELSE 0..Least2(MaxDelay, BaseDelay * 2 ^ (pub.attempt - 1))

\* should_retry; status 0 is an exception of the transport.
ShouldRetry(status) ==
    /\ pub.attempt < MaxAttempts
    /\ Idempotent(call)
    /\ status \in {0, 429} \/ status >= 500

Send ==
    /\ pub.pc = "ready"
    /\ pub' = [pc |-> "waiting", attempt |-> pub.attempt + 1,
               until |-> now + AttemptTime]
    /\ \E arrives \in BOOLEAN :
          requests' = [requests EXCEPT ![pub.attempt + 1].pc =
                         IF arrives THEN "arrived" ELSE "lost"]
    /\ UNCHANGED <<call, markers, copies, now>>

RetryOrRaise(status) ==
    \/ /\ ShouldRetry(status)
       /\ \E delay \in Delays(status) :
             /\ now + delay <= MaxElapsed
             /\ pub' = [pc |-> "sleeping", attempt |-> pub.attempt,
                        until |-> now + delay]
    \/ /\ ~ShouldRetry(status) \/ \E delay \in Delays(status) : now + delay > MaxElapsed
       /\ pub' = [pub EXCEPT !.pc = "raised"]

Answered ==
    /\ pub.pc = "waiting" /\ requests[pub.attempt].pc = "answered"
    /\ IF requests[pub.attempt].status < 400
       THEN pub' = [pub EXCEPT !.pc = "returned"]
       ELSE RetryOrRaise(requests[pub.attempt].status)
    /\ UNCHANGED <<call, requests, markers, copies, now>>

\* The connection fails, the answer is lost, or the timeout passes.
Interrupted ==
    /\ pub.pc = "waiting"
    /\ RetryOrRaise(0)
    /\ UNCHANGED <<call, requests, markers, copies, now>>

\* Mutant: the request is made without a timeout.
TimedOutNever == FALSE /\ UNCHANGED pubVars

\* timeout= bounds each operation on the socket, not the attempt: that an
\* attempt is over after AttemptTime is assumed.  A server that sends its
\* answer byte by byte may hold one longer.
TimedOut == now = pub.until /\ Interrupted

\* A body cut short is no OSError: urllib's client lets it through.
CutShort ==
    /\ call.client = "sync"
    /\ pub.pc = "waiting" /\ requests[pub.attempt].pc = "answered"
    /\ pub' = [pub EXCEPT !.pc = "raised"]
    /\ UNCHANGED <<call, requests, markers, copies, now>>

Wake ==
    /\ pub.pc = "sleeping" /\ now = pub.until
    /\ pub' = [pub EXCEPT !.pc = "ready"]
    /\ UNCHANGED <<call, requests, markers, copies, now>>

-----------------------------------------------------------------------------
(* The server.                                                             *)

AnswerRequest(a, status) ==
    requests' = [requests EXCEPT ![a] = [pc |-> "answered", item |-> @.item,
                                         status |-> status]]

\* limiter.check
Throttle(a) ==
    /\ requests[a].pc = "arrived"
    /\ AnswerRequest(a, 429)
    /\ UNCHANGED <<call, pub, markers, copies, now>>

\* 401, 403, 413, 422
RefuseRequest(a) ==
    /\ requests[a].pc = "arrived"
    /\ AnswerRequest(a, 400)
    /\ UNCHANGED <<call, pub, markers, copies, now>>

AdmitRequest(a) ==
    /\ requests[a].pc = "arrived"
    /\ requests' = [requests EXCEPT ![a].pc = "claim"]
    /\ UNCHANGED <<call, pub, markers, copies, now>>

NextItem(a) ==
    IF requests[a].item = call.size
    THEN AnswerRequest(a, 201)
    ELSE requests' = [requests EXCEPT ![a] = [pc |-> "claim", item |-> @.item + 1,
                                              status |-> @.status]]

\* _dedupe: the marker of a key is unique and committed first.
Claim(a) ==
    /\ requests[a].pc = "claim"
    /\ IF requests[a].item \in markers
       THEN NextItem(a) /\ UNCHANGED markers
       ELSE /\ requests' = [requests EXCEPT ![a].pc = "insert"]
            /\ markers' = IF requests[a].item \in call.keyed
                          THEN markers \cup {requests[a].item} ELSE markers
    /\ UNCHANGED <<call, pub, copies, now>>

Insert(a) ==
    /\ requests[a].pc = "insert"
    /\ copies' = [copies EXCEPT ![requests[a].item] = @ + 1]
    /\ NextItem(a)
    /\ UNCHANGED <<call, pub, markers, now>>

\* The database fails or the process dies, between any two writes.
Break(a) ==
    /\ requests[a].pc \in {"arrived", "claim", "insert"}
    /\ \/ AnswerRequest(a, 500)
       \/ requests' = [requests EXCEPT ![a].pc = "dead"]
    /\ UNCHANGED <<call, pub, markers, copies, now>>

Elapse ==
    /\ pub.pc \in {"waiting", "sleeping"} /\ now < pub.until
    /\ now' = now + 1
    /\ UNCHANGED <<call, pub, requests, markers, copies>>

Client == Send \/ Answered \/ Interrupted \/ TimedOut \/ CutShort \/ Wake

Server(a) ==
    \/ Throttle(a) \/ RefuseRequest(a) \/ AdmitRequest(a)
    \/ Claim(a) \/ Insert(a) \/ Break(a)

PubNext == Client \/ (\E a \in Attempts : Server(a)) \/ Elapse

\* The client's loop and its timers run; nothing is asked of the server.
PubFairness == WF_pubVars(Send \/ Wake) /\ WF_pubVars(TimedOut) /\ WF_pubVars(Elapse)

-----------------------------------------------------------------------------
PubTypeOK ==
    /\ call \in Calls
    /\ pub \in [pc : {"ready", "waiting", "sleeping", "returned", "raised"},
                attempt : 0..MaxAttempts, until : Nat]
    /\ requests \in [Attempts -> [pc : {"none", "lost", "arrived", "claim", "insert",
                                        "answered", "dead"},
                                  item : Items, status : {0, 201, 400, 429, 500}]]
    /\ markers \subseteq call.keyed
    /\ copies \in [Items -> Nat]
    /\ now \in Nat

(* RetryPolicy's docstring, docs/SDK_PYTHON.md Retries: whatever is lost,   *)
(* late or half done, one call stores an event at most once; and a call     *)
(* that returns has its events stored, but for one whose key a failed       *)
(* attempt had claimed before it got to the event, or still works on.       *)
PublishedOnce ==
    \A i \in Items :
        /\ copies[i] <= 1
        /\ pub.pc = "returned" =>
              \/ copies[i] = 1
              \/ \E a \in Attempts :
                    /\ requests[a].item = i
                    /\ \/ requests[a].pc \in {"insert", "dead"}
                       \/ requests[a].status = 500

(* beacn.py, RetryPolicy.max_elapsed: no attempt begins after max_elapsed,  *)
(* and no call is out longer than that and the time of one attempt, which  *)
(* is assumed to be bounded (TimedOut).                                    *)
InTime == now <= MaxElapsed + AttemptTime

(* docs/ARCHITECTURE.md Failure model: no infinite retries.  Every call     *)
(* ends, with the server up or not, and ends in time, when no attempt is    *)
(* held longer than AttemptTime.                                           *)
CallReturns == <>[](pub.pc \in {"returned", "raised"}) /\ []InTime
=============================================================================
