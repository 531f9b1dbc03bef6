----------------------------- MODULE CeleryTask ------------------------------
(***************************************************************************)
(* One Celery task and the tasks row BEACN keeps of it, by way of the      *)
(* signals that integrations/celery.py republishes.  A signal handler      *)
(* blocks its worker until Beacn.publish ends (PyPublish) and swallows its *)
(* failure; a request the client gave up may be handled later.  The row    *)
(* follows Task.apply_event (Ingest).                                      *)
(***************************************************************************)
EXTENDS Naturals, FiniteSets

CONSTANTS MaxRuns,   \* bound: how often the task is run
          MaxUnsure  \* bound: signals whose publish fails

ASSUME CeleryTaskAssumption == MaxRuns \in Nat \ {0} /\ MaxUnsure \in Nat

Outcomes == {"completed", "failed", "revoked"}
Signals == {"created", "started", "retrying"} \cup Outcomes

VARIABLES worker,   \* where the task is, how often it has run
          last,     \* the signal sent last
          sent,     \* the signals ever sent
          unsure,   \* history: signals whose publish may not have been stored
          late,     \* requests given up and not yet handled
          claimed,  \* idempotency keys of this task
          status    \* the row's, "none" when there is no row

taskVars == <<worker, last, sent, unsure, late, claimed, status>>

TaskInit ==
    /\ worker = [pc |-> "calling", runs |-> 0]
    /\ last = "none" /\ sent = {} /\ unsure = {} /\ late = {} /\ claimed = {}
    /\ status = "none"

\* Mutant: one key for all the signals of the task.
KeyPerTask(signal) == "task"

\* f"{task_id}:{event}"
Key(signal) == signal

StatusAfter(signal) == IF status \in Outcomes /\ signal \notin Outcomes THEN status ELSE signal

\* publish_events: the first claim of the key is stored, a repeat is answered.
AcceptSignal(signal) ==
    IF Key(signal) \in claimed
    THEN UNCHANGED <<claimed, status>>
    ELSE /\ claimed' = claimed \cup {Key(signal)}
         /\ status' = StatusAfter(signal)

\* _emit: the publish is handled; is lost; is given up and handled later; or
\* fails between the key's marker and the event, which leaves the key claimed.
Emit(signal) ==
    /\ last' = signal
    /\ sent' = sent \cup {signal}
    /\ \/ AcceptSignal(signal) /\ UNCHANGED <<unsure, late>>
       \/ /\ Cardinality(unsure) < MaxUnsure
          /\ unsure' = unsure \cup {signal}
          /\ \/ UNCHANGED <<late, claimed>>
             \/ late' = late \cup {signal} /\ UNCHANGED claimed
             \/ claimed' = claimed \cup {Key(signal)} /\ UNCHANGED late
          /\ UNCHANGED status

Moves(from, to) == worker.pc = from /\ worker' = [worker EXCEPT !.pc = to]

CallTask == Moves("calling", "queued") /\ Emit("created")

Prerun ==
    /\ worker.pc = "queued" /\ worker.runs < MaxRuns
    /\ worker' = [pc |-> "running", runs |-> worker.runs + 1]
    /\ Emit("started")

\* Task.retry sends the message again before it says so.
Resend == Moves("running", "retrying") /\ Emit("created")
Retry == Moves("retrying", "queued") /\ Emit("retrying")

Succeed == Moves("running", "ended") /\ Emit("completed")
Fail == Moves("running", "ended") /\ Emit("failed")
Revoke == (Moves("queued", "ended") \/ Moves("running", "ended")) /\ Emit("revoked")

\* The worker dies and the broker delivers the message again (acks_late).
Redeliver ==
    /\ Moves("running", "queued") \/ Moves("ended", "queued")
    /\ UNCHANGED <<last, sent, unsure, late, claimed, status>>

HandleLate(signal) ==
    /\ signal \in late
    /\ late' = late \ {signal}
    /\ AcceptSignal(signal)
    /\ UNCHANGED <<worker, last, sent, unsure>>

TaskNext ==
    \/ CallTask \/ Prerun \/ Resend \/ Retry \/ Succeed \/ Fail \/ Revoke \/ Redeliver
    \/ \E signal \in Signals : HandleLate(signal)

-----------------------------------------------------------------------------
TaskTypeOK ==
    /\ worker \in [pc : {"calling", "queued", "running", "retrying", "ended"}, runs : 0..MaxRuns]
    /\ last \in Signals \cup {"none"}
    /\ late \subseteq unsure /\ unsure \subseteq sent
    /\ sent \subseteq Signals
    /\ status \in Signals \cup {"none"}

(* The dashboard shows how a task ended once the publish of that signal got *)
(* through, although every retry and redelivery repeats signals, whose      *)
(* events are then dropped, and requests given up come late.  A task that   *)
(* is delivered again and ends in another way is not promised more.         *)
OutcomeTold ==
    worker.pc = "ended" /\ sent \cap Outcomes = {last} /\ last \notin unsure
        => status = last
=============================================================================
