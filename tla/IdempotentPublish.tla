------------------------- MODULE IdempotentPublish -------------------------
(***************************************************************************)
(* What idempotent publishing promises, without saying how: an idempotency *)
(* key is owned by at most one event at a time; while it is owned no other *)
(* event with that key becomes visible (stored or fanned out) and every    *)
(* repeat is answered with the owner's id.  Ownership ends when the        *)
(* marker's time to live runs out, once per key (expired remembers it:     *)
(* afterwards nothing is promised of the key).                             *)
(***************************************************************************)
EXTENDS Naturals, Sequences

CONSTANTS Requests, Keys, NoKey, None,
          Ids,           \* the ids of events and of their propagated copies
          KeyOf(_),      \* the key an event, or the event it copies, came with
          RootOf(_)      \* the event an id is a copy of; itself if it is none

VARIABLES owner,     \* key -> the event that owns it, or None
          expired,   \* keys whose ownership has ended
          visible,   \* ids stored or delivered
          answers    \* per request, the answers given

vars == <<owner, expired, visible, answers>>

Init == /\ owner = [k \in Keys |-> None]
        /\ expired = {}
        /\ visible = {}
        /\ answers = [r \in Requests |-> <<>>]

Entitled(id) == \/ KeyOf(id) = NoKey
                \/ KeyOf(id) \in expired
                \/ owner[KeyOf(id)] = RootOf(id)

Claim(k, id) == /\ owner[k] = None
                /\ KeyOf(id) = k
                /\ owner' = [owner EXCEPT ![k] = id]
                /\ UNCHANGED <<expired, visible, answers>>

Reveal(id) == /\ Entitled(id)
              /\ visible' = visible \cup {id}

Show == /\ \E id \in Ids : Reveal(id)
        /\ UNCHANGED <<owner, expired, answers>>

\* The answer may be sent in the step that delivers the last copy.
Answer(r, k, id) ==
    /\ (k # NoKey /\ k \notin expired) => owner[k] = id
    /\ \E dup \in BOOLEAN :
          answers' = [answers EXCEPT ![r] =
                        Append(@, [id |-> id, key |-> k, dup |-> dup])]
    /\ UNCHANGED visible \/ \E shown \in Ids : Reveal(shown)
    /\ UNCHANGED <<owner, expired>>

Expire(k) == /\ owner' = [owner EXCEPT ![k] = None]
             /\ expired' = expired \cup {k}
             /\ UNCHANGED <<visible, answers>>

Next == \/ \E k \in Keys, id \in Ids : Claim(k, id)
        \/ Show
        \/ \E r \in Requests, k \in Keys \cup {NoKey}, id \in Ids : Answer(r, k, id)
        \/ \E k \in Keys : Expire(k)

Spec == Init /\ [][Next]_vars
=============================================================================
