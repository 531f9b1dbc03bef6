------------------------------- MODULE History -------------------------------
(***************************************************************************)
(* Listing what is stored, page by page: the history of events, the tasks, *)
(* the notifications and the audit log (app/services/history.py, the list  *)
(* routes of routes/api/v1.py and routes/api/control.py), followed to the  *)
(* last page by the Python SDK's Page.autopage.  Each page is one query.   *)
(* Between two of them rows appear, not always in the order of their ids   *)
(* (Ulid, Ingest), are pruned, and enter and leave the filter asked for: a *)
(* task changes its status, a notification is read.                        *)
(***************************************************************************)
EXTENDS Naturals, FiniteSets

CONSTANTS Rows,         \* bound: row ids 1..Rows
          Asked,        \* the limits asked for
          Default, Most \* DEFAULT_LIMIT, MAX_LIMIT

ASSUME HistoryAssumption ==
    /\ Rows \in Nat /\ Asked \subseteq Nat
    /\ Default \in Nat \ {0} /\ Most \in Nat \ {0}

RowIds == 1..Rows
Kinds == {"events", "tasks", "notifications", "audit"}

VARIABLES listing,  \* the listing: of what, its order and limit, its cursor
          matching, \* the rows stored that match its filter
          kept,     \* history: those that matched at every page
          times     \* history: how often each row was yielded

histVars == <<listing, matching, kept, times>>

\* No row has id 0: no cursor.
Start == 0

HistInit ==
    /\ listing \in {l \in [kind : Kinds, order : {"asc", "desc"}, limit : Asked,
                           cursor : {Start}, pc : {"fetch"}] :
                       l.order = "asc" => l.kind = "events"}
    /\ matching \in SUBSET RowIds
    /\ kept = matching
    /\ times = [r \in RowIds |-> 0]

Within(low, n, high) == IF n < low THEN low ELSE IF n > high THEN high ELSE n

\* HistoryQuery.clamped_limit: a limit of 0 is no limit given.
EventsLimit(asked) == Within(1, IF asked = 0 THEN Default ELSE asked, Most)

\* The other routes read the text of the parameter: "0" is a limit, of one.
RoutesLimit(asked) == Within(1, asked, Most)

Limit(l) == IF l.kind = "events" THEN EventsLimit(l.limit) ELSE RoutesLimit(l.limit)

\* r comes before s in the order of the listing.
Precedes(r, s) == IF listing.order = "asc" THEN r < s ELSE r > s

Beyond(cursor) == {r \in matching : cursor = Start \/ Precedes(cursor, r)}

\* The first limit rows of a set, in the order of the listing.
FirstOf(set, limit) ==
    {r \in set : Cardinality({s \in set : Precedes(s, r)}) < limit}

LastOf(set) == CHOOSE r \in set : \A s \in set : ~Precedes(r, s)

YieldPage(page) ==
    times' = [r \in RowIds |-> IF r \in page THEN times[r] + 1 ELSE times[r]]

\* Mutant: the cursor is the extra row that told there was more.
ContinueFromExtra(page, beyond) ==
    IF page = beyond
    THEN listing' = [listing EXCEPT !.pc = "done"]
    ELSE listing' = [listing EXCEPT !.cursor = CHOOSE r \in beyond \ page :
                                       \A s \in beyond \ page : ~Precedes(s, r)]

\* has_more, next_cursor; Page.next
Continue(page, beyond) ==
    IF page = beyond
    THEN listing' = [listing EXCEPT !.pc = "done"]
    ELSE listing' = [listing EXCEPT !.cursor = LastOf(page)]

\* One page: limit + 1 rows are read, the last only to tell has_more.
Fetch ==
    /\ listing.pc = "fetch"
    /\ LET beyond == Beyond(listing.cursor)
           page   == FirstOf(beyond, Limit(listing))
       IN  YieldPage(page) /\ Continue(page, beyond)
    /\ UNCHANGED <<matching, kept>>

QueryEvents == listing.kind = "events" /\ Fetch
ListTasks == listing.kind = "tasks" /\ Fetch
ListNotifications == listing.kind = "notifications" /\ Fetch
AuditList == listing.kind = "audit" /\ Fetch

\* A row is stored, or changes so that the filter takes it in.
Appear(r) ==
    /\ listing.pc = "fetch" /\ r \notin matching
    /\ matching' = matching \cup {r}
    /\ UNCHANGED <<listing, kept, times>>

\* A row is pruned, or changes so that the filter leaves it out.
Disappear(r) ==
    /\ listing.pc = "fetch" /\ listing.kind # "audit" /\ r \in matching
    /\ matching' = matching \ {r}
    /\ kept' = kept \ {r}
    /\ UNCHANGED <<listing, times>>

HistNext ==
    \/ QueryEvents \/ ListTasks \/ ListNotifications \/ AuditList
    \/ \E r \in RowIds : Appear(r) \/ Disappear(r)

-----------------------------------------------------------------------------
HistTypeOK ==
    /\ listing \in [kind : Kinds, order : {"asc", "desc"}, limit : Asked,
                    cursor : RowIds \cup {Start}, pc : {"fetch", "done"}]
    /\ matching \in SUBSET RowIds
    /\ kept \in SUBSET matching
    /\ times \in [RowIds -> Nat]

(* docs/API.md: next_cursor is where the next page begins.  Whatever is     *)
(* stored, pruned or changed between two pages, no row is yielded twice,    *)
(* and a row that was there throughout is on one of them.                   *)
ListsEachOnce ==
    /\ \A r \in RowIds : times[r] <= 1
    /\ listing.pc = "done" => \A r \in kept : times[r] = 1

\* What makes it so: what has been yielded and what was skipped lies on the
\* near side of the cursor.
CursorSeparates ==
    /\ listing.cursor = Start => listing.pc = "done" \/ \A r \in RowIds : times[r] = 0
    /\ listing.cursor # Start /\ listing.pc = "fetch" =>
          \A r \in RowIds : Precedes(listing.cursor, r) => times[r] = 0
    /\ listing.cursor # Start =>
          \A r \in kept : ~Precedes(listing.cursor, r) => times[r] = 1
=============================================================================
