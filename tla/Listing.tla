------------------------------- MODULE Listing -------------------------------
(***************************************************************************)
(* A caller walks a list page by page, handing the next_cursor of each     *)
(* page to the next call until it is None, while others insert rows and,   *)
(* where the list has a filter, change which rows match.  The five listing *)
(* calls of the two stores differ in two numbers only: how many rows they  *)
(* fetch and how many of these they return.                                *)
(*                                                                         *)
(* An id is its rank in the order that the call sorts by: the UUID, or the *)
(* creation time and then the UUID for PATs.  UUIDs are drawn by many      *)
(* clients, so a new row may rank below rows that are listed already.      *)
(***************************************************************************)
EXTENDS Integers, FiniteSets

CONSTANTS
    Lister,        \* the call: one of Listers
    Ids,           \* the ranks of rows
    Limits,        \* the limit argument that callers pass
    Cap,           \* the 200 of min(limit, 200)
    DefaultLimit   \* the 50 that list_pats_for_user takes for a limit of 0

Listers == {"memory_users", "postgres_users", "memory_sessions", "postgres_sessions",
            "memory_pats"}

VARIABLES
    present,   \* the rows that exist; none is ever deleted
    matching,  \* those that the filter of the call lets through
    limit,     \* the limit of the walk in progress
    cursor,    \* its cursor, 0 for None
    returned,  \* the rows its pages had
    steady,    \* the rows that have matched ever since it began
    phase      \* how far it is

rowVars == <<present, matching>>
walkVars == <<limit, cursor, returned, phase>>
vars == <<rowVars, walkVars, steady>>

TypeOK ==
    /\ present \subseteq Ids /\ matching \subseteq present
    /\ limit \in Limits /\ cursor \in Ids \cup {0}
    /\ returned \subseteq Ids /\ steady \subseteq matching
    /\ phase \in {"idle", "walking", "done"}

Init ==
    /\ present = {} /\ matching = {} /\ returned = {} /\ steady = {}
    /\ limit \in Limits /\ cursor = 0 /\ phase = "idle"

----------------------------------------------------------------------------
(* One page. *)

\* D holds the first n rows of S in the order of their ids.
IsFirst(D, S, n) ==
    /\ D \subseteq S
    /\ \A d \in D, x \in S : x < d => x \in D
    /\ Cardinality(D) = IF n < Cardinality(S) THEN n ELSE Cardinality(S)

Lesser(m, n) == IF m < n THEN m ELSE n

\* The rows that a page returns at most. Only the users' lists are capped, and only the
\* lists of users and PATs mind a limit of 0.
PageSize(n) ==
    CASE Lister \in {"memory_users", "postgres_users"} -> IF n = 0 THEN 1 ELSE Lesser(n, Cap)
      [] Lister = "memory_pats" /\ n = 0 -> DefaultLimit
      [] OTHER -> n

\* The LIMIT of the SELECT: one row more, which tells whether there is another page.
FetchSize(n) ==
    IF Lister = "postgres_sessions" THEN Lesser(n, Cap) + 1 ELSE PageSize(n) + 1

Rest == {i \in matching : i > cursor}

\* F is what the call looks at: in memory, everything after the cursor.
IsFetched(F) ==
    IF Lister \in {"postgres_users", "postgres_sessions"}
      THEN IsFirst(F, Rest, FetchSize(limit))
      ELSE F = Rest

NextCursor(F, D) ==
    IF Cardinality(F) > PageSize(limit) /\ D # {}
      THEN /\ cursor' \in D /\ \A d \in D : d <= cursor'
           /\ phase' = "walking"
      ELSE /\ phase' = "done"
           /\ UNCHANGED cursor

----------------------------------------------------------------------------
(* Steps. *)

Insert(i, matches) ==
    /\ i \notin present
    /\ present' = present \cup {i}
    /\ matching' = IF matches THEN matching \cup {i} ELSE matching
    /\ UNCHANGED <<walkVars, steady>>

\* The status of a user, or the identifier of a credential, changes what list_users
\* finds. The owner of a session or a PAT never changes.
FilterChanges(i) ==
    /\ Lister \in {"memory_users", "postgres_users"}
    /\ i \in present
    /\ matching' = IF i \in matching THEN matching \ {i} ELSE matching \cup {i}
    /\ steady' = steady \ {i}
    /\ UNCHANGED <<present, walkVars>>

Begin(n) ==
    /\ phase # "walking"
    /\ phase' = "walking"
    /\ limit' = n /\ cursor' = 0 /\ returned' = {}
    /\ steady' = matching
    /\ UNCHANGED rowVars

GetPage ==
    /\ phase = "walking"
    /\ \E F, D \in SUBSET Rest :
          /\ IsFetched(F)
          /\ IsFirst(D, F, PageSize(limit))
          /\ returned' = returned \cup D
          /\ NextCursor(F, D)
    /\ UNCHANGED <<rowVars, limit, steady>>

Next ==
    \/ \E i \in Ids : FilterChanges(i) \/ \E matches \in BOOLEAN : Insert(i, matches)
    \/ \E n \in Limits : Begin(n)
    \/ GetPage

Spec == Init /\ [][Next]_vars

----------------------------------------------------------------------------
(* Properties. *)

\* A walk that has reached its last page had every row that was there all along,
\* whatever was inserted or changed meanwhile.
WalkComplete == phase = "done" => steady \subseteq returned

\* No row is on two pages of one walk: what is still to come was not returned before.
NothingTwice == phase = "walking" => returned \cap Rest = {}
=============================================================================
