---------------------------- MODULE ListingProofs ----------------------------
(***************************************************************************)
(* A walk over a list is complete, for every limit that the call handles.  *)
(* The run "pages" shows what Postgres does with a limit above its cap.    *)
(***************************************************************************)
EXTENDS Listing, FiniteSetTheorems, TLAPS

Sensible ==
    /\ Lister \in Listers
    /\ Ids \subseteq Nat \ {0} /\ IsFiniteSet(Ids)
    /\ Limits \subseteq Nat
    /\ Cap \in Nat \ {0} /\ DefaultLimit \in Nat \ {0}

\* The lists of sessions return nothing for a limit of 0, and in Postgres too little
\* for one above the cap.
LimitHandled ==
    /\ Lister \in {"memory_sessions", "postgres_sessions"} => 0 \notin Limits
    /\ Lister = "postgres_sessions" => \A n \in Limits : n <= Cap

\* What holds while a walk is under way: it has had the steady rows up to its cursor,
\* and nothing beyond it.
WalkInv ==
    /\ TypeOK
    /\ phase = "walking" => \A i \in returned : i <= cursor
    /\ phase = "walking" => \A i \in steady : i <= cursor => i \in returned
    /\ WalkComplete

----------------------------------------------------------------------------
(* The numbers. *)

\* Every page may hold a row, and what is fetched is one row more than a page.
LEMMA Sizes ==
    ASSUME Sensible, LimitHandled, NEW n \in Limits
    PROVE  PageSize(n) \in Nat \ {0} /\ FetchSize(n) = PageSize(n) + 1
<1>1. n \in Nat /\ Cap \in Nat \ {0} /\ DefaultLimit \in Nat \ {0}
  BY DEF Sensible
<1>2. CASE Lister \in {"memory_users", "postgres_users"}
  <2>1. PageSize(n) = IF n = 0 THEN 1 ELSE IF n < Cap THEN n ELSE Cap
    BY <1>2 DEF PageSize, Lesser
  <2>2. FetchSize(n) = PageSize(n) + 1
    BY <1>2 DEF FetchSize
  <2> QED
    BY <1>1, <2>1, <2>2
<1>3. CASE Lister \in {"memory_sessions", "postgres_sessions"}
  <2>1. PageSize(n) = n /\ n # 0
    BY <1>3 DEF PageSize, LimitHandled
  <2>2. CASE Lister = "memory_sessions"
    BY <1>1, <2>1, <2>2 DEF FetchSize
  <2>3. CASE Lister = "postgres_sessions"
    <3>1. n <= Cap
      BY <2>3 DEF LimitHandled
    <3>2. Lesser(n, Cap) = n
      BY <1>1, <3>1 DEF Lesser
    <3>3. FetchSize(n) = n + 1
      BY <2>3, <3>2 DEF FetchSize
    <3> QED
      BY <1>1, <2>1, <3>3
  <2> QED
    BY <1>3, <2>2, <2>3
<1>4. CASE Lister = "memory_pats"
  <2>1. PageSize(n) = IF n = 0 THEN DefaultLimit ELSE n
    BY <1>4 DEF PageSize
  <2> QED
    BY <1>1, <1>4, <2>1 DEF FetchSize
<1> QED
  BY <1>2, <1>3, <1>4 DEF Sensible, Listers

\* The first n rows of at most n rows are all of them.
LEMMA FewRows ==
    ASSUME NEW S, IsFiniteSet(S), NEW D, NEW n \in Nat, IsFirst(D, S, n),
           Cardinality(D) < n \/ Cardinality(S) <= n
    PROVE  D = S
<1>1. Cardinality(S) \in Nat
  BY FS_CardinalityType
<1>2. Cardinality(D) = Cardinality(S)
  BY <1>1 DEF IsFirst
<1> QED
  BY <1>2, FS_Subset DEF IsFirst

\* What is fetched is an initial part of the rest.
LEMMA FetchedIsInitial ==
    ASSUME NEW F, IsFetched(F)
    PROVE  F \subseteq Rest /\ \A f \in F, x \in Rest : x < f => x \in F
BY DEF IsFetched, IsFirst

LEMMA RestFinite ==
    ASSUME Sensible, TypeOK
    PROVE  IsFiniteSet(Rest)
<1>1. Rest \subseteq Ids
  BY DEF Rest, TypeOK
<1> QED
  BY <1>1, FS_Subset DEF Sensible

\* A page after which the walk ends is the whole rest.
LEMMA LastPageIsRest ==
    ASSUME Sensible, LimitHandled, TypeOK, NEW F, NEW D,
           IsFetched(F), IsFirst(D, F, PageSize(limit)),
           ~(Cardinality(F) > PageSize(limit) /\ D # {})
    PROVE  D = Rest
<1> DEFINE n == PageSize(limit)
<1>1. n \in Nat \ {0} /\ FetchSize(limit) = n + 1
  BY Sizes DEF TypeOK
<1>2. IsFiniteSet(Rest)
  BY RestFinite
<1>3. IsFiniteSet(F) /\ Cardinality(F) \in Nat
  BY <1>2, FetchedIsInitial, FS_Subset, FS_CardinalityType
<1>4. Cardinality(F) <= n
  <2>1. SUFFICES ASSUME Cardinality(F) > n PROVE FALSE
    BY <1>1, <1>3
  <2>2. Cardinality(D) = n
    BY <2>1, <1>1, <1>3 DEF IsFirst
  <2>3. D = {}
    BY <2>1
  <2> QED
    BY <2>2, <2>3, <1>1, FS_EmptySet
<1>5. D = F
  BY <1>1, <1>3, <1>4, FewRows
<1>6. F = Rest
  <2>1. CASE Lister \in {"postgres_users", "postgres_sessions"}
    <3>1. IsFirst(F, Rest, n + 1)
      BY <2>1, <1>1 DEF IsFetched
    <3>2. Cardinality(F) < n + 1
      BY <1>1, <1>3, <1>4
    <3> HIDE DEF n
    <3> QED
      BY <3>1, <3>2, <1>1, <1>2, FewRows
  <2>2. CASE Lister \notin {"postgres_users", "postgres_sessions"}
    BY <2>2 DEF IsFetched
  <2> QED
    BY <2>1, <2>2
<1> QED
  BY <1>5, <1>6

----------------------------------------------------------------------------
(* The invariant. *)

LEMMA WalkInvInit ==
    ASSUME Sensible, Init
    PROVE  WalkInv
BY DEF Sensible, Init, WalkInv, TypeOK, WalkComplete

LEMMA WalkInvNext ==
    ASSUME Sensible, LimitHandled, WalkInv, [Next]_vars
    PROVE  WalkInv'
<1> USE DEF WalkInv
<1>1. ASSUME NEW i \in Ids, FilterChanges(i) PROVE WalkInv'
  BY <1>1 DEF FilterChanges, TypeOK, WalkComplete, walkVars
<1>2. ASSUME NEW i \in Ids, NEW matches \in BOOLEAN, Insert(i, matches) PROVE WalkInv'
  BY <1>2 DEF Insert, TypeOK, WalkComplete, walkVars
<1>3. ASSUME NEW n \in Limits, Begin(n) PROVE WalkInv'
  <2>1. TypeOK'
    BY <1>3 DEF Begin, TypeOK, rowVars
  <2>2. \A i \in steady' : ~(i <= 0)
    BY <1>3 DEF Begin, TypeOK, Sensible
  <2> QED
    BY <1>3, <2>1, <2>2 DEF Begin, WalkComplete
<1>4. CASE GetPage
  <2>1. PICK F, D \in SUBSET Rest :
           /\ IsFetched(F)
           /\ IsFirst(D, F, PageSize(limit))
           /\ returned' = returned \cup D
           /\ NextCursor(F, D)
    BY <1>4 DEF GetPage
  <2>2. UNCHANGED <<present, matching, limit, steady>> /\ phase = "walking"
    BY <1>4 DEF GetPage, rowVars
  <2>3. Rest \subseteq Ids /\ steady \subseteq Ids
    BY DEF Rest, TypeOK
  <2>4. \A i \in steady : i <= cursor \/ i \in Rest
    BY <2>3 DEF Rest, TypeOK, Sensible
  <2>5. CASE Cardinality(F) > PageSize(limit) /\ D # {}
    <3>1. cursor' \in D /\ (\A d \in D : d <= cursor') /\ phase' = "walking"
      BY <2>1, <2>5 DEF NextCursor
    <3>2. cursor' \in Ids /\ cursor' > cursor
      BY <3>1, <2>3 DEF Rest
    <3>3. TypeOK'
      BY <2>1, <2>2, <2>3, <3>1, <3>2 DEF TypeOK
    <3>4. \A i \in returned' : i <= cursor'
      <4>1. \A i \in returned : i <= cursor'
        BY <2>2, <3>2 DEF TypeOK, Sensible
      <4> QED
        BY <4>1, <2>1, <3>1
    <3>5. \A i \in steady' : i <= cursor' => i \in returned'
      <4>1. SUFFICES ASSUME NEW i \in steady, i <= cursor', i \in Rest PROVE i \in D
        BY <2>1, <2>2, <2>4
      <4>2. cursor' \in F
        BY <2>1, <3>1 DEF IsFirst
      <4>3. CASE i = cursor'
        BY <4>3, <3>1
      <4>4. CASE i < cursor'
        <5>1. i \in F
          BY <2>1, <4>1, <4>2, <4>4, FetchedIsInitial
        <5> QED
          BY <2>1, <3>1, <4>4, <5>1 DEF IsFirst
      <4> QED
        BY <4>1, <4>3, <4>4, <2>3, <3>2 DEF Sensible
    <3> QED
      BY <3>1, <3>3, <3>4, <3>5 DEF WalkComplete
  <2>6. CASE ~(Cardinality(F) > PageSize(limit) /\ D # {})
    <3>1. phase' = "done" /\ UNCHANGED cursor
      BY <2>1, <2>6 DEF NextCursor
    <3>2. D = Rest
      BY <2>1, <2>6, LastPageIsRest
    <3>3. steady' \subseteq returned'
      BY <2>1, <2>2, <2>4, <3>2
    <3>4. TypeOK'
      BY <2>1, <2>2, <2>3, <3>1 DEF TypeOK
    <3> QED
      BY <3>1, <3>3, <3>4 DEF WalkComplete
  <2> QED
    BY <2>5, <2>6
<1>5. CASE UNCHANGED vars
  BY <1>5 DEF vars, rowVars, walkVars, TypeOK, WalkComplete
<1> QED
  BY <1>1, <1>2, <1>3, <1>4, <1>5 DEF Next

----------------------------------------------------------------------------

\* A walk that has ended had every row that was there all along, however many rows
\* there are, whatever the limit and whatever the others do: for all five calls, the
\* one of Postgres for sessions with limits up to its cap.
THEOREM WalksAreComplete ==
    ASSUME Sensible, LimitHandled
    PROVE  Spec => []WalkComplete
<1>1. Init => WalkInv
  BY WalkInvInit
<1>2. WalkInv /\ [Next]_vars => WalkInv'
  BY WalkInvNext
<1>3. WalkInv => WalkComplete
  BY DEF WalkInv
<1> QED
  BY <1>1, <1>2, <1>3, PTL DEF Spec

\* No row comes twice in one walk.
THEOREM RowsComeOnce ==
    ASSUME Sensible, LimitHandled
    PROVE  Spec => []NothingTwice
<1>1. Init => WalkInv
  BY WalkInvInit
<1>2. WalkInv /\ [Next]_vars => WalkInv'
  BY WalkInvNext
<1>3. WalkInv => NothingTwice
  <2>1. SUFFICES ASSUME WalkInv, phase = "walking", NEW i \in returned, i \in Rest
        PROVE FALSE
    BY DEF NothingTwice
  <2> QED
    BY <2>1 DEF WalkInv, TypeOK, Rest, Sensible
<1> QED
  BY <1>1, <1>2, <1>3, PTL DEF Spec
=============================================================================
