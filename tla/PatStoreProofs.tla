--------------------------- MODULE PatStoreProofs ---------------------------
(***************************************************************************)
(* What PatStore guarantees for every set of users and personal access     *)
(* tokens, every lifetime cap and every coalescing window.                 *)
(***************************************************************************)
EXTENDS PatStore, TLAPS

----------------------------------------------------------------------------
(* The inductive invariant, PAT by PAT.                                     *)

\* What a PAT records never lies in the future, and what was accepted was
\* accepted in its time: the first two conjuncts are what makes the other ones
\* inductive.
Recorded(p) ==
    /\ pats[p].createdAt <= now
    /\ lastUsedPersist[p] = pats[p].lastUsedAt
    /\ pats[p].status = "revoked" <=> IsRevoked(p)
    /\ pats[p].expiresAt # NoTime => pats[p].expiresAt - pats[p].createdAt \in 1..MaxLifetime

AcceptedInTime(p) ==
    /\ pats[p].lastUsedAt # NoTime
    /\ pats[p].lastUsedAt <= acceptedAt[p]
    /\ acceptedAt[p] - pats[p].lastUsedAt < Coalesce
    /\ pats[p].createdAt <= acceptedAt[p]
    /\ pats[p].expiresAt # NoTime => acceptedAt[p] < pats[p].expiresAt
    /\ IsRevoked(p) => acceptedAt[p] <= pats[p].revokedAt

PatOK(p) ==
    /\ acceptedAt[p] <= now /\ lastUsedPersist[p] <= now
    /\ ~Exists(p) => acceptedAt[p] = NoTime /\ lastUsedPersist[p] = NoTime
    /\ Exists(p) => Recorded(p)
    /\ acceptedAt[p] # NoTime => AcceptedInTime(p)

Inv == TypeOK /\ \A p \in PatIds : PatOK(p)

----------------------------------------------------------------------------
(* What a step may do to one PAT. *)

SameUse(p) == lastUsedPersist'[p] = lastUsedPersist[p] /\ acceptedAt'[p] = acceptedAt[p]

Untouched(p) == pats'[p] = pats[p] /\ SameUse(p)

Made(p) == \E u \in UserIds, expiresAt \in ExpiryInputs :
    /\ ~Exists(p) /\ ExpiryAllowed(expiresAt)
    /\ pats'[p] = [usr |-> u, status |-> "active", createdAt |-> now, expiresAt |-> expiresAt,
                   lastUsedAt |-> NoTime, revokedAt |-> NoTime]
    /\ SameUse(p)

Used(p) ==
    /\ Usable(p)
    /\ acceptedAt'[p] = now
    /\ \/ /\ LastUsedStale(p)
          /\ pats'[p] = [pats[p] EXCEPT !.lastUsedAt = now]
          /\ lastUsedPersist'[p] = now
       \/ /\ ~LastUsedStale(p)
          /\ pats'[p] = pats[p] /\ lastUsedPersist'[p] = lastUsedPersist[p]

Killed(p) == Exists(p) /\ ~IsRevoked(p) /\ pats'[p] = RevokedRecord(p) /\ SameUse(p)

Effect(p) == Untouched(p) \/ (now' = now /\ (Made(p) \/ Used(p) \/ Killed(p)))

LEMMA StepEffect ==
    ASSUME TypeOK, [Next]_vars
    PROVE  /\ now \in Nat /\ now' \in Nat /\ now <= now'
           /\ \A p \in PatIds : Effect(p)
<1>1. ASSUME UNCHANGED <<patVars, acceptedAt>> PROVE \A p \in PatIds : Effect(p)
    BY <1>1 DEF patVars, Effect, Untouched, SameUse
<1>2. ASSUME NEW u \in UserIds, UserLifecycle(u) PROVE \A p \in PatIds : Effect(p)
    BY <1>1, <1>2 DEF UserLifecycle
<1>3. ASSUME NEW u \in UserIds, RevokeUser(u) PROVE \A p \in PatIds : Effect(p)
    BY <1>3 DEF RevokeUser, PatsToRevoke, Effect, Untouched, Killed, SameUse
<1>4. ASSUME NEW p \in PatIds, NEW u \in UserIds, NEW expiresAt \in ExpiryInputs,
             CreatePat(p, u, expiresAt)
      PROVE  \A q \in PatIds : Effect(q)
    <2>1. /\ pats'[p] = [usr |-> u, status |-> "active", createdAt |-> now,
                         expiresAt |-> expiresAt, lastUsedAt |-> NoTime, revokedAt |-> NoTime]
          /\ \A q \in PatIds \ {p} : pats'[q] = pats[q]
          /\ ~Exists(p) /\ ExpiryAllowed(expiresAt) /\ now' = now
          /\ \A q \in PatIds : SameUse(q)
        BY <1>4 DEF CreatePat, TypeOK, SameUse
    <2>2. Made(p)
        BY <2>1 DEF Made
    <2> QED
        BY <2>1, <2>2 DEF Effect, Untouched
<1>5. ASSUME NEW p \in PatIds, VerifyPat(p) PROVE \A q \in PatIds : Effect(q)
    <2>1. \A q \in PatIds \ {p} : Untouched(q)
        BY <1>5 DEF VerifyPat, TypeOK, Untouched, SameUse, patVars
    <2>2. now' = now /\ Used(p)
        BY <1>5 DEF VerifyPat, TypeOK, Used, patVars
    <2> QED
        BY <2>1, <2>2 DEF Effect
<1>6. ASSUME NEW p \in PatIds, RevokePat(p) PROVE \A q \in PatIds : Effect(q)
    <2>1. \A q \in PatIds \ {p} : Untouched(q)
        BY <1>6 DEF RevokePat, TypeOK, Untouched, SameUse
    <2>2. now' = now /\ Killed(p)
        BY <1>6 DEF RevokePat, TypeOK, Killed, SameUse
    <2> QED
        BY <2>1, <2>2 DEF Effect
<1>7. ASSUME Tick \/ UNCHANGED vars PROVE \A p \in PatIds : Effect(p)
    <2>1. UNCHANGED <<patVars, acceptedAt>>
        BY <1>7 DEF Tick, vars
    <2> QED
        BY <1>1, <2>1
<1>8. now \in Nat /\ now' \in Nat /\ now <= now'
    BY DEF TypeOK, Next, UserLifecycle, RevokeUser, CreatePat, VerifyPat, RevokePat, Tick, vars
<1> QED
    BY <1>2, <1>3, <1>4, <1>5, <1>6, <1>7, <1>8 DEF Next

LEMMA MadeType ==
    ASSUME TypeOK, NEW p \in PatIds, Made(p)
    PROVE  pats'[p] \in Pat
<1>1. PICK u \in UserIds, expiresAt \in ExpiryInputs :
          pats'[p] = [usr |-> u, status |-> "active", createdAt |-> now, expiresAt |-> expiresAt,
                      lastUsedAt |-> NoTime, revokedAt |-> NoTime]
    BY DEF Made
<1>2. expiresAt \in Time /\ NoTime \in Time
    BY PatBoundsAssumption DEF ExpiryInputs, Time, NoTime
<1> QED
    BY <1>1, <1>2 DEF Pat, TypeOK

\* The record that a step leaves of a PAT, whatever it did to it.
LEMMA EffectType ==
    ASSUME TypeOK, NEW p \in PatIds, Effect(p)
    PROVE  /\ pats'[p] \in Pat \cup {None}
           /\ lastUsedPersist'[p] \in Time /\ acceptedAt'[p] \in Time
<1>1. /\ now \in Time /\ now \in Nat
      /\ pats[p] \in Pat \cup {None} /\ lastUsedPersist[p] \in Time /\ acceptedAt[p] \in Time
    BY DEF TypeOK, Time
<1>2. CASE Untouched(p)
    BY <1>1, <1>2 DEF Untouched, SameUse
<1>3. CASE Made(p)
    BY <1>1, <1>3, MadeType DEF Made, SameUse
<1>4. CASE Used(p)
    BY <1>1, <1>4 DEF Used, Usable, Exists, Pat
<1>5. CASE Killed(p)
    BY <1>1, <1>5 DEF Killed, Exists, RevokedRecord, SameUse, Pat
<1> QED
    BY <1>2, <1>3, <1>4, <1>5 DEF Effect

LEMMA TypeStep ==
    ASSUME TypeOK, [Next]_vars
    PROVE  TypeOK'
<1>1. users' \in [UserIds -> {None, "active", "suspended", "revoked"}]
    BY DEF TypeOK, Next, UserLifecycle, RevokeUser, CreatePat, VerifyPat, RevokePat, Tick, vars
<1>2. /\ pats' = [p \in PatIds |-> pats'[p]]
      /\ lastUsedPersist' = [p \in PatIds |-> lastUsedPersist'[p]]
      /\ acceptedAt' = [p \in PatIds |-> acceptedAt'[p]]
    BY DEF TypeOK, Next, UserLifecycle, RevokeUser, CreatePat, VerifyPat, RevokePat, Tick, vars,
           patVars
<1>3. \A p \in PatIds : /\ pats'[p] \in Pat \cup {None}
                        /\ lastUsedPersist'[p] \in Time /\ acceptedAt'[p] \in Time
    BY StepEffect, EffectType
<1>4. /\ pats' \in [PatIds -> Pat \cup {None}]
      /\ lastUsedPersist' \in [PatIds -> Time]
      /\ acceptedAt' \in [PatIds -> Time]
    BY <1>2, <1>3
<1> QED
    BY <1>1, <1>4, StepEffect DEF TypeOK

----------------------------------------------------------------------------
(* The invariant, effect by effect. *)

LEMMA UntouchedOK ==
    ASSUME TypeOK, NEW p \in PatIds, PatOK(p), Untouched(p), now' \in Nat, now <= now'
    PROVE  PatOK(p)'
<1>1. now \in Nat /\ acceptedAt[p] \in Int /\ lastUsedPersist[p] \in Int
    BY DEF TypeOK, Time, NoTime
<1>2. acceptedAt'[p] <= now' /\ lastUsedPersist'[p] <= now'
    BY <1>1 DEF PatOK, Untouched, SameUse
<1>3. Exists(p) => pats[p].createdAt <= now'
    <2>1. Exists(p) => pats[p].createdAt \in Nat
        BY DEF TypeOK, Exists, Pat
    <2> QED
        BY <1>1, <2>1 DEF PatOK, Recorded
<1> QED
    BY <1>2, <1>3 DEF PatOK, Untouched, SameUse, Exists, Recorded, AcceptedInTime, IsRevoked

LEMMA MadeOK ==
    ASSUME TypeOK, NEW p \in PatIds, PatOK(p), Made(p), now' = now
    PROVE  PatOK(p)'
<1>1. PICK u \in UserIds, expiresAt \in ExpiryInputs :
          /\ ExpiryAllowed(expiresAt)
          /\ pats'[p] = [usr |-> u, status |-> "active", createdAt |-> now, expiresAt |-> expiresAt,
                         lastUsedAt |-> NoTime, revokedAt |-> NoTime]
    BY DEF Made
<1>2. /\ pats'[p].createdAt = now /\ pats'[p].expiresAt = expiresAt
      /\ pats'[p].status = "active" /\ pats'[p].lastUsedAt = NoTime
      /\ pats'[p].revokedAt = NoTime
    BY <1>1
<1>3. acceptedAt'[p] = NoTime /\ lastUsedPersist'[p] = NoTime /\ now \in Nat
    BY DEF Made, PatOK, SameUse, TypeOK
<1>4. expiresAt # NoTime => expiresAt - now \in 1..MaxLifetime
    BY <1>1, <1>3, PatBoundsAssumption DEF ExpiryAllowed, ExpiryInputs
<1>5. pats'[p] # None
    BY MadeType, NoPatAssumption
<1>6. Recorded(p)'
    BY <1>2, <1>3, <1>4 DEF Recorded, IsRevoked
<1> QED
    BY <1>3, <1>5, <1>6 DEF PatOK, Exists, NoTime

LEMMA UsedOK ==
    ASSUME TypeOK, NEW p \in PatIds, PatOK(p), Used(p), now' = now
    PROVE  PatOK(p)'
<1>1. /\ pats[p] \in Pat /\ Exists(p) /\ ~IsRevoked(p) /\ ~IsExpired(p) /\ Recorded(p)
      /\ now \in Nat /\ lastUsedPersist[p] \in Int /\ Coalesce \in Nat \ {0}
    BY PatBoundsAssumption DEF TypeOK, Used, Usable, Exists, PatOK, Time, NoTime
<1>2. /\ pats'[p] \in Pat /\ acceptedAt'[p] = now
      /\ pats'[p].createdAt = pats[p].createdAt
      /\ pats'[p].expiresAt = pats[p].expiresAt
      /\ pats'[p].status = pats[p].status
      /\ pats'[p].revokedAt = pats[p].revokedAt
      /\ pats'[p].lastUsedAt = lastUsedPersist'[p]
    BY <1>1 DEF Used, Pat, Time, Recorded
<1>3. /\ lastUsedPersist'[p] # NoTime /\ lastUsedPersist'[p] \in Int
      /\ lastUsedPersist'[p] <= now /\ now - lastUsedPersist'[p] < Coalesce
    <2>1. CASE LastUsedStale(p)
        BY <1>1, <2>1 DEF Used, NoTime
    <2>2. CASE ~LastUsedStale(p)
        BY <1>1, <2>2 DEF Used, LastUsedStale, PatOK
    <2> QED
        BY <2>1, <2>2
<1>4. Recorded(p)'
    BY <1>1, <1>2 DEF Recorded, IsRevoked
<1>5. AcceptedInTime(p)'
    <2>1. pats[p].expiresAt # NoTime => now < pats[p].expiresAt
        BY <1>1 DEF IsExpired, Pat, Time
    <2> QED
        BY <1>1, <1>2, <1>3, <2>1 DEF AcceptedInTime, IsRevoked, Recorded
<1>6. Exists(p)'
    BY <1>2, NoPatAssumption DEF Exists
<1> QED
    BY <1>1, <1>2, <1>3, <1>4, <1>5, <1>6 DEF PatOK

LEMMA KilledOK ==
    ASSUME TypeOK, NEW p \in PatIds, PatOK(p), Killed(p), now' = now
    PROVE  PatOK(p)'
<1>1. pats[p] \in Pat /\ now \in Nat /\ now # NoTime /\ Recorded(p)
    BY DEF TypeOK, Killed, Exists, PatOK, NoTime
<1>2. /\ pats'[p] \in Pat
      /\ pats'[p].createdAt = pats[p].createdAt
      /\ pats'[p].expiresAt = pats[p].expiresAt
      /\ pats'[p].lastUsedAt = pats[p].lastUsedAt
      /\ pats'[p].status = "revoked" /\ pats'[p].revokedAt = now
    BY <1>1 DEF Killed, RevokedRecord, Pat, Time
<1>3. Exists(p)' /\ acceptedAt'[p] = acceptedAt[p] /\ lastUsedPersist'[p] = lastUsedPersist[p]
    BY <1>2, NoPatAssumption DEF Exists, Killed, SameUse
<1>4. Recorded(p)'
    BY <1>1, <1>2, <1>3 DEF Recorded, IsRevoked
<1>5. acceptedAt[p] # NoTime => AcceptedInTime(p)'
    BY <1>2, <1>3 DEF PatOK, AcceptedInTime, IsRevoked
<1> QED
    BY <1>3, <1>4, <1>5 DEF PatOK

LEMMA InitInv == Init => Inv
<1> SUFFICES ASSUME Init PROVE Inv
    OBVIOUS
<1>1. TypeOK
    BY DEF Init, TypeOK, Time
<1>2. \A p \in PatIds : PatOK(p)
    BY DEF Init, PatOK, Exists, NoTime
<1> QED
    BY <1>1, <1>2 DEF Inv

LEMMA NextInv == Inv /\ [Next]_vars => Inv'
<1> SUFFICES ASSUME Inv, [Next]_vars PROVE Inv'
    OBVIOUS
<1>1. TypeOK'
    BY TypeStep DEF Inv
<1>2. ASSUME NEW p \in PatIds PROVE PatOK(p)'
    <2>1. Effect(p) /\ now' \in Nat /\ now <= now'
        BY StepEffect DEF Inv
    <2> QED
        BY <2>1, UntouchedOK, MadeOK, UsedOK, KilledOK DEF Effect, Inv
<1> QED
    BY <1>1, <1>2 DEF Inv

LEMMA Invariance == Spec => []Inv
BY InitInv, NextInv, PTL DEF Spec

----------------------------------------------------------------------------
(* The theorems. *)

\* The tables of PATs keep their shape.
THEOREM PatTypeCorrect == Spec => []TypeOK
<1>1. Inv => TypeOK
    BY DEF Inv
<1> QED
    BY <1>1, Invariance, PTL

\* Coalescing the writes of last_used_at loses less than one window.
THEOREM LastUsedCorrect == Spec => []LastUsedFresh
<1>1. Inv => LastUsedFresh
    BY DEF Inv, LastUsedFresh, PatOK, AcceptedInTime
<1> QED
    BY <1>1, Invariance, PTL

\* status, revoked_at, last_used_at and the persist map never disagree.
THEOREM RecordsCorrect == Spec => []RecordsAgree
<1>1. Inv => RecordsAgree
    BY DEF Inv, RecordsAgree, PatOK, Recorded
<1> QED
    BY <1>1, Invariance, PTL

\* verify_pat_token never accepted a PAT outside its time.
THEOREM UseCorrect == Spec => []UsedOnlyWhileValid
<1>1. Inv => UsedOnlyWhileValid
    BY DEF Inv, UsedOnlyWhileValid, PatOK, Recorded, AcceptedInTime
<1> QED
    BY <1>1, Invariance, PTL

----------------------------------------------------------------------------
(* Dead PATs. *)

\* Whether a PAT can be used, and by whom, after a step.
LEMMA UsableNext ==
    ASSUME TypeOK, TypeOK', [Next]_vars, NEW p \in PatIds, Exists(p)
    PROVE  /\ Exists(p)' /\ pats'[p].usr = pats[p].usr
           /\ Usable(p)' => Usable(p)
           /\ now' = now /\ ~Killed(p) => (Usable(p)' <=> Usable(p))
           /\ Killed(p) => ~Usable(p)'
<1>1. pats[p] \in Pat /\ now \in Nat /\ now' \in Nat /\ now <= now' /\ Effect(p) /\ ~Made(p)
    BY StepEffect DEF TypeOK, Exists, Made
<1>2. /\ pats'[p] \in Pat
      /\ pats'[p].usr = pats[p].usr /\ pats'[p].expiresAt = pats[p].expiresAt
      /\ ~Killed(p) => pats'[p].revokedAt = pats[p].revokedAt
      /\ Killed(p) => pats'[p].revokedAt = now
    BY <1>1 DEF Effect, Untouched, Used, Killed, RevokedRecord, Pat, Time
<1>3. Exists(p)'
    BY <1>2, NoPatAssumption DEF Exists
<1>4. CASE Killed(p)
    BY <1>1, <1>2, <1>3, <1>4 DEF Usable, IsRevoked, NoTime, Killed
<1>5. CASE ~Killed(p)
    <2>1. IsRevoked(p)' <=> IsRevoked(p)
        BY <1>2, <1>5 DEF IsRevoked
    <2>2. (IsExpired(p) => IsExpired(p)') /\ (now' = now => (IsExpired(p)' <=> IsExpired(p)))
        <3>1. pats[p].expiresAt \in Nat \cup {NoTime}
            BY <1>1 DEF Pat, Time
        <3> QED
            BY <1>1, <1>2, <3>1 DEF IsExpired, NoTime
    <2>3. (Usable(p)' => Usable(p)) /\ (now' = now => (Usable(p)' <=> Usable(p)))
        BY <1>3, <2>1, <2>2 DEF Usable
    <2> QED
        BY <1>2, <1>3, <1>4, <1>5, <2>3
<1> QED
    BY <1>4, <1>5

\* What DeadPatStaysDead says of one step.
DeadKept == \A p \in PatIds :
    /\ Exists(p) /\ ~Usable(p) => ~Usable(p)' /\ acceptedAt'[p] = acceptedAt[p]
    /\ Exists(p) /\ IsRevoked(p) => pats'[p] = pats[p]

\* A PAT that was revoked or ran out is never accepted again, and a revoked one
\* keeps its record: revoke_pat called again does not move the time.
THEOREM DeadPatsStayDead == Spec => DeadPatStaysDead
<1>1. ASSUME TypeOK, TypeOK', [Next]_vars PROVE DeadKept
    <2> SUFFICES ASSUME NEW p \in PatIds, Exists(p)
                 PROVE  /\ ~Usable(p) => ~Usable(p)' /\ acceptedAt'[p] = acceptedAt[p]
                        /\ IsRevoked(p) => pats'[p] = pats[p]
        BY DEF DeadKept
    <2>1. Effect(p) /\ ~Made(p)
        BY <1>1, StepEffect DEF Made
    <2>2. ~Usable(p) => ~Usable(p)'
        BY <1>1, UsableNext
    <2>3. ~Usable(p) => acceptedAt'[p] = acceptedAt[p]
        BY <2>1 DEF Effect, Untouched, Used, Killed, SameUse
    <2>4. IsRevoked(p) => pats'[p] = pats[p]
        BY <2>1 DEF Effect, Untouched, Used, Killed, Usable
    <2> QED
        BY <2>2, <2>3, <2>4
<1>2. TypeOK /\ TypeOK' /\ [Next]_vars => [DeadKept]_vars
    BY <1>1
<1>3. Spec => [][DeadKept]_vars
    BY <1>2, PatTypeCorrect, PTL DEF Spec
<1> QED
    BY <1>3 DEF DeadPatStaysDead, DeadKept

----------------------------------------------------------------------------
(* PATs implement BearerTokens. *)

IssuedPats == {p \in PatIds : Exists(p)}
HolderOf(p) == IF Usable(p) THEN pats[p].usr ELSE None
HolderMap == [p \in PatIds |-> HolderOf(p)]
OpenUsers == {u \in UserIds : users[u] \in {"active", "suspended"}}

LEMMA BearerInitially == Init => Bearer!BearerInit
<1> SUFFICES ASSUME Init PROVE Bearer!BearerInit
    OBVIOUS
<1>1. IssuedPats = {}
    BY DEF Init, IssuedPats, Exists
<1>2. HolderMap = [p \in PatIds |-> None]
    BY DEF Init, HolderMap, HolderOf, Usable, Exists
<1>3. OpenUsers = {}
    BY NoPatAssumption DEF Init, OpenUsers
<1> QED
    BY <1>1, <1>2, <1>3 DEF Bearer!BearerInit, IssuedPats, HolderMap, HolderOf, OpenUsers

LEMMA HolderType ==
    ASSUME TypeOK, NEW p \in PatIds
    PROVE  HolderOf(p) \in UserIds \cup {None}
BY DEF TypeOK, HolderOf, Usable, Exists, Pat

\* A step that makes no PAT leaves every holder in place or lets it go.
LEMMA HolderNext ==
    ASSUME TypeOK, TypeOK', [Next]_vars, \A p \in PatIds : ~Made(p)
    PROVE  /\ IssuedPats' = IssuedPats
           /\ HolderMap' \in [PatIds -> UserIds \cup {None}]
           /\ \A p \in PatIds : HolderOf(p)' \in {HolderOf(p), None}
           /\ \A p \in PatIds : Killed(p) => HolderOf(p)' = None
           /\ \A p \in PatIds : now' = now /\ ~Killed(p) => HolderOf(p)' = HolderOf(p)
<1>1. ASSUME NEW p \in PatIds, Exists(p)
      PROVE  /\ Exists(p)'
             /\ HolderOf(p)' \in {HolderOf(p), None}
             /\ Killed(p) => HolderOf(p)' = None
             /\ now' = now /\ ~Killed(p) => HolderOf(p)' = HolderOf(p)
    BY <1>1, UsableNext DEF HolderOf
<1>2. ASSUME NEW p \in PatIds, ~Exists(p)
      PROVE  ~Exists(p)' /\ ~Killed(p) /\ HolderOf(p)' = None /\ HolderOf(p) = None
    <2>1. Untouched(p) /\ ~Killed(p)
        BY <1>2, StepEffect DEF Effect, Used, Usable, Killed
    <2> QED
        BY <1>2, <2>1 DEF Untouched, Exists, HolderOf, Usable
<1>3. HolderMap' \in [PatIds -> UserIds \cup {None}]
    <2>1. \A p \in PatIds : HolderOf(p)' \in UserIds \cup {None}
        BY <1>1, <1>2, HolderType
    <2> QED
        BY <2>1 DEF HolderMap
<1> QED
    BY <1>1, <1>2, <1>3 DEF IssuedPats

LEMMA DieStep ==
    ASSUME TypeOK, TypeOK', [Next]_vars, \A p \in PatIds : ~Made(p), UNCHANGED users
    PROVE  Bearer!Die
<1>1. \A p \in PatIds : HolderMap'[p] \in {HolderMap[p], None}
    BY HolderNext DEF HolderMap
<1>2. OpenUsers' = OpenUsers
    BY DEF OpenUsers
<1> QED
    BY <1>1, <1>2, HolderNext DEF Bearer!Die, IssuedPats, HolderMap, HolderOf, OpenUsers

LEMMA CreateBearer ==
    ASSUME TypeOK, TypeOK', NEW p \in PatIds, NEW u \in UserIds, NEW expiresAt \in ExpiryInputs,
           CreatePat(p, u, expiresAt)
    PROVE  Bearer!Issue(p, u)
<1> DEFINE record == [usr |-> u, status |-> "active", createdAt |-> now, expiresAt |-> expiresAt,
                      lastUsedAt |-> NoTime, revokedAt |-> NoTime]
<1>1. /\ pats'[p] = record /\ ~Exists(p) /\ ExpiryAllowed(expiresAt)
      /\ \A q \in PatIds \ {p} : pats'[q] = pats[q]
      /\ now' = now /\ users' = users
    BY DEF CreatePat, TypeOK
<1>2. Made(p)
    BY <1>1 DEF Made, CreatePat, SameUse
<1>3. Exists(p)'
    BY <1>2, MadeType, NoPatAssumption DEF Exists
<1>4. /\ pats'[p].expiresAt = expiresAt /\ pats'[p].revokedAt = NoTime /\ pats'[p].usr = u
    BY <1>1
<1>5. Usable(p)'
    <2>1. now \in Int /\ expiresAt \in Int
        BY PatBoundsAssumption DEF TypeOK, ExpiryInputs, NoTime
    <2> QED
        BY <1>1, <1>3, <1>4, <2>1 DEF Usable, IsRevoked, IsExpired, ExpiryAllowed
<1>6. \A q \in PatIds \ {p} : HolderOf(q)' = HolderOf(q) /\ (Exists(q)' <=> Exists(q))
    BY <1>1 DEF HolderOf, Usable, Exists, IsRevoked, IsExpired
<1>7. HolderMap' = [HolderMap EXCEPT ![p] = u]
    BY <1>4, <1>5, <1>6 DEF HolderMap, HolderOf
<1>8. IssuedPats' = IssuedPats \cup {p} /\ p \notin IssuedPats
    BY <1>1, <1>3, <1>6 DEF IssuedPats
<1>9. OpenUsers' = OpenUsers
    BY <1>1 DEF OpenUsers
<1> QED
    BY <1>7, <1>8, <1>9 DEF Bearer!Issue, IssuedPats, HolderMap, HolderOf, OpenUsers

LEMMA RevokeBearer ==
    ASSUME TypeOK, TypeOK', NEW u \in UserIds, RevokeUser(u)
    PROVE  Bearer!ShutOut(u)
<1>1. [Next]_vars /\ now' = now
    BY DEF Next, RevokeUser
<1>2. \A p \in PatIds : ~Made(p)
    BY MadeType, NoPatAssumption DEF RevokeUser, Made, PatsToRevoke, Exists
<1>3. ASSUME NEW p \in PatIds
      PROVE  HolderOf(p)' = IF HolderOf(p) = u THEN None ELSE HolderOf(p)
    <2>1. CASE p \in PatsToRevoke(u)
        <3>1. Killed(p)
            BY <2>1 DEF RevokeUser, PatsToRevoke, Killed, SameUse
        <3>2. HolderOf(p) \in {u, None}
            BY <2>1 DEF PatsToRevoke, HolderOf
        <3> QED
            BY <1>1, <1>2, <3>1, <3>2, HolderNext
    <2>2. CASE p \notin PatsToRevoke(u)
        <3>1. pats'[p] = pats[p]
            BY <2>2 DEF RevokeUser
        <3>2. HolderOf(p) # u
            BY <2>2, PatNoneAssumption DEF HolderOf, Usable, PatsToRevoke
        <3> QED
            BY <1>1, <3>1, <3>2 DEF HolderOf, Usable, Exists, IsRevoked, IsExpired
    <2> QED
        BY <2>1, <2>2
<1>4. HolderMap' = [p \in PatIds |-> IF HolderMap[p] = u THEN None ELSE HolderMap[p]]
    BY <1>3 DEF HolderMap
<1>5. u \in OpenUsers /\ OpenUsers' = OpenUsers \ {u}
    BY DEF RevokeUser, OpenUsers, TypeOK
<1> QED
    BY <1>1, <1>2, <1>4, <1>5, HolderNext
       DEF Bearer!ShutOut, IssuedPats, HolderMap, HolderOf, OpenUsers

LEMMA LifecycleBearer ==
    ASSUME TypeOK, TypeOK', NEW u \in UserIds, UserLifecycle(u)
    PROVE  [Bearer!BearerNext]_Bearer!bearerVars
<1>1. HolderMap' = HolderMap /\ IssuedPats' = IssuedPats
    BY DEF UserLifecycle, patVars, HolderMap, HolderOf, IssuedPats, Usable, Exists, IsRevoked,
           IsExpired
<1>2. CASE users[u] = None
    <2>1. u \notin OpenUsers /\ OpenUsers' = OpenUsers \cup {u}
        BY <1>2, NoPatAssumption DEF UserLifecycle, OpenUsers, TypeOK
    <2>2. Bearer!LetIn(u)
        BY <1>1, <2>1 DEF Bearer!LetIn, IssuedPats, HolderMap, HolderOf, OpenUsers
    <2> QED
        BY <2>2 DEF Bearer!BearerNext
<1>3. CASE users[u] # None
    <2>1. OpenUsers' = OpenUsers
        BY <1>3 DEF UserLifecycle, OpenUsers, TypeOK
    <2> QED
        BY <1>1, <2>1 DEF Bearer!bearerVars, IssuedPats, HolderMap, HolderOf, OpenUsers
<1> QED
    BY <1>2, <1>3

\* PATs keep the promise of BearerTokens: revoking a user kills that user's PATs and
\* no others in the same step, suspension leaves them alone, and nothing revives one.
THEOREM PatsAreBearerTokens == Spec => ImplementsBearerTokens
<1>1. Init => Bearer!BearerInit
    BY BearerInitially
<1>2. ASSUME TypeOK, TypeOK', [Next]_vars PROVE [Bearer!BearerNext]_Bearer!bearerVars
    <2>1. ASSUME NEW u \in UserIds, UserLifecycle(u) \/ RevokeUser(u)
          PROVE  [Bearer!BearerNext]_Bearer!bearerVars
        BY <1>2, <2>1, LifecycleBearer, RevokeBearer DEF Bearer!BearerNext
    <2>2. ASSUME NEW p \in PatIds, NEW u \in UserIds, NEW expiresAt \in ExpiryInputs,
                 CreatePat(p, u, expiresAt)
          PROVE  [Bearer!BearerNext]_Bearer!bearerVars
        BY <1>2, <2>2, CreateBearer DEF Bearer!BearerNext
    <2>3. CASE (\E p \in PatIds : VerifyPat(p) \/ RevokePat(p)) \/ Tick \/ UNCHANGED vars
        <3>1. UNCHANGED users
            BY <2>3 DEF VerifyPat, RevokePat, Tick, vars
        <3>2. \A p \in PatIds : Exists(p)' => Exists(p)
            BY <1>2, <2>3, NoPatAssumption DEF VerifyPat, RevokePat, Tick, vars, patVars, TypeOK,
                  Usable, Exists
        <3>3. \A p \in PatIds : ~Made(p)
            BY <1>2, <3>2, MadeType, NoPatAssumption DEF Made, Exists
        <3> QED
            BY <1>2, <3>1, <3>3, DieStep DEF Bearer!BearerNext
    <2> QED
        BY <1>2, <2>1, <2>2, <2>3 DEF Next
<1>3. TypeOK /\ TypeOK' /\ [Next]_vars => [Bearer!BearerNext]_Bearer!bearerVars
    BY <1>2
<1> QED
    BY <1>1, <1>3, PatTypeCorrect, PTL DEF Spec, ImplementsBearerTokens, Bearer!BearerSpec
=============================================================================
