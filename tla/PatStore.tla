------------------------------ MODULE PatStore ------------------------------
(***************************************************************************)
(* Personal access tokens in InMemoryIdentityStore (in_memory.py, "PATs"). *)
(* As in IdentityStore, an action is one method call that changes state.   *)
(* A token that is malformed, unknown or has a wrong secret is refused     *)
(* before anything changes, so VerifyPat takes only tokens whose secret is *)
(* the one create_pat returned.  Names and scopes are left out: after the  *)
(* length check of create_pat nothing reads them.                          *)
(***************************************************************************)
EXTENDS Integers

CONSTANTS
    UserIds, PatIds,  \* what generate("usr" / "pat") may return
    MaxLifetime,      \* PAT_MAX_LIFETIME_SECONDS, in clock units
    Coalesce,         \* _pat_last_used_coalesce_seconds, in clock units
    MaxTime,          \* bound: the clock stops here
    None              \* an absent key

ASSUME PatNoneAssumption == None \notin UserIds \cup PatIds
ASSUME PatBoundsAssumption ==
    MaxLifetime \in Nat \ {0} /\ Coalesce \in Nat \ {0} /\ MaxTime \in Nat

VARIABLES
    users,            \* _users: the status of each user
    pats,             \* _pats
    lastUsedPersist,  \* _pat_last_used_persist: PAT id -> when last_used_at was written
    acceptedAt,       \* when verify_pat_token last returned for the PAT
    now               \* what the injected clock reads

patVars == <<pats, lastUsedPersist>>
vars == <<users, patVars, acceptedAt, now>>

NoTime == -1  \* Python's None for a time, and a PAT id with no entry
Time == Nat \cup {NoTime}

Pat == [usr: UserIds, status: {"active", "revoked"}, createdAt: Nat, expiresAt: Time,
        lastUsedAt: Time, revokedAt: Time]

ASSUME NoPatAssumption == None \notin Pat \cup {"active", "suspended", "revoked"}

TypeOK ==
    /\ users \in [UserIds -> {None, "active", "suspended", "revoked"}]
    /\ pats \in [PatIds -> Pat \cup {None}]
    /\ lastUsedPersist \in [PatIds -> Time]
    /\ acceptedAt \in [PatIds -> Time]
    /\ now \in Nat

Exists(p) == pats[p] # None
IsRevoked(p) == pats[p].revokedAt # NoTime
\* A PAT is expired from expires_at on; a session only after it.
IsExpired(p) == pats[p].expiresAt # NoTime /\ now >= pats[p].expiresAt
\* Fault: the expiry is not looked at.
UsableIgnoringExpiry(p) == Exists(p) /\ ~IsRevoked(p)

\* The checks of verify_pat_token on the stored record.
Usable(p) == Exists(p) /\ ~IsRevoked(p) /\ ~IsExpired(p)

Init ==
    /\ users = [u \in UserIds |-> None]
    /\ pats = [p \in PatIds |-> None]
    /\ lastUsedPersist = [p \in PatIds |-> NoTime]
    /\ acceptedAt = [p \in PatIds |-> NoTime]
    /\ now = 0

----------------------------------------------------------------------------
(* Users. Suspending and reinstating a user leave the PATs alone. *)

UserLifecycle(u) ==
    /\ \/ users[u] = None /\ users' = [users EXCEPT ![u] = "active"]
       \/ users[u] = "active" /\ users' = [users EXCEPT ![u] = "suspended"]
       \/ users[u] = "suspended" /\ users' = [users EXCEPT ![u] = "active"]
    /\ UNCHANGED <<patVars, acceptedAt, now>>

\* Faults: the time is forgotten; a PAT past its expiry is marked expired instead.
RevokedRecordStatusOnly(p) == [pats[p] EXCEPT !.status = "revoked"]

RevokedRecordOrExpired(p) ==
    [pats[p] EXCEPT !.status = IF IsExpired(p) THEN "expired" ELSE "revoked", !.revokedAt = now]

RevokedRecord(p) == [pats[p] EXCEPT !.status = "revoked", !.revokedAt = now]

\* Fault: the cascade of a user takes everybody's PATs.
PatsOfEveryone(u) == {p \in PatIds : Exists(p) /\ ~IsRevoked(p)}

PatsToRevoke(u) == {p \in PatIds : Exists(p) /\ pats[p].usr = u /\ ~IsRevoked(p)}

\* revoke_user: _cascade_revoke_pats_for_user.
RevokeUser(u) ==
    /\ users[u] \in {"active", "suspended"}
    /\ users' = [users EXCEPT ![u] = "revoked"]
    /\ pats' = [p \in PatIds |-> IF p \in PatsToRevoke(u) THEN RevokedRecord(p) ELSE pats[p]]
    /\ UNCHANGED <<lastUsedPersist, acceptedAt, now>>

----------------------------------------------------------------------------
(* PATs. *)

ExpiryAllowed(expiresAt) ==
    expiresAt # NoTime => now < expiresAt /\ expiresAt <= now + MaxLifetime

\* The user must exist; its status is not read.
CreatePat(p, u, expiresAt) ==
    /\ users[u] # None
    /\ ExpiryAllowed(expiresAt)
    /\ ~Exists(p)
    /\ pats' = [pats EXCEPT ![p] =
           [usr |-> u, status |-> "active", createdAt |-> now, expiresAt |-> expiresAt,
            lastUsedAt |-> NoTime, revokedAt |-> NoTime]]
    /\ UNCHANGED <<users, lastUsedPersist, acceptedAt, now>>

\* Fault: the window is too long by one.
LastUsedStaleLate(p) == lastUsedPersist[p] = NoTime \/ now - lastUsedPersist[p] > Coalesce

LastUsedStale(p) == lastUsedPersist[p] = NoTime \/ now - lastUsedPersist[p] >= Coalesce

\* The use is written down at most once per window.
VerifyPat(p) ==
    /\ Usable(p)
    /\ IF LastUsedStale(p)
         THEN /\ pats' = [pats EXCEPT ![p].lastUsedAt = now]
              /\ lastUsedPersist' = [lastUsedPersist EXCEPT ![p] = now]
         ELSE UNCHANGED patVars
    /\ acceptedAt' = [acceptedAt EXCEPT ![p] = now]
    /\ UNCHANGED <<users, now>>

\* Fault: a second revocation moves the time of the first.
RevokePatAgain(p) ==
    /\ Exists(p)
    /\ pats' = [pats EXCEPT ![p] = RevokedRecord(p)]
    /\ UNCHANGED <<users, lastUsedPersist, acceptedAt, now>>

\* A revoked PAT is returned as it is; an expired one can still be revoked.
RevokePat(p) ==
    /\ Exists(p) /\ ~IsRevoked(p)
    /\ pats' = [pats EXCEPT ![p] = RevokedRecord(p)]
    /\ UNCHANGED <<users, lastUsedPersist, acceptedAt, now>>

Tick ==
    /\ now < MaxTime
    /\ now' = now + 1
    /\ UNCHANGED <<users, patVars, acceptedAt>>

\* Bound: expiry times that callers ask for, past ones included.
ExpiryInputs == 0..(MaxTime + 1) \cup {NoTime}

Next ==
    \/ \E u \in UserIds : UserLifecycle(u) \/ RevokeUser(u)
    \/ \E p \in PatIds, u \in UserIds, expiresAt \in ExpiryInputs : CreatePat(p, u, expiresAt)
    \/ \E p \in PatIds : VerifyPat(p) \/ RevokePat(p)
    \/ Tick

Spec == Init /\ [][Next]_vars

\* Time passes; no caller is obliged to call anything.
FairSpec == Spec /\ WF_vars(Tick)

----------------------------------------------------------------------------
(* Properties. *)

\* Coalescing loses less than one window: whenever a PAT was last accepted, its
\* last_used_at is at most Coalesce - 1 clock units older, and never later.
LastUsedFresh == \A p \in PatIds : acceptedAt[p] # NoTime =>
    /\ pats[p].lastUsedAt # NoTime
    /\ pats[p].lastUsedAt <= acceptedAt[p]
    /\ acceptedAt[p] - pats[p].lastUsedAt < Coalesce

\* The three places that record what happened to a PAT agree through cascades,
\* uses and revocations: the persist map with last_used_at, status with revoked_at.
RecordsAgree == \A p \in PatIds :
    /\ Exists(p) => lastUsedPersist[p] = pats[p].lastUsedAt
    /\ ~Exists(p) => lastUsedPersist[p] = NoTime
    /\ Exists(p) => (pats[p].status = "revoked" <=> IsRevoked(p))

\* No PAT was ever accepted before it existed, from its expiry on or after its
\* revocation, and no expiry lies beyond the cap on lifetimes.
UsedOnlyWhileValid == \A p \in PatIds :
    /\ acceptedAt[p] # NoTime =>
          /\ pats[p].createdAt <= acceptedAt[p]
          /\ pats[p].expiresAt # NoTime => acceptedAt[p] < pats[p].expiresAt
          /\ IsRevoked(p) => acceptedAt[p] <= pats[p].revokedAt
    /\ Exists(p) /\ pats[p].expiresAt # NoTime =>
          pats[p].expiresAt - pats[p].createdAt \in 1..MaxLifetime

\* A PAT that was revoked or has expired is never accepted again, whatever
\* becomes of its user, and a revoked one keeps its record.
DeadPatStaysDead == [][\A p \in PatIds :
    /\ Exists(p) /\ ~Usable(p) => ~Usable(p)' /\ acceptedAt'[p] = acceptedAt[p]
    /\ Exists(p) /\ IsRevoked(p) => pats'[p] = pats[p]]_vars

Bearer == INSTANCE BearerTokens WITH
    Tokens <- PatIds, Users <- UserIds, Guarded <- FALSE,
    issued <- {p \in PatIds : Exists(p)},
    holder <- [p \in PatIds |-> IF Usable(p) THEN pats[p].usr ELSE None],
    open <- {u \in UserIds : users[u] \in {"active", "suspended"}}

\* PATs are bearer tokens that suspension leaves alone: revoking a user kills all PATs
\* of that user and no others in the same step, and nothing revives one. They may be
\* made for a user who is revoked already.
ImplementsBearerTokens == Bearer!BearerSpec

\* A PAT with an expiry that the bounded clock reaches stops being accepted for
\* good although nobody revokes it.
PatEventuallyDies == \A p \in PatIds :
    Usable(p) /\ pats[p].expiresAt \in 0..MaxTime ~> []~Usable(p)
=============================================================================
