------------------------------ MODULE MfaStore ------------------------------
(***************************************************************************)
(* Multi-factor authentication in InMemoryIdentityStore (in_memory.py,     *)
(* "v0.2 MFA store operations"): two-step enrollment of TOTP and WebAuthn  *)
(* factors, recovery codes, revocation and verification.  As in            *)
(* IdentityStore, an action is one method call that changes state, and a   *)
(* call that raises changes nothing.                                       *)
(*                                                                         *)
(* A proof that fails its cryptography raises before any state changes, so *)
(* actions take only proofs that pass it: a TOTP code in its window, an    *)
(* assertion whose signature and context are right.  What is kept of an    *)
(* assertion is its signature counter.  The recovery code of slot i of     *)
(* factor m is <<m, i>>: ten codes drawn at random do not collide.         *)
(***************************************************************************)
EXTENDS Integers, FiniteSets

CONSTANTS
    UserIds, FactorIds,  \* what generate("usr" / "mfa") may return
    WebAuthnIds,         \* WebAuthn credential ids
    Slots,               \* the slots of a recovery code set (ten in the code)
    MaxCount,            \* bound: the highest signature counter presented
    PendingTtl,          \* PENDING_FACTOR_TTL_SECONDS, in clock units
    MaxTime,             \* bound: the clock stops here
    None                 \* an absent key, and Python's None

ASSUME MfaNoneAssumption == None \notin UserIds \cup FactorIds \cup WebAuthnIds
ASSUME SlotsAssumption == IsFiniteSet(Slots)
ASSUME MfaBoundsAssumption == MaxCount \in Nat /\ PendingTtl \in Nat /\ MaxTime \in Nat

VARIABLES
    users,           \* _users: the status of each user
    factors,         \* _mfa_factors
    consumed,        \* _mfa_recovery_consumed: the slots already used
    activeSingleton, \* _mfa_active_singleton: <<user, type>> -> factor id
    webAuthnFactor,  \* _mfa_webauthn_by_credential_id: credential id -> factor id
    now              \* what the injected clock reads

factorVars == <<factors, consumed, activeSingleton, webAuthnFactor>>
vars == <<users, factorVars, now>>

SingletonType == {"totp", "recovery"}
Counters == 0..MaxCount

Factor == [usr: UserIds, type: SingletonType \cup {"webauthn"},
           identifier: WebAuthnIds \cup {None},  \* of WebAuthn factors only
           status: {"pending", "active", "revoked"}, createdAt: Nat,
           signCount: Counters, remaining: Nat]

ASSUME NoFactorAssumption == None \notin Factor \cup {"active", "suspended", "revoked"}

TypeOK ==
    /\ users \in [UserIds -> {None, "active", "suspended", "revoked"}]
    /\ factors \in [FactorIds -> Factor \cup {None}]
    /\ consumed \in [FactorIds -> SUBSET Slots]
    /\ activeSingleton \in [UserIds \X SingletonType -> FactorIds \cup {None}]
    /\ webAuthnFactor \in [WebAuthnIds -> FactorIds \cup {None}]
    /\ now \in Nat

Enrolled(m) == factors[m] # None
Has(m, type, status) == Enrolled(m) /\ factors[m].type = type /\ factors[m].status = status
PendingExpired(m) == now - factors[m].createdAt > PendingTtl

Init ==
    /\ users = [u \in UserIds |-> None]
    /\ factors = [m \in FactorIds |-> None]
    /\ consumed = [m \in FactorIds |-> {}]
    /\ activeSingleton = [k \in UserIds \X SingletonType |-> None]
    /\ webAuthnFactor = [w \in WebAuthnIds |-> None]
    /\ now = 0

----------------------------------------------------------------------------
(* The life of a user, of which enrollment reads the status. No user method  *)
(* touches a factor: the factors of a suspended or revoked user stay.        *)

UserLifecycle(u) ==
    /\ \/ users[u] = None /\ users' = [users EXCEPT ![u] = "active"]
       \/ users[u] = "active" /\ users' = [users EXCEPT ![u] = "suspended"]
       \/ users[u] = "suspended" /\ users' = [users EXCEPT ![u] = "active"]
       \/ users[u] \in {"active", "suspended"} /\ users' = [users EXCEPT ![u] = "revoked"]
    /\ UNCHANGED <<factorVars, now>>

----------------------------------------------------------------------------
(* Enrollment. *)

CheckUserActive(u) == users[u] = "active"
NoActiveSingleton(u, type) == activeSingleton[<<u, type>>] = None

StoreFactor(m, record) ==
    /\ ~Enrolled(m)
    /\ factors' = [factors EXCEPT ![m] = record]

\* Only the slot of the active factor is looked at: a user may have several
\* TOTP enrollments pending at once.
EnrollTotp(m, u) ==
    /\ CheckUserActive(u)
    /\ NoActiveSingleton(u, "totp")
    /\ StoreFactor(m, [usr |-> u, type |-> "totp", identifier |-> None, status |-> "pending",
                       createdAt |-> now, signCount |-> 0, remaining |-> 0])
    /\ UNCHANGED <<users, consumed, activeSingleton, webAuthnFactor, now>>

\* Fault: the credential id is not looked up first.
EnrollWebAuthnTwice(m, u, w, count) ==
    /\ CheckUserActive(u)
    /\ StoreFactor(m, [usr |-> u, type |-> "webauthn", identifier |-> w, status |-> "pending",
                       createdAt |-> now, signCount |-> count, remaining |-> 0])
    /\ webAuthnFactor' = [webAuthnFactor EXCEPT ![w] = m]
    /\ UNCHANGED <<users, consumed, activeSingleton, now>>

\* The credential id is taken from enrollment on, before any confirmation.
EnrollWebAuthn(m, u, w, count) ==
    /\ CheckUserActive(u)
    /\ webAuthnFactor[w] = None
    /\ StoreFactor(m, [usr |-> u, type |-> "webauthn", identifier |-> w, status |-> "pending",
                       createdAt |-> now, signCount |-> count, remaining |-> 0])
    /\ webAuthnFactor' = [webAuthnFactor EXCEPT ![w] = m]
    /\ UNCHANGED <<users, consumed, activeSingleton, now>>

EnrollRecovery(m, u) ==
    /\ CheckUserActive(u)
    /\ NoActiveSingleton(u, "recovery")
    /\ StoreFactor(m, [usr |-> u, type |-> "recovery", identifier |-> None, status |-> "active",
                       createdAt |-> now, signCount |-> 0, remaining |-> Cardinality(Slots)])
    /\ activeSingleton' = [activeSingleton EXCEPT ![<<u, "recovery">>] = m]
    /\ UNCHANGED <<users, consumed, webAuthnFactor, now>>

----------------------------------------------------------------------------
(* Confirmation. The status of the user is not read again. *)

\* Fault: what is not active counts as pending.
ConfirmableUnlessActive(m, type) ==
    Enrolled(m) /\ factors[m].type = type /\ factors[m].status # "active" /\ ~PendingExpired(m)

Confirmable(m, type) == Has(m, type, "pending") /\ ~PendingExpired(m)

\* The slot is written whether or not another factor holds it.
ConfirmTotp(m) ==
    /\ Confirmable(m, "totp")
    /\ factors' = [factors EXCEPT ![m].status = "active"]
    /\ activeSingleton' = [activeSingleton EXCEPT ![<<factors[m].usr, "totp">>] = m]
    /\ UNCHANGED <<users, consumed, webAuthnFactor, now>>

\* Fault: a counter that does not move is taken too.
CounterNotBelow(stored, got) == got >= stored

\* webauthn_verify_assertion: the counter advances, or the authenticator has none.
CounterAdvances(stored, got) == got > stored \/ (got = 0 /\ stored = 0)

ConfirmWebAuthn(m, count) ==
    /\ Confirmable(m, "webauthn")
    /\ CounterAdvances(factors[m].signCount, count)
    /\ factors' = [factors EXCEPT ![m].status = "active", ![m].signCount = count]
    /\ UNCHANGED <<users, consumed, activeSingleton, webAuthnFactor, now>>

\* The counters that the next assertion may carry.
Acceptable(m) == {count \in Counters : CounterAdvances(factors[m].signCount, count)}

----------------------------------------------------------------------------
(* Revocation. *)

\* Fault: the slot of a singleton type keeps the revoked factor.
RevokeFactorKeepingSlot(m) ==
    /\ Enrolled(m) /\ factors[m].status # "revoked"
    /\ factors' = [factors EXCEPT ![m].status = "revoked"]
    /\ IF factors[m].type = "webauthn"
         THEN webAuthnFactor' = [webAuthnFactor EXCEPT ![factors[m].identifier] = None]
         ELSE UNCHANGED webAuthnFactor
    /\ UNCHANGED <<users, consumed, activeSingleton, now>>

\* Whatever the status of m was, the slot or the index entry is dropped, even
\* one that names another factor.
RevokeFactor(m) ==
    /\ Enrolled(m) /\ factors[m].status # "revoked"
    /\ factors' = [factors EXCEPT ![m].status = "revoked"]
    /\ IF factors[m].type = "webauthn"
         THEN /\ webAuthnFactor' = [webAuthnFactor EXCEPT ![factors[m].identifier] = None]
              /\ UNCHANGED activeSingleton
         ELSE /\ activeSingleton' =
                    [activeSingleton EXCEPT ![<<factors[m].usr, factors[m].type>>] = None]
              /\ UNCHANGED webAuthnFactor
    /\ UNCHANGED <<users, consumed, now>>

----------------------------------------------------------------------------
(* verify_mfa. The status of the user is not read, and for the singleton     *)
(* types neither is the status of the factor: the slot stands for it.        *)

\* The factor a TOTP code of user u is checked against; nothing is written.
TotpFactorOf(u) == activeSingleton[<<u, "totp">>]

VerifyWebAuthn(u, w, count) ==
    LET m == webAuthnFactor[w] IN
    /\ m # None
    /\ factors[m].usr = u
    /\ Has(m, "webauthn", "active")
    /\ CounterAdvances(factors[m].signCount, count)
    /\ factors' = [factors EXCEPT ![m].signCount = count]
    /\ UNCHANGED <<users, consumed, activeSingleton, webAuthnFactor, now>>

\* Faults: used codes are counted down again; the count is taken before the use.
VerifyRecoveryAgain(u, i) ==
    LET m == activeSingleton[<<u, "recovery">>] IN
    /\ m # None
    /\ consumed' = [consumed EXCEPT ![m] = @ \cup {i}]
    /\ factors' = [factors EXCEPT ![m].remaining = @ - 1]
    /\ UNCHANGED <<users, activeSingleton, webAuthnFactor, now>>
VerifyRecoveryStaleCount(u, i) ==
    LET m == activeSingleton[<<u, "recovery">>] IN
    /\ m # None
    /\ i \notin consumed[m]
    /\ consumed' = [consumed EXCEPT ![m] = @ \cup {i}]
    /\ factors' = [factors EXCEPT ![m].remaining = Cardinality(Slots \ consumed[m])]
    /\ UNCHANGED <<users, activeSingleton, webAuthnFactor, now>>

\* The code of slot i of the set that the recovery slot of u names.
VerifyRecovery(u, i) ==
    LET m == activeSingleton[<<u, "recovery">>] IN
    /\ m # None
    /\ i \notin consumed[m]
    /\ consumed' = [consumed EXCEPT ![m] = @ \cup {i}]
    /\ factors' = [factors EXCEPT ![m].remaining = Cardinality(Slots \ consumed'[m])]
    /\ UNCHANGED <<users, activeSingleton, webAuthnFactor, now>>

Tick ==
    /\ now < MaxTime
    /\ now' = now + 1
    /\ UNCHANGED <<users, factorVars>>

----------------------------------------------------------------------------

EnrollNext == \E m \in FactorIds, u \in UserIds :
    \/ EnrollTotp(m, u)
    \/ \E w \in WebAuthnIds, count \in Counters : EnrollWebAuthn(m, u, w, count)
    \/ EnrollRecovery(m, u)

FactorNext == \E m \in FactorIds :
    \/ ConfirmTotp(m)
    \/ \E count \in Counters : ConfirmWebAuthn(m, count)
    \/ RevokeFactor(m)

VerifyNext == \E u \in UserIds :
    \/ \E w \in WebAuthnIds, count \in Counters : VerifyWebAuthn(u, w, count)
    \/ \E i \in Slots : VerifyRecovery(u, i)

Next == (\E u \in UserIds : UserLifecycle(u)) \/ EnrollNext \/ FactorNext \/ VerifyNext \/ Tick

Spec == Init /\ [][Next]_vars

----------------------------------------------------------------------------
(* Properties. *)

\* verify_mfa for TOTP and recovery codes reads the slot and no status: the
\* slot must therefore only ever name an active factor of that user and type.
SlotSound == \A u \in UserIds, type \in SingletonType :
    LET m == activeSingleton[<<u, type>>] IN
    m # None => Has(m, type, "active") /\ factors[m].usr = u

\* A WebAuthn credential id is taken by exactly the one factor that holds it and
\* is not revoked, pending or active; a user's recovery slot by exactly the
\* active recovery factor.  So a credential cannot be enrolled twice, and no
\* active factor is out of reach of verify_mfa.
IndexesExact ==
    /\ \A w \in WebAuthnIds, m \in FactorIds :
          webAuthnFactor[w] = m <=> /\ Enrolled(m) /\ factors[m].type = "webauthn"
                                    /\ factors[m].identifier = w
                                    /\ factors[m].status # "revoked"
    /\ \A u \in UserIds, m \in FactorIds :
          activeSingleton[<<u, "recovery">>] = m <=>
              Has(m, "recovery", "active") /\ factors[m].usr = u

\* The public count of recovery codes agrees with the consumed slots, and only
\* recovery factors consume any.
RemainingExact == \A m \in FactorIds :
    /\ Enrolled(m) /\ factors[m].type = "recovery" =>
          factors[m].remaining = Cardinality(Slots) - Cardinality(consumed[m])
    /\ ~Enrolled(m) \/ factors[m].type # "recovery" => consumed[m] = {}

\* A revoked factor is out of use for good: no proof is accepted with it (an
\* accepted one would move its counter or a slot), and its history is kept.
RevokedFactorUnused == [][\A m \in FactorIds :
    Enrolled(m) /\ factors[m].status = "revoked" =>
        factors'[m] = factors[m] /\ consumed'[m] = consumed[m]]_vars

\* Replay protection: the assertions that a factor would accept only become
\* fewer, a counter that was accepted is not accepted again (0 stands for an
\* authenticator without one), a used recovery code stays used, and an enrollment
\* that ran out never becomes active.
NoReplay == [][\A m \in FactorIds : Enrolled(m) =>
    /\ Acceptable(m)' \subseteq Acceptable(m)
    /\ factors'[m].signCount > 0 => factors'[m].signCount \notin Acceptable(m)'
    /\ consumed[m] \subseteq consumed'[m]
    /\ factors[m].status = "pending" /\ PendingExpired(m) => factors'[m].status # "active"]_vars

\* What in_memory.py:846 and the schema's unique index say: a user has at most
\* one active TOTP factor.
OneActiveTotp == \A m, d \in FactorIds :
    Has(m, "totp", "active") /\ Has(d, "totp", "active") /\ factors[m].usr = factors[d].usr
        => m = d
=============================================================================
