--------------------------- MODULE MfaStoreProofs ---------------------------
(***************************************************************************)
(* What MfaStore guarantees for every set of users, factors, WebAuthn      *)
(* credential ids and recovery slots, and every bound on counters and time.*)
(***************************************************************************)
EXTENDS MfaStore, FiniteSetTheorems, TLAPS

----------------------------------------------------------------------------
(* The inductive invariant.                                                 *)

\* A set of recovery codes is active from enrollment on. RevokeFactor clears the
\* recovery slot of its user whatever the factor's status was: it would lose an
\* active set if a pending one could be revoked.
NoPendingRecovery == \A m \in FactorIds : ~Has(m, "recovery", "pending")

Inv == TypeOK /\ SlotSound /\ IndexesExact /\ RemainingExact /\ NoPendingRecovery

----------------------------------------------------------------------------
(* What a step may do to one factor. *)

Untouched(m) == factors'[m] = factors[m] /\ consumed'[m] = consumed[m]

Enrolls(m) ==
    /\ ~Enrolled(m)
    /\ factors'[m] \in Factor
    /\ factors'[m].type = "recovery" => /\ factors'[m].status = "active"
                                        /\ factors'[m].remaining = Cardinality(Slots)
    /\ consumed'[m] = consumed[m]

\* The status and the counter of m change, and nothing else.
Moves(m, status, count) ==
    /\ factors'[m] \in Factor
    /\ factors'[m].usr = factors[m].usr /\ factors'[m].type = factors[m].type
    /\ factors'[m].identifier = factors[m].identifier
    /\ factors'[m].createdAt = factors[m].createdAt
    /\ factors'[m].remaining = factors[m].remaining
    /\ factors'[m].status = status /\ factors'[m].signCount = count
    /\ consumed'[m] = consumed[m]

Confirms(m) ==
    /\ Has(m, "totp", "pending") \/ Has(m, "webauthn", "pending")
    /\ ~PendingExpired(m)
    /\ \E count \in Counters :
          /\ Moves(m, "active", count)
          /\ count = factors[m].signCount \/ CounterAdvances(factors[m].signCount, count)

Counts(m) ==
    /\ Has(m, "webauthn", "active")
    /\ \E count \in Counters : /\ Moves(m, "active", count)
                               /\ CounterAdvances(factors[m].signCount, count)

Uses(m) ==
    /\ Has(m, "recovery", "active")
    /\ \E i \in Slots \ consumed[m] : consumed'[m] = consumed[m] \cup {i}
    /\ factors'[m] = [factors[m] EXCEPT !.remaining = Cardinality(Slots \ consumed'[m])]

Revokes(m) ==
    /\ Enrolled(m) /\ factors[m].status # "revoked"
    /\ Moves(m, "revoked", factors[m].signCount)

Effect(m) == Untouched(m) \/ Enrolls(m) \/ Confirms(m) \/ Counts(m) \/ Uses(m) \/ Revokes(m)

LEMMA SlotsFinite ==
    ASSUME NEW S \in SUBSET Slots
    PROVE  /\ IsFiniteSet(S) /\ Cardinality(S) \in Nat
           /\ Cardinality(Slots \ S) = Cardinality(Slots) - Cardinality(S)
           /\ Cardinality(Slots \ S) \in Nat
<1>1. IsFiniteSet(S) /\ IsFiniteSet(Slots \ S)
    BY SlotsAssumption, FS_Subset
<1>2. Slots \cap S = S
    OBVIOUS
<1> QED
    BY <1>1, <1>2, SlotsAssumption, FS_CardinalityType, FS_Difference

LEMMA EnrollEffect ==
    ASSUME TypeOK, NEW m \in FactorIds, NEW u \in UserIds,
           \/ EnrollTotp(m, u)
           \/ \E w \in WebAuthnIds, count \in Counters : EnrollWebAuthn(m, u, w, count)
           \/ EnrollRecovery(m, u)
    PROVE  Enrolls(m) /\ \A d \in FactorIds \ {m} : Untouched(d)
<1>1. Cardinality(Slots) \in Nat /\ 0 \in Counters
    BY SlotsAssumption, FS_CardinalityType, MfaBoundsAssumption DEF Counters
<1>2. now \in Nat /\ consumed' = consumed
    BY DEF TypeOK, EnrollTotp, EnrollWebAuthn, EnrollRecovery
<1>3. CASE EnrollTotp(m, u)
    BY <1>1, <1>2, <1>3 DEF TypeOK, EnrollTotp, StoreFactor, Enrolls, Untouched, Factor,
          SingletonType
<1>4. ASSUME NEW w \in WebAuthnIds, NEW count \in Counters, EnrollWebAuthn(m, u, w, count)
      PROVE  Enrolls(m) /\ \A d \in FactorIds \ {m} : Untouched(d)
    BY <1>1, <1>2, <1>4 DEF TypeOK, EnrollWebAuthn, StoreFactor, Enrolls, Untouched, Factor
<1>5. CASE EnrollRecovery(m, u)
    BY <1>1, <1>2, <1>5 DEF TypeOK, EnrollRecovery, StoreFactor, Enrolls, Untouched, Factor,
          SingletonType
<1> QED
    BY <1>3, <1>4, <1>5

LEMMA FactorEffect ==
    ASSUME TypeOK, NEW m \in FactorIds
    PROVE  /\ ConfirmTotp(m) => Confirms(m)
           /\ \A count \in Counters : ConfirmWebAuthn(m, count) => Confirms(m)
           /\ RevokeFactor(m) => Revokes(m)
           /\ ConfirmTotp(m) \/ (\E count \in Counters : ConfirmWebAuthn(m, count)) \/ RevokeFactor(m)
                 => \A d \in FactorIds \ {m} : Untouched(d)
<1>1. ASSUME ConfirmTotp(m) PROVE Confirms(m)
    <2>1. factors[m] \in Factor /\ Has(m, "totp", "pending") /\ ~PendingExpired(m)
        BY <1>1 DEF ConfirmTotp, Confirmable, Has, Enrolled, TypeOK
    <2>2. factors'[m] = [factors[m] EXCEPT !.status = "active"] /\ consumed' = consumed
        BY <1>1 DEF ConfirmTotp, TypeOK
    <2>3. Moves(m, "active", factors[m].signCount) /\ factors[m].signCount \in Counters
        BY <2>1, <2>2 DEF Moves, Factor
    <2> QED
        BY <2>1, <2>3 DEF Confirms
<1>2. ASSUME NEW count \in Counters, ConfirmWebAuthn(m, count) PROVE Confirms(m)
    <2>1. factors[m] \in Factor /\ Has(m, "webauthn", "pending") /\ ~PendingExpired(m)
        BY <1>2 DEF ConfirmWebAuthn, Confirmable, Has, Enrolled, TypeOK
    <2>2. /\ factors'[m] = [factors[m] EXCEPT !.status = "active", !.signCount = count]
          /\ consumed' = consumed /\ CounterAdvances(factors[m].signCount, count)
        BY <1>2 DEF ConfirmWebAuthn, TypeOK
    <2>3. Moves(m, "active", count)
        BY <2>1, <2>2 DEF Moves, Factor
    <2> QED
        BY <2>1, <2>2, <2>3 DEF Confirms
<1>3. ASSUME RevokeFactor(m) PROVE Revokes(m)
    <2>1. factors[m] \in Factor /\ Enrolled(m) /\ factors[m].status # "revoked"
        BY <1>3 DEF RevokeFactor, Enrolled, TypeOK
    <2>2. factors'[m] = [factors[m] EXCEPT !.status = "revoked"] /\ consumed' = consumed
        BY <1>3 DEF RevokeFactor, TypeOK
    <2>3. Moves(m, "revoked", factors[m].signCount)
        BY <2>1, <2>2 DEF Moves, Factor
    <2> QED
        BY <2>1, <2>3 DEF Revokes
<1>4. ASSUME ConfirmTotp(m) \/ (\E count \in Counters : ConfirmWebAuthn(m, count)) \/ RevokeFactor(m),
             NEW d \in FactorIds \ {m}
      PROVE  Untouched(d)
    BY <1>4 DEF ConfirmTotp, ConfirmWebAuthn, RevokeFactor, Untouched, TypeOK
<1> QED
    BY <1>1, <1>2, <1>3, <1>4

LEMMA VerifyEffect ==
    ASSUME Inv, NEW u \in UserIds
    PROVE  /\ \A w \in WebAuthnIds, count \in Counters : VerifyWebAuthn(u, w, count) =>
                 /\ webAuthnFactor[w] \in FactorIds /\ Counts(webAuthnFactor[w])
                 /\ \A d \in FactorIds \ {webAuthnFactor[w]} : Untouched(d)
           /\ \A i \in Slots : VerifyRecovery(u, i) =>
                 /\ activeSingleton[<<u, "recovery">>] \in FactorIds
                 /\ Uses(activeSingleton[<<u, "recovery">>])
                 /\ \A d \in FactorIds \ {activeSingleton[<<u, "recovery">>]} : Untouched(d)
<1>1. ASSUME NEW w \in WebAuthnIds, NEW count \in Counters, VerifyWebAuthn(u, w, count)
      PROVE  /\ webAuthnFactor[w] \in FactorIds /\ Counts(webAuthnFactor[w])
             /\ \A d \in FactorIds \ {webAuthnFactor[w]} : Untouched(d)
    <2>1. PICK m \in FactorIds : m = webAuthnFactor[w]
        BY <1>1 DEF VerifyWebAuthn, Inv, TypeOK
    <2>2. /\ Has(m, "webauthn", "active") /\ CounterAdvances(factors[m].signCount, count)
          /\ factors' = [factors EXCEPT ![m].signCount = count] /\ consumed' = consumed
        BY <1>1, <2>1 DEF VerifyWebAuthn
    <2>3. factors[m] \in Factor /\ factors'[m] = [factors[m] EXCEPT !.signCount = count]
        BY <2>2 DEF Inv, TypeOK, Has, Enrolled
    <2>4. Moves(m, "active", count)
        BY <2>2, <2>3 DEF Moves, Factor, Has
    <2>5. \A d \in FactorIds \ {m} : Untouched(d)
        BY <2>2 DEF Inv, TypeOK, Untouched
    <2> QED
        BY <2>1, <2>2, <2>4, <2>5 DEF Counts
<1>2. ASSUME NEW i \in Slots, VerifyRecovery(u, i)
      PROVE  /\ activeSingleton[<<u, "recovery">>] \in FactorIds
             /\ Uses(activeSingleton[<<u, "recovery">>])
             /\ \A d \in FactorIds \ {activeSingleton[<<u, "recovery">>]} : Untouched(d)
    <2>1. PICK m \in FactorIds : m = activeSingleton[<<u, "recovery">>]
        BY <1>2 DEF VerifyRecovery, Inv, TypeOK, SingletonType
    <2>2. Has(m, "recovery", "active")
        BY <2>1 DEF Inv, IndexesExact
    <2>3. /\ i \notin consumed[m]
          /\ consumed' = [consumed EXCEPT ![m] = @ \cup {i}]
          /\ factors' = [factors EXCEPT ![m].remaining = Cardinality(Slots \ consumed'[m])]
        BY <1>2, <2>1 DEF VerifyRecovery
    <2>4. consumed'[m] = consumed[m] \cup {i}
        BY <2>3 DEF Inv, TypeOK
    <2>5. factors'[m] = [factors[m] EXCEPT !.remaining = Cardinality(Slots \ consumed'[m])]
        BY <2>3 DEF Inv, TypeOK
    <2>6. \A d \in FactorIds \ {m} : Untouched(d)
        BY <2>3 DEF Inv, TypeOK, Untouched
    <2> QED
        BY <2>1, <2>2, <2>3, <2>4, <2>5, <2>6 DEF Uses
<1> QED
    BY <1>1, <1>2

LEMMA StepEffect ==
    ASSUME Inv, [Next]_vars, NEW m \in FactorIds
    PROVE  Effect(m)
<1>1. ASSUME UNCHANGED factorVars PROVE Effect(m)
    BY <1>1 DEF factorVars, Effect, Untouched
<1>2. CASE EnrollNext
    BY <1>2, EnrollEffect DEF EnrollNext, Effect, Inv
<1>3. CASE FactorNext
    BY <1>3, FactorEffect DEF FactorNext, Effect, Inv
<1>4. CASE VerifyNext
    BY <1>4, VerifyEffect DEF VerifyNext, Effect
<1>5. CASE (\E u \in UserIds : UserLifecycle(u)) \/ Tick
    BY <1>1, <1>5 DEF UserLifecycle, Tick
<1>6. CASE UNCHANGED vars
    BY <1>1, <1>6 DEF vars
<1> QED
    BY <1>2, <1>3, <1>4, <1>5, <1>6 DEF Next

----------------------------------------------------------------------------
(* What follows for every factor by itself: types, counts, pending sets.    *)

\* A recovery code that is used changes the count of its set and nothing else of
\* the record.
LEMMA UsesRecord ==
    ASSUME TypeOK, NEW m \in FactorIds, Uses(m)
    PROVE  /\ factors[m] \in Factor /\ factors'[m] \in Factor
           /\ factors'[m].usr = factors[m].usr /\ factors'[m].type = factors[m].type
           /\ factors'[m].identifier = factors[m].identifier
           /\ factors'[m].status = factors[m].status
           /\ factors'[m].signCount = factors[m].signCount
           /\ factors'[m].remaining = Cardinality(Slots \ consumed'[m])
           /\ consumed'[m] \in SUBSET Slots
<1>1. factors[m] \in Factor /\ consumed'[m] \in SUBSET Slots
    BY DEF Uses, Has, Enrolled, TypeOK
<1>2. Cardinality(Slots \ consumed'[m]) \in Nat
    BY <1>1, SlotsFinite
<1>3. factors'[m] = [factors[m] EXCEPT !.remaining = Cardinality(Slots \ consumed'[m])]
    BY DEF Uses
<1> QED
    BY <1>1, <1>2, <1>3 DEF Factor

LEMMA EffectType ==
    ASSUME TypeOK, NEW m \in FactorIds, Effect(m)
    PROVE  factors'[m] \in Factor \cup {None} /\ consumed'[m] \in SUBSET Slots
<1>1. factors[m] \in Factor \cup {None} /\ consumed[m] \in SUBSET Slots
    BY DEF TypeOK
<1>2. CASE Untouched(m) \/ Enrolls(m)
    BY <1>1, <1>2 DEF Untouched, Enrolls
<1>3. CASE Confirms(m) \/ Counts(m) \/ Revokes(m)
    BY <1>1, <1>3 DEF Confirms, Counts, Revokes, Moves
<1>4. CASE Uses(m)
    BY <1>4, UsesRecord
<1> QED
    BY <1>2, <1>3, <1>4 DEF Effect

LEMMA TypeStep ==
    ASSUME Inv, [Next]_vars
    PROVE  TypeOK'
<1>a. TypeOK
    BY DEF Inv
<1>1. \A m \in FactorIds : factors'[m] \in Factor \cup {None} /\ consumed'[m] \in SUBSET Slots
    BY <1>a, StepEffect, EffectType
<1>2. /\ factors' = [m \in FactorIds |-> factors'[m]]
      /\ consumed' = [m \in FactorIds |-> consumed'[m]]
    BY <1>a DEF TypeOK, Next, UserLifecycle, EnrollNext, EnrollTotp, EnrollWebAuthn, EnrollRecovery,
          StoreFactor, FactorNext, ConfirmTotp, ConfirmWebAuthn, RevokeFactor, VerifyNext,
          VerifyWebAuthn, VerifyRecovery, Tick, vars, factorVars
<1>3. factors' \in [FactorIds -> Factor \cup {None}] /\ consumed' \in [FactorIds -> SUBSET Slots]
    BY <1>1, <1>2
<1>4. users' \in [UserIds -> {None, "active", "suspended", "revoked"}] /\ now' \in Nat
    <2>1. CASE EnrollNext
        BY <1>a, <2>1 DEF TypeOK, EnrollNext, EnrollTotp, EnrollWebAuthn, EnrollRecovery
    <2>2. CASE FactorNext
        BY <1>a, <2>2 DEF TypeOK, FactorNext, ConfirmTotp, ConfirmWebAuthn, RevokeFactor
    <2>3. CASE VerifyNext \/ Tick \/ UNCHANGED vars
        <3>1. users' = users /\ now' \in {now, now + 1}
            BY <2>3 DEF VerifyNext, VerifyWebAuthn, VerifyRecovery, Tick, vars
        <3> QED
            BY <1>a, <3>1 DEF TypeOK
    <2>4. CASE \E u \in UserIds : UserLifecycle(u)
        BY <1>a, <2>4 DEF TypeOK, UserLifecycle
    <2> QED
        BY <2>1, <2>2, <2>3, <2>4 DEF Next
<1>5. /\ activeSingleton' \in [UserIds \X SingletonType -> FactorIds \cup {None}]
      /\ webAuthnFactor' \in [WebAuthnIds -> FactorIds \cup {None}]
    <2>1. CASE EnrollNext
        BY <1>a, <2>1 DEF TypeOK, EnrollNext, EnrollTotp, EnrollWebAuthn, EnrollRecovery
    <2>2. CASE FactorNext
        BY <1>a, <2>2 DEF TypeOK, FactorNext, ConfirmTotp, ConfirmWebAuthn, RevokeFactor
    <2>3. CASE VerifyNext \/ (\E u \in UserIds : UserLifecycle(u)) \/ Tick \/ UNCHANGED vars
        BY <1>a, <2>3 DEF TypeOK, VerifyNext, VerifyWebAuthn, VerifyRecovery, UserLifecycle, Tick,
              vars, factorVars
    <2> QED
        BY <2>1, <2>2, <2>3 DEF Next
<1> QED
    BY <1>3, <1>4, <1>5 DEF TypeOK

LEMMA CountStep ==
    ASSUME Inv, [Next]_vars
    PROVE  RemainingExact' /\ NoPendingRecovery'
<1> SUFFICES ASSUME NEW m \in FactorIds
             PROVE  /\ (Enrolled(m) /\ factors[m].type = "recovery" =>
                          factors[m].remaining = Cardinality(Slots) - Cardinality(consumed[m]))'
                    /\ (~Enrolled(m) \/ factors[m].type # "recovery" => consumed[m] = {})'
                    /\ ~Has(m, "recovery", "pending")'
    BY DEF RemainingExact, NoPendingRecovery
<1>a. TypeOK
    BY DEF Inv
<1>1. /\ Enrolled(m) /\ factors[m].type = "recovery" =>
            factors[m].remaining = Cardinality(Slots) - Cardinality(consumed[m])
      /\ ~Enrolled(m) \/ factors[m].type # "recovery" => consumed[m] = {}
      /\ ~Has(m, "recovery", "pending")
      /\ factors[m] \in Factor \cup {None} /\ consumed[m] \in SUBSET Slots
    BY DEF Inv, RemainingExact, NoPendingRecovery, TypeOK
<1>2. CASE Untouched(m)
    BY <1>1, <1>2 DEF Untouched, Enrolled, Has
<1>3. CASE Enrolls(m)
    <2>1. Cardinality({}) = 0 /\ Cardinality(Slots) \in Nat
        BY FS_EmptySet, SlotsAssumption, FS_CardinalityType
    <2>2. Enrolled(m)' /\ consumed'[m] = {}
        BY <1>1, <1>3, NoFactorAssumption DEF Enrolls, Enrolled
    <2> QED
        BY <1>3, <2>1, <2>2 DEF Enrolls, Has
<1>4. CASE Confirms(m) \/ Counts(m) \/ Revokes(m)
    <2>1. Enrolled(m) /\ Enrolled(m)' /\ factors'[m].type = factors[m].type
          /\ factors'[m].remaining = factors[m].remaining /\ consumed'[m] = consumed[m]
          /\ factors'[m].status # "pending"
        BY <1>4, NoFactorAssumption DEF Confirms, Counts, Revokes, Moves, Enrolled, Has
    <2> QED
        BY <1>1, <2>1 DEF Has
<1>5. CASE Uses(m)
    <2>1. factors[m].type = "recovery" /\ factors[m].status = "active"
        BY <1>5 DEF Uses, Has
    <2>2. /\ factors'[m] # None
          /\ factors'[m].type = "recovery" /\ factors'[m].status = "active"
          /\ factors'[m].remaining = Cardinality(Slots \ consumed'[m])
        BY <1>5, <1>a, <2>1, UsesRecord, NoFactorAssumption
    <2>3. Cardinality(Slots \ consumed'[m]) = Cardinality(Slots) - Cardinality(consumed'[m])
        BY <1>5, <1>a, UsesRecord, SlotsFinite
    <2> QED
        BY <2>2, <2>3 DEF Enrolled, Has
<1> QED
    BY <1>2, <1>3, <1>4, <1>5, StepEffect DEF Effect

----------------------------------------------------------------------------
(* The two indexes.                                                         *)

Takes(m, w) == Enrolled(m) /\ factors[m].type = "webauthn" /\ factors[m].identifier = w
                 /\ factors[m].status # "revoked"
ActiveOf(m, u, type) == Has(m, type, "active") /\ factors[m].usr = u

\* What the indexes say of m stays the same.
KeepsTaken(m) == \A w \in WebAuthnIds : Takes(m, w)' <=> Takes(m, w)
KeepsActive(m) == \A u \in UserIds, type \in SingletonType :
    ActiveOf(m, u, type)' <=> ActiveOf(m, u, type)

\* A factor that stays, counts or gives up a recovery code is indexed as before.
LEMMA KeepsIndexed ==
    ASSUME TypeOK, NEW m \in FactorIds, Untouched(m) \/ Counts(m) \/ Uses(m)
    PROVE  KeepsTaken(m) /\ KeepsActive(m)
<1>1. CASE Untouched(m)
    BY <1>1 DEF Untouched, KeepsTaken, KeepsActive, Takes, ActiveOf, Has, Enrolled
<1>2. CASE Counts(m)
    <2>1. /\ Enrolled(m) /\ Enrolled(m)' /\ factors'[m].status = factors[m].status
          /\ factors'[m].usr = factors[m].usr /\ factors'[m].type = factors[m].type
          /\ factors'[m].identifier = factors[m].identifier
        BY <1>2, NoFactorAssumption DEF Counts, Moves, Has, Enrolled
    <2> QED
        BY <2>1 DEF KeepsTaken, KeepsActive, Takes, ActiveOf, Has
<1>3. CASE Uses(m)
    <2>1. Enrolled(m) /\ Enrolled(m)'
        BY <1>3, UsesRecord, NoFactorAssumption DEF Enrolled
    <2> QED
        BY <1>3, <2>1, UsesRecord DEF KeepsTaken, KeepsActive, Takes, ActiveOf, Has
<1> QED
    BY <1>1, <1>2, <1>3

\* A confirmation keeps the credential id taken, and a factor of another type out
\* of the slot.
LEMMA ConfirmsIndexed ==
    ASSUME NEW m \in FactorIds, Confirms(m)
    PROVE  /\ KeepsTaken(m)
           /\ \A u \in UserIds, type \in SingletonType : ~ActiveOf(m, u, type)
           /\ \A u \in UserIds, type \in SingletonType :
                 factors[m].type # type => ~ActiveOf(m, u, type)'
<1>1. /\ Enrolled(m) /\ Enrolled(m)'
      /\ factors[m].status = "pending" /\ factors'[m].status = "active"
      /\ factors'[m].usr = factors[m].usr /\ factors'[m].type = factors[m].type
      /\ factors'[m].identifier = factors[m].identifier
    BY NoFactorAssumption DEF Confirms, Moves, Has, Enrolled
<1> QED
    BY <1>1 DEF KeepsTaken, Takes, ActiveOf, Has

LEMMA EnrollsIndexed ==
    ASSUME NEW m \in FactorIds, Enrolls(m)
    PROVE  /\ \A w \in WebAuthnIds : ~Takes(m, w)
           /\ \A u \in UserIds, type \in SingletonType : ~ActiveOf(m, u, type)
BY DEF Enrolls, Takes, ActiveOf, Has

LEMMA RevokesIndexed ==
    ASSUME NEW m \in FactorIds, Revokes(m)
    PROVE  /\ \A w \in WebAuthnIds : ~Takes(m, w)'
           /\ \A u \in UserIds, type \in SingletonType : ~ActiveOf(m, u, type)'
BY DEF Revokes, Moves, Takes, ActiveOf, Has

\* The invariants of the indexes, in terms of Takes and ActiveOf.
IndexInv ==
    /\ \A u \in UserIds, type \in SingletonType, m \in FactorIds :
          activeSingleton[<<u, type>>] = m => ActiveOf(m, u, type)
    /\ \A w \in WebAuthnIds, m \in FactorIds : webAuthnFactor[w] = m <=> Takes(m, w)
    /\ \A u \in UserIds, m \in FactorIds :
          activeSingleton[<<u, "recovery">>] = m <=> ActiveOf(m, u, "recovery")

LEMMA IndexInvIs ==
    ASSUME TypeOK
    PROVE  IndexInv <=> SlotSound /\ IndexesExact
<1>1. ASSUME IndexInv PROVE SlotSound /\ IndexesExact
    <2>1. ASSUME NEW u \in UserIds, NEW type \in SingletonType,
                 activeSingleton[<<u, type>>] # None
          PROVE  ActiveOf(activeSingleton[<<u, type>>], u, type)
        BY <1>1, <2>1 DEF TypeOK, IndexInv
    <2> QED
        BY <1>1, <2>1 DEF SlotSound, IndexesExact, IndexInv, Takes, ActiveOf
<1>2. ASSUME SlotSound, IndexesExact PROVE IndexInv
    BY <1>2, MfaNoneAssumption DEF SlotSound, IndexesExact, IndexInv, Takes, ActiveOf
<1> QED
    BY <1>1, <1>2

LEMMA IndexSame ==
    ASSUME IndexInv, UNCHANGED <<activeSingleton, webAuthnFactor>>,
           \A m \in FactorIds : KeepsTaken(m) /\ KeepsActive(m)
    PROVE  IndexInv'
BY DEF IndexInv, KeepsTaken, KeepsActive, SingletonType

LEMMA IndexEnroll ==
    ASSUME Inv, IndexInv, NEW m \in FactorIds, NEW u \in UserIds,
           \/ EnrollTotp(m, u)
           \/ \E w \in WebAuthnIds, count \in Counters : EnrollWebAuthn(m, u, w, count)
           \/ EnrollRecovery(m, u)
    PROVE  IndexInv'
<1>a. TypeOK
    BY DEF Inv
<1>1. Enrolls(m) /\ \A d \in FactorIds \ {m} : Untouched(d)
    BY <1>a, EnrollEffect
<1>2. \A d \in FactorIds \ {m} : KeepsTaken(d) /\ KeepsActive(d)
    BY <1>a, <1>1, KeepsIndexed
<1>3. factors'[m] # None
    BY <1>1, NoFactorAssumption DEF Enrolls
<1>4. /\ \A w \in WebAuthnIds : ~Takes(m, w)
      /\ \A v \in UserIds, type \in SingletonType : ~ActiveOf(m, v, type)
    BY <1>1, EnrollsIndexed
<1>5. CASE EnrollTotp(m, u)
    <2>1. factors'[m].status = "pending" /\ factors'[m].type = "totp"
        BY <1>a, <1>5 DEF EnrollTotp, StoreFactor, TypeOK
    <2>2. KeepsTaken(m) /\ KeepsActive(m)
        BY <1>4, <2>1 DEF KeepsTaken, KeepsActive, Takes, ActiveOf, Has
    <2> QED
        BY <1>2, <1>5, <2>2, IndexSame DEF EnrollTotp
<1>6. ASSUME NEW w \in WebAuthnIds, NEW count \in Counters, EnrollWebAuthn(m, u, w, count)
      PROVE  IndexInv'
    <2>1. /\ factors'[m].status = "pending" /\ factors'[m].type = "webauthn"
          /\ factors'[m].identifier = w
        BY <1>a, <1>6 DEF EnrollWebAuthn, StoreFactor, TypeOK
    <2>2. /\ KeepsActive(m) /\ \A x \in WebAuthnIds : Takes(m, x)' <=> x = w
        BY <1>3, <1>4, <2>1 DEF KeepsActive, Takes, ActiveOf, Has, Enrolled
    <2>3. /\ webAuthnFactor[w] = None /\ webAuthnFactor'[w] = m
          /\ \A x \in WebAuthnIds \ {w} : webAuthnFactor'[x] = webAuthnFactor[x]
          /\ activeSingleton' = activeSingleton
        BY <1>a, <1>6 DEF EnrollWebAuthn, TypeOK
    <2>4. \A d \in FactorIds : ~Takes(d, w)
        BY <2>3, MfaNoneAssumption DEF IndexInv
    <2>5. \A x \in WebAuthnIds, d \in FactorIds : webAuthnFactor'[x] = d <=> Takes(d, x)'
        BY <1>2, <1>4, <2>2, <2>3, <2>4 DEF KeepsTaken, IndexInv
    <2> QED
        BY <1>2, <2>2, <2>3, <2>5 DEF IndexInv, KeepsActive, SingletonType
<1>7. CASE EnrollRecovery(m, u)
    <2>1. /\ factors'[m].status = "active" /\ factors'[m].type = "recovery"
          /\ factors'[m].usr = u
        BY <1>a, <1>7 DEF EnrollRecovery, StoreFactor, TypeOK
    <2>2. /\ KeepsTaken(m)
          /\ \A v \in UserIds, type \in SingletonType :
                ActiveOf(m, v, type)' <=> v = u /\ type = "recovery"
        BY <1>3, <1>4, <2>1 DEF KeepsTaken, Takes, ActiveOf, Has, Enrolled
    <2>3. /\ activeSingleton[<<u, "recovery">>] = None
          /\ webAuthnFactor' = webAuthnFactor
          /\ \A v \in UserIds, type \in SingletonType : activeSingleton'[<<v, type>>] =
                IF v = u /\ type = "recovery" THEN m ELSE activeSingleton[<<v, type>>]
        BY <1>a, <1>7 DEF EnrollRecovery, NoActiveSingleton, TypeOK
    <2>4. \A d \in FactorIds : ~ActiveOf(d, u, "recovery")
        BY <2>3, MfaNoneAssumption DEF IndexInv
    <2>5. \A v \in UserIds, type \in SingletonType, d \in FactorIds :
              activeSingleton'[<<v, type>>] = d => ActiveOf(d, v, type)'
        BY <1>2, <1>4, <2>2, <2>3 DEF IndexInv, KeepsActive
    <2>6. \A v \in UserIds, d \in FactorIds :
              activeSingleton'[<<v, "recovery">>] = d <=> ActiveOf(d, v, "recovery")'
        <3> SUFFICES ASSUME NEW v \in UserIds, NEW d \in FactorIds
                     PROVE  activeSingleton'[<<v, "recovery">>] = d <=> ActiveOf(d, v, "recovery")'
            OBVIOUS
        <3>1. "recovery" \in SingletonType
            BY DEF SingletonType
        <3>2. CASE d = m
            BY <1>4, <2>2, <2>3, <3>1, <3>2 DEF IndexInv
        <3>3. CASE d # m
            <4>1. ActiveOf(d, v, "recovery")' <=> ActiveOf(d, v, "recovery")
                BY <1>2, <3>1, <3>3 DEF KeepsActive
            <4>2. activeSingleton[<<v, "recovery">>] = d <=> ActiveOf(d, v, "recovery")
                BY DEF IndexInv
            <4> QED
                BY <2>3, <2>4, <3>1, <3>3, <4>1, <4>2
        <3> QED
            BY <3>2, <3>3
    <2> QED
        BY <1>2, <2>2, <2>3, <2>5, <2>6 DEF IndexInv, KeepsTaken
<1> QED
    BY <1>5, <1>6, <1>7

LEMMA IndexConfirm ==
    ASSUME Inv, IndexInv, NEW m \in FactorIds,
           ConfirmTotp(m) \/ \E count \in Counters : ConfirmWebAuthn(m, count)
    PROVE  IndexInv'
<1>a. TypeOK
    BY DEF Inv
<1>1. Confirms(m) /\ \A d \in FactorIds \ {m} : Untouched(d)
    BY <1>a, FactorEffect
<1>2. /\ \A d \in FactorIds \ {m} : KeepsTaken(d) /\ KeepsActive(d)
      /\ KeepsTaken(m)
    BY <1>a, <1>1, KeepsIndexed, ConfirmsIndexed
<1>3. ASSUME NEW count \in Counters, ConfirmWebAuthn(m, count) PROVE IndexInv'
    <2>1. factors[m].type = "webauthn"
        BY <1>3 DEF ConfirmWebAuthn, Confirmable, Has
    <2>2. KeepsActive(m)
        BY <1>1, <2>1, ConfirmsIndexed DEF KeepsActive, SingletonType
    <2> QED
        BY <1>2, <1>3, <2>2, IndexSame DEF ConfirmWebAuthn
<1>4. CASE ConfirmTotp(m)
    <2>1. /\ factors[m].type = "totp" /\ factors[m] \in Factor
          /\ factors[m].usr \in UserIds
        BY <1>a, <1>4 DEF ConfirmTotp, Confirmable, Has, Enrolled, TypeOK, Factor
    <2>2. /\ webAuthnFactor' = webAuthnFactor
          /\ \A v \in UserIds, type \in SingletonType : activeSingleton'[<<v, type>>] =
                IF v = factors[m].usr /\ type = "totp" THEN m ELSE activeSingleton[<<v, type>>]
        BY <1>a, <1>4, <2>1 DEF ConfirmTotp, TypeOK
    <2>3. ActiveOf(m, factors[m].usr, "totp")'
        BY <1>1, <2>1, NoFactorAssumption DEF Confirms, Moves, ActiveOf, Has, Enrolled
    <2>4. \A v \in UserIds, type \in SingletonType : ~ActiveOf(m, v, type)
        BY <1>1, ConfirmsIndexed
    <2>5. \A v \in UserIds, type \in SingletonType, d \in FactorIds :
              activeSingleton'[<<v, type>>] = d => ActiveOf(d, v, type)'
        <3> SUFFICES ASSUME NEW v \in UserIds, NEW type \in SingletonType, NEW d \in FactorIds,
                            activeSingleton'[<<v, type>>] = d
                     PROVE  ActiveOf(d, v, type)'
            OBVIOUS
        <3>1. CASE v = factors[m].usr /\ type = "totp"
            <4>1. d = m
                BY <2>2, <3>1
            <4>2. factors'[m].usr = factors[m].usr
                BY <1>1 DEF Confirms, Moves
            <4> QED
                BY <2>3, <3>1, <4>1, <4>2 DEF ActiveOf
        <3>2. CASE ~(v = factors[m].usr /\ type = "totp")
            <4>1. ActiveOf(d, v, type)
                BY <2>2, <3>2 DEF IndexInv
            <4>2. d # m
                BY <2>4, <4>1
            <4> QED
                BY <1>2, <4>1, <4>2 DEF KeepsActive
        <3> QED
            BY <3>1, <3>2
    <2>6. \A v \in UserIds, d \in FactorIds :
              ActiveOf(d, v, "recovery")' <=> ActiveOf(d, v, "recovery")
        <3>1. \A v \in UserIds : ~ActiveOf(m, v, "recovery")' /\ ~ActiveOf(m, v, "recovery")
            BY <1>1, <2>1, <2>4 DEF Confirms, Moves, ActiveOf, Has, SingletonType
        <3> QED
            BY <1>2, <3>1 DEF KeepsActive, SingletonType
    <2>7. \A v \in UserIds, d \in FactorIds :
              activeSingleton'[<<v, "recovery">>] = d <=> ActiveOf(d, v, "recovery")'
        BY <2>2, <2>6 DEF IndexInv, SingletonType
    <2> QED
        BY <1>2, <2>2, <2>5, <2>7 DEF IndexInv, KeepsTaken
<1> QED
    BY <1>3, <1>4

LEMMA IndexRevoke ==
    ASSUME Inv, IndexInv, NEW m \in FactorIds, RevokeFactor(m)
    PROVE  IndexInv'
<1>a. TypeOK
    BY DEF Inv
<1>1. Revokes(m) /\ \A d \in FactorIds \ {m} : Untouched(d)
    BY <1>a, FactorEffect
<1>2. \A d \in FactorIds \ {m} : KeepsTaken(d) /\ KeepsActive(d)
    BY <1>a, <1>1, KeepsIndexed
<1>3. /\ \A w \in WebAuthnIds : ~Takes(m, w)'
      /\ \A u \in UserIds, type \in SingletonType : ~ActiveOf(m, u, type)'
    BY <1>1, RevokesIndexed
<1>4. factors[m] \in Factor /\ Enrolled(m) /\ factors[m].status # "revoked"
    BY <1>a, <1>1 DEF Revokes, Enrolled, TypeOK
<1>5. CASE factors[m].type = "webauthn"
    <2>1. \A u \in UserIds, type \in SingletonType : ~ActiveOf(m, u, type)
        BY <1>5 DEF ActiveOf, Has, SingletonType
    <2>2. /\ activeSingleton' = activeSingleton
          /\ \A w \in WebAuthnIds : webAuthnFactor'[w] =
                IF w = factors[m].identifier THEN None ELSE webAuthnFactor[w]
        BY <1>a, <1>5 DEF RevokeFactor, TypeOK
    <2>3. \A w \in WebAuthnIds : Takes(m, w) <=> w = factors[m].identifier
        BY <1>4, <1>5 DEF Takes
    <2>4. ASSUME NEW w \in WebAuthnIds, NEW d \in FactorIds
          PROVE  webAuthnFactor'[w] = d <=> Takes(d, w)'
        <3>1. webAuthnFactor[w] = m <=> w = factors[m].identifier
            BY <2>3 DEF IndexInv
        <3>2. CASE d = m
            BY <1>3, <2>2, <3>1, <3>2, MfaNoneAssumption
        <3>3. CASE d # m
            <4>1. Takes(d, w)' <=> Takes(d, w)
                BY <1>2, <3>3 DEF KeepsTaken
            <4>2. webAuthnFactor[w] = d <=> Takes(d, w)
                BY DEF IndexInv
            <4> QED
                BY <2>2, <3>1, <3>3, <4>1, <4>2, MfaNoneAssumption
        <3> QED
            BY <3>2, <3>3
    <2>5. \A u \in UserIds, type \in SingletonType, d \in FactorIds :
              ActiveOf(d, u, type)' <=> ActiveOf(d, u, type)
        BY <1>2, <1>3, <2>1 DEF KeepsActive
    <2> QED
        BY <2>2, <2>4, <2>5 DEF IndexInv, SingletonType
<1>6. CASE factors[m].type # "webauthn"
    <2> DEFINE mine(u, type) == u = factors[m].usr /\ type = factors[m].type
    <2>1. factors[m].type \in SingletonType /\ factors[m].usr \in UserIds
        BY <1>4, <1>6 DEF Factor
    <2>2. /\ webAuthnFactor' = webAuthnFactor
          /\ \A u \in UserIds, type \in SingletonType : activeSingleton'[<<u, type>>] =
                IF mine(u, type) THEN None ELSE activeSingleton[<<u, type>>]
        BY <1>a, <1>6, <2>1 DEF RevokeFactor, TypeOK
    <2>3. \A w \in WebAuthnIds : ~Takes(m, w)
        BY <1>6 DEF Takes
    <2>4. \A w \in WebAuthnIds, d \in FactorIds : Takes(d, w)' <=> Takes(d, w)
        BY <1>2, <1>3, <2>3 DEF KeepsTaken
    <2>5. ASSUME NEW u \in UserIds, NEW type \in SingletonType, NEW d \in FactorIds
          PROVE  /\ activeSingleton'[<<u, type>>] = d => ActiveOf(d, u, type)'
                 /\ type = "recovery" /\ ActiveOf(d, u, type)' => activeSingleton'[<<u, type>>] = d
        <3>1. activeSingleton[<<u, type>>] = d => ActiveOf(d, u, type)
            BY DEF IndexInv
        <3>2. type = "recovery" /\ ActiveOf(d, u, type) => activeSingleton[<<u, type>>] = d
            BY DEF IndexInv
        <3>3. ActiveOf(m, u, type) => mine(u, type)
            BY DEF ActiveOf, Has
        <3>4. type = "recovery" /\ mine(u, type) => ActiveOf(m, u, type)
            <4>1. type = "recovery" /\ mine(u, type) => factors[m].status = "active"
                BY <1>4 DEF Inv, NoPendingRecovery, Has, Factor
            <4> QED
                BY <1>4, <4>1 DEF ActiveOf, Has
        <3>5. type = "recovery" /\ mine(u, type) => activeSingleton[<<u, type>>] = m
            BY <3>4 DEF IndexInv
        <3> HIDE DEF mine
        <3>6. CASE d = m
            BY <1>3, <2>2, <3>1, <3>3, <3>6, MfaNoneAssumption
        <3>7. CASE d # m
            <4>1. ActiveOf(d, u, type)' <=> ActiveOf(d, u, type)
                BY <1>2, <3>7 DEF KeepsActive
            <4> QED
                BY <2>2, <3>1, <3>2, <3>5, <3>7, <4>1, MfaNoneAssumption
        <3> QED
            BY <3>6, <3>7
    <2>6. /\ \A u \in UserIds, type \in SingletonType, d \in FactorIds :
                activeSingleton'[<<u, type>>] = d => ActiveOf(d, u, type)'
          /\ \A u \in UserIds, d \in FactorIds :
                activeSingleton'[<<u, "recovery">>] = d <=> ActiveOf(d, u, "recovery")'
        BY <2>5 DEF SingletonType
    <2> QED
        BY <2>2, <2>4, <2>6 DEF IndexInv
<1> QED
    BY <1>5, <1>6

LEMMA IndexStep ==
    ASSUME Inv, [Next]_vars
    PROVE  SlotSound' /\ IndexesExact'
<1>a. TypeOK /\ TypeOK' /\ IndexInv
    BY TypeStep, IndexInvIs DEF Inv
<1>1. ASSUME EnrollNext PROVE IndexInv'
    BY <1>a, <1>1, IndexEnroll DEF EnrollNext
<1>2. ASSUME FactorNext PROVE IndexInv'
    BY <1>a, <1>2, IndexConfirm, IndexRevoke DEF FactorNext
<1>3. ASSUME VerifyNext PROVE IndexInv'
    <2>1. \A m \in FactorIds : Untouched(m) \/ Counts(m) \/ Uses(m)
        BY <1>3, VerifyEffect DEF VerifyNext
    <2>2. UNCHANGED <<activeSingleton, webAuthnFactor>>
        BY <1>3 DEF VerifyNext, VerifyWebAuthn, VerifyRecovery
    <2> QED
        BY <1>a, <2>1, <2>2, KeepsIndexed, IndexSame
<1>4. ASSUME (\E u \in UserIds : UserLifecycle(u)) \/ Tick \/ UNCHANGED vars PROVE IndexInv'
    <2>1. UNCHANGED factorVars
        BY <1>4 DEF UserLifecycle, Tick, vars
    <2> QED
        BY <1>a, <2>1, KeepsIndexed, IndexSame DEF factorVars, Untouched
<1>5. IndexInv'
    BY <1>1, <1>2, <1>3, <1>4 DEF Next
<1>6. (TypeOK => (IndexInv <=> SlotSound /\ IndexesExact))'
    BY IndexInvIs, PTL
<1> QED
    BY <1>a, <1>5, <1>6

----------------------------------------------------------------------------
(* The theorems.                                                            *)

LEMMA InitInv == Init => Inv
<1> SUFFICES ASSUME Init PROVE Inv
    OBVIOUS
<1>1. TypeOK
    BY DEF Init, TypeOK
<1>2. Cardinality({}) = 0 /\ \A m \in FactorIds : ~Enrolled(m) /\ consumed[m] = {}
    BY FS_EmptySet DEF Init, Enrolled
<1>3. RemainingExact /\ NoPendingRecovery
    BY <1>2 DEF RemainingExact, NoPendingRecovery, Has
<1>4. SlotSound /\ IndexesExact
    BY <1>2, MfaNoneAssumption DEF Init, SlotSound, IndexesExact, SingletonType, Has
<1> QED
    BY <1>1, <1>3, <1>4 DEF Inv

LEMMA NextInv == Inv /\ [Next]_vars => Inv'
BY TypeStep, CountStep, IndexStep DEF Inv

LEMMA Invariance == Spec => []Inv
BY InitInv, NextInv, PTL DEF Spec

\* The tables of factors keep their shape.
THEOREM MfaTypeCorrect == Spec => []TypeOK
<1>1. Inv => TypeOK
    BY DEF Inv
<1> QED
    BY <1>1, Invariance, PTL

\* verify_mfa reads no status for TOTP and recovery codes, and need not: the slot
\* only ever names an active factor of that user and type.
THEOREM SlotsCorrect == Spec => []SlotSound
<1>1. Inv => SlotSound
    BY DEF Inv
<1> QED
    BY <1>1, Invariance, PTL

\* A WebAuthn credential id is taken by exactly the factor that holds it, and the
\* recovery slot by exactly the active set of its user.
THEOREM IndexesCorrect == Spec => []IndexesExact
<1>1. Inv => IndexesExact
    BY DEF Inv
<1> QED
    BY <1>1, Invariance, PTL

\* The count of recovery codes that is shown is the number of codes left.
THEOREM RemainingCorrect == Spec => []RemainingExact
<1>1. Inv => RemainingExact
    BY DEF Inv
<1> QED
    BY <1>1, Invariance, PTL

\* What RevokedFactorUnused says of one step.
RevokedKept == \A m \in FactorIds :
    Enrolled(m) /\ factors[m].status = "revoked" =>
        factors'[m] = factors[m] /\ consumed'[m] = consumed[m]

\* A revoked factor takes part in nothing any more.
THEOREM RevokedFactorsUnused == Spec => RevokedFactorUnused
<1>1. ASSUME Inv, [Next]_vars PROVE RevokedKept
    <2> SUFFICES ASSUME NEW m \in FactorIds, Enrolled(m), factors[m].status = "revoked"
                 PROVE  Untouched(m)
        BY DEF RevokedKept, Untouched
    <2>1. Effect(m)
        BY <1>1, StepEffect
    <2> QED
        BY <2>1 DEF Effect, Enrolls, Confirms, Counts, Uses, Revokes, Has
<1>2. Inv /\ [Next]_vars => [RevokedKept]_vars
    BY <1>1
<1>3. Spec => [][RevokedKept]_vars
    BY <1>2, Invariance, PTL DEF Spec
<1> QED
    BY <1>3 DEF RevokedFactorUnused, RevokedKept

\* What NoReplay says of one step.
ReplayKept == \A m \in FactorIds : Enrolled(m) =>
    /\ Acceptable(m)' \subseteq Acceptable(m)
    /\ factors'[m].signCount > 0 => factors'[m].signCount \notin Acceptable(m)'
    /\ consumed[m] \subseteq consumed'[m]
    /\ factors[m].status = "pending" /\ PendingExpired(m) => factors'[m].status # "active"

\* The record of an enrolled factor after a step: the counter stays or advances,
\* the slots grow, and only an enrollment in time becomes active.
LEMMA EnrolledNext ==
    ASSUME TypeOK, NEW m \in FactorIds, Effect(m), Enrolled(m)
    PROVE  /\ factors[m].signCount \in Counters /\ factors'[m].signCount \in Counters
           /\ \/ factors'[m].signCount = factors[m].signCount
              \/ CounterAdvances(factors[m].signCount, factors'[m].signCount)
           /\ consumed[m] \subseteq consumed'[m]
           /\ factors[m].status = "pending" /\ PendingExpired(m) => factors'[m].status # "active"
<1>1. factors[m] \in Factor /\ factors[m].signCount \in Counters
    BY DEF TypeOK, Enrolled, Factor
<1>2. CASE Untouched(m)
    BY <1>1, <1>2 DEF Untouched
<1>3. CASE Confirms(m)
    BY <1>1, <1>3 DEF Confirms, Moves
<1>4. CASE Counts(m)
    BY <1>1, <1>4 DEF Counts, Moves, Has
<1>5. CASE Revokes(m)
    BY <1>1, <1>5 DEF Revokes, Moves
<1>6. CASE Uses(m)
    <2>1. consumed[m] \subseteq consumed'[m] /\ factors[m].status = "active"
        BY <1>6 DEF Uses, Has
    <2> QED
        BY <1>1, <1>6, <2>1, UsesRecord
<1> QED
    BY <1>2, <1>3, <1>4, <1>5, <1>6 DEF Effect, Enrolls

\* No proof works twice: the counters a factor accepts only become fewer, a used
\* recovery code stays used, and an enrollment that ran out is never confirmed.
THEOREM NoReplays == Spec => NoReplay
<1>1. ASSUME Inv, [Next]_vars PROVE ReplayKept
    <2> SUFFICES ASSUME NEW m \in FactorIds, Enrolled(m)
                 PROVE  /\ Acceptable(m)' \subseteq Acceptable(m)
                        /\ factors'[m].signCount > 0 => factors'[m].signCount \notin Acceptable(m)'
                        /\ consumed[m] \subseteq consumed'[m]
                        /\ factors[m].status = "pending" /\ PendingExpired(m)
                              => factors'[m].status # "active"
        BY DEF ReplayKept
    <2>1. /\ factors[m].signCount \in Counters /\ factors'[m].signCount \in Counters
          /\ \/ factors'[m].signCount = factors[m].signCount
             \/ CounterAdvances(factors[m].signCount, factors'[m].signCount)
          /\ consumed[m] \subseteq consumed'[m]
          /\ factors[m].status = "pending" /\ PendingExpired(m) => factors'[m].status # "active"
        BY <1>1, StepEffect, EnrolledNext DEF Inv
    <2>2. Counters \subseteq Nat
        BY MfaBoundsAssumption DEF Counters
    <2>s. PICK old \in Counters : factors[m].signCount = old
        BY <2>1
    <2>t. PICK new \in Counters : factors'[m].signCount = new
        BY <2>1
    <2>5. new = old \/ CounterAdvances(old, new)
        BY <2>1, <2>s, <2>t
    <2>6. Acceptable(m) = {c \in Counters : CounterAdvances(old, c)}
        BY <2>s DEF Acceptable
    <2>7. Acceptable(m)' = {c \in Counters : CounterAdvances(new, c)}
        BY <2>t DEF Acceptable
    <2>8. \A c \in Counters : CounterAdvances(new, c) => CounterAdvances(old, c)
        BY <2>2, <2>5 DEF CounterAdvances
    <2>9. new > 0 => ~CounterAdvances(new, new)
        BY <2>2 DEF CounterAdvances
    <2>3. Acceptable(m)' \subseteq Acceptable(m)
        BY <2>6, <2>7, <2>8
    <2>4. factors'[m].signCount > 0 => factors'[m].signCount \notin Acceptable(m)'
        BY <2>t, <2>7, <2>9
    <2> QED
        BY <2>1, <2>3, <2>4
<1>2. Inv /\ [Next]_vars => [ReplayKept]_vars
    BY <1>1
<1>3. Spec => [][ReplayKept]_vars
    BY <1>2, Invariance, PTL DEF Spec
<1> QED
    BY <1>3 DEF NoReplay, ReplayKept
=============================================================================
