------------------------ MODULE IdentityStoreProofs ------------------------
(***************************************************************************)
(* What IdentityStore guarantees for every set of users, credentials,      *)
(* sessions, tokens and identifiers, and every clock bound.                *)
(***************************************************************************)
EXTENDS IdentityStore, TLAPS

----------------------------------------------------------------------------
(* The cascade, used by seven methods. *)

\* What CascadeRevokeSessions leaves behind is still a well-typed table and
\* pair of token dicts.
LEMMA CascadeType ==
    ASSUME TypeOK, NEW S \in SUBSET SessionIds, \A s \in S : Live(s),
           CascadeRevokeSessions(S)
    PROVE  /\ sessions' \in [SessionIds -> Session \cup {None}]
           /\ sessionTokenHash' \in [SessionIds -> Tokens \cup {None}]
           /\ sessionByTokenHash' \in [Tokens -> SessionIds \cup {None}]
           /\ issued' \in SUBSET Tokens
<1>1. \A s \in S : [sessions[s] EXCEPT !.revokedAt = now] \in Session
    BY DEF TypeOK, Session, Live
<1>2. sessions' \in [SessionIds -> Session \cup {None}]
    BY <1>1 DEF TypeOK, CascadeRevokeSessions, Revoked
<1>3. sessionTokenHash' \in [SessionIds -> Tokens \cup {None}]
    BY DEF TypeOK, CascadeRevokeSessions, TokenHashWithout
<1>4. sessionByTokenHash' \in [Tokens -> SessionIds \cup {None}]
    BY DEF TypeOK, CascadeRevokeSessions, ByTokenHashWithout
<1> QED
    BY <1>2, <1>3, <1>4 DEF TypeOK, CascadeRevokeSessions

\* Only the calls about users change users.
LEMMA UsersFrame ==
    ASSUME CredentialNext \/ SessionNext \/ Tick \/ UNCHANGED vars
    PROVE  UNCHANGED userVars
<1>1. ASSUME NEW c \in CredIds, NEW u \in UserIds, NEW id \in Identifiers,
             \/ \E pw \in Passwords : CreatePasswordCredential(c, u, id, pw)
             \/ CreatePasskeyCredential(c, u, id)
             \/ CreateOidcCredential(c, u, id)
      PROVE  UNCHANGED userVars
    BY <1>1 DEF CreatePasswordCredential, CreatePasskeyCredential, CreateOidcCredential,
                InsertCredential
<1>2. ASSUME NEW c \in CredIds, NEW new \in CredIds,
             \/ \E pw \in Passwords : RotatePassword(c, new, pw)
             \/ RotatePasskey(c, new)
             \/ RotateOidc(c, new)
      PROVE  UNCHANGED userVars
    BY <1>2 DEF RotatePassword, RotatePasskey, RotateOidc, Rotate
<1>3. ASSUME NEW c \in CredIds,
             \/ RotatePasswordOverlong(c) \/ SuspendCredential(c)
             \/ ReinstateCredential(c) \/ RevokeCredential(c)
      PROVE  UNCHANGED userVars
    BY <1>3 DEF RotatePasswordOverlong, SuspendCredential, ReinstateCredential, RevokeCredential
<1>4. CASE SessionNext \/ Tick \/ UNCHANGED vars
    BY <1>4 DEF SessionNext, CreateSession, RefreshSession, RevokeSession, Tick, vars
<1> QED
    BY <1>1, <1>2, <1>3, <1>4 DEF CredentialNext

----------------------------------------------------------------------------
(* Type correctness. *)

LEMMA UserStepType ==
    ASSUME TypeOK, UserNext
    PROVE  TypeOK'
<1> SUFFICES ASSUME NEW u \in UserIds,
                    \/ \E name \in DisplayNames \cup {None} :
                          CreateUser(u, name) \/ UpdateUser(u, name)
                    \/ SuspendUser(u) \/ ReinstateUser(u) \/ RevokeUser(u)
             PROVE  TypeOK'
    BY DEF UserNext
<1>1. ASSUME NEW name \in DisplayNames \cup {None}, CreateUser(u, name) PROVE TypeOK'
    BY <1>1 DEF TypeOK, CreateUser, UserStatus, credVars, sessionVars
<1>2. ASSUME NEW name \in DisplayNames \cup {None}, UpdateUser(u, name) PROVE TypeOK'
    BY <1>2 DEF TypeOK, UpdateUser, UserStatus, credVars, sessionVars
<1>3. CASE SuspendUser(u)
    <2>1. /\ SessionsOfUser(u) \in SUBSET SessionIds
          /\ \A s \in SessionsOfUser(u) : Live(s)
        BY DEF SessionsOfUser
    <2> QED
        BY <1>3, <2>1, CascadeType DEF TypeOK, SuspendUser, UserStatus, credVars
<1>4. CASE ReinstateUser(u)
    BY <1>4 DEF TypeOK, ReinstateUser, UserStatus, credVars, sessionVars
<1>5. CASE RevokeUser(u)
    <2>1. /\ SessionsOfUser(u) \in SUBSET SessionIds
          /\ \A s \in SessionsOfUser(u) : Live(s)
        BY DEF SessionsOfUser
    <2>2. \A c \in CredentialsToRevoke(u) :
              [credentials[c] EXCEPT !.status = "revoked"] \in Credential
        BY DEF TypeOK, CredentialsToRevoke, IsActive, Exists, Credential, CredStatus
    <2>3. credentials' \in [CredIds -> Credential \cup {None}]
        BY <1>5, <2>2 DEF TypeOK, RevokeUser
    <2>4. activeCred' \in [Keys -> CredIds \cup {None}]
        BY <1>5 DEF TypeOK, RevokeUser
    <2> QED
        BY <1>5, <2>1, <2>3, <2>4, CascadeType DEF TypeOK, RevokeUser, UserStatus
<1> QED
    BY <1>1, <1>2, <1>3, <1>4, <1>5

\* The update of one status, alone or under the insertion of a new credential,
\* stays in the credential table.
LEMMA StatusUpdateType ==
    ASSUME TypeOK, NEW c \in CredIds, Exists(c), NEW status \in CredStatus
    PROVE  WithCredentialStatus(c, status) \in [CredIds -> Credential \cup {None}]
<1>1. credentials[c] \in Credential
    BY DEF TypeOK, Exists
<1>2. [credentials[c] EXCEPT !.status = status] \in Credential
    BY <1>1 DEF Credential
<1> QED
    BY <1>2 DEF TypeOK, WithCredentialStatus

LEMMA KeyType ==
    ASSUME TypeOK, NEW c \in CredIds, Exists(c)
    PROVE  KeyOf(c) \in Keys
BY DEF TypeOK, Exists, KeyOf, Keys, Credential

LEMMA CredentialSessionsType ==
    ASSUME NEW c \in CredIds
    PROVE  /\ SessionsOfCredential(c) \in SUBSET SessionIds
           /\ \A s \in SessionsOfCredential(c) : Live(s)
BY DEF SessionsOfCredential

LEMMA InsertType ==
    ASSUME TypeOK, NEW c \in CredIds, NEW u \in UserIds, NEW id \in Identifiers,
           NEW type, InsertCredential(c, u, type, id)
    PROVE  /\ credentials' \in [CredIds -> Credential \cup {None}]
           /\ activeCred' \in [Keys -> CredIds \cup {None}]
<1>1. [usr |-> u, type |-> type, identifier |-> id, status |-> "active",
       replaces |-> None] \in Credential
    BY DEF InsertCredential, Credential, CredStatus
<1>2. <<type, id>> \in Keys
    BY DEF InsertCredential, Keys
<1> QED
    BY <1>1, <1>2 DEF TypeOK, InsertCredential

LEMMA RotateType ==
    ASSUME TypeOK, NEW old \in CredIds, NEW new \in CredIds, NEW type,
           Rotate(old, new, type)
    PROVE  /\ credentials' \in [CredIds -> Credential \cup {None}]
           /\ activeCred' \in [Keys -> CredIds \cup {None}]
<1>1. Exists(old)
    BY DEF Rotate, IsActive
<1>2. [credentials[old] EXCEPT !.status = "active", !.replaces = old] \in Credential
    BY <1>1 DEF TypeOK, Exists, Credential, CredStatus
<1>3. WithCredentialStatus(old, "revoked") \in [CredIds -> Credential \cup {None}]
    BY <1>1, StatusUpdateType DEF CredStatus
<1> QED
    BY <1>1, <1>2, <1>3, KeyType DEF TypeOK, Rotate

LEMMA CredentialStepType ==
    ASSUME TypeOK, CredentialNext
    PROVE  TypeOK'
<1> SUFFICES ASSUME NEW c \in CredIds,
                    \/ \E u \in UserIds, id \in Identifiers :
                          \/ \E pw \in Passwords : CreatePasswordCredential(c, u, id, pw)
                          \/ CreatePasskeyCredential(c, u, id)
                          \/ CreateOidcCredential(c, u, id)
                    \/ \E new \in CredIds :
                          \/ \E pw \in Passwords : RotatePassword(c, new, pw)
                          \/ RotatePasskey(c, new)
                          \/ RotateOidc(c, new)
                    \/ RotatePasswordOverlong(c) \/ SuspendCredential(c)
                    \/ ReinstateCredential(c) \/ RevokeCredential(c)
             PROVE  TypeOK'
    BY DEF CredentialNext
<1>a. /\ SessionsOfCredential(c) \in SUBSET SessionIds
      /\ \A s \in SessionsOfCredential(c) : Live(s)
    BY CredentialSessionsType
<1>1. ASSUME NEW u \in UserIds, NEW id \in Identifiers, NEW type, InsertCredential(c, u, type, id),
             passwordHash' \in [CredIds -> Passwords \cup {None}]
      PROVE  TypeOK'
    <2>1. UNCHANGED <<userVars, sessionVars, now>>
        BY <1>1 DEF InsertCredential
    <2> QED
        BY <1>1, <2>1, InsertType DEF TypeOK, userVars, sessionVars
<1>2. ASSUME NEW new \in CredIds, NEW type, Rotate(c, new, type),
             passwordHash' \in [CredIds -> Passwords \cup {None}]
      PROVE  TypeOK'
    <2>1. CascadeRevokeSessions(SessionsOfCredential(c)) /\ UNCHANGED <<userVars, now>>
        BY <1>2 DEF Rotate
    <2> QED
        BY <1>2, <1>a, <2>1, RotateType, CascadeType DEF TypeOK, userVars
<1>3. ASSUME NEW u \in UserIds, NEW id \in Identifiers, NEW pw \in Passwords,
             CreatePasswordCredential(c, u, id, pw)
      PROVE  TypeOK'
    BY <1>1, <1>3 DEF CreatePasswordCredential, TypeOK
<1>4. ASSUME NEW u \in UserIds, NEW id \in Identifiers, CreatePasskeyCredential(c, u, id)
      PROVE  TypeOK'
    BY <1>1, <1>4 DEF CreatePasskeyCredential, TypeOK
<1>5. ASSUME NEW u \in UserIds, NEW id \in Identifiers, CreateOidcCredential(c, u, id)
      PROVE  TypeOK'
    BY <1>1, <1>5 DEF CreateOidcCredential, TypeOK
<1>6. ASSUME NEW new \in CredIds, NEW pw \in Passwords, RotatePassword(c, new, pw)
      PROVE  TypeOK'
    BY <1>2, <1>6 DEF RotatePassword, TypeOK
<1>7. ASSUME NEW new \in CredIds, RotatePasskey(c, new) PROVE TypeOK'
    BY <1>2, <1>7 DEF RotatePasskey, TypeOK
<1>8. ASSUME NEW new \in CredIds, RotateOidc(c, new) PROVE TypeOK'
    BY <1>2, <1>8 DEF RotateOidc, TypeOK
<1>9. ASSUME NEW status \in CredStatus, Exists(c),
             credentials' = WithCredentialStatus(c, status),
             activeCred' = Unindexed(KeyOf(c)),
             passwordHash' \in [CredIds -> Passwords \cup {None}],
             CascadeRevokeSessions(SessionsOfCredential(c)),
             UNCHANGED <<userVars, now>>
      PROVE  TypeOK'
    <2>1. credentials' \in [CredIds -> Credential \cup {None}]
        BY <1>9, StatusUpdateType
    <2>2. activeCred' \in [Keys -> CredIds \cup {None}]
        BY <1>9 DEF TypeOK, Unindexed
    <2> QED
        BY <1>9, <1>a, <2>1, <2>2, CascadeType DEF TypeOK, userVars
<1>10. CASE RotatePasswordOverlong(c)
    BY <1>9, <1>10 DEF RotatePasswordOverlong, IsActive, CredStatus, TypeOK
<1>11. CASE SuspendCredential(c)
    BY <1>9, <1>11 DEF SuspendCredential, IsActive, CredStatus, TypeOK
<1>12. CASE ReinstateCredential(c)
    <2>1. credentials' \in [CredIds -> Credential \cup {None}]
        BY <1>12, StatusUpdateType DEF ReinstateCredential, CredStatus
    <2> QED
        BY <1>12, <2>1 DEF ReinstateCredential, TypeOK, userVars, sessionVars
<1>13. CASE RevokeCredential(c)
    BY <1>9, <1>13 DEF RevokeCredential, CredStatus, TypeOK
<1> QED
    BY <1>3, <1>4, <1>5, <1>6, <1>7, <1>8, <1>10, <1>11, <1>12, <1>13

\* The session that replaces a live one is well typed: its TTL is not negative.
LEMMA RefreshedType ==
    ASSUME TypeOK, SessionTimes, NEW s \in SessionIds, Live(s)
    PROVE  /\ Refreshed(s) \in Session
           /\ Refreshed(s).revokedAt = NoTime
           /\ Refreshed(s).usr = sessions[s].usr
           /\ Refreshed(s).cred = sessions[s].cred
<1> DEFINE ttl == sessions[s].expiresAt - sessions[s].createdAt
<1>1. sessions[s] \in Session /\ now \in Nat
    BY DEF TypeOK, Live
<1>2. ttl \in Nat
    BY TtlAssumption DEF SessionTimes, Live
<1>3. now + ttl \in Nat
    <2> HIDE DEF ttl
    <2> QED  BY <1>1, <1>2
<1> QED
    BY <1>1, <1>3 DEF Refreshed, Session, Live

LEMMA SessionStepType ==
    ASSUME TypeOK, SessionTimes, SessionNext
    PROVE  TypeOK'
<1>1. ASSUME NEW s \in SessionIds, NEW u \in UserIds, NEW c \in CredIds, NEW ttl \in TtlInputs,
             NEW t \in Tokens, CreateSession(s, u, c, ttl, t)
      PROVE  TypeOK'
    <2>1. [usr |-> u, cred |-> c, createdAt |-> now, expiresAt |-> now + ttl,
           revokedAt |-> NoTime] \in Session
        BY TtlAssumption DEF TypeOK, Session
    <2> QED
        BY <1>1, <2>1 DEF CreateSession, TypeOK, userVars, credVars
<1>2. ASSUME NEW s \in SessionIds, NEW new \in SessionIds, NEW t \in Tokens,
             RefreshSession(s, new, t)
      PROVE  TypeOK'
    <2>1. Live(s)
        BY <1>2 DEF RefreshSession
    <2>2. Refreshed(s) \in Session
        BY <2>1, RefreshedType
    <2>3. [sessions[s] EXCEPT !.revokedAt = now] \in Session
        BY <2>1 DEF TypeOK, Session, Live
    <2>4. Revoked({s}) \in [SessionIds -> Session \cup {None}]
        BY <2>3 DEF TypeOK, Revoked
    <2>5. sessions' \in [SessionIds -> Session \cup {None}]
        BY <1>2, <2>2, <2>4 DEF RefreshSession
    <2>6. /\ sessionTokenHash' \in [SessionIds -> Tokens \cup {None}]
          /\ sessionByTokenHash' \in [Tokens -> SessionIds \cup {None}]
        BY <1>2 DEF RefreshSession, TypeOK, TokenHashWithout, ByTokenHashWithout
    <2> QED
        BY <1>2, <2>5, <2>6 DEF RefreshSession, TypeOK, userVars, credVars
<1>3. ASSUME NEW s \in SessionIds, RevokeSession(s) PROVE TypeOK'
    <2>1. {s} \in SUBSET SessionIds /\ \A r \in {s} : Live(r)
        BY <1>3 DEF RevokeSession
    <2> QED
        BY <1>3, <2>1, CascadeType DEF RevokeSession, TypeOK, userVars, credVars
<1> QED
    BY <1>1, <1>2, <1>3 DEF SessionNext

LEMMA TypeStep ==
    ASSUME TypeOK, SessionTimes, [Next]_vars
    PROVE  TypeOK'
<1>1. CASE Tick
    BY <1>1 DEF Tick, TypeOK, userVars, credVars, sessionVars
<1>2. CASE UNCHANGED vars
    BY <1>2 DEF TypeOK, vars, userVars, credVars, sessionVars
<1> QED
    BY <1>1, <1>2, UserStepType, CredentialStepType, SessionStepType DEF Next
----------------------------------------------------------------------------
(* Every step revokes some live sessions, perhaps none, or opens one. *)

Cascades(S) ==
    /\ S \in SUBSET SessionIds
    /\ \A s \in S : Live(s)
    /\ CascadeRevokeSessions(S)
    /\ now \in Nat /\ now' \in Nat /\ now <= now'

Opens == \E s \in SessionIds, t \in Tokens :
    \/ \E u \in UserIds, c \in CredIds, ttl \in TtlInputs : CreateSession(s, u, c, ttl, t)
    \/ \E old \in SessionIds : RefreshSession(old, s, t)

LEMMA NoCascade ==
    ASSUME TypeOK, UNCHANGED sessionVars, now' \in Nat, now <= now'
    PROVE  Cascades({})
BY DEF TypeOK, sessionVars, Cascades, CascadeRevokeSessions, Revoked, TokenHashWithout,
       ByTokenHashWithout

LEMMA UserCascade ==
    ASSUME TypeOK, NEW u \in UserIds, CascadeRevokeSessions(SessionsOfUser(u)), UNCHANGED now
    PROVE  Cascades(SessionsOfUser(u))
BY DEF TypeOK, Cascades, SessionsOfUser

LEMMA CredentialCascade ==
    ASSUME TypeOK, NEW c \in CredIds, CascadeRevokeSessions(SessionsOfCredential(c)), UNCHANGED now
    PROVE  Cascades(SessionsOfCredential(c))
BY DEF TypeOK, Cascades, SessionsOfCredential

LEMMA StepKinds ==
    ASSUME TypeOK, [Next]_vars
    PROVE  (\E S \in SUBSET SessionIds : Cascades(S)) \/ Opens
<1> DEFINE Goal == (\E S \in SUBSET SessionIds : Cascades(S)) \/ Opens
<1>1. ASSUME UNCHANGED <<sessionVars, now>> PROVE Goal
    BY <1>1, NoCascade DEF TypeOK
<1>2. CASE UserNext
    <2> SUFFICES ASSUME NEW u \in UserIds,
                        \/ \E name \in DisplayNames \cup {None} :
                              CreateUser(u, name) \/ UpdateUser(u, name)
                        \/ SuspendUser(u) \/ ReinstateUser(u) \/ RevokeUser(u)
                 PROVE  Goal
        BY <1>2 DEF UserNext
    <2>1. CASE SuspendUser(u) \/ RevokeUser(u)
        <3>1. CascadeRevokeSessions(SessionsOfUser(u)) /\ UNCHANGED now
            BY <2>1 DEF SuspendUser, RevokeUser
        <3> QED
            BY <3>1, UserCascade DEF Cascades
    <2>2. CASE \/ \E name \in DisplayNames \cup {None} :
                     CreateUser(u, name) \/ UpdateUser(u, name)
               \/ ReinstateUser(u)
        BY <2>2, <1>1 DEF CreateUser, UpdateUser, ReinstateUser
    <2> QED
        BY <2>1, <2>2
<1>3. CASE CredentialNext
    <2> SUFFICES ASSUME NEW c \in CredIds,
                        \/ UNCHANGED <<sessionVars, now>>
                        \/ CascadeRevokeSessions(SessionsOfCredential(c)) /\ UNCHANGED now
                 PROVE  Goal
        BY <1>3 DEF CredentialNext, CreatePasswordCredential, CreatePasskeyCredential,
              CreateOidcCredential, InsertCredential, RotatePassword, RotatePasskey, RotateOidc,
              Rotate, RotatePasswordOverlong, SuspendCredential, ReinstateCredential,
              RevokeCredential
    <2> QED
        BY <1>1, CredentialCascade DEF Cascades
<1>4. CASE SessionNext
    <2>1. ASSUME NEW s \in SessionIds, RevokeSession(s) PROVE Goal
        BY <2>1 DEF RevokeSession, Cascades, TypeOK
    <2> QED
        BY <1>4, <2>1 DEF SessionNext, Opens
<1>5. CASE Tick
    BY <1>5, NoCascade DEF Tick, TypeOK
<1>6. CASE UNCHANGED vars
    BY <1>6, <1>1 DEF vars
<1> QED
    BY <1>2, <1>3, <1>4, <1>5, <1>6 DEF Next

\* What a cascade over S does to each session.
LEMMA CascadeEffect ==
    ASSUME TypeOK, NEW S, Cascades(S), NEW s \in SessionIds
    PROVE  /\ Live(s)' <=> Live(s) /\ s \notin S
           /\ sessions'[s] = IF s \in S THEN [sessions[s] EXCEPT !.revokedAt = now]
                                        ELSE sessions[s]
           /\ sessions[s] = None <=> sessions'[s] = None
<1>1. sessions'[s] = IF s \in S THEN [sessions[s] EXCEPT !.revokedAt = now] ELSE sessions[s]
    BY DEF Cascades, CascadeRevokeSessions, Revoked
<1>2. CASE s \in S
    <2>1. sessions[s] \in Session /\ sessions[s] # None
        BY <1>2 DEF TypeOK, Cascades, Live
    <2>2. sessions'[s] \in Session /\ sessions'[s].revokedAt = now
        BY <1>1, <1>2, <2>1 DEF Session, Cascades
    <2> QED
        BY <1>1, <1>2, <2>1, <2>2, AbsentAssumption DEF Live, NoTime, Cascades
<1>3. CASE s \notin S
    BY <1>1, <1>3 DEF Live
<1> QED
    BY <1>1, <1>2, <1>3
----------------------------------------------------------------------------
(* The inductive invariant. IssuedTokens is what makes a fresh token fresh:  *)
(* no session holds a token that was not issued.                             *)

IssuedTokens == \A s \in SessionIds : sessionTokenHash[s] # None => sessionTokenHash[s] \in issued

SessionInv == TypeOK /\ SessionTimes /\ TokenMapsExact /\ IssuedTokens

LEMMA CreateTimes ==
    ASSUME TypeOK, SessionTimes, NEW s \in SessionIds, NEW u \in UserIds, NEW c \in CredIds,
           NEW ttl \in TtlInputs, NEW t \in Tokens, CreateSession(s, u, c, ttl, t)
    PROVE  SessionTimes'
<1>1. /\ sessions'[s].createdAt = now /\ sessions'[s].expiresAt = now + ttl
      /\ sessions'[s].revokedAt = NoTime
      /\ now' = now /\ now \in Nat /\ ttl \in Nat /\ ttl >= MinTtl
    BY TtlAssumption DEF CreateSession, TypeOK
<1>2. (now + ttl) - now = ttl
    BY <1>1
<1>3. \A r \in SessionIds : r # s => sessions'[r] = sessions[r]
    BY DEF CreateSession, TypeOK
<1> QED
    BY <1>1, <1>2, <1>3 DEF SessionTimes

LEMMA RefreshTimes ==
    ASSUME TypeOK, SessionTimes, NEW old \in SessionIds, NEW s \in SessionIds, NEW t \in Tokens,
           RefreshSession(old, s, t)
    PROVE  SessionTimes'
<1> DEFINE ttl == sessions[old].expiresAt - sessions[old].createdAt
<1>1. /\ sessions[old] \in Session /\ sessions[old] # None /\ now \in Nat /\ now' = now
      /\ old # s
    BY DEF RefreshSession, Live, TypeOK, Fresh
<1>2. ttl \in {x \in TtlInputs : x >= MinTtl} /\ ttl \in Nat
    BY <1>1, TtlAssumption DEF SessionTimes
<1>3. /\ sessions'[s].createdAt = now /\ sessions'[s].expiresAt = now + ttl
      /\ sessions'[s].revokedAt = NoTime
    BY <1>1 DEF RefreshSession, Refreshed, Revoked, Session, TypeOK, Live
<1>4. sessions'[old] = [sessions[old] EXCEPT !.revokedAt = now]
    BY <1>1 DEF RefreshSession, Revoked
<1>5. /\ sessions'[old].createdAt = sessions[old].createdAt
      /\ sessions'[old].expiresAt = sessions[old].expiresAt
      /\ sessions'[old].revokedAt = now
    BY <1>1, <1>4 DEF Session
<1>6. \A r \in SessionIds : r # s /\ r # old => sessions'[r] = sessions[r]
    BY DEF RefreshSession, Revoked
<1>7. (now + ttl) - now = ttl
    BY <1>1, <1>2
<1> HIDE DEF ttl
<1>8. ASSUME NEW r \in SessionIds, sessions'[r] # None
      PROVE  /\ sessions'[r].createdAt <= now
             /\ sessions'[r].revokedAt # NoTime => sessions'[r].createdAt <= sessions'[r].revokedAt
             /\ sessions'[r].expiresAt - sessions'[r].createdAt \in {x \in TtlInputs : x >= MinTtl}
    <2>1. CASE r = s
        BY <1>1, <1>2, <1>3, <1>7, <2>1
    <2>2. CASE r = old
        BY <1>1, <1>5, <2>2 DEF SessionTimes
    <2>3. CASE r # s /\ r # old
        BY <1>6, <1>8, <2>3 DEF SessionTimes
    <2> QED
        BY <2>1, <2>2, <2>3
<1> QED
    BY <1>1, <1>8 DEF SessionTimes

LEMMA TimesStep ==
    ASSUME TypeOK, SessionTimes, [Next]_vars
    PROVE  SessionTimes'
<1>1. ASSUME NEW S \in SUBSET SessionIds, Cascades(S) PROVE SessionTimes'
    <2> SUFFICES ASSUME NEW r \in SessionIds, sessions'[r] # None
                 PROVE  /\ sessions'[r].createdAt <= now'
                        /\ sessions'[r].revokedAt # NoTime =>
                              sessions'[r].createdAt <= sessions'[r].revokedAt
                        /\ sessions'[r].expiresAt - sessions'[r].createdAt
                              \in {x \in TtlInputs : x >= MinTtl}
        BY DEF SessionTimes
    <2>1. sessions[r] \in Session /\ now \in Nat /\ now' \in Nat /\ now <= now'
        BY <1>1, CascadeEffect DEF TypeOK, Cascades
    <2>2. /\ sessions'[r].createdAt = sessions[r].createdAt
          /\ sessions'[r].expiresAt = sessions[r].expiresAt
          /\ sessions'[r].revokedAt \in {sessions[r].revokedAt, now}
        <3>1. sessions'[r] = IF r \in S THEN [sessions[r] EXCEPT !.revokedAt = now]
                                        ELSE sessions[r]
            BY <1>1, CascadeEffect
        <3> QED
            BY <2>1, <3>1 DEF Session
    <2>3. /\ sessions[r].createdAt <= now
          /\ sessions[r].revokedAt # NoTime => sessions[r].createdAt <= sessions[r].revokedAt
          /\ sessions[r].expiresAt - sessions[r].createdAt \in {x \in TtlInputs : x >= MinTtl}
        BY <2>1, AbsentAssumption DEF SessionTimes
    <2>4. sessions[r].createdAt \in Nat
        BY <2>1 DEF Session
    <2> QED
        BY <2>1, <2>2, <2>3, <2>4
<1>2. CASE Opens
    BY <1>2, CreateTimes, RefreshTimes DEF Opens
<1> QED
    BY <1>1, <1>2, StepKinds

----------------------------------------------------------------------------
(* The token dicts. *)

LEMMA CascadeTokens ==
    ASSUME SessionInv, NEW S \in SUBSET SessionIds, Cascades(S)
    PROVE  TokenMapsExact' /\ IssuedTokens'
<1>1. \A s \in SessionIds : sessionTokenHash'[s] = IF s \in S THEN None ELSE sessionTokenHash[s]
    BY DEF Cascades, CascadeRevokeSessions, TokenHashWithout
<1>2. \A t \in Tokens : sessionByTokenHash'[t] =
          IF \E s \in S : sessionTokenHash[s] = t THEN None ELSE sessionByTokenHash[t]
    BY DEF Cascades, CascadeRevokeSessions, ByTokenHashWithout
<1>3. \A s \in SessionIds : Live(s)' <=> Live(s) /\ s \notin S
    BY CascadeEffect DEF SessionInv
<1>4. (\A s \in SessionIds : Live(s) <=> sessionTokenHash[s] # None)'
    BY <1>1, <1>3 DEF SessionInv, TokenMapsExact
<1>5. ASSUME NEW s \in SessionIds, NEW t \in Tokens
      PROVE  (sessionTokenHash[s] = t <=> sessionByTokenHash[t] = s)'
    BY <1>1, <1>2, NoneAssumption DEF SessionInv, TokenMapsExact
<1>6. IssuedTokens'
    BY <1>1 DEF SessionInv, IssuedTokens, Cascades, CascadeRevokeSessions
<1> QED
    BY <1>4, <1>5, <1>6 DEF TokenMapsExact

LEMMA CreateTokens ==
    ASSUME SessionInv, NEW s \in SessionIds, NEW u \in UserIds, NEW c \in CredIds,
           NEW ttl \in TtlInputs, NEW t \in Tokens, CreateSession(s, u, c, ttl, t)
    PROVE  TokenMapsExact' /\ IssuedTokens'
<1>1. \A r \in SessionIds : sessionTokenHash'[r] = IF r = s THEN t ELSE sessionTokenHash[r]
    BY DEF SessionInv, TypeOK, CreateSession
<1>2. \A x \in Tokens : sessionByTokenHash'[x] = IF x = t THEN s ELSE sessionByTokenHash[x]
    BY DEF SessionInv, TypeOK, CreateSession
<1>3. ~Live(s) /\ t \notin issued /\ issued' = issued \cup {t} /\ t # None
    BY NoneAssumption DEF CreateSession, Fresh, Live
<1>4. Live(s)' /\ \A r \in SessionIds : r # s => (Live(r)' <=> Live(r))
    <2>1. [usr |-> u, cred |-> c, createdAt |-> now, expiresAt |-> now + ttl,
           revokedAt |-> NoTime] \in Session
        BY TtlAssumption DEF SessionInv, TypeOK, Session
    <2> QED
        BY <2>1, AbsentAssumption DEF CreateSession, Live, SessionInv, TypeOK
<1>5. sessionTokenHash[s] = None /\ sessionByTokenHash[t] \notin SessionIds
    BY <1>3 DEF SessionInv, TokenMapsExact, IssuedTokens
<1>6. \A r \in SessionIds : sessionTokenHash[r] # t
    BY <1>3 DEF SessionInv, IssuedTokens
<1>7. \A r \in SessionIds : (Live(r) <=> sessionTokenHash[r] # None)'
    BY <1>1, <1>3, <1>4 DEF SessionInv, TokenMapsExact
<1>8. \A r \in SessionIds, x \in Tokens : (sessionTokenHash[r] = x <=> sessionByTokenHash[x] = r)'
    BY <1>1, <1>2, <1>5, <1>6, NoneAssumption DEF SessionInv, TokenMapsExact
<1>9. IssuedTokens'
    BY <1>1, <1>3 DEF SessionInv, IssuedTokens
<1> QED
    BY <1>7, <1>8, <1>9 DEF TokenMapsExact

LEMMA RefreshTokens ==
    ASSUME SessionInv, NEW old \in SessionIds, NEW s \in SessionIds, NEW t \in Tokens,
           RefreshSession(old, s, t)
    PROVE  TokenMapsExact' /\ IssuedTokens'
<1>1. \A r \in SessionIds : sessionTokenHash'[r] =
          IF r = s THEN t ELSE IF r = old THEN None ELSE sessionTokenHash[r]
    BY DEF RefreshSession, TokenHashWithout
<1>2. \A x \in Tokens : sessionByTokenHash'[x] =
          IF x = t THEN s ELSE IF sessionTokenHash[old] = x THEN None ELSE sessionByTokenHash[x]
    BY DEF RefreshSession, ByTokenHashWithout
<1>3. /\ ~Live(s) /\ Live(old) /\ s # old
      /\ t \notin issued /\ issued' = issued \cup {t} /\ t # None
    BY NoneAssumption DEF RefreshSession, Fresh, Live
<1>4. /\ Live(s)' /\ ~Live(old)'
      /\ \A r \in SessionIds : r # s /\ r # old => (Live(r)' <=> Live(r))
    <2>1. sessions[old] \in Session /\ now \in Nat
        BY <1>3 DEF SessionInv, TypeOK, Live
    <2>2. sessions'[s] = Refreshed(old) /\ sessions'[old] = [sessions[old] EXCEPT !.revokedAt = now]
        BY <1>3 DEF RefreshSession, Revoked
    <2>3. sessions'[s] \in Session /\ sessions'[s].revokedAt = NoTime
        BY <1>3, <2>2, RefreshedType DEF SessionInv
    <2>4. sessions'[old].revokedAt = now
        BY <2>1, <2>2 DEF Session
    <2>5. \A r \in SessionIds : r # s /\ r # old => sessions'[r] = sessions[r]
        BY DEF RefreshSession, Revoked
    <2> QED
        BY <2>1, <2>3, <2>4, <2>5, AbsentAssumption DEF Live, NoTime
<1>5. sessionTokenHash[s] = None
    BY <1>3 DEF SessionInv, TokenMapsExact
<1>6. \A r \in SessionIds : sessionTokenHash[r] # t
    BY <1>3 DEF SessionInv, IssuedTokens
<1>7. \A r \in SessionIds : (Live(r) <=> sessionTokenHash[r] # None)'
    BY <1>1, <1>3, <1>4 DEF SessionInv, TokenMapsExact
<1>8. \A r \in SessionIds, x \in Tokens : (sessionTokenHash[r] = x <=> sessionByTokenHash[x] = r)'
    BY <1>1, <1>2, <1>3, <1>5, <1>6, NoneAssumption DEF SessionInv, TokenMapsExact
<1>9. IssuedTokens'
    BY <1>1, <1>3 DEF SessionInv, IssuedTokens
<1> QED
    BY <1>7, <1>8, <1>9 DEF TokenMapsExact

LEMMA TokenStep ==
    ASSUME SessionInv, [Next]_vars
    PROVE  TokenMapsExact' /\ IssuedTokens'
<1>1. ASSUME NEW S \in SUBSET SessionIds, Cascades(S) PROVE TokenMapsExact' /\ IssuedTokens'
    BY <1>1, CascadeTokens
<1>2. CASE Opens
    BY <1>2, CreateTokens, RefreshTokens DEF Opens
<1> QED
    BY <1>1, <1>2, StepKinds DEF SessionInv
----------------------------------------------------------------------------
(* Live sessions stay backed. *)

Backed(s) ==
    /\ users[sessions[s].usr] = "active"
    /\ IsActive(sessions[s].cred)
    /\ credentials[sessions[s].cred].usr = sessions[s].usr

\* It is enough that a step revokes every live session whose user or credential
\* it touches.
LEMMA BackedByCascade ==
    ASSUME TypeOK, LiveSessionBacked, NEW S \in SUBSET SessionIds, Cascades(S),
           \A s \in SessionIds \ S : Live(s) =>
              /\ users'[sessions[s].usr] = "active"
              /\ credentials'[sessions[s].cred] = credentials[sessions[s].cred]
    PROVE  LiveSessionBacked'
<1> SUFFICES ASSUME NEW s \in SessionIds, Live(s)' PROVE Backed(s)'
    BY DEF LiveSessionBacked, Backed
<1>1. Live(s) /\ s \notin S /\ sessions'[s] = sessions[s]
    BY CascadeEffect
<1>2. /\ users'[sessions[s].usr] = "active"
      /\ credentials'[sessions[s].cred] = credentials[sessions[s].cred]
    BY <1>1
<1>3. Backed(s)
    BY <1>1 DEF LiveSessionBacked, Backed
<1> QED
    BY <1>1, <1>2, <1>3 DEF Backed, IsActive, Exists

LEMMA BackedUsers ==
    ASSUME TypeOK, LiveSessionBacked, UserNext
    PROVE  LiveSessionBacked'
<1> SUFFICES ASSUME NEW u \in UserIds,
                    \/ \E name \in DisplayNames \cup {None} :
                          CreateUser(u, name) \/ UpdateUser(u, name)
                    \/ SuspendUser(u) \/ ReinstateUser(u) \/ RevokeUser(u)
             PROVE  LiveSessionBacked'
    BY DEF UserNext
<1>1. CASE SuspendUser(u) \/ RevokeUser(u)
    <2>1. Cascades(SessionsOfUser(u)) /\ SessionsOfUser(u) \in SUBSET SessionIds
        BY <1>1, UserCascade DEF SuspendUser, RevokeUser, SessionsOfUser
    <2>2. ASSUME NEW s \in SessionIds \ SessionsOfUser(u), Live(s)
          PROVE  /\ users'[sessions[s].usr] = "active"
                 /\ credentials'[sessions[s].cred] = credentials[sessions[s].cred]
        <3>1. sessions[s].usr # u /\ sessions[s] \in Session
            BY <2>2 DEF SessionsOfUser, TypeOK, Live
        <3>2. Backed(s)
            BY <2>2 DEF LiveSessionBacked, Backed
        <3>3. users'[sessions[s].usr] = users[sessions[s].usr]
            BY <1>1, <3>1 DEF SuspendUser, RevokeUser, TypeOK, Session
        <3>4. sessions[s].cred \in CredIds /\ sessions[s].cred \notin CredentialsToRevoke(u)
            BY <3>1, <3>2 DEF Session, CredentialsToRevoke, Backed
        <3>5. credentials'[sessions[s].cred] = credentials[sessions[s].cred]
            BY <1>1, <3>4 DEF SuspendUser, RevokeUser, credVars
        <3> QED
            BY <3>2, <3>3, <3>5 DEF Backed
    <2> QED
        BY <2>1, <2>2, BackedByCascade
<1>2. CASE \/ \E name \in DisplayNames \cup {None} :
                 CreateUser(u, name) \/ UpdateUser(u, name)
           \/ ReinstateUser(u)
    <2>1. /\ \A v \in UserIds : users[v] = "active" => users'[v] = "active"
          /\ UNCHANGED <<credentials, sessionVars, now>>
        BY <1>2, NoneAssumption, AbsentAssumption
           DEF CreateUser, UpdateUser, ReinstateUser, TypeOK, credVars, CredStatus
    <2>2. Cascades({})
        BY <2>1, NoCascade DEF TypeOK
    <2>3. ASSUME NEW s \in SessionIds \ {}, Live(s)
          PROVE  /\ users'[sessions[s].usr] = "active"
                 /\ credentials'[sessions[s].cred] = credentials[sessions[s].cred]
        BY <2>1, <2>3 DEF LiveSessionBacked, TypeOK, Live, Session
    <2> QED
        BY <2>2, <2>3, BackedByCascade
<1> QED
    BY <1>1, <1>2

\* Every credential operation touches one credential, whose sessions it revokes,
\* or inserts one that did not exist, or reactivates one that was not active.
LEMMA BackedCredentials ==
    ASSUME TypeOK, LiveSessionBacked, CredentialNext
    PROVE  LiveSessionBacked'
<1> SUFFICES ASSUME NEW c \in CredIds, NEW new \in CredIds,
                    UNCHANGED <<users, now>>,
                    \/ /\ UNCHANGED sessionVars
                       /\ ~IsActive(c)
                       /\ \A d \in CredIds \ {c} : credentials'[d] = credentials[d]
                    \/ /\ CascadeRevokeSessions(SessionsOfCredential(c))
                       /\ c = new \/ ~IsActive(new)
                       /\ \A d \in CredIds \ {c, new} : credentials'[d] = credentials[d]
             PROVE  LiveSessionBacked'
    <2>1. ASSUME NEW c \in CredIds, NEW u \in UserIds, NEW id \in Identifiers, NEW type,
                 InsertCredential(c, u, type, id)
          PROVE  LiveSessionBacked'
        BY <2>1 DEF InsertCredential, TypeOK, IsActive, userVars
    <2>2. ASSUME NEW c \in CredIds, NEW new \in CredIds, NEW type, Rotate(c, new, type)
          PROVE  LiveSessionBacked'
        BY <2>2 DEF Rotate, TypeOK, IsActive, userVars, WithCredentialStatus
    <2>3. ASSUME NEW c \in CredIds,
                 RotatePasswordOverlong(c) \/ SuspendCredential(c) \/ RevokeCredential(c)
          PROVE  LiveSessionBacked'
        BY <2>3 DEF RotatePasswordOverlong, SuspendCredential, RevokeCredential, TypeOK,
              userVars, WithCredentialStatus
    <2>4. ASSUME NEW c \in CredIds, ReinstateCredential(c) PROVE LiveSessionBacked'
        BY <2>4 DEF ReinstateCredential, TypeOK, IsActive, userVars, WithCredentialStatus
    <2> QED
        BY <2>1, <2>2, <2>3, <2>4 DEF CredentialNext, CreatePasswordCredential,
              CreatePasskeyCredential, CreateOidcCredential, RotatePassword, RotatePasskey,
              RotateOidc
<1>1. \A s \in SessionIds : Live(s) =>
         /\ users[sessions[s].usr] = "active"
         /\ sessions[s].cred \in CredIds
         /\ IsActive(sessions[s].cred)
    BY DEF LiveSessionBacked, TypeOK, Live, Session
<1>2. CASE /\ UNCHANGED sessionVars
           /\ ~IsActive(c)
           /\ \A d \in CredIds \ {c} : credentials'[d] = credentials[d]
    <2>1. Cascades({})
        BY <1>2, NoCascade DEF TypeOK
    <2> QED
        BY <1>1, <1>2, <2>1, BackedByCascade
<1>3. CASE /\ CascadeRevokeSessions(SessionsOfCredential(c))
           /\ c = new \/ ~IsActive(new)
           /\ \A d \in CredIds \ {c, new} : credentials'[d] = credentials[d]
    <2>1. Cascades(SessionsOfCredential(c)) /\ SessionsOfCredential(c) \in SUBSET SessionIds
        BY <1>3, CredentialCascade DEF SessionsOfCredential
    <2>2. \A s \in SessionIds \ SessionsOfCredential(c) : Live(s) => sessions[s].cred # c
        BY DEF SessionsOfCredential
    <2> QED
        BY <1>1, <1>3, <2>1, <2>2, BackedByCascade
<1> QED
    BY <1>2, <1>3

LEMMA BackedSessions ==
    ASSUME TypeOK, SessionTimes, LiveSessionBacked, SessionNext
    PROVE  LiveSessionBacked'
<1>1. ASSUME NEW s \in SessionIds, NEW u \in UserIds, NEW c \in CredIds, NEW ttl \in TtlInputs,
             NEW t \in Tokens, CreateSession(s, u, c, ttl, t)
      PROVE  LiveSessionBacked'
    <2>1. \A r \in SessionIds : r # s => sessions'[r] = sessions[r]
        BY <1>1 DEF CreateSession, TypeOK
    <2>2. sessions'[s].usr = u /\ sessions'[s].cred = c
        BY <1>1 DEF CreateSession, TypeOK
    <2>3. /\ UNCHANGED <<users, credentials>>
          /\ users[u] = "active" /\ IsActive(c) /\ credentials[c].usr = u
        BY <1>1 DEF CreateSession, userVars, credVars
    <2> QED
        BY <2>1, <2>2, <2>3 DEF LiveSessionBacked, Live, IsActive, Exists
<1>2. ASSUME NEW s \in SessionIds, NEW new \in SessionIds, NEW t \in Tokens,
             RefreshSession(s, new, t)
      PROVE  LiveSessionBacked'
    <2>1. \A r \in SessionIds : r # s /\ r # new => sessions'[r] = sessions[r]
        BY <1>2 DEF RefreshSession, Revoked
    <2>2. Live(s) /\ s # new /\ sessions[s] \in Session /\ now \in Nat
        BY <1>2 DEF RefreshSession, Fresh, Live, TypeOK
    <2>3. sessions'[new].usr = sessions[s].usr /\ sessions'[new].cred = sessions[s].cred
        BY <1>2, <2>2, RefreshedType DEF RefreshSession, Revoked
    <2>4. ~Live(s)'
        BY <1>2, <2>2 DEF RefreshSession, Revoked, Live, Session, NoTime
    <2>5. UNCHANGED <<users, credentials>>
        BY <1>2 DEF RefreshSession, userVars, credVars
    <2> QED
        BY <2>1, <2>2, <2>3, <2>4, <2>5 DEF LiveSessionBacked, Live, IsActive, Exists
<1>3. ASSUME NEW s \in SessionIds, RevokeSession(s) PROVE LiveSessionBacked'
    <2>1. Cascades({s}) /\ UNCHANGED <<users, credentials>>
        BY <1>3 DEF RevokeSession, Cascades, TypeOK, userVars, credVars
    <2> QED
        BY <2>1, BackedByCascade DEF LiveSessionBacked
<1> QED
    BY <1>1, <1>2, <1>3 DEF SessionNext

LEMMA BackedStep ==
    ASSUME TypeOK, SessionTimes, LiveSessionBacked, [Next]_vars
    PROVE  LiveSessionBacked'
<1>1. CASE Tick \/ UNCHANGED vars
    BY <1>1 DEF Tick, vars, userVars, credVars, sessionVars, LiveSessionBacked, Live, IsActive,
          Exists
<1> QED
    BY <1>1, BackedUsers, BackedCredentials, BackedSessions DEF Next
----------------------------------------------------------------------------
(* The index of active credentials. *)

\* A step leaves the index sound when an entry it keeps points to a credential it
\* keeps, and an entry it writes points to an active credential with that key.
LEMMA IndexByEntry ==
    ASSUME TypeOK, IndexSound,
           \A k \in Keys : \/ activeCred'[k] = None
                           \/ /\ activeCred'[k] = activeCred[k]
                              /\ activeCred[k] \in CredIds
                              /\ credentials'[activeCred[k]] = credentials[activeCred[k]]
                           \/ \E c \in CredIds : /\ activeCred'[k] = c
                                                 /\ IsActive(c)' /\ KeyOf(c)' = k
    PROVE  IndexSound'
<1> SUFFICES ASSUME NEW k \in Keys, activeCred'[k] # None
             PROVE  (IsActive(activeCred[k]) /\ KeyOf(activeCred[k]) = k)'
    BY DEF IndexSound
<1>1. CASE /\ activeCred'[k] = activeCred[k]
           /\ activeCred[k] \in CredIds
           /\ credentials'[activeCred[k]] = credentials[activeCred[k]]
    BY <1>1 DEF IndexSound, IsActive, Exists, KeyOf
<1>2. ASSUME NEW c \in CredIds, activeCred'[k] = c, IsActive(c)', KeyOf(c)' = k
      PROVE  (IsActive(activeCred[k]) /\ KeyOf(activeCred[k]) = k)'
    BY <1>2 DEF IsActive, Exists, KeyOf
<1> QED
    BY <1>1, <1>2

LEMMA IndexInsert ==
    ASSUME TypeOK, IndexSound, NEW c \in CredIds, NEW u \in UserIds, NEW id \in Identifiers,
           NEW type, InsertCredential(c, u, type, id)
    PROVE  IndexSound'
<1> DEFINE record == [usr |-> u, type |-> type, identifier |-> id, status |-> "active",
                      replaces |-> None]
<1>1. record \in Credential /\ record # None
    BY AbsentAssumption DEF InsertCredential, Credential, CredStatus
<1>2. credentials'[c] = record /\ \A d \in CredIds \ {c} : credentials'[d] = credentials[d]
    BY DEF InsertCredential, TypeOK
<1>3. /\ activeCred'[<<type, id>>] = c
      /\ \A k \in Keys : k # <<type, id>> => activeCred'[k] = activeCred[k]
    BY DEF InsertCredential, TypeOK, Keys
<1>4. IsActive(c)' /\ KeyOf(c)' = <<type, id>>
    BY <1>1, <1>2 DEF IsActive, Exists, KeyOf
<1>5. ~Exists(c)
    BY DEF InsertCredential
<1>6. ASSUME NEW k \in Keys, k # <<type, id>>, activeCred[k] # None
      PROVE  activeCred[k] \in CredIds /\ credentials'[activeCred[k]] = credentials[activeCred[k]]
    BY <1>2, <1>5, <1>6 DEF IndexSound, IsActive, TypeOK
<1> QED
    BY <1>3, <1>4, <1>6, IndexByEntry

LEMMA IndexRotate ==
    ASSUME TypeOK, IndexSound, NEW old \in CredIds, NEW new \in CredIds, NEW type,
           Rotate(old, new, type)
    PROVE  IndexSound'
<1>1. /\ IsActive(old) /\ ~Exists(new) /\ old # new
      /\ credentials[old] \in Credential /\ KeyOf(old) \in Keys
    BY KeyType DEF Rotate, IsActive, Exists, TypeOK
<1>2. /\ credentials'[new] = [credentials[old] EXCEPT !.status = "active", !.replaces = old]
      /\ \A d \in CredIds \ {old, new} : credentials'[d] = credentials[d]
    BY DEF Rotate, TypeOK, WithCredentialStatus
<1>3. /\ activeCred'[KeyOf(old)] = new
      /\ \A k \in Keys : k # KeyOf(old) => activeCred'[k] = activeCred[k]
    BY <1>1 DEF Rotate, TypeOK
<1>4. /\ credentials'[new] \in Credential /\ credentials'[new].status = "active"
      /\ credentials'[new].type = credentials[old].type
      /\ credentials'[new].identifier = credentials[old].identifier
    BY <1>1, <1>2 DEF Credential, CredStatus
<1>5. IsActive(new)' /\ KeyOf(new)' = KeyOf(old)
    BY <1>4, AbsentAssumption DEF IsActive, Exists, KeyOf
<1>6. ASSUME NEW k \in Keys, k # KeyOf(old), activeCred[k] # None
      PROVE  activeCred[k] \in CredIds /\ credentials'[activeCred[k]] = credentials[activeCred[k]]
    BY <1>1, <1>2, <1>6 DEF IndexSound, IsActive, TypeOK
<1> QED
    BY <1>3, <1>5, <1>6, IndexByEntry

\* A credential that leaves the active state takes the entry of its key with it.
LEMMA IndexDrop ==
    ASSUME TypeOK, IndexSound, NEW c \in CredIds, Exists(c), NEW status,
           credentials' = WithCredentialStatus(c, status), activeCred' = Unindexed(KeyOf(c))
    PROVE  IndexSound'
<1>1. \A k \in Keys : activeCred'[k] = IF k = KeyOf(c) THEN None ELSE activeCred[k]
    BY DEF Unindexed, TypeOK
<1>2. \A d \in CredIds \ {c} : credentials'[d] = credentials[d]
    BY DEF WithCredentialStatus, TypeOK
<1>3. ASSUME NEW k \in Keys, k # KeyOf(c), activeCred[k] # None
      PROVE  activeCred[k] \in CredIds /\ credentials'[activeCred[k]] = credentials[activeCred[k]]
    BY <1>2, <1>3 DEF IndexSound, TypeOK
<1> QED
    BY <1>1, <1>3, IndexByEntry

LEMMA IndexReinstate ==
    ASSUME TypeOK, IndexSound, NEW c \in CredIds, ReinstateCredential(c)
    PROVE  IndexSound'
<1>1. /\ credentials[c] \in Credential /\ Exists(c) /\ KeyOf(c) \in Keys
      /\ credentials[c].status = "suspended"
    BY KeyType DEF ReinstateCredential, Exists, TypeOK
<1>2. /\ credentials'[c] = [credentials[c] EXCEPT !.status = "active"]
      /\ \A d \in CredIds \ {c} : credentials'[d] = credentials[d]
    BY DEF ReinstateCredential, WithCredentialStatus, TypeOK
<1>3. /\ activeCred'[KeyOf(c)] = c
      /\ \A k \in Keys : k # KeyOf(c) => activeCred'[k] = activeCred[k]
    BY <1>1 DEF ReinstateCredential, TypeOK
<1>4. /\ credentials'[c] \in Credential /\ credentials'[c].status = "active"
      /\ credentials'[c].type = credentials[c].type
      /\ credentials'[c].identifier = credentials[c].identifier
    BY <1>1, <1>2 DEF Credential, CredStatus
<1>5. IsActive(c)' /\ KeyOf(c)' = KeyOf(c)
    BY <1>4, AbsentAssumption DEF IsActive, Exists, KeyOf
<1>6. ASSUME NEW k \in Keys, k # KeyOf(c), activeCred[k] # None
      PROVE  activeCred[k] \in CredIds /\ credentials'[activeCred[k]] = credentials[activeCred[k]]
    BY <1>1, <1>2, <1>6 DEF IndexSound, IsActive, TypeOK
<1> QED
    BY <1>3, <1>5, <1>6, IndexByEntry

LEMMA IndexRevokeUser ==
    ASSUME TypeOK, IndexSound, NEW u \in UserIds, RevokeUser(u)
    PROVE  IndexSound'
<1>1. ASSUME NEW k \in Keys, activeCred'[k] # None
      PROVE  /\ activeCred'[k] = activeCred[k] /\ activeCred[k] \in CredIds
             /\ activeCred[k] \notin CredentialsToRevoke(u)
    BY <1>1 DEF RevokeUser, IndexSound, TypeOK
<1>2. \A c \in CredIds \ CredentialsToRevoke(u) : credentials'[c] = credentials[c]
    BY DEF RevokeUser
<1> QED
    BY <1>1, <1>2, IndexByEntry

LEMMA IndexStep ==
    ASSUME TypeOK, IndexSound, [Next]_vars
    PROVE  IndexSound'
<1>1. ASSUME UNCHANGED <<credentials, activeCred>> PROVE IndexSound'
    BY <1>1 DEF IndexSound, IsActive, Exists, KeyOf
<1>2. CASE UserNext
    BY <1>1, <1>2, IndexRevokeUser
       DEF UserNext, CreateUser, UpdateUser, SuspendUser, ReinstateUser, credVars
<1>3. CASE CredentialNext
    <2>1. ASSUME NEW c \in CredIds,
                 RotatePasswordOverlong(c) \/ SuspendCredential(c) \/ RevokeCredential(c)
          PROVE  IndexSound'
        BY <2>1, IndexDrop DEF RotatePasswordOverlong, SuspendCredential, RevokeCredential,
              IsActive
    <2> QED
        BY <1>3, <2>1, IndexInsert, IndexRotate, IndexReinstate DEF CredentialNext,
              CreatePasswordCredential, CreatePasskeyCredential, CreateOidcCredential,
              RotatePassword, RotatePasskey, RotateOidc
<1>4. CASE SessionNext \/ Tick \/ UNCHANGED vars
    BY <1>1, <1>4 DEF SessionNext, CreateSession, RefreshSession, RevokeSession, Tick, vars,
          credVars
<1> QED
    BY <1>2, <1>3, <1>4 DEF Next

----------------------------------------------------------------------------
(* The theorems. *)

Inv == SessionInv /\ LiveSessionBacked /\ IndexSound

LEMMA InitInv == Init => Inv
<1> SUFFICES ASSUME Init PROVE Inv
    OBVIOUS
<1>1. TypeOK
    BY DEF Init, TypeOK, UserStatus
<1>2. SessionTimes /\ LiveSessionBacked /\ IssuedTokens /\ IndexSound
    BY DEF Init, SessionTimes, LiveSessionBacked, IssuedTokens, IndexSound, Live
<1>3. TokenMapsExact
    BY NoneAssumption DEF Init, TokenMapsExact, Live
<1> QED
    BY <1>1, <1>2, <1>3 DEF Inv, SessionInv

LEMMA NextInv == Inv /\ [Next]_vars => Inv'
BY TypeStep, TimesStep, TokenStep, BackedStep, IndexStep DEF Inv, SessionInv

LEMMA Invariance == Spec => []Inv
BY InitInv, NextInv, PTL DEF Spec

\* Every table of the store keeps its shape: what the annotations of
\* InMemoryIdentityStore.__init__ say of the dicts.
THEOREM TypeCorrect == Spec => []TypeOK
<1>1. Inv => TypeOK
    BY DEF Inv, SessionInv
<1> QED
    BY <1>1, Invariance, PTL

\* The cascade guarantees of store.py: a live session always belongs to an
\* active user and to an active credential of that user.
THEOREM SessionsBacked == Spec => []LiveSessionBacked
<1>1. Inv => LiveSessionBacked
    BY DEF Inv
<1> QED
    BY <1>1, Invariance, PTL

\* The two token dicts are inverse and hold exactly the live sessions.
THEOREM TokenMapsCorrect == Spec => []TokenMapsExact
<1>1. Inv => TokenMapsExact
    BY DEF Inv, SessionInv
<1> QED
    BY <1>1, Invariance, PTL

\* Sessions satisfy the constraints of the ses table and keep their TTL.
THEOREM SessionTimesCorrect == Spec => []SessionTimes
<1>1. Inv => SessionTimes
    BY DEF Inv, SessionInv
<1> QED
    BY <1>1, Invariance, PTL

\* The index only ever names active credentials of its key.
THEOREM IndexCorrect == Spec => []IndexSound
<1>1. Inv => IndexSound
    BY DEF Inv
<1> QED
    BY <1>1, Invariance, PTL
=============================================================================
