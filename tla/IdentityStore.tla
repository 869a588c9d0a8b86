--------------------------- MODULE IdentityStore ---------------------------
(***************************************************************************)
(* Users, credentials and sessions of InMemoryIdentityStore                *)
(* (src/flametrench_identity/in_memory.py).  Every method of the store is  *)
(* one synchronous call, so each action is one whole method call that      *)
(* changes state.  A call that raises before it has changed anything is a  *)
(* stuttering step and has no action; rotate_password is the one method    *)
(* that can raise after it has changed state, and that outcome is the      *)
(* action RotatePasswordOverlong.                                          *)
(*                                                                         *)
(* A Python dict is a total function over the ids of the model; None marks *)
(* a key that is not in the dict.  A bearer token and its SHA-256 hash are *)
(* one value of Tokens (the hash is injective as far as the store can      *)
(* tell), and so are a password and its Argon2id hash.                     *)
(***************************************************************************)
EXTENDS Integers, FiniteSets

CONSTANTS
    UserIds, CredIds, SessionIds,  \* what generate("usr" / "cred" / "ses") may return
    Tokens,                        \* what secrets.token_urlsafe(32) may return
    CredentialType,                \* the credential types enumerated
    Identifiers,                   \* natural keys, such as e-mail addresses
    DisplayNames,                  \* display names other than null
    Passwords,                     \* passwords within MAX_PASSWORD_BYTES
    TtlInputs,                     \* the ttl_seconds that callers pass
    MinTtl,                        \* the 60 seconds of create_session, in clock units
    MaxTime,                       \* bound: the clock stops here
    None                           \* an absent key, and Python's None

ASSUME CredentialTypeAssumption == CredentialType \subseteq {"password", "passkey", "oidc"}
ASSUME NoneAssumption ==
    None \notin UserIds \cup CredIds \cup SessionIds \cup Tokens \cup Passwords
ASSUME TtlAssumption == TtlInputs \subseteq Nat /\ MinTtl \in Nat \ {0}
ASSUME MaxTimeAssumption == MaxTime \in Nat

VARIABLES
    users,              \* _users: the status of each user
    displayName,        \* _users: the display name of each user
    credentials,        \* _credentials
    passwordHash,       \* _password_hashes: cred id -> the password it was made from
    activeCred,         \* _active_cred_by_identifier: <<type, identifier>> -> cred id
    sessions,           \* _sessions
    sessionTokenHash,   \* _session_token_hashes: session id -> token
    sessionByTokenHash, \* _session_by_token_hash: token -> session id
    issued,             \* every token ever returned to a caller
    now                 \* what the injected clock reads

userVars == <<users, displayName>>
credVars == <<credentials, passwordHash, activeCred>>
sessionVars == <<sessions, sessionTokenHash, sessionByTokenHash, issued>>
vars == <<userVars, credVars, sessionVars, now>>

----------------------------------------------------------------------------
(* The stored entities. *)

UserStatus == {None, "active", "suspended", "revoked"}
CredStatus == {"active", "suspended", "revoked"}
Keys == CredentialType \X Identifiers
NoTime == -1  \* revoked_at is None

Credential == [usr: UserIds, type: CredentialType, identifier: Identifiers,
               status: CredStatus, replaces: CredIds \cup {None}]
Session == [usr: UserIds, cred: CredIds, createdAt: Nat, expiresAt: Nat,
            revokedAt: Nat \cup {NoTime}]

ASSUME AbsentAssumption == None \notin Credential \cup Session \cup CredStatus

TypeOK ==
    /\ users \in [UserIds -> UserStatus]
    /\ displayName \in [UserIds -> DisplayNames \cup {None}]
    /\ credentials \in [CredIds -> Credential \cup {None}]
    /\ passwordHash \in [CredIds -> Passwords \cup {None}]
    /\ activeCred \in [Keys -> CredIds \cup {None}]
    /\ sessions \in [SessionIds -> Session \cup {None}]
    /\ sessionTokenHash \in [SessionIds -> Tokens \cup {None}]
    /\ sessionByTokenHash \in [Tokens -> SessionIds \cup {None}]
    /\ issued \in SUBSET Tokens
    /\ now \in Nat

KeyOf(c) == <<credentials[c].type, credentials[c].identifier>>
Exists(c) == credentials[c] # None
IsActive(c) == Exists(c) /\ credentials[c].status = "active"
Live(s) == sessions[s] # None /\ sessions[s].revokedAt = NoTime
Expired(s) == now > sessions[s].expiresAt

Init ==
    /\ users = [u \in UserIds |-> None]
    /\ displayName = [u \in UserIds |-> None]
    /\ credentials = [c \in CredIds |-> None]
    /\ passwordHash = [c \in CredIds |-> None]
    /\ activeCred = [k \in Keys |-> None]
    /\ sessions = [s \in SessionIds |-> None]
    /\ sessionTokenHash = [s \in SessionIds |-> None]
    /\ sessionByTokenHash = [t \in Tokens |-> None]
    /\ issued = {}
    /\ now = 0

----------------------------------------------------------------------------
(* Helpers: what several methods do to the same dicts. *)

\* Fault: the cascade of a user takes everybody's sessions.
SessionsOfEveryone(u) == {s \in SessionIds : Live(s)}

SessionsOfUser(u) == {s \in SessionIds : Live(s) /\ sessions[s].usr = u}
SessionsOfCredential(c) == {s \in SessionIds : Live(s) /\ sessions[s].cred = c}

\* Revoke the sessions in S and drop both directions of their token mapping.
Revoked(S) ==
    [s \in SessionIds |-> IF s \in S THEN [sessions[s] EXCEPT !.revokedAt = now]
                                     ELSE sessions[s]]
TokenHashWithout(S) ==
    [s \in SessionIds |-> IF s \in S THEN None ELSE sessionTokenHash[s]]
\* Fault: only one of the two dicts is cleaned up.
ByTokenHashKept(S) == sessionByTokenHash
ByTokenHashWithout(S) ==
    [t \in Tokens |-> IF \E s \in S : sessionTokenHash[s] = t
                      THEN None ELSE sessionByTokenHash[t]]

CascadeRevokeSessions(S) ==
    /\ sessions' = Revoked(S)
    /\ sessionTokenHash' = TokenHashWithout(S)
    /\ sessionByTokenHash' = ByTokenHashWithout(S)
    /\ UNCHANGED issued

WithCredentialStatus(c, status) == [credentials EXCEPT ![c].status = status]
Unindexed(k) == [activeCred EXCEPT ![k] = None]

----------------------------------------------------------------------------
(* Users. *)

CreateUser(u, name) ==
    /\ users[u] = None
    /\ users' = [users EXCEPT ![u] = "active"]
    /\ displayName' = [displayName EXCEPT ![u] = name]
    /\ UNCHANGED <<credVars, sessionVars, now>>

\* An omitted name or the name the user has already is a no-op.
UpdateUser(u, name) ==
    /\ users[u] \notin {None, "revoked"}
    /\ displayName' = [displayName EXCEPT ![u] = name]
    /\ UNCHANGED <<users, credVars, sessionVars, now>>

SuspendUser(u) ==
    /\ users[u] = "active"
    /\ users' = [users EXCEPT ![u] = "suspended"]
    /\ CascadeRevokeSessions(SessionsOfUser(u))
    /\ UNCHANGED <<displayName, credVars, now>>

ReinstateUser(u) ==
    /\ users[u] = "suspended"
    /\ users' = [users EXCEPT ![u] = "active"]
    /\ UNCHANGED <<displayName, credVars, sessionVars, now>>

\* Only the credentials that are active are revoked: a suspended credential
\* stays suspended.
CredentialsToRevoke(u) == {c \in CredIds : IsActive(c) /\ credentials[c].usr = u}

RevokeUser(u) ==
    /\ users[u] \in {"active", "suspended"}
    /\ users' = [users EXCEPT ![u] = "revoked"]
    /\ credentials' = [c \in CredIds |-> IF c \in CredentialsToRevoke(u)
                                         THEN [credentials[c] EXCEPT !.status = "revoked"]
                                         ELSE credentials[c]]
    /\ activeCred' = [k \in Keys |-> IF \E c \in CredentialsToRevoke(u) : KeyOf(c) = k
                                     THEN None ELSE activeCred[k]]
    /\ CascadeRevokeSessions(SessionsOfUser(u))
    /\ UNCHANGED <<displayName, passwordHash, now>>

----------------------------------------------------------------------------
(* Credentials. *)

EnsureUserActiveAndUniqueIdentifier(u, type, id) ==
    /\ users[u] = "active"
    /\ activeCred[<<type, id>>] = None

InsertCredential(c, u, type, id) ==
    /\ type \in CredentialType
    /\ EnsureUserActiveAndUniqueIdentifier(u, type, id)
    /\ ~Exists(c)
    /\ credentials' = [credentials EXCEPT ![c] =
           [usr |-> u, type |-> type, identifier |-> id, status |-> "active", replaces |-> None]]
    /\ activeCred' = [activeCred EXCEPT ![<<type, id>>] = c]
    /\ UNCHANGED <<userVars, sessionVars, now>>

CreatePasswordCredential(c, u, id, pw) ==
    /\ InsertCredential(c, u, "password", id)
    /\ passwordHash' = [passwordHash EXCEPT ![c] = pw]

CreatePasskeyCredential(c, u, id) ==
    /\ InsertCredential(c, u, "passkey", id)
    /\ UNCHANGED passwordHash

CreateOidcCredential(c, u, id) ==
    /\ InsertCredential(c, u, "oidc", id)
    /\ UNCHANGED passwordHash

\* Fault: any credential can be rotated, whatever its status.
RotateAnyStatus(old, new, type) ==
    /\ Exists(old)
    /\ credentials[old].type = type
    /\ ~Exists(new)
    /\ credentials' = [WithCredentialStatus(old, "revoked") EXCEPT ![new] =
           [credentials[old] EXCEPT !.status = "active", !.replaces = old]]
    /\ activeCred' = [activeCred EXCEPT ![KeyOf(old)] = new]
    /\ CascadeRevokeSessions(SessionsOfCredential(old))
    /\ UNCHANGED <<userVars, now>>

\* What the three rotations share: the old credential is revoked with its
\* sessions, the new one replaces it.  The status of the user is not read.
Rotate(old, new, type) ==
    /\ IsActive(old)
    /\ credentials[old].type = type
    /\ ~Exists(new)
    /\ credentials' = [WithCredentialStatus(old, "revoked") EXCEPT ![new] =
           [credentials[old] EXCEPT !.status = "active", !.replaces = old]]
    /\ activeCred' = [activeCred EXCEPT ![KeyOf(old)] = new]
    /\ CascadeRevokeSessions(SessionsOfCredential(old))
    /\ UNCHANGED <<userVars, now>>

\* Fault: the new hash is stored under the id of the old credential.
RotatePasswordUnderOldId(old, new, pw) ==
    /\ Rotate(old, new, "password")
    /\ passwordHash' = [passwordHash EXCEPT ![old] = pw]

RotatePassword(old, new, pw) ==
    /\ Rotate(old, new, "password")
    /\ passwordHash' = [passwordHash EXCEPT ![old] = None, ![new] = pw]

\* The new password is over MAX_PASSWORD_BYTES: hash_password raises when the
\* old credential has been revoked already, and no new one is stored.
RotatePasswordOverlong(old) ==
    /\ IsActive(old)
    /\ credentials[old].type = "password"
    /\ credentials' = WithCredentialStatus(old, "revoked")
    /\ activeCred' = Unindexed(KeyOf(old))
    /\ passwordHash' = [passwordHash EXCEPT ![old] = None]
    /\ CascadeRevokeSessions(SessionsOfCredential(old))
    /\ UNCHANGED <<userVars, now>>

RotatePasskey(old, new) ==
    /\ Rotate(old, new, "passkey")
    /\ UNCHANGED passwordHash

RotateOidc(old, new) ==
    /\ Rotate(old, new, "oidc")
    /\ UNCHANGED passwordHash

\* Fault: the index keeps the suspended credential.
SuspendCredentialKeepingIndex(c) ==
    /\ IsActive(c)
    /\ credentials' = WithCredentialStatus(c, "suspended")
    /\ CascadeRevokeSessions(SessionsOfCredential(c))
    /\ UNCHANGED <<userVars, passwordHash, activeCred, now>>

SuspendCredential(c) ==
    /\ IsActive(c)
    /\ credentials' = WithCredentialStatus(c, "suspended")
    /\ activeCred' = Unindexed(KeyOf(c))
    /\ CascadeRevokeSessions(SessionsOfCredential(c))
    /\ UNCHANGED <<userVars, passwordHash, now>>

\* Fault: everything that is not active counts as suspended.
ReinstateInactiveCredential(c) ==
    /\ Exists(c) /\ ~IsActive(c)
    /\ activeCred[KeyOf(c)] = None
    /\ credentials' = WithCredentialStatus(c, "active")
    /\ activeCred' = [activeCred EXCEPT ![KeyOf(c)] = c]
    /\ UNCHANGED <<userVars, passwordHash, sessionVars, now>>

\* The status of the user is not read here either.
ReinstateCredential(c) ==
    /\ Exists(c) /\ credentials[c].status = "suspended"
    /\ activeCred[KeyOf(c)] = None
    /\ credentials' = WithCredentialStatus(c, "active")
    /\ activeCred' = [activeCred EXCEPT ![KeyOf(c)] = c]
    /\ UNCHANGED <<userVars, passwordHash, sessionVars, now>>

\* The key is dropped whichever credential it points to.
RevokeCredential(c) ==
    /\ Exists(c) /\ credentials[c].status # "revoked"
    /\ credentials' = WithCredentialStatus(c, "revoked")
    /\ activeCred' = Unindexed(KeyOf(c))
    /\ CascadeRevokeSessions(SessionsOfCredential(c))
    /\ UNCHANGED <<userVars, passwordHash, now>>

----------------------------------------------------------------------------
(* Sessions. *)

\* Fault: a generator that may return a token again.
FreshIdOnly(s, t) == sessions[s] = None

\* secrets.token_urlsafe(32) never returns a value twice.
Fresh(s, t) == sessions[s] = None /\ t \notin issued

\* Fault: the status of the credential is not checked.
CreateSessionAnyCredential(s, u, c, ttl, t) ==
    /\ users[u] = "active"
    /\ Exists(c)
    /\ credentials[c].usr = u
    /\ ttl >= MinTtl
    /\ Fresh(s, t)
    /\ sessions' = [sessions EXCEPT ![s] =
           [usr |-> u, cred |-> c, createdAt |-> now, expiresAt |-> now + ttl,
            revokedAt |-> NoTime]]
    /\ sessionTokenHash' = [sessionTokenHash EXCEPT ![s] = t]
    /\ sessionByTokenHash' = [sessionByTokenHash EXCEPT ![t] = s]
    /\ issued' = issued \cup {t}
    /\ UNCHANGED <<userVars, credVars, now>>

CreateSession(s, u, c, ttl, t) ==
    /\ users[u] = "active"
    /\ IsActive(c)
    /\ credentials[c].usr = u
    /\ ttl >= MinTtl
    /\ Fresh(s, t)
    /\ sessions' = [sessions EXCEPT ![s] =
           [usr |-> u, cred |-> c, createdAt |-> now, expiresAt |-> now + ttl,
            revokedAt |-> NoTime]]
    /\ sessionTokenHash' = [sessionTokenHash EXCEPT ![s] = t]
    /\ sessionByTokenHash' = [sessionByTokenHash EXCEPT ![t] = s]
    /\ issued' = issued \cup {t}
    /\ UNCHANGED <<userVars, credVars, now>>

\* Faults: the window is counted backwards; the creation time is carried over.
RefreshedBackwards(s) ==
    LET ttl == sessions[s].createdAt - sessions[s].expiresAt IN
    [sessions[s] EXCEPT !.createdAt = now, !.expiresAt = now + ttl]
RefreshedKeepingCreation(s) ==
    LET ttl == sessions[s].expiresAt - sessions[s].createdAt IN
    [sessions[s] EXCEPT !.expiresAt = now + ttl]

\* The session that replaces s has the TTL that s was created with.
Refreshed(s) ==
    LET ttl == sessions[s].expiresAt - sessions[s].createdAt IN
    [sessions[s] EXCEPT !.createdAt = now, !.expiresAt = now + ttl]

\* Neither the user nor the credential is read again: the new session is good
\* only because every change of either revokes the old one.
RefreshSession(old, new, t) ==
    /\ Live(old)
    /\ ~Expired(old)
    /\ Fresh(new, t)
    /\ sessions' = [Revoked({old}) EXCEPT ![new] = Refreshed(old)]
    /\ sessionTokenHash' = [TokenHashWithout({old}) EXCEPT ![new] = t]
    /\ sessionByTokenHash' = [ByTokenHashWithout({old}) EXCEPT ![t] = new]
    /\ issued' = issued \cup {t}
    /\ UNCHANGED <<userVars, credVars, now>>

\* An expired session can still be revoked; a revoked one is returned as it is.
RevokeSession(s) ==
    /\ Live(s)
    /\ CascadeRevokeSessions({s})
    /\ UNCHANGED <<userVars, credVars, now>>

\* The clock the store was given reads one unit more.
Tick ==
    /\ now < MaxTime
    /\ now' = now + 1
    /\ UNCHANGED <<userVars, credVars, sessionVars>>

----------------------------------------------------------------------------
(* Reads that decide who is let in. *)

\* Fault: the expiry is not looked at.
TokenAcceptedForever(t, s) ==
    /\ sessionByTokenHash[t] = s
    /\ sessions[s] # None
    /\ sessionTokenHash[s] = t
    /\ Live(s)

\* verify_session_token(t) returns the session s.
TokenAccepted(t, s) ==
    /\ sessionByTokenHash[t] = s
    /\ sessions[s] # None
    /\ sessionTokenHash[s] = t
    /\ Live(s)
    /\ ~Expired(s)

\* verify_password(id, pw) returns the credential c: the index alone says that
\* c is active, the method reads no status.
PasswordAccepted(id, pw, c) ==
    /\ "password" \in CredentialType
    /\ activeCred[<<"password", id>>] = c
    /\ Exists(c)
    /\ credentials[c].type = "password"
    /\ passwordHash[c] = pw

----------------------------------------------------------------------------

UserNext == \E u \in UserIds :
    \/ \E name \in DisplayNames \cup {None} : CreateUser(u, name) \/ UpdateUser(u, name)
    \/ SuspendUser(u)
    \/ ReinstateUser(u)
    \/ RevokeUser(u)

CredentialNext == \E c \in CredIds :
    \/ \E u \in UserIds, id \in Identifiers :
          \/ \E pw \in Passwords : CreatePasswordCredential(c, u, id, pw)
          \/ CreatePasskeyCredential(c, u, id)
          \/ CreateOidcCredential(c, u, id)
    \/ \E new \in CredIds :
          \/ \E pw \in Passwords : RotatePassword(c, new, pw)
          \/ RotatePasskey(c, new)
          \/ RotateOidc(c, new)
    \/ RotatePasswordOverlong(c)
    \/ SuspendCredential(c)
    \/ ReinstateCredential(c)
    \/ RevokeCredential(c)

SessionNext == \E s \in SessionIds :
    \/ \E u \in UserIds, c \in CredIds, ttl \in TtlInputs, t \in Tokens :
          CreateSession(s, u, c, ttl, t)
    \/ \E new \in SessionIds, t \in Tokens : RefreshSession(s, new, t)
    \/ RevokeSession(s)

Next == UserNext \/ CredentialNext \/ SessionNext \/ Tick

Spec == Init /\ [][Next]_vars

\* Time passes; no caller is obliged to call anything.
FairSpec == Spec /\ WF_vars(Tick)

----------------------------------------------------------------------------
(* Properties. *)

\* Every entry of _active_cred_by_identifier points to an active credential
\* of that type and identifier: verify_password and find_credential_by_identifier
\* trust the index and read no status.
IndexSound == \A k \in Keys : activeCred[k] # None =>
    IsActive(activeCred[k]) /\ KeyOf(activeCred[k]) = k

\* The cascades leave no gap (store.py, "Cascade guarantees"): a session that is
\* not revoked belongs to an active user, was opened with a credential that is
\* active still, and that credential is the user's own.
LiveSessionBacked == \A s \in SessionIds : Live(s) =>
    /\ users[sessions[s].usr] = "active"
    /\ IsActive(sessions[s].cred)
    /\ credentials[sessions[s].cred].usr = sessions[s].usr

\* The two token dicts are inverse to each other and hold exactly the sessions
\* that are not revoked, through every cascade, refresh and revocation.
TokenMapsExact ==
    /\ \A s \in SessionIds : Live(s) <=> sessionTokenHash[s] # None
    /\ \A s \in SessionIds, t \in Tokens :
          sessionTokenHash[s] = t <=> sessionByTokenHash[t] = s

\* The replaces chain of rotations never forks and never crosses identities: a
\* replaced credential is revoked, has one successor, and the successor has its
\* user, type and identifier.
RotationChain ==
    /\ \A c \in CredIds : Exists(c) /\ credentials[c].replaces # None =>
          LET old == credentials[c].replaces IN
          /\ Exists(old) /\ credentials[old].status = "revoked"
          /\ credentials[old].usr = credentials[c].usr
          /\ KeyOf(old) = KeyOf(c)
    /\ \A c, d \in CredIds :
          Exists(c) /\ Exists(d) /\ credentials[c].replaces = credentials[d].replaces
             => c = d \/ credentials[c].replaces = None

\* A sign-in that succeeds names an active credential that no rotation has
\* replaced, and every active credential that the index names can be signed in
\* with: it has a hash, even after rotations that failed half way.
SignInSound ==
    /\ \A id \in Identifiers, pw \in Passwords, c \in CredIds :
          PasswordAccepted(id, pw, c) =>
             /\ IsActive(c)
             /\ \A d \in CredIds : Exists(d) => credentials[d].replaces # c
    /\ \A c \in CredIds :
          IsActive(c) /\ credentials[c].type = "password" => passwordHash[c] # None

\* The CHECK constraints of the ses table hold of the in-memory store too, and
\* refreshing never stretches a session below or beyond a TTL a caller was given.
SessionTimes == \A s \in SessionIds : sessions[s] # None =>
    /\ sessions[s].createdAt <= now
    /\ sessions[s].revokedAt # NoTime => sessions[s].createdAt <= sessions[s].revokedAt
    /\ sessions[s].expiresAt - sessions[s].createdAt \in {ttl \in TtlInputs : ttl >= MinTtl}

\* "revoked" is terminal for users, credentials and sessions, and nothing a
\* revoked entity records changes any more: the history stays readable.
RevokedIsTerminal == [][
    /\ \A u \in UserIds : users[u] = "revoked" =>
          users'[u] = "revoked" /\ displayName'[u] = displayName[u]
    /\ \A c \in CredIds : Exists(c) /\ credentials[c].status = "revoked" =>
          credentials'[c] = credentials[c] /\ passwordHash'[c] = passwordHash[c]
    /\ \A s \in SessionIds : sessions[s] # None /\ ~Live(s) => sessions'[s] = sessions[s]
    ]_vars

\* A token that was issued and is no longer accepted is never accepted again, not
\* by a refresh, a reinstated user or a reinstated credential.
DeadTokenStaysDead == [][
    \A t \in issued : (\A s \in SessionIds : ~TokenAccepted(t, s))
        => (\A s \in SessionIds : ~TokenAccepted(t, s)')
    ]_vars

\* Whom a token lets in.
HolderOf(t) == IF \E s \in SessionIds : TokenAccepted(t, s)
               THEN sessions[sessionByTokenHash[t]].usr ELSE None

Bearer == INSTANCE BearerTokens WITH
    Users <- UserIds, Guarded <- TRUE, holder <- [t \in Tokens |-> HolderOf(t)],
    open <- {u \in UserIds : users[u] = "active"}

\* Session tokens are bearer tokens: suspending or revoking a user kills the tokens of
\* that user and no others in the same step, a refresh hands the user over from one
\* token to one other, and no other call gives life to a token.
ImplementsBearerTokens == Bearer!BearerSpec

\* Every token dies: as time passes it stops being accepted for good, unless its
\* session outlives the bounded clock.
TokenEventuallyDies == \A t \in Tokens, s \in SessionIds :
    TokenAccepted(t, s) /\ sessions[s].expiresAt < MaxTime
        ~> [](\A r \in SessionIds : ~TokenAccepted(t, r))

\* What errors.py:28 and the comment of the schema's unique index say of the
\* store: no two active credentials share type and identifier.
UniqueActiveCredential == \A c, d \in CredIds :
    IsActive(c) /\ IsActive(d) /\ KeyOf(c) = KeyOf(d) => c = d
=============================================================================
