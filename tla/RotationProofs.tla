--------------------------- MODULE RotationProofs ---------------------------
(***************************************************************************)
(* The history of credentials in IdentityStore: the chain that rotations   *)
(* write, what a sign-in may rely on, and that a revoked entity keeps its  *)
(* record, for every value of the constants.                               *)
(***************************************************************************)
EXTENDS IdentityStoreProofs

----------------------------------------------------------------------------
(* What a step may do to credentials. *)

\* An identity that a credential has keeps it, and a revoked credential keeps
\* everything.
Kept(c) ==
    /\ Exists(c)'
    /\ credentials'[c].usr = credentials[c].usr
    /\ credentials'[c].replaces = credentials[c].replaces
    /\ KeyOf(c)' = KeyOf(c)
    /\ credentials[c].status = "revoked" => /\ credentials'[c] = credentials[c]
                                            /\ passwordHash'[c] = passwordHash[c]

\* new is the only credential that appears, and takes the place of old.
Succeeds(new, old) ==
    /\ IsActive(old) /\ credentials'[old].status = "revoked"
    /\ credentials'[new].replaces = old
    /\ credentials'[new].usr = credentials[old].usr
    /\ KeyOf(new)' = KeyOf(old)
    /\ \A c \in CredIds \ {new} : Exists(c)' => Exists(c)

Appears(new) == credentials'[new].replaces = None \/ \E old \in CredIds : Succeeds(new, old)

CredentialHistory ==
    /\ \A c \in CredIds : Exists(c) => Kept(c)
    /\ \A c \in CredIds : ~Exists(c) /\ Exists(c)' => Appears(c)

LEMMA SameCredentials ==
    ASSUME UNCHANGED <<credentials, passwordHash>>
    PROVE  CredentialHistory
BY DEF CredentialHistory, Kept, Exists, KeyOf

\* The suspension, reinstatement or revocation of the credentials in C, of which
\* none is revoked yet.
LEMMA StatusHistory ==
    ASSUME TypeOK, NEW C \in SUBSET CredIds, NEW status \in CredStatus,
           \A c \in C : Exists(c) /\ credentials[c].status # "revoked",
           \A c \in C : credentials'[c] = [credentials[c] EXCEPT !.status = status],
           \A c \in CredIds \ C : /\ credentials'[c] = credentials[c]
                                  /\ passwordHash'[c] = passwordHash[c]
    PROVE  CredentialHistory
<1>1. ASSUME NEW c \in C PROVE Kept(c)
    <2>1. credentials[c] \in Credential /\ credentials[c].status # "revoked"
        BY DEF TypeOK, Exists
    <2>2. credentials'[c] \in Credential
        BY <2>1 DEF Credential
    <2>3. /\ credentials'[c].usr = credentials[c].usr
          /\ credentials'[c].type = credentials[c].type
          /\ credentials'[c].identifier = credentials[c].identifier
          /\ credentials'[c].replaces = credentials[c].replaces
        BY <2>1 DEF Credential
    <2> QED
        BY <2>1, <2>2, <2>3, AbsentAssumption DEF Kept, Exists, KeyOf
<1>2. ASSUME NEW c \in CredIds \ C PROVE (Exists(c) => Kept(c)) /\ (Exists(c)' => Exists(c))
    BY DEF Kept, Exists, KeyOf
<1> QED
    BY <1>1, <1>2 DEF CredentialHistory

LEMMA InsertHistory ==
    ASSUME TypeOK, NEW c \in CredIds, NEW u \in UserIds, NEW id \in Identifiers, NEW type,
           InsertCredential(c, u, type, id),
           \A d \in CredIds \ {c} : passwordHash'[d] = passwordHash[d]
    PROVE  CredentialHistory
<1>1. /\ ~Exists(c)
      /\ credentials'[c].replaces = None
      /\ \A d \in CredIds \ {c} : credentials'[d] = credentials[d]
    BY DEF InsertCredential, TypeOK
<1>2. ASSUME NEW d \in CredIds \ {c} PROVE (Exists(d) => Kept(d)) /\ (Exists(d)' => Exists(d))
    BY <1>1 DEF Kept, Exists, KeyOf
<1> QED
    BY <1>1, <1>2 DEF CredentialHistory, Appears

LEMMA RotateHistory ==
    ASSUME TypeOK, NEW old \in CredIds, NEW new \in CredIds, NEW type, Rotate(old, new, type),
           \A d \in CredIds \ {old, new} : passwordHash'[d] = passwordHash[d]
    PROVE  CredentialHistory
<1>1. /\ IsActive(old) /\ Exists(old) /\ ~Exists(new) /\ old # new
      /\ credentials[old] \in Credential /\ credentials[old].status = "active"
    BY DEF Rotate, IsActive, Exists, TypeOK
<1>2. /\ credentials'[new] = [credentials[old] EXCEPT !.status = "active", !.replaces = old]
      /\ credentials'[old] = [credentials[old] EXCEPT !.status = "revoked"]
      /\ \A d \in CredIds \ {old, new} : credentials'[d] = credentials[d]
    BY <1>1 DEF Rotate, TypeOK, WithCredentialStatus
<1>3. /\ credentials'[old] \in Credential
      /\ credentials'[old].status = "revoked"
      /\ credentials'[old].usr = credentials[old].usr
      /\ credentials'[old].type = credentials[old].type
      /\ credentials'[old].identifier = credentials[old].identifier
      /\ credentials'[old].replaces = credentials[old].replaces
    BY <1>1, <1>2 DEF Credential, CredStatus
<1>4. /\ credentials'[new].replaces = old
      /\ credentials'[new].usr = credentials[old].usr
      /\ credentials'[new].type = credentials[old].type
      /\ credentials'[new].identifier = credentials[old].identifier
    BY <1>1, <1>2 DEF Credential
<1>5. Kept(old)
    BY <1>1, <1>3, AbsentAssumption DEF Kept, Exists, KeyOf
<1>6. ASSUME NEW d \in CredIds \ {old, new}
      PROVE  (Exists(d) => Kept(d)) /\ (Exists(d)' => Exists(d))
    BY <1>2 DEF Kept, Exists, KeyOf
<1>7. Succeeds(new, old)
    BY <1>1, <1>3, <1>4, <1>6 DEF Succeeds, KeyOf, IsActive
<1> QED
    BY <1>1, <1>5, <1>6, <1>7 DEF CredentialHistory, Appears

LEMMA HistoryStep ==
    ASSUME TypeOK, [Next]_vars
    PROVE  CredentialHistory
<1>1. ASSUME NEW c \in CredIds, Exists(c), credentials[c].status # "revoked",
             NEW status \in CredStatus, credentials' = WithCredentialStatus(c, status),
             \A d \in CredIds \ {c} : passwordHash'[d] = passwordHash[d]
      PROVE  CredentialHistory
    <2>1. /\ credentials'[c] = [credentials[c] EXCEPT !.status = status]
          /\ \A d \in CredIds \ {c} : credentials'[d] = credentials[d]
        BY <1>1 DEF WithCredentialStatus, TypeOK
    <2> DEFINE C == {c}
    <2>2. /\ C \in SUBSET CredIds
          /\ \A d \in C : Exists(d) /\ credentials[d].status # "revoked"
          /\ \A d \in C : credentials'[d] = [credentials[d] EXCEPT !.status = status]
          /\ \A d \in CredIds \ C : /\ credentials'[d] = credentials[d]
                                    /\ passwordHash'[d] = passwordHash[d]
        BY <1>1, <2>1
    <2> HIDE DEF C
    <2> QED
        BY <1>1, <2>2, StatusHistory
<1>2. CASE UserNext
    <2>1. ASSUME NEW u \in UserIds, RevokeUser(u) PROVE CredentialHistory
        <3>1. CredentialsToRevoke(u) \in SUBSET CredIds
            BY DEF CredentialsToRevoke
        <3>2. \A c \in CredentialsToRevoke(u) : Exists(c) /\ credentials[c].status # "revoked"
            BY DEF CredentialsToRevoke, IsActive
        <3>3. /\ \A c \in CredentialsToRevoke(u) :
                    credentials'[c] = [credentials[c] EXCEPT !.status = "revoked"]
              /\ \A c \in CredIds \ CredentialsToRevoke(u) : credentials'[c] = credentials[c]
              /\ passwordHash' = passwordHash
            BY <2>1, <3>1 DEF RevokeUser
        <3> QED
            BY <3>1, <3>2, <3>3, StatusHistory DEF CredStatus
    <2>2. ASSUME NEW u \in UserIds,
                 \/ \E name \in DisplayNames \cup {None} :
                       CreateUser(u, name) \/ UpdateUser(u, name)
                 \/ SuspendUser(u) \/ ReinstateUser(u)
          PROVE  CredentialHistory
        <3>1. UNCHANGED <<credentials, passwordHash>>
            BY <2>2 DEF CreateUser, UpdateUser, SuspendUser, ReinstateUser, credVars
        <3> QED
            BY <3>1, SameCredentials
    <2> QED
        BY <1>2, <2>1, <2>2 DEF UserNext
<1>3. CASE CredentialNext
    <2> SUFFICES ASSUME NEW c \in CredIds,
                        \/ \E u \in UserIds, id \in Identifiers :
                              \/ \E pw \in Passwords : CreatePasswordCredential(c, u, id, pw)
                              \/ CreatePasskeyCredential(c, u, id)
                              \/ CreateOidcCredential(c, u, id)
                        \/ \E new \in CredIds :
                              \/ \E pw \in Passwords : RotatePassword(c, new, pw)
                              \/ RotatePasskey(c, new)
                              \/ RotateOidc(c, new)
                        \/ RotatePasswordOverlong(c) \/ SuspendCredential(c)
                        \/ ReinstateCredential(c) \/ RevokeCredential(c)
                 PROVE  CredentialHistory
        BY <1>3 DEF CredentialNext
    <2>1. ASSUME NEW u \in UserIds, NEW id \in Identifiers,
                 \/ \E pw \in Passwords : CreatePasswordCredential(c, u, id, pw)
                 \/ CreatePasskeyCredential(c, u, id)
                 \/ CreateOidcCredential(c, u, id)
          PROVE  CredentialHistory
        BY <2>1, InsertHistory DEF TypeOK, CreatePasswordCredential, CreatePasskeyCredential,
              CreateOidcCredential
    <2>2. ASSUME NEW new \in CredIds,
                 \/ \E pw \in Passwords : RotatePassword(c, new, pw)
                 \/ RotatePasskey(c, new)
                 \/ RotateOidc(c, new)
          PROVE  CredentialHistory
        BY <2>2, RotateHistory DEF TypeOK, RotatePassword, RotatePasskey, RotateOidc
    <2>3. CASE RotatePasswordOverlong(c)
        BY <1>1, <2>3 DEF RotatePasswordOverlong, IsActive, CredStatus, TypeOK
    <2>4. CASE SuspendCredential(c) \/ RevokeCredential(c) \/ ReinstateCredential(c)
        BY <1>1, <2>4 DEF SuspendCredential, RevokeCredential, ReinstateCredential, IsActive,
              CredStatus
    <2> QED
        BY <2>1, <2>2, <2>3, <2>4
<1>4. CASE SessionNext \/ Tick \/ UNCHANGED vars
    BY <1>4, SameCredentials DEF SessionNext, CreateSession, RefreshSession, RevokeSession, Tick,
          vars, credVars
<1> QED
    BY <1>2, <1>3, <1>4 DEF Next

----------------------------------------------------------------------------
(* The chain. *)

LEMMA ChainStep ==
    ASSUME TypeOK, RotationChain, CredentialHistory
    PROVE  RotationChain'
<1> DEFINE Linked(c) == LET old == credentials[c].replaces IN
               /\ Exists(old) /\ credentials[old].status = "revoked"
               /\ credentials[old].usr = credentials[c].usr
               /\ KeyOf(old) = KeyOf(c)
<1>1. ASSUME NEW c \in CredIds, Exists(c), credentials[c].replaces # None
      PROVE  credentials[c].replaces \in CredIds /\ Linked(c)
    BY <1>1 DEF RotationChain, TypeOK, Exists, Credential
<1>2. ASSUME NEW c \in CredIds, Exists(c), credentials'[c].replaces # None
      PROVE  credentials'[c].replaces = credentials[c].replaces /\ Linked(c)'
    <2>1. Kept(c)
        BY <1>2 DEF CredentialHistory
    <2>2. credentials'[c].replaces = credentials[c].replaces
        BY <2>1 DEF Kept
    <2>3. credentials[c].replaces \in CredIds /\ Linked(c)
        BY <1>1, <1>2, <2>2
    <2>4. Kept(credentials[c].replaces)
        BY <2>3 DEF CredentialHistory
    <2> QED
        BY <2>1, <2>2, <2>3, <2>4 DEF Kept
<1>3. ASSUME NEW c \in CredIds, ~Exists(c), Exists(c)', credentials'[c].replaces # None
      PROVE  Linked(c)' /\ \E old \in CredIds : Succeeds(c, old)
    <2>1. PICK old \in CredIds : Succeeds(c, old)
        BY <1>3 DEF CredentialHistory, Appears
    <2>2. Kept(old)
        BY <2>1 DEF Succeeds, IsActive, CredentialHistory
    <2> QED
        BY <2>1, <2>2 DEF Succeeds, Kept
<1>4. ASSUME NEW c \in CredIds, Exists(c)', credentials'[c].replaces # None PROVE Linked(c)'
    BY <1>2, <1>3, <1>4
<1>5. ASSUME NEW c \in CredIds, NEW d \in CredIds, Exists(c)', Exists(d)',
             credentials'[c].replaces = credentials'[d].replaces, credentials'[c].replaces # None
      PROVE  c = d
    <2>1. CASE Exists(c) /\ Exists(d)
        <3>1. /\ credentials'[c].replaces = credentials[c].replaces
              /\ credentials'[d].replaces = credentials[d].replaces
            BY <1>2, <1>5, <2>1
        <3> QED
            BY <1>5, <2>1, <3>1 DEF RotationChain
    <2>2. ASSUME NEW x \in {c, d}, NEW y \in {c, d}, ~Exists(x) PROVE x = y
        <3>1. PICK old \in CredIds : Succeeds(x, old)
            BY <1>3, <1>5, <2>2
        <3>2. SUFFICES ASSUME x # y PROVE FALSE
            OBVIOUS
        <3>3. Exists(y) /\ credentials'[x].replaces = old
            BY <1>5, <3>1, <3>2 DEF Succeeds
        <3>4. credentials[y].replaces = old /\ Linked(y)
            BY <1>1, <1>2, <1>5, <3>3
        <3> QED
            BY <3>1, <3>4 DEF Succeeds, IsActive
    <2> QED
        BY <2>1, <2>2
<1> QED
    BY <1>4, <1>5 DEF RotationChain

----------------------------------------------------------------------------
(* The hashes of passwords. *)

\* A password credential has its hash until it is revoked: a suspended one can
\* be reinstated, and must be able to sign in then.
HashKept == \A c \in CredIds :
    Exists(c) /\ credentials[c].type = "password" /\ credentials[c].status # "revoked"
        => passwordHash[c] # None

LEMMA HashSame ==
    ASSUME HashKept, NEW C \in SUBSET CredIds,
           \A c \in CredIds \ C : /\ credentials'[c] = credentials[c]
                                  /\ passwordHash'[c] = passwordHash[c],
           \A c \in C : \/ credentials'[c].type # "password"
                       \/ credentials'[c].status = "revoked"
                       \/ passwordHash'[c] # None
    PROVE  HashKept'
BY DEF HashKept, Exists

LEMMA HashStatus ==
    ASSUME HashKept, NEW C \in SUBSET CredIds,
           \A c \in C : /\ Exists(c) /\ credentials[c].status # "revoked"
                       /\ credentials'[c].type = credentials[c].type,
           \A c \in CredIds \ C : credentials'[c] = credentials[c],
           UNCHANGED passwordHash
    PROVE  HashKept'
<1>1. \A c \in C : credentials'[c].type # "password" \/ passwordHash'[c] # None
    BY DEF HashKept
<1> QED
    BY <1>1, HashSame

LEMMA HashStep ==
    ASSUME TypeOK, HashKept, [Next]_vars
    PROVE  HashKept'
<1>1. ASSUME UNCHANGED <<credentials, passwordHash>> PROVE HashKept'
    BY <1>1 DEF HashKept, Exists
<1>2. CASE UserNext
    <2>1. ASSUME NEW u \in UserIds, RevokeUser(u) PROVE HashKept'
        <3>1. /\ CredentialsToRevoke(u) \in SUBSET CredIds
              /\ \A c \in CredentialsToRevoke(u) : Exists(c) /\ credentials[c].status # "revoked"
            BY DEF CredentialsToRevoke, IsActive
        <3>2. /\ \A c \in CredentialsToRevoke(u) :
                    credentials'[c] = [credentials[c] EXCEPT !.status = "revoked"]
              /\ \A c \in CredIds \ CredentialsToRevoke(u) : credentials'[c] = credentials[c]
              /\ passwordHash' = passwordHash
            BY <2>1, <3>1 DEF RevokeUser
        <3>3. ASSUME NEW c \in CredentialsToRevoke(u)
              PROVE  credentials'[c].type = credentials[c].type
            <4>1. credentials[c] \in Credential
                BY <3>1 DEF TypeOK, Exists
            <4>2. credentials'[c] = [credentials[c] EXCEPT !.status = "revoked"]
                BY <3>2
            <4> QED
                BY <4>1, <4>2 DEF Credential
        <3> QED
            BY <3>1, <3>2, <3>3, HashStatus
    <2>2. ASSUME NEW u \in UserIds,
                 \/ \E name \in DisplayNames \cup {None} :
                       CreateUser(u, name) \/ UpdateUser(u, name)
                 \/ SuspendUser(u) \/ ReinstateUser(u)
          PROVE  HashKept'
        <3>1. UNCHANGED <<credentials, passwordHash>>
            BY <2>2 DEF CreateUser, UpdateUser, SuspendUser, ReinstateUser, credVars
        <3> QED
            BY <1>1, <3>1
    <2> QED
        BY <1>2, <2>1, <2>2 DEF UserNext
<1>3. CASE CredentialNext
    <2>1. ASSUME NEW c \in CredIds, NEW u \in UserIds, NEW id \in Identifiers, NEW type,
                 InsertCredential(c, u, type, id),
                 \/ type = "password" /\ \E pw \in Passwords :
                       passwordHash' = [passwordHash EXCEPT ![c] = pw]
                 \/ type # "password" /\ UNCHANGED passwordHash
          PROVE  HashKept'
        <3>1. /\ credentials'[c].type = type
              /\ \A d \in CredIds \ {c} : /\ credentials'[d] = credentials[d]
                                          /\ passwordHash'[d] = passwordHash[d]
            BY <2>1 DEF InsertCredential, TypeOK
        <3>2. type = "password" => passwordHash'[c] # None
            BY <2>1, NoneAssumption DEF TypeOK
        <3> DEFINE C == {c}
        <3>3. /\ C \in SUBSET CredIds
              /\ \A d \in CredIds \ C : /\ credentials'[d] = credentials[d]
                                        /\ passwordHash'[d] = passwordHash[d]
              /\ \A d \in C : credentials'[d].type # "password" \/ passwordHash'[d] # None
            BY <3>1, <3>2
        <3> HIDE DEF C
        <3> QED
            BY <3>3, HashSame
    <2>2. ASSUME NEW old \in CredIds, NEW new \in CredIds, NEW type, Rotate(old, new, type),
                 \/ type = "password" /\ \E pw \in Passwords :
                       passwordHash' = [passwordHash EXCEPT ![old] = None, ![new] = pw]
                 \/ type # "password" /\ UNCHANGED passwordHash
          PROVE  HashKept'
        <3>1. /\ credentials[old] \in Credential /\ old # new /\ credentials[old].type = type
              /\ credentials'[new] = [credentials[old] EXCEPT !.status = "active", !.replaces = old]
              /\ credentials'[old] = [credentials[old] EXCEPT !.status = "revoked"]
              /\ \A d \in CredIds \ {old, new} : credentials'[d] = credentials[d]
            BY <2>2 DEF Rotate, IsActive, Exists, TypeOK, WithCredentialStatus
        <3>2. credentials'[old].status = "revoked" /\ credentials'[new].type = type
            BY <3>1 DEF Credential
        <3>3. /\ \A d \in CredIds \ {old, new} : passwordHash'[d] = passwordHash[d]
              /\ type = "password" => passwordHash'[new] # None
            BY <2>2, <3>1, NoneAssumption DEF TypeOK
        <3> DEFINE C == {old, new}
        <3>4. /\ C \in SUBSET CredIds
              /\ \A d \in CredIds \ C : /\ credentials'[d] = credentials[d]
                                        /\ passwordHash'[d] = passwordHash[d]
              /\ \A c \in C : \/ credentials'[c].type # "password"
                            \/ credentials'[c].status = "revoked"
                            \/ passwordHash'[c] # None
            BY <3>1, <3>2, <3>3
        <3> HIDE DEF C
        <3> QED
            BY <3>4, HashSame
    <2>3. ASSUME NEW c \in CredIds, Exists(c), credentials[c].status # "revoked",
                 NEW status \in CredStatus, credentials' = WithCredentialStatus(c, status),
                 \A d \in CredIds \ {c} : passwordHash'[d] = passwordHash[d],
                 status = "revoked" \/ UNCHANGED passwordHash
          PROVE  HashKept'
        <3>1. /\ credentials[c] \in Credential
              /\ credentials'[c] = [credentials[c] EXCEPT !.status = status]
              /\ \A d \in CredIds \ {c} : credentials'[d] = credentials[d]
            BY <2>3 DEF WithCredentialStatus, TypeOK, Exists
        <3>2. credentials'[c].status = status /\ credentials'[c].type = credentials[c].type
            BY <3>1 DEF Credential
        <3>3. \/ credentials'[c].type # "password" \/ credentials'[c].status = "revoked"
              \/ passwordHash'[c] # None
            BY <2>3, <3>2 DEF HashKept
        <3> DEFINE C == {c}
        <3>4. /\ C \in SUBSET CredIds
              /\ \A d \in CredIds \ C : /\ credentials'[d] = credentials[d]
                                        /\ passwordHash'[d] = passwordHash[d]
              /\ \A d \in C : \/ credentials'[d].type # "password"
                            \/ credentials'[d].status = "revoked"
                            \/ passwordHash'[d] # None
            BY <2>3, <3>1, <3>3
        <3> HIDE DEF C
        <3> QED
            BY <3>4, HashSame
    <2>4. ASSUME NEW c \in CredIds,
                 SuspendCredential(c) \/ RevokeCredential(c) \/ ReinstateCredential(c)
          PROVE  HashKept'
        BY <2>3, <2>4 DEF SuspendCredential, RevokeCredential, ReinstateCredential, IsActive,
              CredStatus
    <2>5. ASSUME NEW c \in CredIds, RotatePasswordOverlong(c) PROVE HashKept'
        BY <2>3, <2>5 DEF RotatePasswordOverlong, IsActive, CredStatus, TypeOK
    <2>6. ASSUME NEW c \in CredIds, NEW u \in UserIds, NEW id \in Identifiers,
                 \/ \E pw \in Passwords : CreatePasswordCredential(c, u, id, pw)
                 \/ CreatePasskeyCredential(c, u, id)
                 \/ CreateOidcCredential(c, u, id)
          PROVE  HashKept'
        BY <2>1, <2>6 DEF CreatePasswordCredential, CreatePasskeyCredential, CreateOidcCredential
    <2>7. ASSUME NEW c \in CredIds, NEW new \in CredIds,
                 \/ \E pw \in Passwords : RotatePassword(c, new, pw)
                 \/ RotatePasskey(c, new)
                 \/ RotateOidc(c, new)
          PROVE  HashKept'
        BY <2>2, <2>7 DEF RotatePassword, RotatePasskey, RotateOidc
    <2> QED
        BY <1>3, <2>4, <2>5, <2>6, <2>7 DEF CredentialNext
<1>4. CASE SessionNext \/ Tick \/ UNCHANGED vars
    BY <1>4, <1>1 DEF SessionNext, CreateSession, RefreshSession, RevokeSession, Tick, vars,
          credVars
<1> QED
    BY <1>2, <1>3, <1>4 DEF Next

----------------------------------------------------------------------------
(* The theorems. *)

RotationInv == Inv /\ RotationChain /\ HashKept

LEMMA InitRotation == Init => RotationInv
<1> SUFFICES ASSUME Init PROVE RotationInv
    OBVIOUS
<1>1. \A c \in CredIds : ~Exists(c)
    BY DEF Init, Exists
<1>2. RotationChain /\ HashKept
    BY <1>1 DEF RotationChain, HashKept
<1> QED
    BY <1>2, InitInv DEF RotationInv

LEMMA NextRotation == RotationInv /\ [Next]_vars => RotationInv'
<1> SUFFICES ASSUME RotationInv, [Next]_vars PROVE RotationInv'
    OBVIOUS
<1>1. TypeOK
    BY DEF RotationInv, Inv, SessionInv
<1>2. CredentialHistory
    BY <1>1, HistoryStep
<1> QED
    BY <1>1, <1>2, NextInv, ChainStep, HashStep DEF RotationInv

LEMMA RotationInvariance == Spec => []RotationInv
BY InitRotation, NextRotation, PTL DEF Spec

\* Rotations (rotate_password, rotate_passkey, rotate_oidc) never fork a chain
\* and never move a credential to another user, type or identifier.
THEOREM ChainCorrect == Spec => []RotationChain
<1>1. RotationInv => RotationChain
    BY DEF RotationInv
<1> QED
    BY <1>1, RotationInvariance, PTL

\* verify_password, which reads no status, only ever names an active credential
\* that nothing has replaced; and an active password credential has its hash.
THEOREM SignInCorrect == Spec => []SignInSound
<1>1. ASSUME RotationInv PROVE SignInSound
    <2>1. ASSUME NEW id \in Identifiers, NEW pw \in Passwords, NEW c \in CredIds,
                 PasswordAccepted(id, pw, c)
          PROVE  IsActive(c) /\ \A d \in CredIds : Exists(d) => credentials[d].replaces # c
        <3>1. <<"password", id>> \in Keys /\ activeCred[<<"password", id>>] = c /\ c # None
            BY <2>1, NoneAssumption DEF PasswordAccepted, Keys
        <3>2. IsActive(c)
            BY <1>1, <3>1 DEF RotationInv, Inv, IndexSound
        <3>3. ASSUME NEW d \in CredIds, Exists(d), credentials[d].replaces = c PROVE FALSE
            BY <1>1, <3>1, <3>2, <3>3 DEF RotationInv, RotationChain, IsActive
        <3> QED
            BY <3>2, <3>3
    <2>2. \A c \in CredIds : IsActive(c) /\ credentials[c].type = "password"
              => passwordHash[c] # None
        BY <1>1 DEF RotationInv, HashKept, IsActive
    <2> QED
        BY <2>1, <2>2 DEF SignInSound
<1> QED
    BY <1>1, RotationInvariance, PTL

----------------------------------------------------------------------------
(* Revocation is terminal. *)

\* What RevokedIsTerminal says of one step.
RevokedKept ==
    /\ \A u \in UserIds : users[u] = "revoked" =>
          users'[u] = "revoked" /\ displayName'[u] = displayName[u]
    /\ \A c \in CredIds : Exists(c) /\ credentials[c].status = "revoked" =>
          credentials'[c] = credentials[c] /\ passwordHash'[c] = passwordHash[c]
    /\ \A s \in SessionIds : sessions[s] # None /\ ~Live(s) => sessions'[s] = sessions[s]

LEMMA RevokedUsersKept ==
    ASSUME TypeOK, [Next]_vars, NEW u \in UserIds, users[u] = "revoked"
    PROVE  users'[u] = "revoked" /\ displayName'[u] = displayName[u]
<1>1. CASE UserNext
    <2>1. None # "revoked"
        BY AbsentAssumption DEF CredStatus
    <2>2. ASSUME NEW v \in UserIds,
                 \/ \E name \in DisplayNames \cup {None} :
                       CreateUser(v, name) \/ UpdateUser(v, name)
                 \/ SuspendUser(v) \/ ReinstateUser(v) \/ RevokeUser(v)
          PROVE  /\ u # v
                 /\ \A x \in UserIds \ {v} : users'[x] = users[x] /\ displayName'[x] = displayName[x]
        BY <2>1, <2>2 DEF TypeOK, CreateUser, UpdateUser, SuspendUser, ReinstateUser, RevokeUser
    <2> QED
        BY <1>1, <2>2 DEF UserNext
<1>2. CASE CredentialNext \/ SessionNext \/ Tick \/ UNCHANGED vars
    <2>1. UNCHANGED userVars
        BY <1>2, UsersFrame
    <2> QED
        BY <2>1 DEF userVars
<1> QED
    BY <1>1, <1>2 DEF Next

LEMMA RevokedSessionsKept ==
    ASSUME TypeOK, [Next]_vars, NEW s \in SessionIds, sessions[s] # None, ~Live(s)
    PROVE  sessions'[s] = sessions[s]
<1>1. ASSUME NEW S \in SUBSET SessionIds, Cascades(S) PROVE sessions'[s] = sessions[s]
    BY <1>1, CascadeEffect DEF Cascades
<1>2. CASE Opens
    <2>1. ASSUME NEW r \in SessionIds, NEW t \in Tokens, NEW u \in UserIds, NEW c \in CredIds,
                 NEW ttl \in TtlInputs, CreateSession(r, u, c, ttl, t)
          PROVE  sessions'[s] = sessions[s]
        BY <2>1 DEF CreateSession, Fresh, TypeOK
    <2>2. ASSUME NEW r \in SessionIds, NEW t \in Tokens, NEW old \in SessionIds,
                 RefreshSession(old, r, t)
          PROVE  sessions'[s] = sessions[s]
        BY <2>2 DEF RefreshSession, Revoked, Fresh
    <2> QED
        BY <1>2, <2>1, <2>2 DEF Opens
<1> QED
    BY <1>1, <1>2, StepKinds

\* A user, a credential or a session that is revoked stays revoked, and nothing
\* its record says changes any more.
THEOREM RevocationIsTerminal == Spec => RevokedIsTerminal
<1>1. ASSUME RotationInv, [Next]_vars PROVE RevokedKept
    <2>1. TypeOK /\ CredentialHistory
        BY <1>1, HistoryStep DEF RotationInv, Inv, SessionInv
    <2>2. \A c \in CredIds : Exists(c) /\ credentials[c].status = "revoked" =>
              credentials'[c] = credentials[c] /\ passwordHash'[c] = passwordHash[c]
        BY <2>1 DEF CredentialHistory, Kept
    <2> QED
        BY <1>1, <2>1, <2>2, RevokedUsersKept, RevokedSessionsKept DEF RevokedKept
<1>2. RotationInv /\ [Next]_vars => [RevokedKept]_vars
    BY <1>1
<1>3. Spec => [][RevokedKept]_vars
    BY <1>2, RotationInvariance, PTL DEF Spec
<1> QED
    BY <1>3 DEF RevokedIsTerminal, RevokedKept
=============================================================================
