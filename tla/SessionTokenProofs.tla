------------------------- MODULE SessionTokenProofs -------------------------
(***************************************************************************)
(* Session tokens: a token that is dead stays dead, and the sessions of    *)
(* IdentityStore implement the promise of BearerTokens, for every value of *)
(* the constants.                                                          *)
(***************************************************************************)
EXTENDS IdentityStoreProofs

----------------------------------------------------------------------------
(* Which tokens are accepted, and for whom. *)

\* The checks of verify_session_token come down to two: the token names the
\* session, and the session has not expired.
LEMMA AcceptedIs ==
    ASSUME SessionInv, NEW t \in Tokens, NEW s \in SessionIds
    PROVE  TokenAccepted(t, s) <=> sessionTokenHash[s] = t /\ ~Expired(s)
BY NoneAssumption DEF TokenAccepted, SessionInv, TokenMapsExact, Live

LEMMA HolderOfAccepted ==
    ASSUME SessionInv, NEW t \in Tokens, NEW s \in SessionIds, TokenAccepted(t, s)
    PROVE  HolderOf(t) = sessions[s].usr /\ HolderOf(t) \in UserIds /\ HolderOf(t) # None
<1>1. sessionByTokenHash[t] = s /\ sessions[s] \in Session
    BY DEF TokenAccepted, SessionInv, TypeOK
<1> QED
    BY <1>1, NoneAssumption DEF HolderOf, Session

LEMMA HolderOfDead ==
    ASSUME NEW t \in Tokens, \A s \in SessionIds : ~TokenAccepted(t, s)
    PROVE  HolderOf(t) = None
BY DEF HolderOf

LEMMA HolderType ==
    ASSUME SessionInv, NEW t \in Tokens
    PROVE  HolderOf(t) \in UserIds \cup {None}
BY HolderOfAccepted, HolderOfDead

\* A cascade takes the holders of the tokens whose sessions it revokes; time may
\* take others; it gives none.
LEMMA CascadeAccepted ==
    ASSUME SessionInv, SessionInv', NEW S \in SUBSET SessionIds, Cascades(S),
           NEW t \in Tokens, NEW s \in SessionIds
    PROVE  /\ TokenAccepted(t, s)' => TokenAccepted(t, s) /\ s \notin S
           /\ TokenAccepted(t, s)' => sessions'[s] = sessions[s]
           /\ TokenAccepted(t, s) /\ s \notin S /\ now' = now => TokenAccepted(t, s)'
<1>1. TokenAccepted(t, s)' <=> sessionTokenHash'[s] = t /\ ~Expired(s)'
    <2>1. (TokenAccepted(t, s) <=> sessionTokenHash[s] = t /\ ~Expired(s))'
        BY NoneAssumption DEF TokenAccepted, SessionInv, TokenMapsExact, Live
    <2> QED
        BY <2>1
<1>2. sessionTokenHash'[s] = IF s \in S THEN None ELSE sessionTokenHash[s]
    BY DEF Cascades, CascadeRevokeSessions, TokenHashWithout
<1>3. TokenAccepted(t, s) <=> sessionTokenHash[s] = t /\ ~Expired(s)
    BY AcceptedIs
<1>4. CASE s \in S
    BY <1>1, <1>2, <1>4, NoneAssumption
<1>5. CASE s \notin S /\ sessionTokenHash[s] = t
    <2>1. Live(s) /\ sessions[s] \in Session
        BY <1>5, NoneAssumption DEF SessionInv, TokenMapsExact, TypeOK, Live
    <2>2. sessions'[s] = sessions[s]
        BY <1>5, CascadeEffect DEF SessionInv
    <2>3. sessions[s].expiresAt \in Nat /\ now \in Nat /\ now' \in Nat /\ now <= now'
        BY <2>1 DEF Cascades, Session
    <2>4. (~Expired(s)' => ~Expired(s)) /\ (now' = now => (Expired(s)' <=> Expired(s)))
        BY <2>2, <2>3 DEF Expired
    <2> QED
        BY <1>1, <1>2, <1>3, <1>5, <2>2, <2>4
<1>6. CASE s \notin S /\ sessionTokenHash[s] # t
    BY <1>1, <1>2, <1>3, <1>6
<1> QED
    BY <1>4, <1>5, <1>6

LEMMA CascadeHolder ==
    ASSUME SessionInv, SessionInv', NEW S \in SUBSET SessionIds, Cascades(S), NEW t \in Tokens
    PROVE  /\ HolderOf(t)' \in {HolderOf(t), None}
           /\ \A s \in S : TokenAccepted(t, s) => HolderOf(t)' = None
           /\ now' = now /\ (\A s \in S : ~TokenAccepted(t, s)) => HolderOf(t)' = HolderOf(t)
<1>1. ASSUME NEW s \in SessionIds, TokenAccepted(t, s)'
      PROVE  /\ HolderOf(t)' = HolderOf(t) /\ TokenAccepted(t, s) /\ s \notin S
             /\ \A r \in SessionIds : TokenAccepted(t, r) => r = s
    <2>1. TokenAccepted(t, s) /\ s \notin S /\ sessions'[s] = sessions[s]
        BY <1>1, CascadeAccepted
    <2>2. (HolderOf(t) = sessions[s].usr)'
        BY <1>1 DEF HolderOf, TokenAccepted
    <2> QED
        BY <2>1, <2>2, HolderOfAccepted DEF TokenAccepted
<1>2. ASSUME \A s \in SessionIds : ~TokenAccepted(t, s)' PROVE HolderOf(t)' = None
    BY <1>2 DEF HolderOf
<1>3. ASSUME now' = now, \A s \in S : ~TokenAccepted(t, s) PROVE HolderOf(t)' = HolderOf(t)
    <2>1. CASE \E s \in SessionIds : TokenAccepted(t, s)
        BY <1>1, <1>3, <2>1, CascadeAccepted
    <2>2. CASE \A s \in SessionIds : ~TokenAccepted(t, s)
        BY <1>2, <2>2, CascadeAccepted, HolderOfDead
    <2> QED
        BY <2>1, <2>2
<1>4. HolderOf(t)' \in {HolderOf(t), None}
    BY <1>1, <1>2
<1>5. \A s \in S : TokenAccepted(t, s) => HolderOf(t)' = None
    BY <1>1, <1>2
<1> QED
    BY <1>3, <1>4, <1>5

----------------------------------------------------------------------------
(* The two methods that issue a token. *)

LEMMA SameHolder ==
    ASSUME SessionInv, SessionInv', NEW t \in Tokens,
           \A s \in SessionIds : /\ TokenAccepted(t, s)' <=> TokenAccepted(t, s)
                                 /\ TokenAccepted(t, s) => sessions'[s] = sessions[s]
    PROVE  HolderOf(t)' = HolderOf(t)
<1>1. ASSUME NEW s \in SessionIds, TokenAccepted(t, s) PROVE HolderOf(t)' = HolderOf(t)
    <2>1. TokenAccepted(t, s)' /\ sessions'[s] = sessions[s]
        BY <1>1
    <2>2. (HolderOf(t) = sessions[s].usr)'
        BY <2>1 DEF HolderOf, TokenAccepted
    <2> QED
        BY <1>1, <2>1, <2>2, HolderOfAccepted
<1>2. ASSUME \A s \in SessionIds : ~TokenAccepted(t, s) PROVE HolderOf(t)' = HolderOf(t)
    BY <1>2 DEF HolderOf
<1> QED
    BY <1>1, <1>2

LEMMA AcceptedNext ==
    ASSUME SessionInv', NEW t \in Tokens, NEW s \in SessionIds
    PROVE  TokenAccepted(t, s)' <=> sessionTokenHash'[s] = t /\ ~(now' > sessions'[s].expiresAt)
<1>1. (TokenAccepted(t, s) <=> sessionTokenHash[s] = t /\ ~Expired(s))'
    BY NoneAssumption DEF TokenAccepted, SessionInv, TokenMapsExact, Live
<1> QED
    BY <1>1 DEF Expired

LEMMA CreateHolder ==
    ASSUME SessionInv, SessionInv', NEW s \in SessionIds, NEW u \in UserIds, NEW c \in CredIds,
           NEW ttl \in TtlInputs, NEW t \in Tokens, CreateSession(s, u, c, ttl, t)
    PROVE  /\ t \notin issued /\ issued' = issued \cup {t}
           /\ HolderOf(t)' = u
           /\ \A x \in Tokens \ {t} : HolderOf(x)' = HolderOf(x)
<1>1. /\ ~Live(s) /\ t \notin issued /\ issued' = issued \cup {t} /\ now' = now
      /\ now \in Nat /\ ttl \in Nat
    BY TtlAssumption DEF CreateSession, Fresh, Live, SessionInv, TypeOK
<1>2. /\ sessions'[s].usr = u /\ sessions'[s].expiresAt = now + ttl
      /\ sessionTokenHash'[s] = t
      /\ \A r \in SessionIds \ {s} : /\ sessions'[r] = sessions[r]
                                     /\ sessionTokenHash'[r] = sessionTokenHash[r]
    BY DEF CreateSession, SessionInv, TypeOK
<1>3. sessionTokenHash[s] = None
    BY <1>1 DEF SessionInv, TokenMapsExact
<1>4. HolderOf(t)' = u
    <2>1. ~(now' > sessions'[s].expiresAt)
        BY <1>1, <1>2
    <2>2. TokenAccepted(t, s)'
        BY <1>2, <2>1, AcceptedNext
    <2>3. (HolderOf(t) = sessions[s].usr)'
        BY <2>2 DEF HolderOf, TokenAccepted
    <2> QED
        BY <1>2, <2>3
<1>5. ASSUME NEW x \in Tokens \ {t} PROVE HolderOf(x)' = HolderOf(x)
    <2>1. ASSUME NEW r \in SessionIds
          PROVE  /\ TokenAccepted(x, r)' <=> TokenAccepted(x, r)
                 /\ TokenAccepted(x, r) => sessions'[r] = sessions[r]
        <3>1. TokenAccepted(x, r)' <=>
                  sessionTokenHash'[r] = x /\ ~(now' > sessions'[r].expiresAt)
            BY AcceptedNext
        <3>2. TokenAccepted(x, r) <=> sessionTokenHash[r] = x /\ ~(now > sessions[r].expiresAt)
            BY AcceptedIs DEF Expired
        <3> QED
            BY <1>1, <1>2, <1>3, <3>1, <3>2, NoneAssumption
    <2> QED
        BY <2>1, SameHolder
<1> QED
    BY <1>1, <1>4, <1>5

LEMMA RefreshHolder ==
    ASSUME SessionInv, SessionInv', NEW old \in SessionIds, NEW s \in SessionIds, NEW t \in Tokens,
           RefreshSession(old, s, t)
    PROVE  \E x \in Tokens :
              /\ x # t /\ HolderOf(x) \in UserIds
              /\ t \notin issued /\ issued' = issued \cup {t}
              /\ HolderOf(x)' = None /\ HolderOf(t)' = HolderOf(x)
              /\ \A y \in Tokens \ {x, t} : HolderOf(y)' = HolderOf(y)
<1>1. /\ ~Live(s) /\ Live(old) /\ ~Expired(old) /\ s # old
      /\ t \notin issued /\ issued' = issued \cup {t} /\ now' = now /\ now \in Nat
      /\ sessions[old] \in Session
    BY DEF RefreshSession, Fresh, Live, SessionInv, TypeOK
<1>a. sessionTokenHash[old] \in Tokens
    BY <1>1 DEF SessionInv, TokenMapsExact, TypeOK
<1>b. PICK x \in Tokens : x = sessionTokenHash[old]
    BY <1>a
<1>2. /\ sessionTokenHash[s] = None
      /\ x \in Tokens /\ x # None /\ x \in issued /\ x # t
    BY <1>1, <1>b DEF SessionInv, TokenMapsExact, IssuedTokens, TypeOK
<1>3. /\ sessionTokenHash'[s] = t /\ sessionTokenHash'[old] = None
      /\ \A r \in SessionIds \ {s, old} : /\ sessions'[r] = sessions[r]
                                          /\ sessionTokenHash'[r] = sessionTokenHash[r]
    BY <1>1 DEF RefreshSession, Revoked, TokenHashWithout
<1>4. sessions'[s].usr = sessions[old].usr /\ now' <= sessions'[s].expiresAt
    <2>1. sessions'[s] = Refreshed(old)
        BY <1>1 DEF RefreshSession, Revoked
    <2>2. /\ sessions'[s].usr = sessions[old].usr
          /\ sessions'[s].expiresAt = now + (sessions[old].expiresAt - sessions[old].createdAt)
        BY <1>1, <2>1 DEF Refreshed, Session
    <2> DEFINE ttl == sessions[old].expiresAt - sessions[old].createdAt
    <2>3. ttl \in Nat
        BY <1>1, TtlAssumption DEF SessionInv, SessionTimes, Live
    <2> HIDE DEF ttl
    <2>4. now + ttl >= now
        BY <1>1, <2>3
    <2> QED
        BY <1>1, <2>2, <2>4 DEF ttl
<1>5. HolderOf(x) = sessions[old].usr /\ HolderOf(x) \in UserIds
    BY <1>1, <1>2, <1>b, AcceptedIs, HolderOfAccepted
<1>6. \A r \in SessionIds : sessionTokenHash[r] # t
    BY <1>1, NoneAssumption DEF SessionInv, IssuedTokens
<1>7. \A r \in SessionIds : sessionTokenHash[r] = x => r = old
    BY <1>2, <1>b DEF SessionInv, TokenMapsExact
<1>8. HolderOf(t)' = sessions[old].usr
    <2>1. sessions'[s] \in Session
        BY <1>3, <1>1, NoneAssumption DEF SessionInv, TokenMapsExact, TypeOK, Live
    <2>2. ~(now' > sessions'[s].expiresAt)
        <3>1. now' \in Nat /\ sessions'[s].expiresAt \in Nat
            BY <1>1, <2>1 DEF Session
        <3> QED
            BY <1>4, <3>1
    <2>3. TokenAccepted(t, s)'
        BY <1>3, <2>2, AcceptedNext
    <2>4. (HolderOf(t) = sessions[s].usr)'
        BY <2>3 DEF HolderOf, TokenAccepted
    <2> QED
        BY <1>4, <2>4
<1>9. HolderOf(x)' = None
    <2>1. ASSUME NEW r \in SessionIds PROVE ~TokenAccepted(x, r)'
        <3>1. sessionTokenHash'[r] # x
            BY <1>2, <1>3, <1>7
        <3> QED
            BY <3>1, AcceptedNext
    <2> QED
        BY <2>1 DEF HolderOf
<1>10. ASSUME NEW y \in Tokens \ {x, t} PROVE HolderOf(y)' = HolderOf(y)
    <2>1. ASSUME NEW r \in SessionIds
          PROVE  /\ TokenAccepted(y, r)' <=> TokenAccepted(y, r)
                 /\ TokenAccepted(y, r) => sessions'[r] = sessions[r]
        <3>1. TokenAccepted(y, r)' <=>
                  sessionTokenHash'[r] = y /\ ~(now' > sessions'[r].expiresAt)
            BY AcceptedNext
        <3>2. TokenAccepted(y, r) <=> sessionTokenHash[r] = y /\ ~(now > sessions[r].expiresAt)
            BY AcceptedIs DEF Expired
        <3>3. /\ sessionTokenHash[old] # y /\ sessionTokenHash[s] # y
              /\ sessionTokenHash'[old] # y /\ sessionTokenHash'[s] # y
            BY <1>2, <1>3, <1>b, NoneAssumption
        <3> QED
            BY <1>1, <1>3, <3>1, <3>2, <3>3
    <2> QED
        BY <2>1, SameHolder
<1>11. HolderOf(t)' = HolderOf(x)
    BY <1>5, <1>8
<1> QED
    BY <1>1, <1>2, <1>5, <1>9, <1>10, <1>11

----------------------------------------------------------------------------
(* A dead token stays dead. *)

LEMMA DeadStep ==
    ASSUME SessionInv, SessionInv', [Next]_vars, NEW t \in issued, HolderOf(t) = None
    PROVE  HolderOf(t)' = None
<1>1. t \in Tokens
    BY DEF SessionInv, TypeOK
<1>2. ASSUME NEW S \in SUBSET SessionIds, Cascades(S) PROVE HolderOf(t)' = None
    BY <1>1, <1>2, CascadeHolder
<1>3. ASSUME NEW s \in SessionIds, NEW x \in Tokens, NEW u \in UserIds, NEW c \in CredIds,
             NEW ttl \in TtlInputs, CreateSession(s, u, c, ttl, x)
      PROVE  HolderOf(t)' = None
    BY <1>1, <1>3, CreateHolder
<1>4. ASSUME NEW s \in SessionIds, NEW x \in Tokens, NEW old \in SessionIds,
             RefreshSession(old, s, x)
      PROVE  HolderOf(t)' = None
    BY <1>1, <1>4, RefreshHolder, NoneAssumption
<1> QED
    BY <1>2, <1>3, <1>4, StepKinds DEF SessionInv, Opens

\* What DeadTokenStaysDead says of one step.
DeadKept ==
    \A t \in issued : (\A s \in SessionIds : ~TokenAccepted(t, s))
        => (\A s \in SessionIds : ~TokenAccepted(t, s)')

\* A token that was handed out and is refused by verify_session_token is refused
\* from then on, whatever is refreshed, reinstated or opened.
THEOREM DeadTokensStayDead == Spec => DeadTokenStaysDead
<1>1. ASSUME Inv, Inv', [Next]_vars PROVE DeadKept
    <2> SUFFICES ASSUME NEW t \in issued, \A s \in SessionIds : ~TokenAccepted(t, s),
                        NEW s \in SessionIds, TokenAccepted(t, s)'
                 PROVE  FALSE
        BY DEF DeadKept
    <2>1. SessionInv /\ SessionInv' /\ t \in Tokens
        BY <1>1 DEF Inv, SessionInv, TypeOK
    <2>2. HolderOf(t)' = None
        BY <1>1, <2>1, HolderOfDead, DeadStep
    <2>3. (sessionByTokenHash[t] = s /\ sessions[s] \in Session /\ HolderOf(t) = sessions[s].usr)'
        BY <2>1 DEF HolderOf, TokenAccepted, SessionInv, TypeOK
    <2> QED
        BY <2>2, <2>3, NoneAssumption DEF Session
<1>2. Inv /\ Inv' /\ [Next]_vars => [DeadKept]_vars
    BY <1>1
<1>3. Spec => [][DeadKept]_vars
    BY <1>2, Invariance, PTL DEF Spec
<1> QED
    BY <1>3 DEF DeadTokenStaysDead, DeadKept

----------------------------------------------------------------------------
(* The sessions implement BearerTokens. *)

HolderMap == [t \in Tokens |-> HolderOf(t)]
OpenUsers == {u \in UserIds : users[u] = "active"}

\* Without a change of users, a cascade lets some tokens die.
LEMMA CascadeDies ==
    ASSUME SessionInv, SessionInv', NEW S \in SUBSET SessionIds, Cascades(S), UNCHANGED users
    PROVE  Bearer!Die
<1>1. UNCHANGED <<issued, OpenUsers>>
    BY DEF Cascades, CascadeRevokeSessions, OpenUsers
<1>2. \A t \in Tokens : HolderOf(t)' \in {HolderOf(t), None}
    BY CascadeHolder
<1>3. HolderMap' \in [Tokens -> UserIds \cup {None}]
    BY <1>2, HolderType DEF HolderMap
<1>4. \A t \in Tokens : HolderMap'[t] \in {HolderMap[t], None}
    BY <1>2 DEF HolderMap
<1> QED
    BY <1>1, <1>3, <1>4 DEF Bearer!Die, HolderMap, OpenUsers

\* What a user's change of status does to tokens: the cascade over the sessions of
\* that user is exactly the shutting out of that user.
LEMMA ShutOutCascade ==
    ASSUME SessionInv, SessionInv', NEW u \in UserIds, Cascades(SessionsOfUser(u)), now' = now
    PROVE  /\ HolderMap' = [t \in Tokens |-> IF HolderMap[t] = u THEN None ELSE HolderMap[t]]
           /\ UNCHANGED issued
<1> DEFINE S == SessionsOfUser(u)
<1>1. S \in SUBSET SessionIds
    BY DEF SessionsOfUser
<1>2. ASSUME NEW t \in Tokens
      PROVE  HolderOf(t)' = IF HolderOf(t) = u THEN None ELSE HolderOf(t)
    <2>1. ASSUME NEW s \in S, TokenAccepted(t, s) PROVE HolderOf(t) = u
        BY <1>1, <2>1, HolderOfAccepted DEF SessionsOfUser
    <2>2. ASSUME HolderOf(t) = u PROVE \E s \in S : TokenAccepted(t, s)
        <3>1. PICK s \in SessionIds : TokenAccepted(t, s)
            BY <2>2, NoneAssumption DEF HolderOf
        <3>2. Live(s) /\ sessions[s].usr = u
            BY <2>2, <3>1, HolderOfAccepted DEF TokenAccepted
        <3> QED
            BY <3>1, <3>2 DEF SessionsOfUser
    <2> HIDE DEF S
    <2> QED
        BY <1>1, <2>1, <2>2, CascadeHolder DEF S
<1> QED
    BY <1>2 DEF HolderMap, Cascades, CascadeRevokeSessions

LEMMA UserBearer ==
    ASSUME Inv, Inv', UserNext
    PROVE  [Bearer!BearerNext]_Bearer!bearerVars
<1>a. SessionInv /\ SessionInv' /\ TypeOK
    BY DEF Inv, SessionInv
<1>1. ASSUME NEW u \in UserIds, SuspendUser(u) \/ RevokeUser(u)
      PROVE  [Bearer!BearerNext]_Bearer!bearerVars
    <2>1. Cascades(SessionsOfUser(u)) /\ now' = now
        BY <1>1, <1>a, UserCascade DEF SuspendUser, RevokeUser
    <2>2. /\ HolderMap' = [t \in Tokens |-> IF HolderMap[t] = u THEN None ELSE HolderMap[t]]
          /\ UNCHANGED issued
        BY <1>a, <2>1, ShutOutCascade
    <2>3. OpenUsers' = OpenUsers \ {u}
        BY <1>1, <1>a DEF SuspendUser, RevokeUser, OpenUsers, TypeOK
    <2>4. CASE users[u] = "active"
        <3>1. Bearer!ShutOut(u)
            BY <2>2, <2>3, <2>4 DEF Bearer!ShutOut, HolderMap, OpenUsers
        <3> QED
            BY <3>1 DEF Bearer!BearerNext
    <2>5. CASE users[u] # "active"
        <3>1. OpenUsers' = OpenUsers
            BY <2>3, <2>5 DEF OpenUsers
        <3>2. SessionsOfUser(u) = {}
            BY <2>5 DEF SessionsOfUser, Inv, LiveSessionBacked
        <3>3. \A t \in Tokens : HolderOf(t)' = HolderOf(t)
            BY <1>a, <2>1, <3>2, CascadeHolder
        <3> QED
            BY <2>2, <3>1, <3>3 DEF HolderMap, OpenUsers, Bearer!bearerVars
    <2> QED
        BY <2>4, <2>5
<1>2. ASSUME NEW u \in UserIds, NEW name \in DisplayNames \cup {None},
             CreateUser(u, name) \/ ReinstateUser(u) \/ UpdateUser(u, name)
      PROVE  [Bearer!BearerNext]_Bearer!bearerVars
    <2>1. UNCHANGED <<sessionVars, now>>
        BY <1>2 DEF CreateUser, ReinstateUser, UpdateUser
    <2>2. HolderMap' = HolderMap /\ UNCHANGED issued
        BY <2>1 DEF sessionVars, HolderMap, HolderOf, TokenAccepted, Live, Expired
    <2>3. CASE UpdateUser(u, name)
        BY <2>2, <2>3 DEF UpdateUser, HolderMap, Bearer!bearerVars
    <2>4. CASE CreateUser(u, name) \/ ReinstateUser(u)
        <3>1. OpenUsers' = OpenUsers \cup {u} /\ u \notin OpenUsers
            BY <1>a, <2>4, AbsentAssumption DEF CreateUser, ReinstateUser, OpenUsers, TypeOK, CredStatus
        <3>2. Bearer!LetIn(u)
            BY <2>2, <3>1 DEF Bearer!LetIn, HolderMap, OpenUsers
        <3> QED
            BY <3>2 DEF Bearer!BearerNext
    <2> QED
        BY <1>2, <2>3, <2>4
<1> QED
    BY <1>1, <1>2 DEF UserNext

\* A session is only ever opened for a user who is not shut out, and a refresh
\* hands the user over from one token to one new token.
LEMMA OpensBearer ==
    ASSUME Inv, Inv', Opens
    PROVE  Bearer!BearerNext
<1>a. SessionInv /\ SessionInv'
    BY DEF Inv
<1>1. ASSUME NEW s \in SessionIds, NEW t \in Tokens, NEW u \in UserIds, NEW c \in CredIds,
             NEW ttl \in TtlInputs, CreateSession(s, u, c, ttl, t)
      PROVE  Bearer!BearerNext
    <2>1. /\ t \notin issued /\ issued' = issued \cup {t}
          /\ HolderOf(t)' = u
          /\ \A x \in Tokens \ {t} : HolderOf(x)' = HolderOf(x)
        BY <1>a, <1>1, CreateHolder
    <2>2. u \in OpenUsers /\ OpenUsers' = OpenUsers
        BY <1>1 DEF CreateSession, OpenUsers, userVars
    <2>3. HolderMap' = [HolderMap EXCEPT ![t] = u]
        BY <2>1 DEF HolderMap
    <2>4. Bearer!Issue(t, u)
        BY <2>1, <2>2, <2>3 DEF Bearer!Issue, HolderMap, OpenUsers
    <2> QED
        BY <2>4 DEF Bearer!BearerNext
<1>2. ASSUME NEW s \in SessionIds, NEW t \in Tokens, NEW old \in SessionIds,
             RefreshSession(old, s, t)
      PROVE  Bearer!BearerNext
    <2>1. PICK x \in Tokens :
              /\ x # t /\ HolderOf(x) \in UserIds
              /\ t \notin issued /\ issued' = issued \cup {t}
              /\ HolderOf(x)' = None /\ HolderOf(t)' = HolderOf(x)
              /\ \A y \in Tokens \ {x, t} : HolderOf(y)' = HolderOf(y)
        BY <1>a, <1>2, RefreshHolder
    <2>2. HolderMap[x] # None
        BY <2>1, NoneAssumption DEF HolderMap
    <2>3. HolderMap' = [HolderMap EXCEPT ![x] = None, ![t] = HolderMap[x]]
        BY <2>1 DEF HolderMap
    <2>4. OpenUsers' = OpenUsers
        BY <1>2 DEF RefreshSession, OpenUsers, userVars
    <2>5. Bearer!Replace(x, t)
        BY <2>1, <2>2, <2>3, <2>4 DEF Bearer!Replace, HolderMap, OpenUsers
    <2> QED
        BY <2>5 DEF Bearer!BearerNext
<1> QED
    BY <1>1, <1>2 DEF Opens

LEMMA BearerStep ==
    ASSUME Inv, Inv', [Next]_vars
    PROVE  [Bearer!BearerNext]_Bearer!bearerVars
<1>1. CASE UserNext
    BY <1>1, UserBearer
<1>2. CASE CredentialNext \/ SessionNext \/ Tick \/ UNCHANGED vars
    <2>1. UNCHANGED users
        BY <1>2, UsersFrame DEF userVars
    <2>2. ASSUME NEW S \in SUBSET SessionIds, Cascades(S) PROVE Bearer!BearerNext
        BY <2>1, <2>2, CascadeDies DEF Inv, Bearer!BearerNext
    <2> QED
        BY <2>2, StepKinds, OpensBearer DEF Inv, SessionInv
<1> QED
    BY <1>1, <1>2 DEF Next

LEMMA BearerInitially == Init => Bearer!BearerInit
<1> SUFFICES ASSUME Init PROVE Bearer!BearerInit
    OBVIOUS
<1>1. issued = {}
    BY DEF Init
<1>2. HolderMap = [t \in Tokens |-> None]
    BY DEF Init, HolderMap, HolderOf, TokenAccepted
<1>3. OpenUsers = {}
    BY AbsentAssumption DEF Init, OpenUsers, CredStatus
<1> QED
    BY <1>1, <1>2, <1>3 DEF Bearer!BearerInit, HolderMap, OpenUsers

\* Session tokens keep the promise of BearerTokens: whoever is suspended or revoked
\* loses all tokens in that step and nobody else does, a token once dead never
\* lets anybody in again, and a refresh passes the user on to one new token.
THEOREM SessionsAreBearerTokens == Spec => ImplementsBearerTokens
<1>1. Init => Bearer!BearerInit
    BY BearerInitially
<1>2. Inv /\ Inv' /\ [Next]_vars => [Bearer!BearerNext]_Bearer!bearerVars
    BY BearerStep
<1> QED
    BY <1>1, <1>2, Invariance, PTL DEF Spec, ImplementsBearerTokens, Bearer!BearerSpec
=============================================================================
