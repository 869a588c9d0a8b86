------------------------------- MODULE PgStore -------------------------------
(***************************************************************************)
(* Users, credentials and sessions of PostgresIdentityStore (postgres.py)  *)
(* with several clients at once, each on a connection of its own, under    *)
(* READ COMMITTED, Postgres' default, with every call committed when it    *)
(* returns.  An action is one SQL statement that can wait or that reads    *)
(* what others write.  The first UPDATE of a call, to a row the call has   *)
(* just locked, is part of the locking step: nobody can see it in between. *)
(*                                                                         *)
(* Of Postgres the module has row locks (external: FOR UPDATE; NO KEY      *)
(* UPDATE, which an UPDATE of a status takes; KEY SHARE, which the         *)
(* foreign-key check of an INSERT takes), a snapshot per statement with a  *)
(* second look at each row that is updated, unique-index checks that wait  *)
(* for uncommitted rows, and the deadlock detector.  A call that raises    *)
(* before it holds a lock is a stutter.  Time is left out.                 *)
(***************************************************************************)
EXTENDS FiniteSets

CONSTANTS
    Clients,                       \* connections, one store object each
    UserIds, CredIds, SessionIds,  \* primary keys
    Keys,                          \* natural keys: type and identifier
    None                           \* no row, SQL NULL

ASSUME RowsAssumption ==
    /\ UserIds \cap CredIds = {} /\ UserIds \cap SessionIds = {} /\ CredIds \cap SessionIds = {}
    /\ None \notin UserIds \cup CredIds \cup SessionIds \cup Keys

VARIABLES
    usr, cred, ses,  \* the committed rows
    job,             \* per client, the call in progress
    writes,          \* per client, its uncommitted rows
    locks            \* the row locks held: <<client, row, mode>>

db == <<usr, cred, ses>>
vars == <<db, job, writes, locks>>

----------------------------------------------------------------------------
(* Rows, calls and locks. *)

Rows == UserIds \cup CredIds \cup SessionIds
Status == {"active", "suspended", "revoked"}
CredRow == [usr: UserIds, key: Keys, status: Status, replaces: CredIds \cup {None}]
\* "refreshed" is history: the session that refresh_session revoked for this one.
SesRow == [usr: UserIds, cred: CredIds, live: BOOLEAN, refreshed: SessionIds \cup {None}]

UserOps == {"suspend_user", "reinstate_user", "revoke_user"}
CredOps == {"suspend_credential", "reinstate_credential", "revoke_credential", "rotate"}
Ops == UserOps \cup CredOps \cup {"create_credential", "create_session", "refresh_session"}
\* What the call does next.
Points == {"scan_creds", "creds", "scan_sessions", "sessions", "read_cred",
           "insert_cred", "insert_session", "activate", "commit"}
Modes == {"update", "no_key_update", "key_share"}

Idle == None
\* "new" is the id of the row that the call will insert.
Job(op, at, u, c, key, s, new) ==
    [op |-> op, at |-> at, usr |-> u, cred |-> c, key |-> key, ses |-> s, new |-> new,
     todo |-> {}]
JobType == [op: Ops, at: Points, usr: UserIds \cup {None}, cred: CredIds \cup {None},
            key: Keys \cup {None}, ses: SessionIds \cup {None},
            new: CredIds \cup SessionIds \cup {None}, todo: SUBSET Rows]

ASSUME NoRowAssumption == None \notin Status \cup CredRow \cup SesRow \cup JobType

\* An idle client holds no lock and has written nothing; a busy one has written
\* existing rows only under a lock that keeps other writers out.
TypeOK ==
    /\ usr \in [UserIds -> Status \cup {None}]
    /\ cred \in [CredIds -> CredRow \cup {None}]
    /\ ses \in [SessionIds -> SesRow \cup {None}]
    /\ job \in [Clients -> JobType \cup {Idle}]
    /\ locks \subseteq Clients \X Rows \X Modes
    /\ \A c \in Clients :
          /\ DOMAIN writes[c] \subseteq Rows
          /\ job[c] = Idle => writes[c] = <<>> /\ \A l \in locks : l[1] # c
          /\ \A r \in DOMAIN writes[c] :
                \/ r \in CredIds /\ cred[r] = None
                \/ r \in SessionIds /\ ses[r] = None
                \/ \E m \in {"update", "no_key_update"} : <<c, r, m>> \in locks

Init ==
    /\ usr = [u \in UserIds |-> None]
    /\ cred = [x \in CredIds |-> None]
    /\ ses = [s \in SessionIds |-> None]
    /\ job = [c \in Clients |-> Idle]
    /\ writes = [c \in Clients |-> <<>>]
    /\ locks = {}

Active(x) == cred[x] # None /\ cred[x].status = "active"
Live(s) == ses[s] # None /\ ses[s].live

Compatible(m, n) == "key_share" \in {m, n} /\ "update" \notin {m, n}
Blocks(d, row, mode) == \E l \in locks : l[1] = d /\ l[2] = row /\ ~Compatible(l[3], mode)
Free(c, row, mode) == \A d \in Clients \ {c} : ~Blocks(d, row, mode)

\* A UUID is never drawn twice. Bound: a call begins only while there is an id left.
Fresh(new) == /\ new \in CredIds => cred[new] = None
              /\ new \in SessionIds => ses[new] = None
              /\ \A d \in Clients : job[d] # Idle => job[d].new # new

At(c, op, point) == job[c] # Idle /\ job[c].op \in op /\ job[c].at = point
Goto(c, point) == job' = [job EXCEPT ![c].at = point]
Lock(c, rows, mode) == locks' = locks \cup ({c} \X rows \X {mode})
Write(c, row, value) ==
    writes' = [writes EXCEPT ![c] = [r \in {row} \cup DOMAIN @ |-> IF r = row THEN value ELSE @[r]]]

\* SELECT ... FOR UPDATE of the row that the call is about.
StartLocked(c, j, row) ==
    /\ job[c] = Idle
    /\ Free(c, row, "update")
    /\ job' = [job EXCEPT ![c] = j]
    /\ Lock(c, {row}, "update")
    /\ UNCHANGED db

\* Fault: the error path leaves the transaction open.
EndKeepingLocks(c) ==
    /\ job' = [job EXCEPT ![c] = Idle]
    /\ writes' = [writes EXCEPT ![c] = <<>>]
    /\ UNCHANGED locks

\* The end of the with-block of _tx: the locks go, and what is not committed.
End(c) ==
    /\ job' = [job EXCEPT ![c] = Idle]
    /\ writes' = [writes EXCEPT ![c] = <<>>]
    /\ locks' = {l \in locks : l[1] # c}

----------------------------------------------------------------------------
(* Users. *)

\* One INSERT, which waits for nobody.
CreateUser(u) ==
    /\ usr[u] = None
    /\ usr' = [usr EXCEPT ![u] = "active"]
    /\ UNCHANGED <<cred, ses, job, writes, locks>>

SuspendUser(c, u) ==
    /\ usr[u] = "active"
    /\ StartLocked(c, Job("suspend_user", "scan_sessions", u, None, None, None, None), u)
    /\ Write(c, u, "suspended")

ReinstateUser(c, u) ==
    /\ usr[u] = "suspended"
    /\ StartLocked(c, Job("reinstate_user", "commit", u, None, None, None, None), u)
    /\ Write(c, u, "active")

RevokeUser(c, u) ==
    /\ usr[u] \in {"active", "suspended"}
    /\ StartLocked(c, Job("revoke_user", "scan_creds", u, None, None, None, None), u)
    /\ Write(c, u, "revoked")

\* UPDATE cred ... WHERE usr_id = u AND status = 'active': the statement's snapshot.
ScanCreds(c) ==
    /\ At(c, {"revoke_user"}, "scan_creds")
    /\ job' = [job EXCEPT ![c].at = "creds",
                          ![c].todo = {x \in CredIds : Active(x) /\ cred[x].usr = job[c].usr}]
    /\ UNCHANGED <<db, writes, locks>>

\* A row of it, looked at again once its lock is had.
UpdateCred(c, x) ==
    /\ At(c, {"revoke_user"}, "creds")
    /\ x \in job[c].todo
    /\ Free(c, x, "no_key_update")
    /\ job' = [job EXCEPT ![c].todo = @ \ {x}]
    /\ IF Active(x)
         THEN /\ Write(c, x, [cred[x] EXCEPT !.status = "revoked"])
              /\ Lock(c, {x}, "no_key_update")
         ELSE UNCHANGED <<writes, locks>>
    /\ UNCHANGED db

CredsDone(c) ==
    /\ At(c, {"revoke_user"}, "creds")
    /\ job[c].todo = {}
    /\ Goto(c, "scan_sessions")
    /\ UNCHANGED <<db, writes, locks>>

----------------------------------------------------------------------------
(* The cascade: UPDATE ses SET revoked_at ... WHERE ... AND revoked_at IS NULL. *)

InScope(j, s) == Live(s) /\ IF j.op \in UserOps THEN ses[s].usr = j.usr ELSE ses[s].cred = j.cred

ScanSessions(c) ==
    /\ At(c, UserOps \cup CredOps, "scan_sessions")
    /\ job' = [job EXCEPT ![c].at = "sessions", ![c].todo = {s \in SessionIds : InScope(job[c], s)}]
    /\ UNCHANGED <<db, writes, locks>>

UpdateSession(c, s) ==
    /\ At(c, UserOps \cup CredOps, "sessions")
    /\ s \in job[c].todo
    /\ Free(c, s, "no_key_update")
    /\ job' = [job EXCEPT ![c].todo = @ \ {s}]
    /\ IF Live(s)
         THEN /\ Write(c, s, [ses[s] EXCEPT !.live = FALSE])
              /\ Lock(c, {s}, "no_key_update")
         ELSE UNCHANGED <<writes, locks>>
    /\ UNCHANGED db

\* A rotation inserts the new credential last; the other calls are through.
SessionsDone(c) ==
    /\ At(c, UserOps \cup CredOps, "sessions")
    /\ job[c].todo = {}
    /\ Goto(c, IF job[c].op = "rotate" THEN "insert_cred" ELSE "commit")
    /\ UNCHANGED <<db, writes, locks>>

----------------------------------------------------------------------------
(* Credentials. The three types are alike, apart from the columns they fill. *)

\* Fault: a look at the committed rows in place of a unique index.
KeyWaitsForNobody(c, d, k) == FALSE

\* The unique index cred_unique_active_identifier makes client c wait for d,
\* which has an uncommitted row that is, or was, active on key k.
KeyWaits(c, d, k) == \E x \in DOMAIN writes[d] \cap CredIds :
    writes[d][x].key = k /\ (writes[d][x].status = "active" \/ Active(x))

KeyTaken(c, k) == \E x \in CredIds \ DOMAIN writes[c] : Active(x) /\ cred[x].key = k

\* _ensure_user_active: a read of its own, in front of the transaction.
CreateCredential(c, u, k, new) ==
    /\ job[c] = Idle
    /\ Fresh(new)
    /\ usr[u] = "active"
    /\ job' = [job EXCEPT ![c] = Job("create_credential", "insert_cred", u, None, k, None, new)]
    /\ UNCHANGED <<db, writes, locks>>

Rotate(c, x, new) ==
    /\ Active(x)
    /\ Fresh(new)
    /\ StartLocked(c, Job("rotate", "scan_sessions", cred[x].usr, x, cred[x].key, None, new), x)
    /\ Write(c, x, [cred[x] EXCEPT !.status = "revoked"])

\* The INSERT of a create (replaces is NULL then) or of a rotation.
InsertCredential(c) ==
    /\ At(c, {"create_credential", "rotate"}, "insert_cred")
    /\ \A d \in Clients \ {c} : ~KeyWaits(c, d, job[c].key)
    /\ ~KeyTaken(c, job[c].key)
    /\ Free(c, job[c].usr, "key_share")
    /\ Lock(c, {job[c].usr}, "key_share")
    /\ Write(c, job[c].new, [usr |-> job[c].usr, key |-> job[c].key, status |-> "active",
                             replaces |-> job[c].cred])
    /\ Goto(c, "commit")
    /\ UNCHANGED db

SuspendCredential(c, x) ==
    /\ Active(x)
    /\ StartLocked(c, Job("suspend_credential", "scan_sessions", None, x, None, None, None), x)
    /\ Write(c, x, [cred[x] EXCEPT !.status = "suspended"])

RevokeCredential(c, x) ==
    /\ cred[x] # None /\ cred[x].status # "revoked"
    /\ StartLocked(c, Job("revoke_credential", "scan_sessions", None, x, None, None, None), x)
    /\ Write(c, x, [cred[x] EXCEPT !.status = "revoked"])

ReinstateCredential(c, x) ==
    /\ cred[x] # None /\ cred[x].status = "suspended"
    /\ StartLocked(c, Job("reinstate_credential", "activate", None, x, cred[x].key, None, None), x)
    /\ UNCHANGED writes

\* UPDATE cred SET status = 'active'.
Activate(c) ==
    /\ At(c, {"reinstate_credential"}, "activate")
    /\ \A d \in Clients \ {c} : ~KeyWaits(c, d, job[c].key)
    /\ ~KeyTaken(c, job[c].key)
    /\ Write(c, job[c].cred, [cred[job[c].cred] EXCEPT !.status = "active"])
    /\ Goto(c, "commit")
    /\ UNCHANGED <<db, locks>>

\* The unique index refuses the row: DuplicateCredentialError, rolled back.
UniqueViolation(c) ==
    /\ \/ At(c, {"create_credential", "rotate"}, "insert_cred")
       \/ At(c, {"reinstate_credential"}, "activate")
    /\ \A d \in Clients \ {c} : ~KeyWaits(c, d, job[c].key)
    /\ KeyTaken(c, job[c].key)
    /\ End(c)
    /\ UNCHANGED db

----------------------------------------------------------------------------
(* Sessions. *)

\* create_session reads the user, then the credential, and locks neither.
CreateSession(c, u, x, new) ==
    /\ job[c] = Idle
    /\ Fresh(new)
    /\ usr[u] = "active"
    /\ cred[x] # None  \* an unknown id raises, here or below
    /\ job' = [job EXCEPT ![c] = Job("create_session", "read_cred", u, x, None, None, new)]
    /\ UNCHANGED <<db, writes, locks>>

ReadCredential(c) ==
    /\ At(c, {"create_session"}, "read_cred")
    /\ IF Active(job[c].cred) /\ cred[job[c].cred].usr = job[c].usr
         THEN Goto(c, "insert_session") /\ UNCHANGED <<writes, locks>>
         ELSE End(c)
    /\ UNCHANGED db

\* Fault: the session is read without FOR UPDATE.
RefreshSessionUnlocked(c, s, new) ==
    /\ job[c] = Idle
    /\ Live(s)
    /\ Fresh(new)
    /\ job' = [job EXCEPT ![c] =
           Job("refresh_session", "insert_session", ses[s].usr, ses[s].cred, None, s, new)]
    /\ Write(c, s, [ses[s] EXCEPT !.live = FALSE])
    /\ UNCHANGED <<db, locks>>

RefreshSession(c, s, new) ==
    /\ Live(s)
    /\ Fresh(new)
    /\ StartLocked(c, Job("refresh_session", "insert_session", ses[s].usr, ses[s].cred, None, s,
                           new), s)
    /\ Write(c, s, [ses[s] EXCEPT !.live = FALSE])

\* Fault: a table without foreign keys.
InsertSessionNoForeignKey(c) ==
    /\ At(c, {"create_session", "refresh_session"}, "insert_session")
    /\ Write(c, job[c].new, [usr |-> job[c].usr, cred |-> job[c].cred, live |-> TRUE,
                             refreshed |-> job[c].ses])
    /\ Goto(c, "commit")
    /\ UNCHANGED <<db, locks>>

InsertSession(c) ==
    /\ At(c, {"create_session", "refresh_session"}, "insert_session")
    /\ Free(c, job[c].usr, "key_share") /\ Free(c, job[c].cred, "key_share")
    /\ Lock(c, {job[c].usr, job[c].cred}, "key_share")
    /\ Write(c, job[c].new, [usr |-> job[c].usr, cred |-> job[c].cred, live |-> TRUE,
                             refreshed |-> job[c].ses])
    /\ Goto(c, "commit")
    /\ UNCHANGED db

\* One UPDATE, which keeps the time of an earlier revocation.
RevokeSession(c, s) ==
    /\ job[c] = Idle
    /\ Live(s)
    /\ Free(c, s, "no_key_update")
    /\ ses' = [ses EXCEPT ![s].live = FALSE]
    /\ UNCHANGED <<usr, cred, job, writes, locks>>

----------------------------------------------------------------------------
(* The ends of a transaction. *)

Committed(table, w) == [r \in DOMAIN table |-> IF r \in DOMAIN w THEN w[r] ELSE table[r]]

Commit(c) ==
    /\ At(c, Ops, "commit")
    /\ usr' = Committed(usr, writes[c])
    /\ cred' = Committed(cred, writes[c])
    /\ ses' = Committed(ses, writes[c])
    /\ End(c)

\* The row locks that the next statement of client c asks for.
Wanted(c) ==
    LET j == job[c] IN
    CASE j.at \in {"creds", "sessions"} -> j.todo \X {"no_key_update"}
      [] j.at = "insert_cred" -> {<<j.usr, "key_share">>}
      [] j.at = "insert_session" -> {j.usr, j.cred} \X {"key_share"}
      [] OTHER -> {}

WaitsFor(c, d) ==
    /\ c # d /\ job[c] # Idle /\ job[d] # Idle
    /\ \/ \E w \in Wanted(c) : Blocks(d, w[1], w[2])
       \/ job[c].at \in {"insert_cred", "activate"} /\ KeyWaits(c, d, job[c].key)

\* Postgres breaks a deadlock: one of the calls raises and is rolled back.
DeadlockVictim(c) ==
    /\ \E S \in SUBSET Clients : c \in S /\ \A a \in S : \E b \in S : WaitsFor(a, b)
    /\ End(c)
    /\ UNCHANGED db

\* The client dies, loses its connection or raises between two statements (a
\* new password that is too long, in rotate_password): the call is rolled back.
Disconnect(c) ==
    /\ job[c] # Idle
    /\ End(c)
    /\ UNCHANGED db

----------------------------------------------------------------------------

Start(c) ==
    \/ \E u \in UserIds :
          \/ SuspendUser(c, u)
          \/ ReinstateUser(c, u)
          \/ RevokeUser(c, u)
          \/ \E k \in Keys, new \in CredIds : CreateCredential(c, u, k, new)
          \/ \E x \in CredIds, new \in SessionIds : CreateSession(c, u, x, new)
    \/ \E x \in CredIds :
          \/ \E new \in CredIds : Rotate(c, x, new)
          \/ SuspendCredential(c, x)
          \/ ReinstateCredential(c, x)
          \/ RevokeCredential(c, x)
    \/ \E s \in SessionIds :
          \/ \E new \in SessionIds : RefreshSession(c, s, new)
          \/ RevokeSession(c, s)

Continue(c) ==
    \/ ScanCreds(c)
    \/ \E x \in CredIds : UpdateCred(c, x)
    \/ CredsDone(c)
    \/ ScanSessions(c)
    \/ \E s \in SessionIds : UpdateSession(c, s)
    \/ SessionsDone(c)
    \/ InsertCredential(c)
    \/ Activate(c)
    \/ UniqueViolation(c)
    \/ ReadCredential(c)
    \/ InsertSession(c)
    \/ Commit(c)

Next ==
    \/ \E u \in UserIds : CreateUser(u)
    \/ \E c \in Clients : Start(c) \/ Continue(c) \/ DeadlockVictim(c) \/ Disconnect(c)

Spec == Init /\ [][Next]_vars

\* A call that has begun goes on, a lock that keeps becoming free is had in the end
\* (Postgres queues those who wait), and deadlocks are found. Nobody must begin a
\* call or disconnect.
FairSpec == Spec /\ \A c \in Clients : SF_vars(Continue(c)) /\ WF_vars(DeadlockVictim(c))

----------------------------------------------------------------------------
(* Properties. *)

\* "At most one active credential per (type, identifier)", whatever creations,
\* rotations and reinstatements are under way.
UniqueActiveKey == \A x, y \in CredIds :
    Active(x) /\ Active(y) /\ cred[x].key = cred[y].key => x = y

\* Two clients never both replace one credential or one session: neither a
\* rotation nor a refresh is lost or done twice.
ReplacedOnce ==
    /\ \A x, y \in CredIds : cred[x] # None /\ cred[y] # None /\ cred[x].replaces # None =>
          (cred[x].replaces = cred[y].replaces => x = y)
    /\ \A s, r \in SessionIds : ses[s] # None /\ ses[r] # None /\ ses[s].refreshed # None =>
          (ses[s].refreshed = ses[r].refreshed => s = r)

\* When a user or a credential stops being active, no session of it is left at
\* that commit, not one that a refresh was moving meanwhile either.
CascadeComplete == [][\A s \in SessionIds : Live(s)' =>
    /\ \A u \in UserIds : u = ses'[s].usr /\ usr[u] = "active" => usr'[u] = "active"
    /\ \A x \in CredIds : x = ses'[s].cred /\ Active(x) => Active(x)']_vars

Bearer == INSTANCE BearerTokens WITH
    Tokens <- SessionIds, Users <- UserIds, Guarded <- FALSE,
    issued <- {s \in SessionIds : ses[s] # None},
    holder <- [s \in SessionIds |-> IF Live(s) THEN ses[s].usr ELSE None],
    open <- {u \in UserIds : usr[u] = "active"}

\* Every commit is one step of the bearer tokens, whatever runs beside it: a refresh
\* that others interleave with still replaces one token by one, and a suspension or
\* revocation leaves no session of its user. (A session may still be issued to a user
\* who is shut out: LiveSessionBacked.)
ImplementsBearerTokens == Bearer!BearerSpec

\* No call hangs: every one that has begun commits, raises or is rolled back.
CallsEnd == \A c \in Clients : job[c] # Idle ~> job[c] = Idle

\* The cascade guarantees of store.py, as IdentityStore has them: a session that
\* is not revoked has an active user and an active credential.
LiveSessionBacked == \A s \in SessionIds : Live(s) =>
    usr[ses[s].usr] = "active" /\ Active(ses[s].cred)

\* Only create_session breaks that guarantee, at its commit: no cascade, refresh or
\* rotation does, whatever calls it runs beside.
OnlyCreateUnbacks == [][LiveSessionBacked =>
    \/ LiveSessionBacked'
    \/ \E c \in Clients : job[c] # job'[c] /\ At(c, {"create_session"}, "commit")]_vars
=============================================================================
