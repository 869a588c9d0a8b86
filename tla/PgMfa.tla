------------------------------- MODULE PgMfa -------------------------------
(***************************************************************************)
(* MFA factors in PostgresIdentityStore (postgres.py, "MFA"), with several *)
(* clients at once under READ COMMITTED, and with connection.transaction() *)
(* as psycopg has it: BEGIN and COMMIT on an idle connection, SAVEPOINT    *)
(* and RELEASE inside a transaction, which an adopter opens (ADR 0013) or  *)
(* which, with autocommit off, any plain read opens.                       *)
(*                                                                         *)
(* An action is one SQL statement that can wait or that reads what others  *)
(* write.  External: FOR UPDATE row locks with a second look at a row that *)
(* was waited for, partial unique indexes that wait for uncommitted rows,  *)
(* the deadlock detector.  Whether a user is active when it is read, and   *)
(* whether a pending factor has expired when it is confirmed, is a choice: *)
(* a call may always find that and raise.  Of a proof there is what        *)
(* MfaStore keeps: a slot or a counter; counters start at 0.               *)
(***************************************************************************)
EXTENDS Integers, FiniteSets

CONSTANTS
    Clients,      \* connections, one store object each
    Autocommit,   \* the connections that have autocommit on
    UserIds, FactorIds, WebAuthnIds, Slots,
    MaxCount,     \* bound: the highest signature counter presented
    None

ASSUME PgMfaAssumption ==
    /\ Autocommit \subseteq Clients
    /\ MaxCount \in Nat
    /\ None \notin UserIds \cup FactorIds \cup WebAuthnIds \cup Slots

VARIABLES
    mfa,    \* the committed rows of table mfa
    open,   \* per client, the transaction that outlives a call: "no", "implicit" or "outer"
    tx,     \* per client, what its transaction wrote, locked and accepted
    job,    \* per client, the call in progress
    spent   \* the proofs that committed calls have accepted

vars == <<mfa, open, tx, job, spent>>

----------------------------------------------------------------------------
(* Rows, index keys, transactions and calls. *)

Row == [usr: UserIds, type: {"totp", "webauthn", "recovery"},
        identifier: WebAuthnIds \cup {None}, status: {"pending", "active", "revoked"},
        signCount: 0..MaxCount, consumed: SUBSET Slots]
NewRow(u, type, w, status) ==
    [usr |-> u, type |-> type, identifier |-> w, status |-> status, signCount |-> 0,
     consumed |-> {}]

\* What mfa_unique_active_singleton and mfa_webauthn_credential_id_idx hold of
\* an active row.
Key(row) == IF row.type = "webauthn" THEN <<"webauthn", row.identifier>>
                                     ELSE <<row.type, row.usr>>
Keys == ({"webauthn"} \X WebAuthnIds) \cup ({"totp", "recovery"} \X UserIds)

\* A proof that can be spent: the code of a slot, an assertion with a counter.
Proofs == FactorIds \X (Slots \cup 1..MaxCount)
NoTx == [writes |-> <<>>, locks |-> {}, accepted |-> {}]
Idle == None
Ops == {"enroll", "confirm", "revoke", "verify", "any"}
\* arg is the slot or the counter of the proof; saved is what ROLLBACK goes back to.
Job(c, op, at, m, arg, row) ==
    [op |-> op, at |-> at, factor |-> m, arg |-> arg, row |-> row, saved |-> tx[c]]

Transaction == [writes: UNION {[S -> Row] : S \in SUBSET FactorIds},
                locks: SUBSET (FactorIds \cup Keys), accepted: SUBSET Proofs]
JobType == [op: Ops, at: {"check_singleton", "lock", "write", "return"},
            factor: FactorIds \cup {None}, arg: Slots \cup 0..MaxCount \cup {None},
            row: Row \cup {None}, saved: Transaction]

\* A row lock is not the lock of an index entry, a slot is not a counter.
ASSUME PgMfaApart == FactorIds \cap Keys = {} /\ Slots \cap 0..MaxCount = {}
ASSUME NoRowAssumption == None \notin Row \cup JobType

\* A client writes only rows it has locked or has inserted itself, no two clients
\* lock the same thing, and a client that is done and has no transaction open
\* holds nothing back.
TypeOK ==
    /\ mfa \in [FactorIds -> Row \cup {None}]
    /\ open \in [Clients -> {"no", "implicit", "outer"}]
    /\ tx \in [Clients -> Transaction]
    /\ job \in [Clients -> JobType \cup {Idle}]
    /\ spent \subseteq Proofs
    /\ \A c \in Clients :
          /\ job[c] = Idle /\ open[c] = "no" => tx[c] = NoTx
          /\ \A m \in DOMAIN tx[c].writes : mfa[m] # None => m \in tx[c].locks
          /\ \A d \in Clients \ {c} : tx[c].locks \cap tx[d].locks = {}

Init ==
    /\ mfa = [m \in FactorIds |-> None]
    /\ open = [c \in Clients |-> "no"]
    /\ tx = [c \in Clients |-> NoTx]
    /\ job = [c \in Clients |-> Idle]
    /\ spent = {}

\* What a statement of client c reads: its own writes, else the committed row.
View(c, m) == IF m \in DOMAIN tx[c].writes THEN tx[c].writes[m] ELSE mfa[m]
Is(row, type, status) == row # None /\ row.type = type /\ row.status = status

\* Nobody else holds the row lock, or has touched the index key.
Free(c, x) == \A d \in Clients \ {c} : x \notin tx[d].locks
KeyTaken(c, m, key) == \E n \in FactorIds \ {m} :
    LET row == View(c, n) IN row # None /\ row.status = "active" /\ Key(row) = key

At(c, op, point) == job[c] # Idle /\ job[c].op \in op /\ job[c].at = point

----------------------------------------------------------------------------
(* Transactions. *)

\* A plain read, outside connection.transaction().
PlainRead(c) ==
    open' = [open EXCEPT ![c] = IF @ = "no" /\ c \notin Autocommit THEN "implicit" ELSE @]

Committed(w) == [m \in FactorIds |-> IF m \in DOMAIN w THEN w[m] ELSE mfa[m]]

CommitAll(c) ==
    /\ mfa' = Committed(tx[c].writes)
    /\ spent' = spent \cup tx[c].accepted
    /\ tx' = [tx EXCEPT ![c] = NoTx]

\* Fault: nothing ends the transaction that the call has begun.
ReturnWithoutCommit(c) ==
    /\ At(c, {"any"}, "return")
    /\ job' = [job EXCEPT ![c] = Idle]
    /\ UNCHANGED <<mfa, spent, tx, open>>

\* The with-block ends well: COMMIT, or RELEASE, which keeps the locks.
Return(c) ==
    /\ At(c, {"any"}, "return")
    /\ job' = [job EXCEPT ![c] = Idle]
    /\ IF open[c] = "no" THEN CommitAll(c) ELSE UNCHANGED <<mfa, spent, tx>>
    /\ UNCHANGED open

\* Fault: what the call has locked stays locked.
RaiseKeepingLocks(c) ==
    /\ job' = [job EXCEPT ![c] = Idle]
    /\ tx' = [tx EXCEPT ![c] = [job[c].saved EXCEPT !.locks = tx[c].locks]]
    /\ UNCHANGED <<mfa, open, spent>>

\* The with-block raises: ROLLBACK, or ROLLBACK TO SAVEPOINT.
Raise(c) ==
    /\ job' = [job EXCEPT ![c] = Idle]
    /\ tx' = [tx EXCEPT ![c] = job[c].saved]
    /\ UNCHANGED <<mfa, open, spent>>

\* The adopter's own "with conn.transaction()" around several calls.
BeginOuter(c) ==
    /\ job[c] = Idle /\ open[c] = "no"
    /\ open' = [open EXCEPT ![c] = "outer"]
    /\ UNCHANGED <<mfa, tx, job, spent>>

\* The adopter's with-block ends, or it calls conn.commit().
AdopterCommits(c) ==
    /\ job[c] = Idle /\ open[c] # "no"
    /\ open' = [open EXCEPT ![c] = "no"]
    /\ CommitAll(c)
    /\ UNCHANGED job

\* conn.rollback(), an exception in the adopter's block, a crash, a lost connection.
Disconnect(c) ==
    /\ job[c] # Idle \/ open[c] # "no"
    /\ open' = [open EXCEPT ![c] = "no"]
    /\ tx' = [tx EXCEPT ![c] = NoTx]
    /\ job' = [job EXCEPT ![c] = Idle]
    /\ UNCHANGED <<mfa, spent>>

\* get_mfa_factor, list_mfa_factors, a TOTP proof: reads that change nothing else.
Read(c) ==
    /\ job[c] = Idle
    /\ PlainRead(c)
    /\ UNCHANGED <<mfa, tx, job, spent>>

----------------------------------------------------------------------------
(* Statements. *)

\* All that is left of the call is the end of its with-block.
Through(c) == job' = [job EXCEPT ![c] = [Job(c, "any", "return", None, None, None)
                                         EXCEPT !.saved = job[c].saved]]

\* A statement of c writes row to factor m, which c has locked or inserts here.
\* It touches the index entry of the old version and of the new one.
Write(c, m, row, accepted) ==
    LET indexed == {r \in {View(c, m), row} : r # None /\ r.status = "active"} IN
    /\ tx' = [tx EXCEPT ![c] =
           [writes |-> [n \in {m} \cup DOMAIN @.writes |-> IF n = m THEN row ELSE @.writes[n]],
            locks |-> @.locks \cup {m} \cup {Key(r) : r \in indexed},
            accepted |-> @.accepted \cup accepted]]
    /\ Through(c)
    /\ UNCHANGED <<mfa, open, spent>>

\* Fault: a look at the committed rows in place of a unique index.
KeyWaitsForNobody(c, key) == FALSE

\* A unique index makes c wait for whoever has touched the key.
KeyWaits(c, key) == ~Free(c, key)

\* The UPDATE or INSERT of a row that the index takes: of an active one.
IndexAllows(c, m, row) ==
    row.status = "active" => ~KeyWaits(c, Key(row)) /\ ~KeyTaken(c, m, Key(row))

\* webauthn_verify_assertion: the counter advances, or the authenticator has none.
CounterAdvances(stored, got) == got > stored \/ (got = 0 /\ stored = 0)

\* What counts as spent: a code of a recovery set, an assertion with a counter.
Spends(m, arg) == IF arg \in Slots \cup 1..MaxCount THEN {<<m, arg>>} ELSE {}

----------------------------------------------------------------------------
(* Enrollment. The user is read in front of the transaction of the INSERT. *)

Begin(c, j) == job[c] = Idle /\ job' = [job EXCEPT ![c] = j] /\ UNCHANGED <<mfa, tx, spent>>

\* A UUID is never drawn twice. Bound: a call begins only while there is an id left.
Fresh(m) == mfa[m] = None /\ \A d \in Clients :
    m \notin DOMAIN tx[d].writes /\ (job[d] # Idle => job[d].factor # m)

EnrollTotpFactor(c, m, u) ==
    /\ Fresh(m)
    /\ Begin(c, Job(c, "enroll", "check_singleton", m, None, NewRow(u, "totp", None, "pending")))
    /\ PlainRead(c)

\* A second read, also in front of the transaction.
CheckNoActiveTotp(c) ==
    /\ At(c, {"enroll"}, "check_singleton")
    /\ IF KeyTaken(c, job[c].factor, <<"totp", job[c].row.usr>>)
         THEN Raise(c)
         ELSE job' = [job EXCEPT ![c].at = "write"] /\ UNCHANGED <<mfa, open, tx, spent>>

EnrollWebAuthnFactor(c, m, u, w) ==
    /\ Fresh(m)
    /\ Begin(c, Job(c, "enroll", "write", m, None, NewRow(u, "webauthn", w, "pending")))
    /\ PlainRead(c)

EnrollRecoveryFactor(c, m, u) ==
    /\ Fresh(m)
    /\ Begin(c, Job(c, "enroll", "write", m, None, NewRow(u, "recovery", None, "active")))
    /\ PlainRead(c)

InsertFactor(c) ==
    /\ At(c, {"enroll"}, "write")
    /\ IndexAllows(c, job[c].factor, job[c].row)
    /\ Write(c, job[c].factor, job[c].row, {})

----------------------------------------------------------------------------
(* Confirmation, revocation and verification lock one row first. A call that *)
(* finds no row when it begins raises at once.                               *)

BeginConfirm(c, m, count) ==
    /\ View(c, m) # None
    /\ View(c, m).type = "webauthn" \/ (View(c, m).type = "totp" /\ count = 0)
    /\ Begin(c, Job(c, "confirm", "lock", m, count, None))
    /\ UNCHANGED open

BeginRevoke(c, m) ==
    /\ View(c, m) # None
    /\ Begin(c, Job(c, "revoke", "lock", m, None, None))
    /\ UNCHANGED open

\* The snapshot of SELECT ... WHERE status = 'active' FOR UPDATE has row m.
BeginVerify(c, m, arg) ==
    /\ \/ Is(View(c, m), "webauthn", "active") /\ arg \in 0..MaxCount
       \/ Is(View(c, m), "recovery", "active") /\ arg \in Slots
    /\ Begin(c, Job(c, "verify", "lock", m, arg, None))
    /\ UNCHANGED open

LockRow(c) ==
    /\ tx' = [tx EXCEPT ![c].locks = @ \cup {job[c].factor}]
    /\ UNCHANGED <<mfa, open, spent>>

Advances(row, arg) == row.type = "webauthn" => CounterAdvances(row.signCount, arg)

\* Fault: the status was checked before the row was locked.
LockToConfirmUnchecked(c) ==
    /\ At(c, {"confirm"}, "lock")
    /\ Free(c, job[c].factor)
    /\ LET row == View(c, job[c].factor) IN
       /\ LockRow(c)
       /\ job' = [job EXCEPT ![c].at = "write",
                             ![c].row = [row EXCEPT !.status = "active", !.signCount = job[c].arg]]

LockToConfirm(c) ==
    /\ At(c, {"confirm"}, "lock")
    /\ Free(c, job[c].factor)
    /\ LET row == View(c, job[c].factor) IN
       IF row.status = "pending" /\ Advances(row, job[c].arg)
         THEN /\ LockRow(c)
              /\ job' = [job EXCEPT ![c].at = "write",
                     ![c].row = [row EXCEPT !.status = "active", !.signCount = job[c].arg]]
         ELSE Raise(c)

ActivateFactor(c) ==
    /\ At(c, {"confirm"}, "write")
    /\ IndexAllows(c, job[c].factor, job[c].row)
    /\ Write(c, job[c].factor, job[c].row, Spends(job[c].factor, job[c].arg))

\* The clock is past pending_expires_at.
PendingExpired(c) ==
    /\ At(c, {"confirm"}, "lock")
    /\ Free(c, job[c].factor)
    /\ View(c, job[c].factor).status = "pending"
    /\ Raise(c)

\* The index refuses the row. enroll_recovery_factor raises PreconditionError,
\* the confirmations let the database error through.
UniqueViolation(c) ==
    /\ At(c, {"enroll", "confirm"}, "write")
    /\ job[c].row.status = "active"
    /\ ~KeyWaits(c, Key(job[c].row))
    /\ KeyTaken(c, job[c].factor, Key(job[c].row))
    /\ Raise(c)

\* A factor that is revoked already is returned as it is, under its lock.
RevokeMfaFactor(c) ==
    /\ At(c, {"revoke"}, "lock")
    /\ Free(c, job[c].factor)
    /\ LET row == View(c, job[c].factor) IN
       IF row.status = "revoked"
         THEN LockRow(c) /\ Through(c)
         ELSE Write(c, job[c].factor, [row EXCEPT !.status = "revoked"], {})

Spent(row, arg) == IF row.type = "webauthn" THEN [row EXCEPT !.signCount = arg]
                                            ELSE [row EXCEPT !.consumed = @ \cup {arg}]
Unspent(row, arg) == Advances(row, arg) /\ (row.type = "recovery" => arg \notin row.consumed)

\* Faults: a SELECT without FOR UPDATE; no second look at the row waited for.
VerifyWithoutLock(c) ==
    /\ At(c, {"verify"}, "lock")
    /\ LET row == View(c, job[c].factor) IN
       IF row.status = "active" /\ Unspent(row, job[c].arg)
         THEN Write(c, job[c].factor, Spent(row, job[c].arg), Spends(job[c].factor, job[c].arg))
         ELSE Raise(c)
VerifyWithoutSecondLook(c) ==
    /\ At(c, {"verify"}, "lock")
    /\ Free(c, job[c].factor)
    /\ LET row == View(c, job[c].factor) IN
       IF Unspent(row, job[c].arg)
         THEN Write(c, job[c].factor, Spent(row, job[c].arg), Spends(job[c].factor, job[c].arg))
         ELSE Raise(c)

\* The row is had and is active still, the proof is good, and the UPDATE of the
\* counter or of the consumed slots follows under the lock.
VerifyMfa(c) ==
    /\ At(c, {"verify"}, "lock")
    /\ Free(c, job[c].factor)
    /\ LET row == View(c, job[c].factor) IN
       IF row.status = "active" /\ Unspent(row, job[c].arg)
         THEN Write(c, job[c].factor, Spent(row, job[c].arg), Spends(job[c].factor, job[c].arg))
         ELSE Raise(c)

----------------------------------------------------------------------------

WaitsFor(c, d) ==
    /\ c # d /\ job[c] # Idle
    /\ \/ job[c].at = "lock" /\ job[c].factor \in tx[d].locks
       \/ job[c].at = "write" /\ job[c].row.status = "active" /\ Key(job[c].row) \in tx[d].locks

\* Postgres breaks a deadlock: one of the calls raises.
DeadlockVictim(c) ==
    /\ \E S \in SUBSET Clients : c \in S /\ \A a \in S : \E b \in S : WaitsFor(a, b)
    /\ Raise(c)

Start(c) == \E m \in FactorIds :
    \/ \E u \in UserIds :
          \/ EnrollTotpFactor(c, m, u)
          \/ \E w \in WebAuthnIds : EnrollWebAuthnFactor(c, m, u, w)
          \/ EnrollRecoveryFactor(c, m, u)
    \/ \E count \in 0..MaxCount : BeginConfirm(c, m, count)
    \/ BeginRevoke(c, m)
    \/ \E arg \in Slots \cup 0..MaxCount : BeginVerify(c, m, arg)

Continue(c) ==
    \/ CheckNoActiveTotp(c)
    \/ InsertFactor(c)
    \/ LockToConfirm(c)
    \/ PendingExpired(c)
    \/ ActivateFactor(c)
    \/ UniqueViolation(c)
    \/ RevokeMfaFactor(c)
    \/ VerifyMfa(c)
    \/ Return(c)

Adopter(c) == Read(c) \/ BeginOuter(c) \/ AdopterCommits(c) \/ Disconnect(c)

Next ==
    \E c \in Clients : Start(c) \/ Continue(c) \/ DeadlockVictim(c) \/ Adopter(c)

Spec == Init /\ [][Next]_vars

----------------------------------------------------------------------------
(* Properties. *)

\* The schema's two partial unique indexes: a user has at most one active TOTP and
\* one active recovery factor, and a WebAuthn credential id one active factor,
\* although enrollment checks this outside the transaction or not at all.
UniqueActiveFactor == \A m, n \in FactorIds :
    mfa[m] # None /\ mfa[n] # None /\ mfa[m].status = "active" /\ mfa[n].status = "active"
        /\ Key(mfa[m]) = Key(mfa[n]) => m = n

\* A recovery code or a counted assertion is accepted by one call at most: no
\* transaction accepts what a committed one has spent or another is spending.
SpentOnce == \A c \in Clients :
    /\ tx[c].accepted \cap spent = {}
    /\ \A d \in Clients \ {c} : tx[c].accepted \cap tx[d].accepted = {}

\* No commit undoes another: used slots stay used, counters do not go back, a revoked
\* factor keeps its record for good.
NoLostUpdate == [][\A m \in FactorIds : mfa[m] # None =>
    /\ mfa'[m] # None
    /\ mfa[m].consumed \subseteq mfa'[m].consumed
    /\ mfa[m].signCount <= mfa'[m].signCount
    /\ mfa[m].status = "revoked" => mfa'[m] = mfa[m]]_vars

\* Once the revocation of a factor is committed, no commit accepts a proof of it, not
\* one that was under way either.
RevokedNotAccepted == [][\A p \in spent' \ spent :
    mfa[p[1]] # None => mfa[p[1]].status # "revoked"]_vars

\* Calls on their own never deadlock, whatever their order: of clients that wait for
\* each other, one is in a transaction that its adopter, or a plain read, has opened.
NoDeadlockAlone == \A S \in (SUBSET Clients) \ {{}} :
    (\A a \in S : \E b \in S : WaitsFor(a, b)) => \E c \in S : open[c] # "no"

\* What the docstring of _tx says (postgres.py:288-298): its transaction is begun and
\* committed whatever the autocommit setting, so outside an adopter's own transaction
\* a call that has returned is committed.
Durable == \A c \in Clients : job[c] = Idle /\ open[c] # "outer" => tx[c].writes = <<>>
=============================================================================
