# Verification of flametrench-identity

TLA+ models, TLC runs and TLAPS proofs for the Python identity SDK in `src/`:
users, credentials, sessions, multi-factor authentication and personal access
tokens, behind two stores, one in memory and one on Postgres.

## The system

| Part | Source | State | Operations |
| --- | --- | --- | --- |
| Users | `in_memory.py:268-400` | status, display name | create, update, suspend, reinstate, revoke |
| Credentials | `in_memory.py:404-689` | records, password hashes, the index (type, identifier) -> active credential | create x3, rotate x3, suspend, reinstate, revoke, verify_password |
| Sessions | `in_memory.py:697-817` | records, two token dicts, one per direction | create, verify, refresh, revoke |
| MFA | `in_memory.py:820-1269` | factors, recovery flags, singleton slots, WebAuthn id index, policies | enroll x3, confirm x2, revoke, verify x3, policy |
| PATs | `in_memory.py:1273-1421` | records, secret hashes, last-used map | create, verify, revoke, cascade |
| Postgres store | `postgres.py` | the tables usr, cred, ses, mfa, usr_mfa_policy | the first four parts again, as transactions; no PATs |
| Verifiers | `mfa.py`, `webauthn.py`, `hashing.py` | none | TOTP window, recovery codes, WebAuthn assertions, Argon2id |
| Lists | `in_memory.py:318,739,1317`, `postgres.py:388,953` | a cursor, kept by the caller | list users, sessions, PATs, page by page |
| Shared | `types.py`, `errors.py`, `store.py`, `__init__.py` | none | records, exceptions, the protocol with its cascade guarantees |

How they interact. There are no threads, messages or callbacks inside the
package: an application calls a store, and a call of the in-memory store is one
step. The parts are tied by cascades and by trust. Suspending or revoking a user
revokes sessions; revoking one also revokes credentials and PATs; rotating,
suspending or revoking a credential revokes its sessions. In return
`refresh_session` does not read the user or the credential again,
`verify_password` reads the index and no status, and `verify_mfa` reads the
singleton slot and no status. Each of those reads is right only if every other
operation did its part. The Postgres store has many clients at once: there a
call is several statements, and other calls fall between them.

What is hard, by part:

* Credentials: the index is a second record of which credential is active. It is
  popped by key, whichever credential it names.
* Sessions: two dicts must stay inverse; a chain of refreshes must neither
  stretch a session nor bring a token back; time alone must kill a token.
* `rotate_password` can raise after it has revoked the old credential, and
  nothing is rolled back in memory.
* MFA: pending enrollments pile up beside the singleton slot; counters and
  recovery slots must make every proof good once only.
* PATs: the last use is written once per window; an expired one is never marked.
* Postgres: reads before locks, locks in two orders, unique indexes that answer
  late, and transactions that are only savepoints because a read or the adopter
  has opened one already.
* Lists: rows come and go between two pages of a walk.

`PROJECT.json` lists every hazard at its line with the properties that cover it.

## Modules

| Module | What it is |
| --- | --- |
| `IdentityStore` | users, credentials and sessions of the in-memory store |
| `MCIdentityStore` | its TLC instances: symmetry; the sizes are in the `.cfg` files |
| `IdentityStoreProofs` | theorems about `IdentityStore`: its types, indexes and cascades |
| `RotationProofs`, `SessionTokenProofs` | theorems about `IdentityStore`: the history of credentials; session tokens and their refinement |
| `MfaStore`, `MCMfaStore` | factors, and their TLC instances |
| `PatStore`, `MCPatStore` | personal access tokens, and their TLC instances |
| `PgStore`, `MCPgStore` | users, credentials and sessions of the Postgres store, statement by statement, with several clients |
| `BearerTokens` | the abstract specification of a token: issued, handed over, dead for good; `IdentityStore`, `PatStore` and `PgStore` implement it |
| `PgMfa`, `MCPgMfa` | factors on Postgres, with the transactions of psycopg: savepoints, implicit ones and the adopter's |
| `Listing`, `MCListing` | a caller that walks one of the five lists, page by page |
| `ListingProofs` | theorems about `Listing` |
| `MfaStoreProofs`, `PatStoreProofs`, `PgStoreProofs`, `PgMfaProofs` | theorems about the module of that name |

Conventions. A dict is a function over all ids of the model, `None` marking an
absent key. An action is one whole method call that changes state, with its
cascades; a call that raises first is a stutter. The clock that the store is given
is the variable `now`, moved by `Tick`, and it never goes back. Fresh ids and
tokens are chosen among those never used, which is what a UUIDv7 and 32 random
bytes promise. A token and its SHA-256 are one value, and so are a password and its
Argon2id hash. Definitions whose comment says "Fault" are not part of the
model: they are deliberately wrong variants of a neighbouring definition, used
to check that the properties can fail.

Correspondence, where it is not one method per action of the same name:

* `_create_*` and `rotate_*` share `InsertCredential` and `Rotate`; the three
  methods of each kind differ in the type and in the password hash.
* `RotatePasswordOverlong` is the call of `rotate_password` whose new password
  is over `MAX_PASSWORD_BYTES`: the old credential is gone, no new one exists.
* `TokenAccepted` and `PasswordAccepted` are the conditions under which
  `verify_session_token` and `verify_password` return; they change nothing.
* `VerifyWebAuthn` and `ConfirmWebAuthn` take the signature counter of an
  assertion that passed all other checks. `verify_mfa` with a TOTP code writes
  nothing, so only the factor it would use is defined (`TotpFactorOf`).
* `PgStore` has a call in progress per client (`job`), the rows it has written but
  not committed (`writes`) and the row locks. An UPDATE with a WHERE clause is
  two kinds of step: `Scan...` takes the statement's snapshot, and `Update...` locks a
  row of it and looks at the row again, as READ COMMITTED does. The UPDATE of a row that
  the call has just locked is part of the locking step, since nobody can see it
  in between. A SELECT FOR UPDATE that waits holds nothing yet, so it is an
  action that is not enabled. `InsertSession` and `InsertCredential` take the
  KEY SHARE locks of the foreign-key checks. The store is assumed to commit when
  a call returns (autocommit on, or a commit by the caller); `PgMfa` drops that.
* `PgMfa` tells three states of a connection apart (`open`): idle, inside an
  implicit transaction that a plain read has opened with autocommit off, inside a
  transaction of the adopter (ADR 0013). `connection.transaction()` is BEGIN
  and COMMIT in the first, SAVEPOINT and RELEASE in the others; `saved` is what
  a rollback to the savepoint restores, locks included. The row a call locks is
  looked at again after the wait (`VerifyMfa`, `LockToConfirm`), and the two
  partial unique indexes wait for the transaction that has touched their key
  (`KeyWaits`). `spent` is history: the proofs that committed calls have accepted.
* `Listing` has an id as its rank in the order the call sorts by. The five calls
  differ in `PageSize` and `FetchSize` only: in memory everything after the cursor is looked
  at, on Postgres a LIMIT of one row more than the page. A new row may have any rank, since
  clients with different clocks draw UUIDs. `steady` is history: the rows that
  were in the list from the start of the walk.
* `HolderOf` (or its like) in each implementing module is the refinement mapping: a
  token lets its user in while it is live. On Postgres, `Bearer` sees
  committed rows only.
* `acceptedAt` in `PatStore` and `issued` in `IdentityStore` are history: what a
  caller was told. No action reads them except to call a token fresh.

## Runs

| Run | Question | Instance |
| --- | --- | --- |
| `credentials` | Do index, replaces chain and hashes agree in every order of calls, half-failed rotation included? | 2 users, 4 credentials, 1 identifier, 2 types, 1 session |
| `sessions` | Do cascades, refreshes and time leave no session or token behind; is every step one of `BearerTokens`; does every token die? | 2 users, 2 credentials, 2 sessions, 2 tokens, TTL 0 and 1, clock 0 to 3 |
| `unique` | Is an active credential unique per type and identifier? (No.) | 2 users, 3 credentials |
| `factors` | Do the MFA indexes stay sound, and is every proof good once only? | 2 users, 3 factors, 1 credential id, 2 slots, counters 0 to 2, clock 0 to 2 |
| `totp` | Has a user at most one active TOTP factor? (No.) | 1 user, 2 factors |
| `pats` | Are uses recorded and only made while a PAT is valid; is every step one of `BearerTokens`; does every PAT that expires die? | 2 users, 2 PATs, lifetimes to 2, window 2, clock 0 to 3 |
| `races` | Do locks, foreign keys and the unique index keep two clients' calls apart, and does what is committed follow `BearerTokens`? | 2 clients, 1 user, 3 credentials, 3 sessions, 1 key |
| `calls_end` | Does every call end, deadlocks included? | 2 clients, 1 user, 2 credentials, 2 sessions |
| `backed` | Is every live session on Postgres backed by an active user and credential? (No.) | 2 clients, 1 user, 2 credentials, 1 session |
| `pg_mfa` | Do row locks and unique indexes keep factors, codes and counters right under savepoints and lost connections? | 2 clients (autocommit on, off), 1 user, 2 factors, 1 credential id, 2 slots, counters 0 to 2 |
| `durable` | Is a call of the Postgres store committed when it returns? (Not with autocommit off.) | the same, counters 0 and 1 |
| `pages` | Has a walk over the sessions on Postgres every session? (Not with a limit above the cap.) | 3 rows, cap 1, limits 1 and 2 |

Why the bounds are enough. One identifier makes every credential compete for
one key. Four credentials hold a rotation chain of two beside a competitor that
is suspended, which is the longest history any index property mentions; two
types keep keys apart. Two sessions are a refresh beside a cascade, and two users
tell a cascade that takes too much from one that is right; TTL 1 on a clock of 3 gives
sessions that expire before, at and after the bound, and TTL 0 is refused. A
refresh of a refresh needs three sessions: the safety properties of `sessions`
were also run with three, under symmetry, with the same result; the
listed run has liveness and so no symmetry. Two recovery slots tell the first
use from the last. `SYMMETRY` is used in safety
runs only, over ids that no operation orders. `CHECK_DEADLOCK FALSE`: when all
ids are used up and everything is revoked the bounded system stops, and so does
a real one that nobody calls.

In `races`, two clients are every pair of calls, and one user and one key make all
of them conflict; larger instances (three clients with two credentials and two
sessions, two users) were run once, with the same result. In `pg_mfa` two factors
of one user compete for every key there is, and counters to 2 let one assertion
be replayed after another has been accepted. `pages` needs one row beyond the
page: a cap of 1 with limits 1 and 2 stands for 200 with 200 and 201. The four
other lists were run with the same sizes and have the property; the theorem covers them.

Fairness. `sessions` and `pats` assume `WF(Tick)` only: real time passes. No
caller is obliged to call anything, so a token must die by itself. `calls_end`
assumes that a call in progress goes on: strong fairness of `Continue`, because
Postgres queues those who wait for a row, so that a lock which keeps being freed
is had in the end; weak fairness of `DeadlockVictim`, because the deadlock
detector runs. Nobody is obliged to begin a call or to disconnect.

What the refinement shows. `BearerTokens` has no clock, no credentials and no
cascade: a token is issued, handed over by a replacement, or dies for good, and shutting a user
out ends all tokens of that user, and no others, in that very step. That all three stores
implement it means that expiry, rotation, refresh, revocation and the cascades
together never do more or less than that. On Postgres it is the committed state
that implements it: a session may be committed for a user that is suspended
(`Guarded` is off there, see `backed`), but the commit of a suspension
ends every session of the user that is there. For PATs only a revocation shuts a user
out, and `Guarded` is off too: `create_pat` does not read the status.

What the five violations show. `unique`: suspend a credential, create another
with the same identifier, revoke the first; the entry of the second is popped
and a third can be created beside it. `totp`: enroll twice, confirm both.
`backed`: `create_session` reads the user as active while `suspend_user` is under
way (a plain SELECT does not wait), its INSERT waits for the foreign key until the
suspension has committed, and then adds a session that no cascade will see. What
does hold, and is checked in `races`, is `CascadeComplete`: at the commit of a
suspension, revocation or rotation itself no live session is left. For
`refresh_session` that rests on the foreign-key locks alone: without them
(a mutant of the model) a refresh moves a session out of the cascade's snapshot.
`OnlyCreateUnbacks`, also in `races`, says that the gap of `create_session` is the
only one: no other call turns a state in which every live session is backed into one
where some session is not.
`durable`: on a connection with autocommit off, which is psycopg's default, the
check of the user in front of an enrollment opens a transaction; the
`transaction()` of the INSERT is then a savepoint, the call returns, and the row is
not committed until the adopter commits. `pages`: `list_sessions_for_user` caps what
it fetches but not what it slices and compares with, so with a limit above 200
the first page has at most 201 rows and no cursor, and the rest is never seen.

What `NoDeadlockAlone` shows. Each MFA call locks one row and then at most one index key that it
does not have, so calls that commit when they return never wait in a circle.
Inside transactions that outlive the call they may, and one of them raises.

## Proofs

Every safety and every action property of the passing runs is also a theorem: it
holds for all values of the constants under the named assumptions of the
component's module, for any number of clients, users, rows and tokens, and any
times. `PROJECT.json` lists the theorems. In all modules one lemma per action
shows that the action keeps the inductive invariant, with one step per conjunct
it can disturb, and PTL closes the temporal step. What each invariant adds to the
properties, and why they are not inductive without it:

`IdentityStoreProofs` (`TypeCorrect`, `SessionTimesCorrect`, `TokenMapsCorrect`,
`SessionsBacked`, `IndexCorrect`). The invariant is
`SessionInv /\ LiveSessionBacked /\ IndexSound`, with
`SessionInv` made of `TypeOK`, `SessionTimes`, `TokenMapsExact` and
`IssuedTokens`. `TypeOK` alone is not inductive: a refresh computes the new
expiry from two stored times, and only `SessionTimes` says that their difference
is a granted TTL and not negative. `TokenMapsExact` needs `IssuedTokens`: a
token in either dict was issued, so a fresh one collides with none.
`LiveSessionBacked` survives `RefreshSession` only because the old session is
live in the state before.

`RotationProofs` (`ChainCorrect`, `SignInCorrect`, `RevocationIsTerminal`) uses that
invariant, `RotationChain` and `HashKept`: a password credential keeps its hash
while it is suspended, since `reinstate_credential` writes none. The chain cannot
fork because a rotation needs an active credential and revokes it, and a revoked
one is never active again. `CredentialHistory` says once what any call may do to
credentials, and the theorems are read off it.

`SessionTokenProofs` (`DeadTokensStayDead`, `SessionsAreBearerTokens`) needs no
more than `SessionInv` and `LiveSessionBacked`. `AcceptedIs` reduces the four
checks of `verify_session_token` to two, and the refinement then goes by action: an
opening is `Issue`, a refresh `Replace`, a suspension or revocation of a user
`ShutOut`, and whatever else ends tokens, time included, is `Die` in
`BearerTokens`.

`PatStoreProofs` (`PatTypeCorrect`, `LastUsedCorrect`, `RecordsCorrect`,
`UseCorrect`, `DeadPatsStayDead`, `PatsAreBearerTokens`). The
invariant `PatOK` says of each PAT that nothing recorded lies in the future. A
use that was accepted before a revocation stays before it only because of that.

`MfaStoreProofs` (`MfaTypeCorrect`, `SlotsCorrect`, `IndexesCorrect`,
`RemainingCorrect`, `RevokedFactorsUnused`, `NoReplays`). What has to be added is
`NoPendingRecovery`: `revoke_mfa_factor` pops the slot of its user and type
whatever the factor's status was, and would lose an active recovery set if a pending one
could exist. `RemainingExact` rests on the cardinality facts of the library, so it
holds for any finite number of codes and not for ten only.

`PgMfaProofs` (`PgMfaTypeCorrect`, `ActiveFactorUnique`, `ProofsSpentOnce`,
`NoDeadlockOfCalls`, `UpdatesAreKept`, `NoRevokedAccepted`). The properties speak
of committed rows, the invariant of what is not committed: `Sound` says of a transaction,
and also of the state that a rollback to its savepoint would restore, that all it
wrote it wrote under a lock, that its rows grow from the committed ones, that it
holds the index key of each row it made active and the lock of the committed row under
that key, and that each proof it accepted is recorded in a row it wrote. `CallOK` ties a call to
its place in the method, and `Reserved` keeps the id of a row that is
about to be inserted to one client. The core is that a commit leaves every transaction `Sound`
that shares no lock with it. `KeyWaits` keeps those that would clash apart.

`PgStoreProofs` (`PgStoreTypeCorrect`, `ActiveKeyUnique`, `ReplacementsOnce`,
`CascadesComplete`, `OnlyCreateSessionUnbacks`, `PgSessionsAreBearerTokens`). `CallOK` says
for each method and place in it which rows the call has written, which locks it holds
and what it still has to do; `TableOK` what no call can undo (a session belongs to the user of
its credential; what has been replaced is revoked); `Apart` that locks
of two clients are compatible, that they insert different rows and that their index entries do not
clash. `CascadeOK` carries the cascade: from the snapshot of the second scan
on, every live session in scope is in the list or written already. It survives
the commit of another client because a new live session under a user or
credential would have needed a KEY SHARE lock on a row that the cascade
holds FOR UPDATE (`Untouched`). This is what the theorems about committed
sessions, the refinement included, come down to. The invariant was also checked
by TLC on the 649,071 states of `races`.

The assumptions. `None` is no id and no record (`NoneAssumption`,
`AbsentAssumption`, `MfaNoneAssumption`, `NoFactorAssumption`, `PatNoneAssumption`,
`NoPatAssumption`, `NoRowAssumption`); bounds and times are natural numbers; kinds of rows and of
locks that the code keeps in separate tables are disjoint (`RowsAssumption`, `PgMfaApart`, which also
tells a recovery slot from a counter). TLC evaluates all of them.

`ListingProofs` proves `WalksAreComplete` (`WalkComplete`) and `RowsComeOnce`
(`NothingTwice`) for every list, set of ids, cap and limit, under two named
hypotheses: `Sensible` (the ids are a finite set of positive numbers, limits are
not negative) and `LimitHandled`, which excludes the two kinds of limit that the code does not
handle: 0 for sessions, which ends a walk at once, and above the cap for sessions
on Postgres, which the run `pages` refutes. The inductive invariant `WalkInv` says
that a walk under way has had exactly the steady rows up to its cursor and
nothing beyond it. The core of the step is `LastPageIsRest`: a page that is
not followed by a cursor holds everything that is left, because what was fetched
is one row more than a page can hold.

Only model-checked: liveness (`TokenEventuallyDies`, `PatEventuallyDies` and
`CallsEnd`), which is beyond the proof system, and the five refutations, whose
counterexamples TLC finds.

## Not modelled, and the plan

Not modelled, and why:

* The MFA policy and the gate of `verify_password`: `set_mfa_policy` overwrites
  one record, and only the gate reads it. The gate tells the caller to ask for
  a factor; `create_session` does not look at it, so the order of the calls is left to
  the adopter and the package promises nothing about it.
* TOTP codes: the drift window and HMAC are functions of one call. No store
  remembers an accepted code, so the same code is good again within its window; there
  is no state that a property could speak of.
* WebAuthn: CBOR, COSE and signatures are byte handling; the counter rule is modelled
  (`CounterAdvances`).
* In `PgStore`: `update_user`, `verify_password`, `verify_session_token` (a display
  name, two single reads) and time.
* In `Listing`: negative limits, and cursors that no page handed out.
* Hashing, the wording of errors, exports, the protocol class and `updated_at`.

What is left:

1. The safety part of the liveness runs: that in `PgStore` a call that waits is always in a
   circle that `DeadlockVictim` breaks or behind one that can go on, so that
   `CallsEnd` would rest on fairness alone.
2. What does hold where a run refutes: for `MfaStore`, that an active TOTP factor
   out of its slot is one that another confirmation or revocation displaced; for `IdentityStore`,
   that two active credentials of one key need the revocation of a suspended one.
3. That one walk in `Listing` ends after as many pages as there are rows.
