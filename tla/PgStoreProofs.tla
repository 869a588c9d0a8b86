--------------------------- MODULE PgStoreProofs ---------------------------
(***************************************************************************)
(* The safety properties of PgStore, proved for all sets of clients and    *)
(* rows.  The inductive invariant says of every call in progress what it   *)
(* has written and which locks it holds (CallOK); of the tables, what no   *)
(* call can undo (TableOK); and of two calls at once, that their locks and *)
(* their index entries do not clash.  What a commit does to the others is  *)
(* said once, by Untouched: the rows that they have locked stay as they    *)
(* are, and no live session appears under a user or credential that they   *)
(* have locked.                                                            *)
(***************************************************************************)
EXTENDS PgStore, TLAPS

----------------------------------------------------------------------------
(* The invariant. j is a call, w what it has written and h the locks it     *)
(* holds; U, C and S are the committed tables.                              *)

Held(L, c) == {h \in Rows \X Modes : <<c, h[1], h[2]>> \in L}
Strong(h, r) == <<r, "update">> \in h \/ <<r, "no_key_update">> \in h

\* The calls with a cascade.
ShutOps == (UserOps \cup CredOps) \ {"reinstate_user", "reinstate_credential"}
Cascading(j) == /\ j.op \in ShutOps
                /\ j.at \in {"sessions", "insert_cred", "commit"}
Scope(j, row) == IF j.op \in UserOps THEN row.usr = j.usr ELSE row.cred = j.cred

\* What the calls on a user have written of users.
UserWrite(j, h, old, new) ==
    /\ j.op \in UserOps
    /\ <<j.usr, "update">> \in h
    /\ j.op = "suspend_user" => old = "active" /\ new = "suspended"
    /\ j.op = "reinstate_user" => old = "suspended" /\ new = "active"
    /\ j.op = "revoke_user" => old \in {"active", "suspended"} /\ new = "revoked"

\* A status of a credential that was there, by a call on it or on its user.
OldCredWrite(j, h, r, old, new) ==
    /\ Strong(h, r)
    /\ new \in CredRow /\ old.status # "revoked"
    /\ new.usr = old.usr /\ new.key = old.key /\ new.replaces = old.replaces
    /\ \/ j.op \in CredOps /\ r = j.cred
       \/ j.op = "revoke_user" /\ old.usr = j.usr /\ new.status = "revoked"
    /\ new.status = "active" => /\ j.op = "reinstate_credential" /\ j.at = "commit" /\ r = j.cred
                                /\ old.status = "suspended"

\* The credential that the last statement of a creation or a rotation inserts.
NewCredWrite(j, r, new) ==
    /\ j.op \in {"create_credential", "rotate"} /\ j.at = "commit"
    /\ r = j.new
    /\ new \in CredRow
    /\ new.status = "active" /\ new.replaces = j.cred

\* A session that is revoked: one in the cascade's scope, or the one refreshed.
OldSesWrite(j, h, r, old, new) ==
    /\ Strong(h, r)
    /\ new \in SesRow /\ ~new.live /\ old.live
    /\ new.usr = old.usr /\ new.cred = old.cred /\ new.refreshed = old.refreshed
    /\ \/ j.op \in ShutOps /\ Scope(j, old)
       \/ j.op = "refresh_session" /\ r = j.ses

NewSesWrite(j, h, r, new) ==
    /\ j.op \in {"create_session", "refresh_session"} /\ j.at = "commit"
    /\ r = j.new
    /\ new \in SesRow
    /\ new.live /\ new.usr = j.usr /\ new.cred = j.cred /\ new.refreshed = j.ses
    /\ <<j.usr, "key_share">> \in h /\ <<j.cred, "key_share">> \in h

WritesOK(j, w, h, U, C, S) ==
    /\ DOMAIN w \subseteq Rows
    /\ \A r \in DOMAIN w \cap UserIds : r = j.usr /\ UserWrite(j, h, U[r], w[r])
    /\ \A r \in DOMAIN w \cap CredIds :
          IF C[r] = None THEN NewCredWrite(j, r, w[r]) ELSE OldCredWrite(j, h, r, C[r], w[r])
    /\ \A r \in DOMAIN w \cap SessionIds :
          IF S[r] = None THEN NewSesWrite(j, h, r, w[r]) ELSE OldSesWrite(j, h, r, S[r], w[r])

\* Only rows that exist are locked for a write, and the new row does not exist yet.
RowsOK(j, h, U, C, S) ==
    /\ \A r \in UserIds : Strong(h, r) => U[r] # None
    /\ \A r \in CredIds : Strong(h, r) => C[r] # None
    /\ \A r \in SessionIds : Strong(h, r) => S[r] # None
    /\ j.new \in CredIds => C[j.new] = None
    /\ j.new \in SessionIds => S[j.new] = None

UserCallOK(j, w, h) == j.op \in UserOps =>
    /\ j.usr \in UserIds /\ <<j.usr, "update">> \in h /\ j.usr \in DOMAIN w
    /\ j.op = "reinstate_user" => j.at = "commit"
    /\ j.new = None

CredCallOK(j, w, h, C) == j.op \in CredOps =>
    /\ j.cred \in CredIds /\ <<j.cred, "update">> \in h
    /\ C[j.cred] # None
    /\ j.op \in {"suspend_credential", "revoke_credential"} => j.cred \in DOMAIN w /\ j.new = None
    /\ j.op = "rotate" =>
          /\ j.usr \in UserIds /\ j.key = C[j.cred].key /\ j.new \in CredIds
          /\ j.cred \in DOMAIN w /\ w[j.cred].status = "revoked"
          /\ j.at = "commit" => w[j.new].key = j.key
    /\ j.op = "reinstate_credential" =>
          /\ j.key = C[j.cred].key /\ C[j.cred].status = "suspended" /\ j.new = None
          /\ j.at \in {"activate", "commit"}

CreateCallOK(j, w) == j.op = "create_credential" =>
    /\ j.usr \in UserIds /\ j.key \in Keys /\ j.cred = None /\ j.new \in CredIds
    /\ j.at \in {"insert_cred", "commit"}

\* The credential of a session that is about to be inserted is the user's own.
SessionCallOK(j, w, h, C, S) == j.op \in {"create_session", "refresh_session"} =>
    /\ j.usr \in UserIds /\ j.cred \in CredIds /\ j.new \in SessionIds
    /\ j.at \in {"read_cred", "insert_session", "commit"}
    /\ C[j.cred] # None
    /\ j.at # "read_cred" => C[j.cred].usr = j.usr
    /\ j.at = "commit" => j.new \in DOMAIN w
    /\ j.op = "create_session" => j.ses = None
    /\ j.op = "refresh_session" =>
          /\ j.ses \in SessionIds /\ <<j.ses, "update">> \in h /\ j.ses \in DOMAIN w
          /\ j.at # "read_cred"
          /\ S[j.ses] # None /\ S[j.ses].usr = j.usr /\ S[j.ses].cred = j.cred

\* What the two scans have found is in scope, and the second has missed nothing: a
\* live session in scope is still to do, or revoked already.
CascadeOK(j, w, C, S) ==
    /\ j.at = "creds" => j.todo \subseteq {x \in CredIds : C[x] # None /\ C[x].usr = j.usr}
    /\ j.at = "sessions" => j.todo \subseteq {s \in SessionIds : S[s] # None /\ Scope(j, S[s])}
    /\ Cascading(j) => \A s \in SessionIds : S[s] # None /\ S[s].live /\ Scope(j, S[s]) =>
          s \in DOMAIN w \/ (j.at = "sessions" /\ s \in j.todo)

CallOK(j, w, h, U, C, S) ==
    IF j = Idle THEN w = <<>> /\ h = {}
    ELSE /\ j \in JobType
         /\ WritesOK(j, w, h, U, C, S)
         /\ RowsOK(j, h, U, C, S)
         /\ UserCallOK(j, w, h)
         /\ CredCallOK(j, w, h, C)
         /\ CreateCallOK(j, w)
         /\ SessionCallOK(j, w, h, C, S)
         /\ CascadeOK(j, w, C, S)

\* A session belongs to the user of its credential; what has been replaced is
\* revoked; and once only.
TableOK(U, C, S) ==
    /\ U \in [UserIds -> Status \cup {None}]
    /\ C \in [CredIds -> CredRow \cup {None}]
    /\ S \in [SessionIds -> SesRow \cup {None}]
    /\ \A s \in SessionIds : S[s] # None => C[S[s].cred] # None /\ C[S[s].cred].usr = S[s].usr
    /\ \A x \in CredIds : C[x] # None /\ C[x].replaces # None =>
          C[C[x].replaces] # None /\ C[C[x].replaces].status = "revoked"
    /\ \A s \in SessionIds : S[s] # None /\ S[s].refreshed # None =>
          S[S[s].refreshed] # None /\ ~S[S[s].refreshed].live

\* Two clients: their locks go together, and they do not insert the same row.
LocksApart(h, h2) == \A r \in Rows, m, n \in Modes :
    <<r, m>> \in h /\ <<r, n>> \in h2 => Compatible(m, n)
NewApart(j, j2) == j # Idle /\ j2 # Idle /\ j.new = j2.new => j.new = None

\* An index entry that w has made active is touched by no other client, and w has
\* every committed row that was under it.
IsActive(C, x) == C[x] # None /\ C[x].status = "active"
KeysApart(w, w2, C) == \A x \in DOMAIN w \cap CredIds, y \in DOMAIN w2 \cap CredIds :
    w[x].status = "active" /\ w[x].key = w2[y].key => w2[y].status # "active" /\ ~IsActive(C, y)
KeyOwned(w, C) == \A x \in DOMAIN w \cap CredIds, y \in CredIds :
    w[x].status = "active" /\ IsActive(C, y) /\ C[y].key = w[x].key => y \in DOMAIN w

Apart(j, w, h, j2, w2, h2, C) ==
    LocksApart(h, h2) /\ NewApart(j, j2) /\ KeysApart(w, w2, C) /\ KeysApart(w2, w, C)

Inv ==
    /\ TypeOK
    /\ DOMAIN writes = Clients
    /\ TableOK(usr, cred, ses)
    /\ UniqueActiveKey
    /\ ReplacedOnce
    /\ \A c \in Clients : /\ CallOK(job[c], writes[c], Held(locks, c), usr, cred, ses)
                          /\ KeyOwned(writes[c], cred)
    /\ \A c \in Clients : \A d \in Clients \ {c} :
          Apart(job[c], writes[c], Held(locks, c), job[d], writes[d], Held(locks, d), cred)

----------------------------------------------------------------------------
(* Locks. *)

\* Two locks for a write never go together, and FOR UPDATE goes with none.
LEMMA CompatibleFacts ==
    /\ \A m, n : Compatible(m, n) <=> Compatible(n, m)
    /\ ~Compatible("update", "update") /\ ~Compatible("update", "no_key_update")
    /\ ~Compatible("no_key_update", "update") /\ ~Compatible("no_key_update", "no_key_update")
    /\ ~Compatible("update", "key_share") /\ ~Compatible("key_share", "update")
BY DEF Compatible

\* Two locks for a write are never held on one row.
LEMMA StrongExcludes ==
    ASSUME NEW h, NEW h2, LocksApart(h, h2), NEW r \in Rows, Strong(h, r)
    PROVE  ~Strong(h2, r)
BY CompatibleFacts DEF LocksApart, Strong, Modes

\* What client c may lock when it is free goes together with what others hold.
LEMMA LockApart ==
    ASSUME NEW c \in Clients, NEW rows \in SUBSET Rows, NEW mode \in Modes,
           \A r \in rows : Free(c, r, mode), NEW d \in Clients \ {c},
           LocksApart(Held(locks, c), Held(locks, d)),
           NEW h, h = Held(locks, c) \cup (rows \X {mode})
    PROVE  LocksApart(h, Held(locks, d))
<1> SUFFICES ASSUME NEW r \in Rows, NEW m \in Modes, NEW n \in Modes,
                    <<r, m>> \in h, <<r, n>> \in Held(locks, d)
             PROVE  Compatible(m, n)
    BY DEF LocksApart
<1>1. CASE <<r, m>> \in Held(locks, c)
    BY <1>1 DEF LocksApart
<1>2. CASE r \in rows /\ m = mode
    <2>1. <<d, r, n>> \in locks
        BY DEF Held
    <2>2. <<d, r, n>>[1] = d /\ <<d, r, n>>[2] = r /\ <<d, r, n>>[3] = n
        OBVIOUS
    <2>3. Compatible(n, mode)
        BY <1>2, <2>1, <2>2 DEF Free, Blocks
    <2> QED
        BY <1>2, <2>3, CompatibleFacts
<1> QED
    BY <1>1, <1>2

\* What Lock and End do to what the clients hold.
LEMMA HeldAfterLock ==
    ASSUME NEW c \in Clients, NEW rows \in SUBSET Rows, NEW mode \in Modes, Lock(c, rows, mode),
           locks \subseteq Clients \X Rows \X Modes
    PROVE  /\ Held(locks', c) = Held(locks, c) \cup (rows \X {mode})
           /\ \A d \in Clients \ {c} : Held(locks', d) = Held(locks, d)
           /\ locks' \subseteq Clients \X Rows \X Modes
BY DEF Lock, Held

\* A call that ends drops its locks, and the others keep theirs.
LEMMA HeldAfterEnd ==
    ASSUME NEW c \in Clients, locks' = {l \in locks : l[1] # c},
           locks \subseteq Clients \X Rows \X Modes
    PROVE  /\ Held(locks', c) = {}
           /\ \A d \in Clients \ {c} : Held(locks', d) = Held(locks, d)
           /\ locks' \subseteq Clients \X Rows \X Modes
BY DEF Held

----------------------------------------------------------------------------
(* What a change of the tables does to a call that is under way. *)

\* The tables U, C, S become U2, C2, S2, and the call j does not notice.
Untouched(j, h, U, C, S, U2, C2, S2) ==
    /\ \A u \in UserIds : /\ U[u] # None => U2[u] # None
                          /\ Strong(h, u) => U2[u] = U[u]
    /\ \A x \in CredIds : /\ C[x] # None => /\ C2[x] # None /\ C2[x].usr = C[x].usr
                                            /\ C2[x].key = C[x].key
                          /\ Strong(h, x) => C2[x] = C[x]
    /\ \A s \in SessionIds : /\ S[s] # None => /\ S2[s] # None /\ S2[s].usr = S[s].usr
                                               /\ S2[s].cred = S[s].cred
                             /\ Strong(h, s) => S2[s] = S[s]
    /\ j.new \in CredIds => C2[j.new] = None
    /\ j.new \in SessionIds => S2[j.new] = None
    /\ \A s \in SessionIds : S2[s] # None /\ S2[s].live => \/ S[s] # None /\ S[s].live
                                                           \/ /\ <<S2[s].usr, "update">> \notin h
                                                              /\ <<S2[s].cred, "update">> \notin h

\* A call that does not notice a change of the tables is in order after it.
LEMMA CallUntouched ==
    ASSUME NEW j, NEW w, NEW h, NEW U, NEW C, NEW S, NEW U2, NEW C2, NEW S2,
           CallOK(j, w, h, U, C, S), Untouched(j, h, U, C, S, U2, C2, S2)
    PROVE  CallOK(j, w, h, U2, C2, S2)
<1> SUFFICES ASSUME j # Idle
             PROVE  CallOK(j, w, h, U2, C2, S2)
    BY DEF CallOK
<1>0. /\ WritesOK(j, w, h, U, C, S) /\ RowsOK(j, h, U, C, S) /\ UserCallOK(j, w, h)
      /\ CredCallOK(j, w, h, C) /\ CreateCallOK(j, w) /\ SessionCallOK(j, w, h, C, S)
      /\ CascadeOK(j, w, C, S) /\ j \in JobType
    BY DEF CallOK
<1>1. WritesOK(j, w, h, U2, C2, S2)
    <2>1. ASSUME NEW r \in DOMAIN w \cap UserIds PROVE r = j.usr /\ UserWrite(j, h, U2[r], w[r])
        <3>1. r = j.usr /\ UserWrite(j, h, U[r], w[r])
            BY <1>0 DEF WritesOK
        <3>2. U2[r] = U[r]
            BY <3>1 DEF UserWrite, Untouched, Strong
        <3> QED
            BY <3>1, <3>2
    <2>2. ASSUME NEW r \in DOMAIN w \cap CredIds
          PROVE  IF C2[r] = None THEN NewCredWrite(j, r, w[r])
                                 ELSE OldCredWrite(j, h, r, C2[r], w[r])
        <3>1. CASE C[r] = None
            <4>1. NewCredWrite(j, r, w[r]) /\ r = j.new
                BY <1>0, <3>1 DEF WritesOK, NewCredWrite
            <4>2. C2[r] = None
                BY <4>1 DEF Untouched
            <4> QED
                BY <4>1, <4>2
        <3>2. CASE C[r] # None
            <4>1. OldCredWrite(j, h, r, C[r], w[r])
                BY <1>0, <3>2 DEF WritesOK
            <4>2. C2[r] = C[r]
                BY <4>1 DEF OldCredWrite, Untouched
            <4> QED
                BY <3>2, <4>1, <4>2
        <3> QED
            BY <3>1, <3>2
    <2>3. ASSUME NEW r \in DOMAIN w \cap SessionIds
          PROVE  IF S2[r] = None THEN NewSesWrite(j, h, r, w[r])
                                 ELSE OldSesWrite(j, h, r, S2[r], w[r])
        <3>1. CASE S[r] = None
            <4>1. NewSesWrite(j, h, r, w[r]) /\ r = j.new
                BY <1>0, <3>1 DEF WritesOK, NewSesWrite
            <4>2. S2[r] = None
                BY <4>1 DEF Untouched
            <4> QED
                BY <4>1, <4>2
        <3>2. CASE S[r] # None
            <4>1. OldSesWrite(j, h, r, S[r], w[r])
                BY <1>0, <3>2 DEF WritesOK
            <4>2. S2[r] = S[r]
                BY <4>1 DEF OldSesWrite, Untouched
            <4> QED
                BY <3>2, <4>1, <4>2
        <3> QED
            BY <3>1, <3>2
    <2> QED
        BY <1>0, <2>1, <2>2, <2>3 DEF WritesOK
<1>2. RowsOK(j, h, U2, C2, S2)
    BY <1>0 DEF RowsOK, Untouched
<1>3. CredCallOK(j, w, h, C2)
    <2> SUFFICES ASSUME j.op \in CredOps
                 PROVE  CredCallOK(j, w, h, C2)
        BY DEF CredCallOK
    <2>1. j.cred \in CredIds /\ C2[j.cred] = C[j.cred]
        BY <1>0 DEF CredCallOK, Untouched, Strong
    <2> QED
        BY <1>0, <2>1 DEF CredCallOK
<1>4. SessionCallOK(j, w, h, C2, S2)
    <2> SUFFICES ASSUME j.op \in {"create_session", "refresh_session"}
                 PROVE  SessionCallOK(j, w, h, C2, S2)
        BY DEF SessionCallOK
    <2>1. /\ j.cred \in CredIds /\ C[j.cred] # None /\ C2[j.cred] # None
          /\ C2[j.cred].usr = C[j.cred].usr
        BY <1>0 DEF SessionCallOK, Untouched
    <2>2. ASSUME j.op = "refresh_session" PROVE j.ses \in SessionIds /\ S2[j.ses] = S[j.ses]
        BY <1>0, <2>2 DEF SessionCallOK, Untouched, Strong
    <2> QED
        BY <1>0, <2>1, <2>2 DEF SessionCallOK
<1>5. CascadeOK(j, w, C2, S2)
    <2>1. \A s \in SessionIds : S[s] # None => S2[s] # None /\ (Scope(j, S2[s]) <=> Scope(j, S[s]))
        BY DEF Untouched, Scope
    <2>2. \A x \in CredIds : C[x] # None => C2[x] # None /\ C2[x].usr = C[x].usr
        BY DEF Untouched
    <2>3. ASSUME Cascading(j), NEW s \in SessionIds, S2[s] # None, S2[s].live, Scope(j, S2[s])
          PROVE  s \in DOMAIN w \/ (j.at = "sessions" /\ s \in j.todo)
        <3>1. S[s] # None /\ S[s].live
            <4>1. CASE j.op \in UserOps
                BY <1>0, <2>3, <4>1 DEF UserCallOK, Scope, Untouched
            <4>2. CASE j.op \notin UserOps
                BY <1>0, <2>3, <4>2 DEF CredCallOK, Cascading, ShutOps, Scope, Untouched
            <4> QED
                BY <4>1, <4>2
        <3> QED
            BY <1>0, <2>1, <2>3, <3>1 DEF CascadeOK
    <2>4. /\ j.at = "creds" => j.todo \subseteq {x \in CredIds : C2[x] # None /\ C2[x].usr = j.usr}
          /\ j.at = "sessions" => j.todo \subseteq {s \in SessionIds : S2[s] # None /\ Scope(j, S2[s])}
        BY <1>0, <2>1, <2>2 DEF CascadeOK
    <2> QED
        BY <2>3, <2>4 DEF CascadeOK
<1> QED
    BY <1>0, <1>1, <1>2, <1>3, <1>4, <1>5 DEF CallOK

----------------------------------------------------------------------------
(* Steps of client c that commit nothing. *)

OthersKeep(c) ==
    /\ job' \in [Clients -> JobType \cup {Idle}]
    /\ DOMAIN writes' = Clients
    /\ locks' \subseteq Clients \X Rows \X Modes
    /\ \A d \in Clients \ {c} : /\ job'[d] = job[d] /\ writes'[d] = writes[d]
                                /\ Held(locks', d) = Held(locks, d)

\* When c writes w, either no credential in it becomes active, or the index has let
\* it in.
IndexAsked(c, w) == \A x \in DOMAIN w \cap CredIds : w[x].status = "active" =>
    \/ w = writes[c]
    \/ /\ \A d \in Clients \ {c} : ~KeyWaits(c, d, w[x].key)
       /\ \A y \in CredIds : IsActive(cred, y) /\ cred[y].key = w[x].key => y \in DOMAIN w

\* Who has written a credential that was there has locked it, and kept its key.
LEMMA OldCredFacts ==
    ASSUME NEW j, NEW w, NEW h, NEW U, NEW C, NEW S, CallOK(j, w, h, U, C, S),
           NEW x \in DOMAIN w \cap CredIds, C[x] # None
    PROVE  /\ Strong(h, x) /\ w[x].key = C[x].key /\ w[x].replaces = C[x].replaces
           /\ OldCredWrite(j, h, x, C[x], w[x]) /\ j # Idle /\ WritesOK(j, w, h, U, C, S)
<1>1. j # Idle
    BY DEF CallOK
<1> QED
    BY <1>1 DEF CallOK, WritesOK, OldCredWrite

\* A client that asks the index before it makes a credential active clashes with nobody.
LEMMA KeysStep ==
    ASSUME Inv, NEW c \in Clients, NEW j, NEW w, NEW h, CallOK(j, w, h, usr, cred, ses),
           IndexAsked(c, w), \A d \in Clients \ {c} : LocksApart(h, Held(locks, d))
    PROVE  /\ KeyOwned(w, cred)
           /\ \A d \in Clients \ {c} : KeysApart(w, writes[d], cred) /\ KeysApart(writes[d], w, cred)
<1>1. KeyOwned(w, cred)
    <2> SUFFICES ASSUME NEW x \in DOMAIN w \cap CredIds, NEW y \in CredIds, w[x].status = "active",
                        IsActive(cred, y), cred[y].key = w[x].key
                 PROVE  y \in DOMAIN w
        BY DEF KeyOwned
    <2>1. KeyOwned(writes[c], cred)
        BY DEF Inv
    <2> QED
        BY <2>1 DEF IndexAsked, KeyOwned
<1>2. ASSUME NEW d \in Clients \ {c} PROVE KeysApart(w, writes[d], cred)
    <2> SUFFICES ASSUME NEW x \in DOMAIN w \cap CredIds, NEW y \in DOMAIN writes[d] \cap CredIds,
                        w[x].status = "active", w[x].key = writes[d][y].key
                 PROVE  writes[d][y].status # "active" /\ ~IsActive(cred, y)
        BY DEF KeysApart
    <2>1. CASE w = writes[c]
        <3>1. KeysApart(writes[c], writes[d], cred)
            BY DEF Inv, Apart
        <3> QED
            BY <2>1, <3>1 DEF KeysApart
    <2>2. CASE ~KeyWaits(c, d, w[x].key)
        BY <2>2 DEF KeyWaits, IsActive, Active
    <2> QED
        BY <2>1, <2>2 DEF IndexAsked
<1>3. ASSUME NEW d \in Clients \ {c} PROVE KeysApart(writes[d], w, cred)
    <2> SUFFICES ASSUME NEW x \in DOMAIN writes[d] \cap CredIds, NEW y \in DOMAIN w \cap CredIds,
                        writes[d][x].status = "active", writes[d][x].key = w[y].key
                 PROVE  w[y].status # "active" /\ ~IsActive(cred, y)
        BY DEF KeysApart
    <2>1. ASSUME w[y].status = "active" PROVE FALSE
        BY <2>1, <1>2 DEF KeysApart
    <2>2. ASSUME IsActive(cred, y) PROVE FALSE
        <3>1. cred[y] # None /\ Strong(h, y) /\ cred[y].key = writes[d][x].key
            BY <2>2, OldCredFacts DEF IsActive
        <3>2. CallOK(job[d], writes[d], Held(locks, d), usr, cred, ses) /\ KeyOwned(writes[d], cred)
            BY DEF Inv
        <3>3. y \in DOMAIN writes[d]
            BY <2>2, <3>1, <3>2 DEF KeyOwned
        <3>4. Strong(Held(locks, d), y)
            BY <3>1, <3>2, <3>3, OldCredFacts
        <3> QED
            BY <3>1, <3>4, StrongExcludes DEF Rows
    <2> QED
        BY <2>1, <2>2
<1> QED
    BY <1>1, <1>2, <1>3

\* The third part of TypeOK, which says what a client has written, from CallOK.
LEMMA WritesTyped ==
    ASSUME NEW j, NEW w, NEW h, NEW U, NEW C, NEW S, CallOK(j, w, h, U, C, S)
    PROVE  /\ DOMAIN w \subseteq Rows
           /\ \A r \in DOMAIN w : \/ r \in CredIds /\ C[r] = None
                                  \/ r \in SessionIds /\ S[r] = None
                                  \/ Strong(h, r)
           /\ j = Idle => w = <<>> /\ h = {}
<1>1. CASE j = Idle
    BY <1>1 DEF CallOK
<1>2. CASE j # Idle
    <2>1. WritesOK(j, w, h, U, C, S)
        BY <1>2 DEF CallOK
    <2>2. ASSUME NEW r \in DOMAIN w
          PROVE  \/ r \in CredIds /\ C[r] = None
                 \/ r \in SessionIds /\ S[r] = None
                 \/ Strong(h, r)
        <3>1. CASE r \in UserIds
            BY <2>1, <3>1 DEF WritesOK, UserWrite, Strong
        <3>2. CASE r \in CredIds
            BY <2>1, <3>2 DEF WritesOK, OldCredWrite
        <3>3. CASE r \in SessionIds
            BY <2>1, <3>3 DEF WritesOK, OldSesWrite
        <3> QED
            BY <2>1, <3>1, <3>2, <3>3 DEF WritesOK, Rows
    <2> QED
        BY <1>2, <2>1, <2>2 DEF WritesOK
<1> QED
    BY <1>1, <1>2

\* The locks of a client, as TypeOK speaks of them.
LEMMA HeldTyped ==
    ASSUME NEW L, L \subseteq Clients \X Rows \X Modes, NEW c \in Clients
    PROVE  /\ Held(L, c) = {} => \A l \in L : l[1] # c
           /\ \A r : Strong(Held(L, c), r) => \E m \in {"update", "no_key_update"} : <<c, r, m>> \in L
<1>1. ASSUME Held(L, c) = {}, NEW l \in L, l[1] = c PROVE FALSE
    <2>1. l = <<c, l[2], l[3]>> /\ l[2] \in Rows /\ l[3] \in Modes
        BY <1>1
    <2>2. <<l[2], l[3]>> \in Held(L, c)
        BY <1>1, <2>1 DEF Held
    <2> QED
        BY <1>1, <2>2
<1>2. \A r : Strong(Held(L, c), r) => \E m \in {"update", "no_key_update"} : <<c, r, m>> \in L
    BY DEF Strong, Held
<1> QED
    BY <1>1, <1>2

\* A step that commits nothing keeps the invariant when it keeps it for c.
LEMMA QuietStep ==
    ASSUME Inv, NEW c \in Clients, OthersKeep(c), UNCHANGED db,
           NEW j, NEW w, NEW h, job'[c] = j, writes'[c] = w, Held(locks', c) = h,
           CallOK(j, w, h, usr, cred, ses), IndexAsked(c, w),
           \A d \in Clients \ {c} : LocksApart(h, Held(locks, d)) /\ NewApart(j, job[d])
    PROVE  Inv'
<1>1. usr' = usr /\ cred' = cred /\ ses' = ses
    BY DEF db
<1>2. ASSUME NEW d \in Clients
      PROVE  CallOK(job'[d], writes'[d], Held(locks', d), usr, cred, ses) /\ KeyOwned(writes'[d], cred)
    BY KeysStep DEF Inv, OthersKeep
<1>3. ASSUME NEW d \in Clients \ {c}
      PROVE  Apart(j, w, h, job[d], writes[d], Held(locks, d), cred)
    BY KeysStep DEF Apart
<1>4. ASSUME NEW d \in Clients, NEW e \in Clients \ {d}
      PROVE  Apart(job'[d], writes'[d], Held(locks', d), job'[e], writes'[e], Held(locks', e), cred)
    <2>1. CASE d = c
        BY <2>1, <1>3 DEF OthersKeep
    <2>2. CASE e = c
        <3>1. Apart(job[d], writes[d], Held(locks, d), j, w, h, cred)
            <4>1. LocksApart(Held(locks, d), h)
                BY <2>2, CompatibleFacts DEF LocksApart
            <4>2. NewApart(job[d], j)
                BY <2>2 DEF NewApart
            <4> QED
                BY <2>2, <1>3, <4>1, <4>2 DEF Apart
        <3> QED
            BY <2>2, <3>1 DEF OthersKeep
    <2>3. CASE d # c /\ e # c
        BY <2>3 DEF Inv, OthersKeep
    <2> QED
        BY <2>1, <2>2, <2>3
<1>5. TypeOK'
    <2>2. locks' \subseteq Clients \X Rows \X Modes
        BY DEF OthersKeep
    <2>3. ASSUME NEW d \in Clients
          PROVE  /\ DOMAIN writes'[d] \subseteq Rows
                 /\ job'[d] = Idle => writes'[d] = <<>> /\ \A l \in locks' : l[1] # d
                 /\ \A r \in DOMAIN writes'[d] :
                       \/ r \in CredIds /\ cred'[r] = None
                       \/ r \in SessionIds /\ ses'[r] = None
                       \/ \E m \in {"update", "no_key_update"} : <<d, r, m>> \in locks'
        <3>1. /\ DOMAIN writes'[d] \subseteq Rows
              /\ \A r \in DOMAIN writes'[d] : \/ r \in CredIds /\ cred[r] = None
                                              \/ r \in SessionIds /\ ses[r] = None
                                              \/ Strong(Held(locks', d), r)
              /\ job'[d] = Idle => writes'[d] = <<>> /\ Held(locks', d) = {}
            BY <1>2, WritesTyped
        <3>2. /\ Held(locks', d) = {} => \A l \in locks' : l[1] # d
              /\ \A r : Strong(Held(locks', d), r) =>
                           \E m \in {"update", "no_key_update"} : <<d, r, m>> \in locks'
            BY <2>2, HeldTyped
        <3> QED
            BY <1>1, <3>1, <3>2
    <2>4. usr' \in [UserIds -> Status \cup {None}] /\ cred' \in [CredIds -> CredRow \cup {None}]
          /\ ses' \in [SessionIds -> SesRow \cup {None}]
        BY <1>1 DEF Inv, TypeOK
    <2> QED
        BY <2>2, <2>3, <2>4 DEF TypeOK, OthersKeep
<1>6. UniqueActiveKey' /\ ReplacedOnce' /\ TableOK(usr, cred, ses)'
    BY <1>1 DEF Inv, UniqueActiveKey, ReplacedOnce, Active
<1> QED
    BY <1>1, <1>2, <1>4, <1>5, <1>6 DEF Inv, OthersKeep


----------------------------------------------------------------------------
(* A call goes on: its point, its todo, its writes and its locks change. *)

SameCall(j, j2) ==
    /\ j2.op = j.op /\ j2.usr = j.usr /\ j2.cred = j.cred
    /\ j2.key = j.key /\ j2.ses = j.ses /\ j2.new = j.new

\* WritesOK, of one row.
WriteOK(j, h, r, v, U, C, S) ==
    /\ r \in Rows
    /\ r \in UserIds => r = j.usr /\ UserWrite(j, h, U[r], v)
    /\ r \in CredIds =>
          IF C[r] = None THEN NewCredWrite(j, r, v) ELSE OldCredWrite(j, h, r, C[r], v)
    /\ r \in SessionIds =>
          IF S[r] = None THEN NewSesWrite(j, h, r, v) ELSE OldSesWrite(j, h, r, S[r], v)

\* Before the last statement a call has made nothing active and inserted nothing.
LEMMA WritesBefore ==
    ASSUME NEW j, NEW j2, NEW w, NEW h, NEW h2, NEW U, NEW C, NEW S, WritesOK(j, w, h, U, C, S),
           SameCall(j, j2), j.at # "commit", h \subseteq h2, NEW r \in DOMAIN w
    PROVE  /\ WriteOK(j2, h2, r, w[r], U, C, S)
           /\ r \in CredIds => C[r] # None /\ w[r].status # "active"
           /\ r \in SessionIds => S[r] # None
<1>1. CASE r \in UserIds
    <2>1. r = j.usr /\ UserWrite(j, h, U[r], w[r])
        BY <1>1 DEF WritesOK
    <2> QED
        BY <1>1, <2>1, RowsAssumption DEF UserWrite, SameCall, WriteOK, Rows
<1>2. CASE r \in CredIds
    <2>1. C[r] # None /\ OldCredWrite(j, h, r, C[r], w[r])
        BY <1>2 DEF WritesOK, NewCredWrite
    <2>2. OldCredWrite(j2, h2, r, C[r], w[r])
        BY <2>1 DEF OldCredWrite, SameCall, Strong
    <2> QED
        BY <1>2, <2>1, <2>2, RowsAssumption DEF OldCredWrite, WriteOK, Rows
<1>3. CASE r \in SessionIds
    <2>1. S[r] # None /\ OldSesWrite(j, h, r, S[r], w[r])
        BY <1>3 DEF WritesOK, NewSesWrite
    <2>2. OldSesWrite(j2, h2, r, S[r], w[r])
        BY <2>1 DEF OldSesWrite, SameCall, Strong, Scope
    <2> QED
        BY <1>3, <2>1, <2>2, RowsAssumption DEF WriteOK, Rows
<1> QED
    BY <1>1, <1>2, <1>3 DEF WritesOK, Rows

\* The rows one by one are all that a client has written.
LEMMA WritesAfter ==
    ASSUME NEW j, NEW w, NEW h, NEW U, NEW C, NEW S,
           \A r \in DOMAIN w : WriteOK(j, h, r, w[r], U, C, S)
    PROVE  WritesOK(j, w, h, U, C, S)
BY DEF WritesOK, WriteOK

\* w holds the rows of old, as they were, and at most the row r besides.
Adds(old, w, r) ==
    /\ DOMAIN old \subseteq DOMAIN w /\ DOMAIN w \subseteq DOMAIN old \cup {r}
    /\ \A q \in DOMAIN old \ {r} : w[q] = old[q]

\* What Write does.
LEMMA WriteAdds ==
    ASSUME NEW c \in Clients, DOMAIN writes = Clients, NEW r, NEW v, Write(c, r, v)
    PROVE  /\ DOMAIN writes' = Clients
           /\ \A d \in Clients \ {c} : writes'[d] = writes[d]
           /\ Adds(writes[c], writes'[c], r) /\ r \in DOMAIN writes'[c] /\ writes'[c][r] = v
           /\ DOMAIN writes'[c] = DOMAIN writes[c] \cup {r}
BY DEF Write, Adds


\* What the invariant says of a call in progress.
LEMMA CallParts ==
    ASSUME Inv, NEW c \in Clients, job[c] # Idle
    PROVE  /\ job[c] \in JobType
           /\ WritesOK(job[c], writes[c], Held(locks, c), usr, cred, ses)
           /\ RowsOK(job[c], Held(locks, c), usr, cred, ses)
           /\ UserCallOK(job[c], writes[c], Held(locks, c))
           /\ CredCallOK(job[c], writes[c], Held(locks, c), cred)
           /\ CreateCallOK(job[c], writes[c])
           /\ SessionCallOK(job[c], writes[c], Held(locks, c), cred, ses)
           /\ CascadeOK(job[c], writes[c], cred, ses)
<1>1. CallOK(job[c], writes[c], Held(locks, c), usr, cred, ses)
    BY DEF Inv
<1> QED
    BY <1>1 DEF CallOK

\* A step of c inside its call keeps the invariant, when the row it adds is in order.
LEMMA MoveStep ==
    ASSUME Inv, NEW c \in Clients, job[c] # Idle, job[c].at # "commit", OthersKeep(c), UNCHANGED db,
           NEW j \in JobType, SameCall(job[c], j), job'[c] = j,
           NEW w, writes'[c] = w, NEW h, Held(locks', c) = h, Held(locks, c) \subseteq h,
           \A d \in Clients \ {c} : LocksApart(h, Held(locks, d)),
           NEW row, Adds(writes[c], w, row),
           \/ w = writes[c]
           \/ WriteOK(j, h, row, w[row], usr, cred, ses),
           IndexAsked(c, w), RowsOK(j, h, usr, cred, ses), CredCallOK(j, w, h, cred),
           CreateCallOK(j, w), SessionCallOK(j, w, h, cred, ses), CascadeOK(j, w, cred, ses)
    PROVE  Inv'
<1>1. /\ WritesOK(job[c], writes[c], Held(locks, c), usr, cred, ses)
      /\ UserCallOK(job[c], writes[c], Held(locks, c))
    BY CallParts
<1>2. WritesOK(j, w, h, usr, cred, ses)
    <2>1. ASSUME NEW r \in DOMAIN writes[c]
          PROVE  WriteOK(j, h, r, writes[c][r], usr, cred, ses)
        BY <1>1, WritesBefore
    <2>2. ASSUME NEW r \in DOMAIN w PROVE WriteOK(j, h, r, w[r], usr, cred, ses)
        BY <2>1 DEF Adds
    <2> QED
        BY <2>2, WritesAfter
<1>3. UserCallOK(j, w, h)
    BY <1>1 DEF UserCallOK, SameCall, Adds
<1>4. CallOK(j, w, h, usr, cred, ses)
    BY <1>2, <1>3, NoRowAssumption DEF CallOK, Idle
<1>5. \A d \in Clients \ {c} : NewApart(j, job[d])
    BY DEF Inv, Apart, NewApart, SameCall
<1> QED
    BY <1>4, <1>5, QuietStep

\* A call on a credential goes on: the facts about it stay.
LEMMA CredCallKept ==
    ASSUME NEW j, NEW j2, NEW w, NEW w2, NEW h, NEW h2, NEW C, CredCallOK(j, w, h, C),
           SameCall(j, j2), h \subseteq h2, DOMAIN w \subseteq DOMAIN w2,
           j.op = "rotate" => j2.at # "commit" /\ w2[j.cred] = w[j.cred],
           j.op # "reinstate_credential"
    PROVE  CredCallOK(j2, w2, h2, C)
BY DEF CredCallOK, SameCall

\* Nothing active is written before the last statement, so the index need not be asked.
LEMMA NothingActive ==
    ASSUME Inv, NEW c \in Clients, job[c] # Idle, job[c].at # "commit", NEW w, NEW row,
           Adds(writes[c], w, row),
           row \in DOMAIN w \cap CredIds => w[row].status # "active"
    PROVE  IndexAsked(c, w)
<1>1. WritesOK(job[c], writes[c], Held(locks, c), usr, cred, ses)
    BY CallParts
<1>2. ASSUME NEW r \in DOMAIN writes[c] \cap CredIds PROVE writes[c][r].status # "active"
    BY <1>1, WritesBefore DEF SameCall
<1> QED
    BY <1>2 DEF IndexAsked, Adds

----------------------------------------------------------------------------
(* The steps of the cascade. *)

\* A change of the point and of what is left to do.
LEMMA PointStep ==
    ASSUME Inv, NEW c \in Clients, job[c] # Idle, job[c].at # "commit", UNCHANGED <<db, writes, locks>>,
           NEW j \in JobType, SameCall(job[c], j), job' = [job EXCEPT ![c] = j],
           CredCallOK(j, writes[c], Held(locks, c), cred), CreateCallOK(j, writes[c]),
           SessionCallOK(j, writes[c], Held(locks, c), cred, ses), CascadeOK(j, writes[c], cred, ses)
    PROVE  Inv'
<1>1. /\ job'[c] = j /\ writes'[c] = writes[c] /\ Held(locks', c) = Held(locks, c) /\ UNCHANGED db
      /\ Adds(writes[c], writes[c], c) /\ IndexAsked(c, writes[c])
    BY DEF Inv, TypeOK, Adds, IndexAsked
<1>2. OthersKeep(c)
    BY DEF OthersKeep, Inv, TypeOK
<1>3. RowsOK(j, Held(locks, c), usr, cred, ses)
    BY CallParts DEF RowsOK, SameCall
<1>4. \A d \in Clients \ {c} : LocksApart(Held(locks, c), Held(locks, d))
    BY DEF Inv, Apart
<1> QED
    BY <1>1, <1>2, <1>3, <1>4, MoveStep


\* The steps of revoke_user over credentials.
LEMMA ScanCredsStep ==
    ASSUME Inv, NEW c \in Clients, ScanCreds(c)
    PROVE  Inv'
<1>1. PICK j : j = [job[c] EXCEPT !.at = "creds",
                        !.todo = {x \in CredIds : Active(x) /\ cred[x].usr = job[c].usr}]
    OBVIOUS
<1>2. job[c] # Idle /\ job[c] \in JobType /\ job[c].op = "revoke_user" /\ job[c].at = "scan_creds"
    BY CallParts DEF ScanCreds, At
<1>3. /\ j \in JobType /\ SameCall(job[c], j) /\ j.at = "creds"
      /\ j.todo = {x \in CredIds : Active(x) /\ cred[x].usr = job[c].usr}
    BY <1>1, <1>2 DEF JobType, SameCall, Points, Rows
<1>4. job' = [job EXCEPT ![c] = j] /\ UNCHANGED <<db, writes, locks>>
    BY <1>1 DEF ScanCreds
<1>5. /\ CredCallOK(j, writes[c], Held(locks, c), cred) /\ CreateCallOK(j, writes[c])
      /\ SessionCallOK(j, writes[c], Held(locks, c), cred, ses)
    BY <1>2, <1>3 DEF CredCallOK, CreateCallOK, SessionCallOK, SameCall, CredOps
<1>6. CascadeOK(j, writes[c], cred, ses)
    BY <1>2, <1>3 DEF CascadeOK, Cascading, ShutOps, SameCall, Active
<1> QED
    BY <1>2, <1>3, <1>4, <1>5, <1>6, PointStep

LEMMA CredsDoneStep ==
    ASSUME Inv, NEW c \in Clients, CredsDone(c)
    PROVE  Inv'
<1>1. PICK j : j = [job[c] EXCEPT !.at = "scan_sessions"]
    OBVIOUS
<1>2. job[c] # Idle /\ job[c] \in JobType /\ job[c].op = "revoke_user" /\ job[c].at = "creds"
    BY CallParts DEF CredsDone, At
<1>3. j \in JobType /\ SameCall(job[c], j) /\ j.at = "scan_sessions"
    BY <1>1, <1>2 DEF JobType, SameCall, Points
<1>4. job' = [job EXCEPT ![c] = j] /\ UNCHANGED <<db, writes, locks>>
    BY <1>1 DEF CredsDone, Goto
<1>5. /\ CredCallOK(j, writes[c], Held(locks, c), cred) /\ CreateCallOK(j, writes[c])
      /\ SessionCallOK(j, writes[c], Held(locks, c), cred, ses)
    BY <1>2, <1>3 DEF CredCallOK, CreateCallOK, SessionCallOK, SameCall, CredOps
<1>6. CascadeOK(j, writes[c], cred, ses)
    BY <1>3 DEF CascadeOK, Cascading, ShutOps
<1> QED
    BY <1>2, <1>3, <1>4, <1>5, <1>6, PointStep

\* A call that scans or updates sessions is one that shuts out, not one that lets in.
LEMMA CascadeCall ==
    ASSUME Inv, NEW c \in Clients, At(c, UserOps \cup CredOps, "scan_sessions")
                                   \/ At(c, UserOps \cup CredOps, "sessions"),
           NEW j, SameCall(job[c], j), NEW w, NEW h, Held(locks, c) \subseteq h,
           NEW row, Adds(writes[c], w, row), row \in SessionIds \/ w = writes[c],
           j.op = "rotate" => j.at # "commit"
    PROVE  /\ job[c] # Idle /\ job[c] \in JobType /\ job[c].at # "commit"
           /\ j.op \in ShutOps
           /\ CredCallOK(j, w, h, cred) /\ CreateCallOK(j, w) /\ SessionCallOK(j, w, h, cred, ses)
<1>1. job[c] # Idle /\ job[c].at \in {"scan_sessions", "sessions"} /\ job[c].op \in UserOps \cup CredOps
    BY DEF At
<1>2. /\ job[c] \in JobType /\ UserCallOK(job[c], writes[c], Held(locks, c))
      /\ CredCallOK(job[c], writes[c], Held(locks, c), cred)
    BY <1>1, CallParts
<1>3. job[c].op # "reinstate_user" /\ job[c].op # "reinstate_credential"
    BY <1>1, <1>2 DEF UserCallOK, CredCallOK, UserOps, CredOps
<1>4. CredCallOK(j, w, h, cred)
    <2>1. job[c].op = "rotate" => w[job[c].cred] = writes[c][job[c].cred]
        BY <1>2, RowsAssumption DEF CredCallOK, Adds, CredOps
    <2> QED
        BY <1>2, <1>3, <2>1, CredCallKept DEF SameCall, Adds
<1>5. CreateCallOK(j, w) /\ SessionCallOK(j, w, h, cred, ses)
    BY <1>1 DEF CreateCallOK, SessionCallOK, SameCall, UserOps, CredOps
<1> QED
    BY <1>1, <1>2, <1>3, <1>4, <1>5 DEF SameCall, ShutOps

LEMMA ScanSessionsStep ==
    ASSUME Inv, NEW c \in Clients, ScanSessions(c)
    PROVE  Inv'
<1>1. PICK j : j = [job[c] EXCEPT !.at = "sessions", !.todo = {s \in SessionIds : InScope(job[c], s)}]
    OBVIOUS
<1>2. job[c] # Idle /\ job[c] \in JobType /\ At(c, UserOps \cup CredOps, "scan_sessions")
    BY CallParts DEF ScanSessions, At
<1>3. /\ j \in JobType /\ SameCall(job[c], j) /\ j.at = "sessions"
      /\ j.todo = {s \in SessionIds : InScope(job[c], s)}
    BY <1>1, <1>2 DEF JobType, SameCall, Points, Rows
<1>4. job' = [job EXCEPT ![c] = j] /\ UNCHANGED <<db, writes, locks>>
    BY <1>1 DEF ScanSessions
<1>5. /\ job[c].at # "commit"
      /\ CredCallOK(j, writes[c], Held(locks, c), cred) /\ CreateCallOK(j, writes[c])
      /\ SessionCallOK(j, writes[c], Held(locks, c), cred, ses)
    BY <1>2, <1>3, CascadeCall DEF Adds
<1>6. CascadeOK(j, writes[c], cred, ses)
    BY <1>3 DEF CascadeOK, Cascading, ShutOps, SameCall, InScope, Scope, Live
<1> QED
    BY <1>2, <1>3, <1>4, <1>5, <1>6, PointStep

LEMMA SessionsDoneStep ==
    ASSUME Inv, NEW c \in Clients, SessionsDone(c)
    PROVE  Inv'
<1>1. PICK j : j = [job[c] EXCEPT !.at = IF job[c].op = "rotate" THEN "insert_cred" ELSE "commit"]
    OBVIOUS
<1>2. /\ job[c] # Idle /\ job[c] \in JobType /\ At(c, UserOps \cup CredOps, "sessions")
      /\ job[c].at = "sessions" /\ job[c].todo = {}
    BY CallParts DEF SessionsDone, At
<1>3. /\ j \in JobType /\ SameCall(job[c], j) /\ j.at \in {"insert_cred", "commit"}
      /\ j.op = "rotate" => j.at # "commit"
    BY <1>1, <1>2 DEF JobType, SameCall, Points
<1>4. job' = [job EXCEPT ![c] = j] /\ UNCHANGED <<db, writes, locks>>
    BY <1>1 DEF SessionsDone, Goto
<1>5. /\ job[c].at # "commit"
      /\ j.op \in ShutOps
      /\ CredCallOK(j, writes[c], Held(locks, c), cred) /\ CreateCallOK(j, writes[c])
      /\ SessionCallOK(j, writes[c], Held(locks, c), cred, ses)
    BY <1>2, <1>3, CascadeCall DEF Adds
<1>6. CascadeOK(j, writes[c], cred, ses)
    <2>1. CascadeOK(job[c], writes[c], cred, ses)
        BY <1>2, CallParts
    <2> QED
        BY <1>2, <1>3, <1>5, <2>1 DEF CascadeOK, Cascading, ShutOps, SameCall, Scope
<1> QED
    BY <1>2, <1>3, <1>4, <1>5, <1>6, PointStep


\* One statement that locks rows, which are there, and writes one row.
LEMMA LockWriteStep ==
    ASSUME Inv, NEW c \in Clients, job[c] # Idle, job[c].at # "commit", UNCHANGED db,
           NEW j \in JobType, SameCall(job[c], j), job' = [job EXCEPT ![c] = j],
           NEW row, NEW v, Write(c, row, v),
           NEW rows \in SUBSET Rows, NEW mode \in Modes, Lock(c, rows, mode),
           \A r \in rows : Free(c, r, mode),
           \/ mode = "key_share"
           \/ \A r \in rows : /\ r \in UserIds => usr[r] # None
                              /\ r \in CredIds => cred[r] # None
                              /\ r \in SessionIds => ses[r] # None,
           NEW w, w = writes'[c], NEW h, h = Held(locks, c) \cup (rows \X {mode}),
           WriteOK(j, h, row, v, usr, cred, ses),
           IndexAsked(c, w), CredCallOK(j, w, h, cred), CreateCallOK(j, w),
           SessionCallOK(j, w, h, cred, ses), CascadeOK(j, w, cred, ses)
    PROVE  Inv'
<1>1. DOMAIN writes = Clients /\ locks \subseteq Clients \X Rows \X Modes
      /\ job \in [Clients -> JobType \cup {Idle}]
    BY DEF Inv, TypeOK
<1>2. /\ DOMAIN writes' = Clients /\ \A d \in Clients \ {c} : writes'[d] = writes[d]
      /\ Adds(writes[c], w, row) /\ w[row] = v
    BY <1>1, WriteAdds
<1>3. /\ Held(locks', c) = h /\ \A d \in Clients \ {c} : Held(locks', d) = Held(locks, d)
      /\ locks' \subseteq Clients \X Rows \X Modes
    <2>1. /\ Held(locks', c) = Held(locks, c) \cup (rows \X {mode})
          /\ \A d \in Clients \ {c} : Held(locks', d) = Held(locks, d)
          /\ locks' \subseteq Clients \X Rows \X Modes
        BY <1>1, HeldAfterLock
    <2> QED
        BY <2>1
<1>4. /\ job'[c] = j /\ job' \in [Clients -> JobType \cup {Idle}]
      /\ \A d \in Clients \ {c} : job'[d] = job[d]
    BY <1>1
<1>5. OthersKeep(c)
    BY <1>2, <1>3, <1>4 DEF OthersKeep
<1>6. ASSUME NEW d \in Clients \ {c} PROVE LocksApart(h, Held(locks, d))
    <2>1. LocksApart(Held(locks, c), Held(locks, d))
        BY DEF Inv, Apart
    <2> QED
        BY <2>1, LockApart
<1>7. RowsOK(j, h, usr, cred, ses)
    <2>1. RowsOK(job[c], Held(locks, c), usr, cred, ses)
        BY CallParts
    <2> QED
        BY <2>1 DEF RowsOK, SameCall, Strong
<1> QED
    BY <1>2, <1>3, <1>4, <1>5, <1>6, <1>7, MoveStep

LEMMA UpdateCredStep ==
    ASSUME Inv, NEW c \in Clients, NEW x \in CredIds, UpdateCred(c, x)
    PROVE  Inv'
<1>1. PICK j : j = [job[c] EXCEPT !.todo = job[c].todo \ {x}]
    OBVIOUS
<1>2. /\ job[c] # Idle /\ job[c] \in JobType /\ job[c].op = "revoke_user" /\ job[c].at = "creds"
      /\ x \in job[c].todo
    BY CallParts DEF UpdateCred, At
<1>3. j \in JobType /\ SameCall(job[c], j) /\ j.at = "creds" /\ j.todo = job[c].todo \ {x}
    BY <1>1, <1>2 DEF JobType, SameCall
<1>4. job' = [job EXCEPT ![c] = j] /\ UNCHANGED db
    BY <1>1 DEF UpdateCred
<1>5. ASSUME NEW w, NEW h
      PROVE  /\ CredCallOK(j, w, h, cred) /\ CreateCallOK(j, w)
             /\ SessionCallOK(j, w, h, cred, ses)
    BY <1>2, <1>3 DEF CredCallOK, CreateCallOK, SessionCallOK, SameCall, CredOps
<1>6. ASSUME NEW w
      PROVE  CascadeOK(j, w, cred, ses)
    <2>1. CascadeOK(job[c], writes[c], cred, ses)
        BY <1>2, CallParts
    <2> QED
        BY <1>2, <1>3, <2>1 DEF CascadeOK, Cascading, ShutOps, SameCall
<1>7. CASE ~Active(x)
    <2>1. UNCHANGED <<db, writes, locks>>
        BY <1>7 DEF UpdateCred
    <2> QED
        BY <1>2, <1>3, <1>4, <1>5, <1>6, <2>1, PointStep
<1>8. CASE Active(x)
    <2>1. PICK v : v = [cred[x] EXCEPT !.status = "revoked"]
        OBVIOUS
    <2>2. Write(c, x, v) /\ Lock(c, {x}, "no_key_update") /\ Free(c, x, "no_key_update")
        BY <1>8, <2>1 DEF UpdateCred
    <2>3. PICK w, h : w = writes'[c] /\ h = Held(locks, c) \cup ({x} \X {"no_key_update"})
        OBVIOUS
    <2>4. cred[x] # None /\ cred[x] \in CredRow /\ cred[x].status = "active" /\ cred[x].usr = job[c].usr
        <3>1. CascadeOK(job[c], writes[c], cred, ses)
            BY <1>2, CallParts
        <3> QED
            BY <1>2, <1>8, <3>1 DEF Active, CascadeOK, Inv, TypeOK
    <2>5. WriteOK(j, h, x, v, usr, cred, ses)
        <3>1. Strong(h, x)
            BY <2>3 DEF Strong
        <3>2. v \in CredRow /\ v.usr = cred[x].usr /\ v.key = cred[x].key
              /\ v.replaces = cred[x].replaces /\ v.status = "revoked"
            BY <2>1, <2>4 DEF CredRow, Status
        <3>3. OldCredWrite(j, h, x, cred[x], v)
            BY <1>2, <1>3, <2>4, <3>1, <3>2 DEF OldCredWrite, SameCall
        <3> QED
            BY <2>4, <3>3, RowsAssumption DEF WriteOK, Rows
    <2>6. IndexAsked(c, w)
        <3>1. Adds(writes[c], w, x) /\ w[x] = v
            BY <2>2, <2>3, WriteAdds DEF Inv
        <3>2. w[x].status # "active"
            BY <2>1, <2>4, <3>1 DEF CredRow
        <3> QED
            BY <1>2, <3>1, <3>2, NothingActive
    <2>7. /\ {x} \in SUBSET Rows /\ "no_key_update" \in Modes
          /\ \A r \in {x} : /\ r \in UserIds => usr[r] # None
                            /\ r \in CredIds => cred[r] # None
                            /\ r \in SessionIds => ses[r] # None
          /\ \A r \in {x} : Free(c, r, "no_key_update")
        BY <2>2, <2>4, RowsAssumption DEF Rows, Modes
    <2> QED
        BY <1>2, <1>3, <1>4, <1>5, <1>6, <2>2, <2>3, <2>5, <2>6, <2>7, LockWriteStep
<1> QED
    BY <1>7, <1>8

LEMMA UpdateSessionStep ==
    ASSUME Inv, NEW c \in Clients, NEW s \in SessionIds, UpdateSession(c, s)
    PROVE  Inv'
<1>1. PICK j : j = [job[c] EXCEPT !.todo = job[c].todo \ {s}]
    OBVIOUS
<1>2. /\ job[c] # Idle /\ job[c] \in JobType /\ At(c, UserOps \cup CredOps, "sessions")
      /\ job[c].at = "sessions" /\ s \in job[c].todo
    BY CallParts DEF UpdateSession, At
<1>3. j \in JobType /\ SameCall(job[c], j) /\ j.at = "sessions" /\ j.todo = job[c].todo \ {s}
    BY <1>1, <1>2 DEF JobType, SameCall
<1>4. job' = [job EXCEPT ![c] = j] /\ UNCHANGED db
    BY <1>1 DEF UpdateSession
<1>5. ASSUME NEW w, NEW h, Held(locks, c) \subseteq h, Adds(writes[c], w, s)
      PROVE  /\ j.op \in ShutOps
             /\ CredCallOK(j, w, h, cred) /\ CreateCallOK(j, w)
             /\ SessionCallOK(j, w, h, cred, ses)
    BY <1>2, <1>3, <1>5, CascadeCall
<1>6. CascadeOK(job[c], writes[c], cred, ses)
    BY <1>2, CallParts
<1>7. CASE ~Live(s)
    <2>1. UNCHANGED <<db, writes, locks>>
        BY <1>7 DEF UpdateSession
    <2>2. CascadeOK(j, writes[c], cred, ses)
        BY <1>2, <1>3, <1>6, <1>7 DEF CascadeOK, Cascading, ShutOps, SameCall, Scope, Live
    <2>3. Adds(writes[c], writes[c], s)
        BY DEF Adds
    <2> QED
        BY <1>2, <1>3, <1>4, <1>5, <2>1, <2>2, <2>3, PointStep
<1>8. CASE Live(s)
    <2>1. PICK v : v = [ses[s] EXCEPT !.live = FALSE]
        OBVIOUS
    <2>2. Write(c, s, v) /\ Lock(c, {s}, "no_key_update") /\ Free(c, s, "no_key_update")
        BY <1>8, <2>1 DEF UpdateSession
    <2>3. PICK w, h : w = writes'[c] /\ h = Held(locks, c) \cup ({s} \X {"no_key_update"})
        OBVIOUS
    <2>4. ses[s] # None /\ ses[s] \in SesRow /\ ses[s].live /\ Scope(j, ses[s])
        <3>1. ses[s] # None /\ ses[s] \in SesRow /\ ses[s].live
            BY <1>8 DEF Live, Inv, TypeOK
        <3>2. Scope(job[c], ses[s])
            BY <1>2, <1>6 DEF CascadeOK
        <3>3. Scope(j, ses[s])
            BY <1>3, <3>2 DEF Scope, SameCall
        <3> QED
            BY <3>1, <3>3
    <2>5. Adds(writes[c], w, s) /\ s \in DOMAIN w /\ j.op \in ShutOps
        <3>1. Adds(writes[c], w, s) /\ s \in DOMAIN w
            BY <2>2, <2>3, WriteAdds DEF Inv
        <3> QED
            BY <1>5, <2>3, <3>1
    <2>6. WriteOK(j, h, s, v, usr, cred, ses)
        <3>1. Strong(h, s)
            BY <2>3 DEF Strong
        <3>2. v \in SesRow /\ v.usr = ses[s].usr /\ v.cred = ses[s].cred
              /\ v.refreshed = ses[s].refreshed /\ ~v.live
            BY <2>1, <2>4 DEF SesRow
        <3>3. OldSesWrite(j, h, s, ses[s], v)
            BY <2>4, <2>5, <3>1, <3>2 DEF OldSesWrite
        <3> QED
            BY <2>4, <3>3, RowsAssumption DEF WriteOK, Rows
    <2>7. IndexAsked(c, w)
        BY <1>2, <2>5, NothingActive, RowsAssumption
    <2>8. /\ {s} \in SUBSET Rows /\ "no_key_update" \in Modes
          /\ \A r \in {s} : /\ r \in UserIds => usr[r] # None
                            /\ r \in CredIds => cred[r] # None
                            /\ r \in SessionIds => ses[r] # None
          /\ \A r \in {s} : Free(c, r, "no_key_update")
        BY <2>2, <2>4, RowsAssumption DEF Rows, Modes
    <2>9. CascadeOK(j, w, cred, ses)
        BY <1>2, <1>3, <1>6, <2>5 DEF CascadeOK, Cascading, ShutOps, SameCall, Scope, Adds
    <2>10. CredCallOK(j, w, h, cred) /\ CreateCallOK(j, w) /\ SessionCallOK(j, w, h, cred, ses)
        BY <1>5, <2>3, <2>5
    <2> QED
        BY <1>2, <1>3, <1>4, <2>2, <2>3, <2>6, <2>7, <2>8, <2>9, <2>10, LockWriteStep
<1> QED
    BY <1>7, <1>8


----------------------------------------------------------------------------
(* The last statements, and the ends of a call. *)

\* Who is let in by the index has its new entry in order.
LEMMA EntryAsked ==
    ASSUME Inv, NEW c \in Clients, job[c] # Idle, job[c].at # "commit", NEW w, NEW row,
           Adds(writes[c], w, row), w[row].key = job[c].key,
           \A d \in Clients \ {c} : ~KeyWaits(c, d, job[c].key), ~KeyTaken(c, job[c].key)
    PROVE  IndexAsked(c, w)
<1>1. WritesOK(job[c], writes[c], Held(locks, c), usr, cred, ses)
    BY CallParts
<1>2. ASSUME NEW r \in DOMAIN writes[c] \cap CredIds PROVE writes[c][r].status # "active"
    BY <1>1, WritesBefore DEF SameCall
<1>3. ASSUME NEW x \in DOMAIN w \cap CredIds, w[x].status = "active" PROVE x = row
    BY <1>2, <1>3 DEF Adds
<1>4. ASSUME NEW y \in CredIds, IsActive(cred, y), cred[y].key = job[c].key PROVE y \in DOMAIN w
    BY <1>4 DEF KeyTaken, Active, IsActive, Adds
<1> QED
    BY <1>3, <1>4 DEF IndexAsked

\* INSERT of a credential: the index was asked, the row is new.
LEMMA InsertCredentialStep ==
    ASSUME Inv, NEW c \in Clients, InsertCredential(c)
    PROVE  Inv'
<1>1. PICK j, v : /\ j = [job[c] EXCEPT !.at = "commit"]
                  /\ v = [usr |-> job[c].usr, key |-> job[c].key, status |-> "active",
                          replaces |-> job[c].cred]
    OBVIOUS
<1>2. /\ job[c] # Idle /\ job[c] \in JobType /\ job[c].op \in {"create_credential", "rotate"}
      /\ job[c].at = "insert_cred"
    BY CallParts DEF InsertCredential, At
<1>3. j \in JobType /\ SameCall(job[c], j) /\ j.at = "commit"
    BY <1>1, <1>2 DEF JobType, SameCall, Points
<1>4. job' = [job EXCEPT ![c] = j] /\ UNCHANGED db
    BY <1>1 DEF InsertCredential, Goto
<1>5. /\ RowsOK(job[c], Held(locks, c), usr, cred, ses)
      /\ CredCallOK(job[c], writes[c], Held(locks, c), cred)
      /\ CreateCallOK(job[c], writes[c]) /\ CascadeOK(job[c], writes[c], cred, ses)
    BY <1>2, CallParts
<1>6. /\ job[c].usr \in UserIds /\ job[c].new \in CredIds /\ cred[job[c].new] = None
      /\ job[c].key \in Keys /\ job[c].cred \in CredIds \cup {None}
    <2>1. CASE job[c].op = "create_credential"
        BY <1>5, <2>1 DEF RowsOK, CreateCallOK
    <2>2. CASE job[c].op = "rotate"
        <3>1. /\ job[c].usr \in UserIds /\ job[c].new \in CredIds /\ job[c].cred \in CredIds
              /\ job[c].key = cred[job[c].cred].key /\ cred[job[c].cred] # None
            BY <1>5, <2>2 DEF CredCallOK, CredOps
        <3>2. cred[job[c].cred] \in CredRow
            BY <3>1 DEF Inv, TypeOK
        <3> QED
            BY <1>5, <3>1, <3>2 DEF RowsOK, CredRow
    <2> QED
        BY <1>2, <2>1, <2>2
<1>7. Write(c, job[c].new, v) /\ Lock(c, {job[c].usr}, "key_share") /\ Free(c, job[c].usr, "key_share")
    BY <1>1 DEF InsertCredential
<1>8. PICK w, h : w = writes'[c] /\ h = Held(locks, c) \cup ({job[c].usr} \X {"key_share"})
    OBVIOUS
<1>9. /\ Adds(writes[c], w, job[c].new) /\ w[job[c].new] = v /\ Held(locks, c) \subseteq h
      /\ job[c].new \in DOMAIN w
    <2>1. DOMAIN writes = Clients
        BY DEF Inv
    <2>2. /\ Adds(writes[c], writes'[c], job[c].new) /\ job[c].new \in DOMAIN writes'[c]
          /\ writes'[c][job[c].new] = v
        BY <2>1, <1>7, WriteAdds
    <2> QED
        BY <1>8, <2>2
<1>10. v \in CredRow /\ v.status = "active" /\ v.key = job[c].key /\ v.replaces = job[c].cred
    BY <1>1, <1>6 DEF CredRow, Status
<1>11. WriteOK(j, h, job[c].new, v, usr, cred, ses)
    BY <1>2, <1>3, <1>6, <1>10, RowsAssumption DEF WriteOK, Rows, NewCredWrite, SameCall
<1>12. IndexAsked(c, w)
    <2>1. /\ \A d \in Clients \ {c} : ~KeyWaits(c, d, job[c].key)
          /\ ~KeyTaken(c, job[c].key)
        BY DEF InsertCredential
    <2> QED
        BY <1>2, <1>9, <1>10, <2>1, EntryAsked
<1>13. CredCallOK(j, w, h, cred)
    <2>1. CASE job[c].op = "create_credential"
        BY <1>3, <2>1 DEF CredCallOK, SameCall, CredOps
    <2>2. CASE job[c].op = "rotate"
        <3>1. /\ cred[job[c].cred] # None /\ job[c].cred \in DOMAIN writes[c]
              /\ w[job[c].new].key = job[c].key
            BY <1>5, <1>9, <1>10, <2>2 DEF CredCallOK, CredOps
        <3>2. w[job[c].cred] = writes[c][job[c].cred]
            BY <1>6, <1>9, <3>1 DEF Adds
        <3> QED
            BY <1>3, <1>5, <1>9, <2>2, <3>1, <3>2 DEF CredCallOK, SameCall, Adds
    <2> QED
        BY <1>2, <2>1, <2>2
<1>14. CreateCallOK(j, w) /\ SessionCallOK(j, w, h, cred, ses)
    BY <1>2, <1>3, <1>5 DEF CreateCallOK, SessionCallOK, SameCall
<1>15. CascadeOK(j, w, cred, ses)
    BY <1>2, <1>3, <1>5, <1>9 DEF CascadeOK, Cascading, ShutOps, SameCall, Scope, Adds
<1>16. /\ {job[c].usr} \in SUBSET Rows /\ "key_share" \in Modes
       /\ \A r \in {job[c].usr} : Free(c, r, "key_share")
    BY <1>6, <1>7 DEF Rows, Modes
<1> QED
    BY <1>2, <1>3, <1>4, <1>7, <1>8, <1>11, <1>12, <1>13, <1>14, <1>15, <1>16, LockWriteStep

\* UPDATE of a suspended credential that is active again.
LEMMA ActivateStep ==
    ASSUME Inv, NEW c \in Clients, Activate(c)
    PROVE  Inv'
<1>1. PICK j, v : /\ j = [job[c] EXCEPT !.at = "commit"]
                  /\ v = [cred[job[c].cred] EXCEPT !.status = "active"]
    OBVIOUS
<1>2. /\ job[c] # Idle /\ job[c] \in JobType /\ job[c].op = "reinstate_credential"
      /\ job[c].at = "activate"
    BY CallParts DEF Activate, At
<1>3. j \in JobType /\ SameCall(job[c], j) /\ j.at = "commit"
    BY <1>1, <1>2 DEF JobType, SameCall, Points
<1>4. job' = [job EXCEPT ![c] = j] /\ UNCHANGED db
    BY <1>1 DEF Activate, Goto
<1>5. CredCallOK(job[c], writes[c], Held(locks, c), cred)
    BY <1>2, CallParts
<1>6. /\ job[c].cred \in CredIds /\ cred[job[c].cred] # None /\ cred[job[c].cred].status = "suspended"
      /\ job[c].key = cred[job[c].cred].key /\ <<job[c].cred, "update">> \in Held(locks, c)
      /\ cred[job[c].cred] \in CredRow
    BY <1>2, <1>5 DEF CredCallOK, CredOps, Inv, TypeOK
<1>7. Write(c, job[c].cred, v) /\ Lock(c, {}, "key_share")
    BY <1>1 DEF Activate, Lock
<1>8. PICK w, h : w = writes'[c] /\ h = Held(locks, c) \cup ({} \X {"key_share"})
    OBVIOUS
<1>9. Adds(writes[c], w, job[c].cred) /\ w[job[c].cred] = v /\ Held(locks, c) \subseteq h
    BY <1>7, <1>8, WriteAdds DEF Inv
<1>10. /\ v \in CredRow /\ v.status = "active" /\ v.key = job[c].key
       /\ v.usr = cred[job[c].cred].usr /\ v.key = cred[job[c].cred].key
       /\ v.replaces = cred[job[c].cred].replaces
    BY <1>1, <1>6 DEF CredRow, Status
<1>11. WriteOK(j, h, job[c].cred, v, usr, cred, ses)
    <2>1. OldCredWrite(j, h, job[c].cred, cred[job[c].cred], v)
        BY <1>2, <1>3, <1>6, <1>9, <1>10 DEF OldCredWrite, SameCall, Strong, CredOps
    <2> QED
        BY <1>6, <2>1, RowsAssumption DEF WriteOK, Rows
<1>12. IndexAsked(c, w)
    <2>1. /\ \A d \in Clients \ {c} : ~KeyWaits(c, d, job[c].key)
          /\ ~KeyTaken(c, job[c].key)
        BY DEF Activate
    <2> QED
        BY <1>2, <1>9, <1>10, <2>1, EntryAsked
<1>13. CredCallOK(j, w, h, cred)
    BY <1>2, <1>3, <1>5, <1>9 DEF CredCallOK, SameCall
<1>14. CreateCallOK(j, w) /\ SessionCallOK(j, w, h, cred, ses)
    BY <1>2, <1>3 DEF CreateCallOK, SessionCallOK, SameCall
<1>15. CascadeOK(j, w, cred, ses)
    BY <1>2, <1>3 DEF CascadeOK, Cascading, ShutOps, SameCall
<1>16. {} \in SUBSET Rows /\ "key_share" \in Modes /\ \A r \in {} : Free(c, r, "key_share")
    BY DEF Modes
<1> QED
    BY <1>2, <1>3, <1>4, <1>7, <1>8, <1>11, <1>12, <1>13, <1>14, <1>15, <1>16, LockWriteStep

\* INSERT of a session, under the key-share locks of its foreign keys.
LEMMA InsertSessionStep ==
    ASSUME Inv, NEW c \in Clients, InsertSession(c)
    PROVE  Inv'
<1>1. PICK j, v : /\ j = [job[c] EXCEPT !.at = "commit"]
                  /\ v = [usr |-> job[c].usr, cred |-> job[c].cred, live |-> TRUE,
                          refreshed |-> job[c].ses]
    OBVIOUS
<1>2. /\ job[c] # Idle /\ job[c] \in JobType /\ job[c].op \in {"create_session", "refresh_session"}
      /\ job[c].at = "insert_session"
    BY CallParts DEF InsertSession, At
<1>3. j \in JobType /\ SameCall(job[c], j) /\ j.at = "commit"
    BY <1>1, <1>2 DEF JobType, SameCall, Points
<1>4. job' = [job EXCEPT ![c] = j] /\ UNCHANGED db
    BY <1>1 DEF InsertSession, Goto
<1>5. /\ RowsOK(job[c], Held(locks, c), usr, cred, ses)
      /\ SessionCallOK(job[c], writes[c], Held(locks, c), cred, ses)
    BY <1>2, CallParts
<1>6. /\ job[c].usr \in UserIds /\ job[c].new \in SessionIds /\ ses[job[c].new] = None
      /\ job[c].cred \in CredIds /\ job[c].ses \in SessionIds \cup {None}
    BY <1>2, <1>5 DEF RowsOK, SessionCallOK, JobType
<1>7. /\ Write(c, job[c].new, v) /\ Lock(c, {job[c].usr, job[c].cred}, "key_share")
      /\ Free(c, job[c].usr, "key_share") /\ Free(c, job[c].cred, "key_share")
    BY <1>1 DEF InsertSession
<1>8. PICK w, h : /\ w = writes'[c]
                  /\ h = Held(locks, c) \cup ({job[c].usr, job[c].cred} \X {"key_share"})
    OBVIOUS
<1>9. /\ Adds(writes[c], w, job[c].new) /\ w[job[c].new] = v /\ Held(locks, c) \subseteq h
      /\ job[c].new \in DOMAIN w
      /\ <<job[c].usr, "key_share">> \in h /\ <<job[c].cred, "key_share">> \in h
    <2>1. DOMAIN writes = Clients
        BY DEF Inv
    <2>2. /\ Adds(writes[c], writes'[c], job[c].new) /\ job[c].new \in DOMAIN writes'[c]
          /\ writes'[c][job[c].new] = v
        BY <2>1, <1>7, WriteAdds
    <2>3. /\ Held(locks, c) \subseteq h
          /\ <<job[c].usr, "key_share">> \in h /\ <<job[c].cred, "key_share">> \in h
        BY <1>8
    <2> QED
        BY <1>8, <2>2, <2>3
<1>10. v \in SesRow /\ v.live /\ v.usr = job[c].usr /\ v.cred = job[c].cred /\ v.refreshed = job[c].ses
    BY <1>1, <1>6 DEF SesRow
<1>11. WriteOK(j, h, job[c].new, v, usr, cred, ses)
    <2>1. NewSesWrite(j, h, job[c].new, v)
        BY <1>2, <1>3, <1>9, <1>10 DEF NewSesWrite, SameCall
    <2> QED
        BY <1>6, <2>1, RowsAssumption DEF WriteOK, Rows
<1>12. IndexAsked(c, w)
    BY <1>2, <1>6, <1>9, NothingActive, RowsAssumption
<1>13. CredCallOK(j, w, h, cred) /\ CreateCallOK(j, w)
    BY <1>2, <1>3 DEF CreateCallOK, CredCallOK, SameCall, CredOps
<1>14. SessionCallOK(j, w, h, cred, ses)
    BY <1>2, <1>3, <1>5, <1>9 DEF SessionCallOK, SameCall, Adds
<1>15. CascadeOK(j, w, cred, ses)
    BY <1>2, <1>3 DEF CascadeOK, Cascading, ShutOps, SameCall, UserOps, CredOps
<1>16. /\ {job[c].usr, job[c].cred} \in SUBSET Rows /\ "key_share" \in Modes
       /\ \A r \in {job[c].usr, job[c].cred} : Free(c, r, "key_share")
    BY <1>6, <1>7 DEF Rows, Modes
<1> QED
    BY <1>2, <1>3, <1>4, <1>7, <1>8, <1>11, <1>12, <1>13, <1>14, <1>15, <1>16, LockWriteStep

\* A call that ends without a commit leaves nothing behind.
LEMMA EndStep ==
    ASSUME Inv, NEW c \in Clients, End(c), UNCHANGED db
    PROVE  Inv'
<1>1. /\ DOMAIN writes = Clients /\ locks \subseteq Clients \X Rows \X Modes
      /\ job \in [Clients -> JobType \cup {Idle}]
    BY DEF Inv, TypeOK
<1>2. /\ Held(locks', c) = {} /\ locks' \subseteq Clients \X Rows \X Modes
      /\ \A d \in Clients \ {c} : Held(locks', d) = Held(locks, d)
    BY <1>1, HeldAfterEnd DEF End
<1>3. job'[c] = Idle /\ writes'[c] = <<>> /\ OthersKeep(c)
    BY <1>1, <1>2 DEF End, OthersKeep
<1>4. CallOK(Idle, <<>>, {}, usr, cred, ses)
    BY DEF CallOK
<1>5. IndexAsked(c, <<>>)
    BY DEF IndexAsked
<1>6. \A d \in Clients \ {c} : LocksApart({}, Held(locks, d)) /\ NewApart(Idle, job[d])
    BY DEF LocksApart, NewApart
<1> QED
    BY <1>2, <1>3, <1>4, <1>5, <1>6, QuietStep

LEMMA ReadCredentialStep ==
    ASSUME Inv, NEW c \in Clients, ReadCredential(c)
    PROVE  Inv'
<1>1. CASE ~(Active(job[c].cred) /\ cred[job[c].cred].usr = job[c].usr)
    BY <1>1, EndStep DEF ReadCredential
<1>2. CASE Active(job[c].cred) /\ cred[job[c].cred].usr = job[c].usr
    <2>1. PICK j : j = [job[c] EXCEPT !.at = "insert_session"]
        OBVIOUS
    <2>2. /\ job[c] # Idle /\ job[c] \in JobType /\ job[c].op = "create_session"
          /\ job[c].at = "read_cred"
        BY CallParts DEF ReadCredential, At
    <2>3. j \in JobType /\ SameCall(job[c], j) /\ j.at = "insert_session"
        BY <2>1, <2>2 DEF JobType, SameCall, Points
    <2>4. job' = [job EXCEPT ![c] = j] /\ UNCHANGED <<db, writes, locks>>
        BY <1>2, <2>1 DEF ReadCredential, Goto
    <2>5. SessionCallOK(job[c], writes[c], Held(locks, c), cred, ses)
        BY <2>2, CallParts
    <2>6. CredCallOK(j, writes[c], Held(locks, c), cred) /\ CreateCallOK(j, writes[c])
        BY <2>2, <2>3 DEF CreateCallOK, CredCallOK, SameCall, CredOps
    <2>7. SessionCallOK(j, writes[c], Held(locks, c), cred, ses)
        BY <1>2, <2>2, <2>3, <2>5 DEF SessionCallOK, SameCall
    <2>8. CascadeOK(j, writes[c], cred, ses)
        BY <2>2, <2>3 DEF CascadeOK, Cascading, ShutOps, SameCall, UserOps, CredOps
    <2> QED
        BY <2>2, <2>3, <2>4, <2>6, <2>7, <2>8, PointStep
<1> QED
    BY <1>1, <1>2


----------------------------------------------------------------------------
(* The first statement of a call. *)

\* What the invariant says of an idle client.
LEMMA IdleParts ==
    ASSUME Inv, NEW c \in Clients, job[c] = Idle
    PROVE  /\ writes[c] = <<>> /\ Held(locks, c) = {}
           /\ DOMAIN writes = Clients /\ locks \subseteq Clients \X Rows \X Modes
           /\ job \in [Clients -> JobType \cup {Idle}]
<1>1. CallOK(job[c], writes[c], Held(locks, c), usr, cred, ses)
    BY DEF Inv
<1> QED
    BY <1>1 DEF CallOK, Inv, TypeOK

\* What the locking step of an idle client does.
LEMMA LockRow ==
    ASSUME NEW c \in Clients, NEW row \in Rows, Lock(c, {row}, "update"), Free(c, row, "update"),
           locks \subseteq Clients \X Rows \X Modes, Held(locks, c) = {},
           NEW h, h = {<<row, "update">>}
    PROVE  /\ Held(locks', c) = h
           /\ \A d \in Clients \ {c} : Held(locks', d) = Held(locks, d)
           /\ locks' \subseteq Clients \X Rows \X Modes
           /\ \A d \in Clients \ {c} : LocksApart(h, Held(locks, d))
<1>1. "update" \in Modes
    BY DEF Modes
<1>2. h = Held(locks, c) \cup ({row} \X {"update"})
    OBVIOUS
<1>3. PICK rows \in SUBSET Rows : rows = {row}
    OBVIOUS
<1>4. Lock(c, rows, "update") /\ \A r \in rows : Free(c, r, "update")
    BY <1>3
<1>5. /\ Held(locks', c) = Held(locks, c) \cup (rows \X {"update"})
      /\ \A d \in Clients \ {c} : Held(locks', d) = Held(locks, d)
      /\ locks' \subseteq Clients \X Rows \X Modes
    BY <1>1, <1>4, HeldAfterLock
<1>6. ASSUME NEW d \in Clients \ {c} PROVE LocksApart(h, Held(locks, d))
    <2>1. LocksApart(Held(locks, c), Held(locks, d))
        BY DEF LocksApart
    <2> QED
        BY <1>1, <1>2, <1>3, <1>4, <2>1, LockApart
<1> QED
    BY <1>2, <1>3, <1>5, <1>6

\* An id that is fresh is in no call.
LEMMA FreshApart ==
    ASSUME NEW c \in Clients, NEW j, j.new = None \/ Fresh(j.new), NEW d \in Clients \ {c}
    PROVE  NewApart(j, job[d])
BY DEF NewApart, Fresh

\* A call begins with the row that it is about, which it locks and may write.
LEMMA StartStep ==
    ASSUME Inv, NEW c \in Clients, NEW j \in JobType, NEW row \in Rows, StartLocked(c, j, row),
           /\ row \in UserIds => usr[row] # None
           /\ row \in CredIds => cred[row] # None
           /\ row \in SessionIds => ses[row] # None,
           j.new = None \/ Fresh(j.new),
           NEW v, Write(c, row, v) \/ UNCHANGED writes,
           NEW h, h = {<<row, "update">>}, NEW w, w = writes'[c],
           WriteOK(j, h, row, v, usr, cred, ses) \/ UNCHANGED writes,
           row \in CredIds => UNCHANGED writes \/ v.status # "active",
           UserCallOK(j, w, h), CredCallOK(j, w, h, cred), CreateCallOK(j, w),
           SessionCallOK(j, w, h, cred, ses), CascadeOK(j, w, cred, ses)
    PROVE  Inv'
<1>1. /\ job[c] = Idle /\ Free(c, row, "update") /\ Lock(c, {row}, "update")
      /\ job' = [job EXCEPT ![c] = j] /\ UNCHANGED db
    BY DEF StartLocked
<1>2. /\ writes[c] = <<>> /\ Held(locks, c) = {}
      /\ DOMAIN writes = Clients /\ locks \subseteq Clients \X Rows \X Modes
      /\ job \in [Clients -> JobType \cup {Idle}]
    BY <1>1, IdleParts
<1>3. /\ Held(locks', c) = h /\ locks' \subseteq Clients \X Rows \X Modes
      /\ \A d \in Clients \ {c} : Held(locks', d) = Held(locks, d)
    BY <1>1, <1>2, LockRow
<1>4. /\ DOMAIN writes' = Clients /\ \A d \in Clients \ {c} : writes'[d] = writes[d]
      /\ \A r \in DOMAIN w : r = row /\ w[r] = v /\ ~UNCHANGED writes
    <2>1. CASE UNCHANGED writes
        BY <1>2, <2>1
    <2>2. CASE Write(c, row, v) /\ ~UNCHANGED writes
        <3>1. /\ DOMAIN writes' = Clients /\ \A d \in Clients \ {c} : writes'[d] = writes[d]
              /\ writes'[c][row] = v /\ DOMAIN writes'[c] = DOMAIN writes[c] \cup {row}
            BY <1>2, <2>2, WriteAdds
        <3> QED
            BY <1>2, <2>2, <3>1
    <2> QED
        BY <2>1, <2>2
<1>5. OthersKeep(c) /\ job'[c] = j
    BY <1>1, <1>2, <1>3, <1>4 DEF OthersKeep
<1>6. ASSUME NEW d \in Clients \ {c} PROVE LocksApart(h, Held(locks, d)) /\ NewApart(j, job[d])
    BY <1>1, <1>2, LockRow, FreshApart
<1>7. CallOK(j, w, h, usr, cred, ses)
    <2>1. WritesOK(j, w, h, usr, cred, ses)
        BY <1>4, WritesAfter
    <2>2. RowsOK(j, h, usr, cred, ses)
        BY NoRowAssumption, RowsAssumption DEF RowsOK, Strong, Fresh
    <2> QED
        BY <2>1, <2>2, NoRowAssumption DEF CallOK, Idle
<1>8. IndexAsked(c, w)
    BY <1>4 DEF IndexAsked
<1> QED
    BY <1>1, <1>3, <1>5, <1>6, <1>7, <1>8, QuietStep

\* A call that begins with a read locks and writes nothing.
LEMMA BeginStep ==
    ASSUME Inv, NEW c \in Clients, job[c] = Idle, NEW j \in JobType, Fresh(j.new),
           job' = [job EXCEPT ![c] = j], UNCHANGED <<db, writes, locks>>,
           UserCallOK(j, <<>>, {}), CredCallOK(j, <<>>, {}, cred), CreateCallOK(j, <<>>),
           SessionCallOK(j, <<>>, {}, cred, ses), CascadeOK(j, <<>>, cred, ses)
    PROVE  Inv'
<1>1. /\ writes[c] = <<>> /\ Held(locks, c) = {}
      /\ DOMAIN writes = Clients /\ locks \subseteq Clients \X Rows \X Modes
      /\ job \in [Clients -> JobType \cup {Idle}]
    BY IdleParts
<1>2. /\ OthersKeep(c) /\ job'[c] = j /\ writes'[c] = <<>> /\ Held(locks', c) = {} /\ UNCHANGED db
    BY <1>1 DEF OthersKeep
<1>3. \A d \in Clients \ {c} : LocksApart({}, Held(locks, d)) /\ NewApart(j, job[d])
    BY FreshApart DEF LocksApart
<1>4. CallOK(j, <<>>, {}, usr, cred, ses)
    <2>1. WritesOK(j, <<>>, {}, usr, cred, ses)
        BY DEF WritesOK
    <2>2. RowsOK(j, {}, usr, cred, ses)
        BY DEF RowsOK, Strong, Fresh
    <2> QED
        BY <2>1, <2>2, NoRowAssumption DEF CallOK, Idle
<1>5. IndexAsked(c, <<>>)
    BY DEF IndexAsked
<1> QED
    BY <1>2, <1>3, <1>4, <1>5, QuietStep



\* The calls begin, one by one.
LEMMA SuspendUserStep ==
    ASSUME Inv, NEW c \in Clients, NEW u \in UserIds, SuspendUser(c, u)
    PROVE  Inv'
<1>1. PICK j, h, w : /\ j = Job("suspend_user", "scan_sessions", u, None, None, None, None)
                     /\ h = {<<u, "update">>} /\ w = writes'[c]
    OBVIOUS
<1>2. /\ StartLocked(c, j, u) /\ Write(c, u, "suspended") /\ usr[u] = "active"
    BY <1>1 DEF SuspendUser
<1>3. j \in JobType
    BY <1>1 DEF Job, JobType, Ops, UserOps, Points
<1>4. /\ usr[u] # None
      /\ u \in UserIds => usr[u] # None
      /\ u \in CredIds => cred[u] # None
      /\ u \in SessionIds => ses[u] # None
    BY <1>2, NoRowAssumption, RowsAssumption DEF Status
<1>5. u \in Rows /\ u \notin CredIds /\ u \notin SessionIds
    BY RowsAssumption DEF Rows
<1>6. WriteOK(j, h, u, "suspended", usr, cred, ses)
    BY <1>1, <1>2, <1>5 DEF WriteOK, UserWrite, UserOps, Job
<1>7. u \in DOMAIN w
    BY <1>1, <1>2, WriteAdds DEF Inv
<1>8. UserCallOK(j, w, h) /\ CredCallOK(j, w, h, cred) /\ CreateCallOK(j, w)
      /\ SessionCallOK(j, w, h, cred, ses) /\ CascadeOK(j, w, cred, ses) /\ j.new = None
    BY <1>1, <1>7 DEF UserCallOK, CredCallOK, CreateCallOK, SessionCallOK, CascadeOK,
                      Cascading, ShutOps, UserOps, CredOps, Job
<1> QED
    BY <1>1, <1>2, <1>3, <1>4, <1>5, <1>6, <1>8, StartStep

LEMMA ReinstateUserStep ==
    ASSUME Inv, NEW c \in Clients, NEW u \in UserIds, ReinstateUser(c, u)
    PROVE  Inv'
<1>1. PICK j, h, w : /\ j = Job("reinstate_user", "commit", u, None, None, None, None)
                     /\ h = {<<u, "update">>} /\ w = writes'[c]
    OBVIOUS
<1>2. /\ StartLocked(c, j, u) /\ Write(c, u, "active") /\ usr[u] = "suspended"
    BY <1>1 DEF ReinstateUser
<1>3. j \in JobType
    BY <1>1 DEF Job, JobType, Ops, UserOps, Points
<1>4. /\ usr[u] # None
      /\ u \in UserIds => usr[u] # None
      /\ u \in CredIds => cred[u] # None
      /\ u \in SessionIds => ses[u] # None
    BY <1>2, NoRowAssumption, RowsAssumption DEF Status
<1>5. u \in Rows /\ u \notin CredIds /\ u \notin SessionIds
    BY RowsAssumption DEF Rows
<1>6. WriteOK(j, h, u, "active", usr, cred, ses)
    BY <1>1, <1>2, <1>5 DEF WriteOK, UserWrite, UserOps, Job
<1>7. u \in DOMAIN w
    BY <1>1, <1>2, WriteAdds DEF Inv
<1>8. UserCallOK(j, w, h) /\ CredCallOK(j, w, h, cred) /\ CreateCallOK(j, w)
      /\ SessionCallOK(j, w, h, cred, ses) /\ CascadeOK(j, w, cred, ses) /\ j.new = None
    BY <1>1, <1>7 DEF UserCallOK, CredCallOK, CreateCallOK, SessionCallOK, CascadeOK,
                      Cascading, ShutOps, UserOps, CredOps, Job
<1> QED
    BY <1>1, <1>2, <1>3, <1>4, <1>5, <1>6, <1>8, StartStep

LEMMA RevokeUserStep ==
    ASSUME Inv, NEW c \in Clients, NEW u \in UserIds, RevokeUser(c, u)
    PROVE  Inv'
<1>1. PICK j, h, w : /\ j = Job("revoke_user", "scan_creds", u, None, None, None, None)
                     /\ h = {<<u, "update">>} /\ w = writes'[c]
    OBVIOUS
<1>2. /\ StartLocked(c, j, u) /\ Write(c, u, "revoked") /\ usr[u] \in {"active", "suspended"}
    BY <1>1 DEF RevokeUser
<1>3. j \in JobType
    BY <1>1 DEF Job, JobType, Ops, UserOps, Points
<1>4. /\ usr[u] # None
      /\ u \in UserIds => usr[u] # None
      /\ u \in CredIds => cred[u] # None
      /\ u \in SessionIds => ses[u] # None
    BY <1>2, NoRowAssumption, RowsAssumption DEF Status
<1>5. u \in Rows /\ u \notin CredIds /\ u \notin SessionIds
    BY RowsAssumption DEF Rows
<1>6. WriteOK(j, h, u, "revoked", usr, cred, ses)
    BY <1>1, <1>2, <1>5 DEF WriteOK, UserWrite, UserOps, Job
<1>7. u \in DOMAIN w
    BY <1>1, <1>2, WriteAdds DEF Inv
<1>8. UserCallOK(j, w, h) /\ CredCallOK(j, w, h, cred) /\ CreateCallOK(j, w)
      /\ SessionCallOK(j, w, h, cred, ses) /\ CascadeOK(j, w, cred, ses) /\ j.new = None
    BY <1>1, <1>7 DEF UserCallOK, CredCallOK, CreateCallOK, SessionCallOK, CascadeOK,
                      Cascading, ShutOps, UserOps, CredOps, Job
<1> QED
    BY <1>1, <1>2, <1>3, <1>4, <1>5, <1>6, <1>8, StartStep

LEMMA SuspendCredentialStep ==
    ASSUME Inv, NEW c \in Clients, NEW x \in CredIds, SuspendCredential(c, x)
    PROVE  Inv'
<1>1. PICK j, h, w, v : /\ j = Job("suspend_credential", "scan_sessions", None, x, None, None, None)
                        /\ h = {<<x, "update">>} /\ w = writes'[c]
                        /\ v = [cred[x] EXCEPT !.status = "suspended"]
    OBVIOUS
<1>2. StartLocked(c, j, x) /\ Write(c, x, v) /\ cred[x] # None /\ cred[x].status # "revoked"
    BY <1>1 DEF SuspendCredential, Active
<1>3. j \in JobType
    BY <1>1 DEF Job, JobType, Ops, CredOps, Points
<1>4. x \in Rows /\ x \notin UserIds /\ x \notin SessionIds /\ cred[x] \in CredRow
    BY <1>2, RowsAssumption DEF Rows, Inv, TypeOK
<1>5. /\ x \in UserIds => usr[x] # None
      /\ x \in CredIds => cred[x] # None
      /\ x \in SessionIds => ses[x] # None
    BY <1>2, <1>4
<1>6. /\ v \in CredRow /\ v.status = "suspended" /\ v.usr = cred[x].usr /\ v.key = cred[x].key
      /\ v.replaces = cred[x].replaces /\ Strong(h, x)
    BY <1>1, <1>4 DEF CredRow, Status, Strong
<1>7. WriteOK(j, h, x, v, usr, cred, ses)
    <2>1. OldCredWrite(j, h, x, cred[x], v)
        BY <1>1, <1>2, <1>6 DEF OldCredWrite, CredOps, Job
    <2> QED
        BY <1>2, <1>4, <2>1 DEF WriteOK
<1>8. x \in DOMAIN w
    BY <1>1, <1>2, WriteAdds DEF Inv
<1>9. UserCallOK(j, w, h) /\ CredCallOK(j, w, h, cred) /\ CreateCallOK(j, w)
      /\ SessionCallOK(j, w, h, cred, ses) /\ CascadeOK(j, w, cred, ses) /\ j.new = None
    BY <1>1, <1>2, <1>8 DEF UserCallOK, CredCallOK, CreateCallOK, SessionCallOK, CascadeOK,
                            Cascading, ShutOps, UserOps, CredOps, Job
<1> QED
    BY <1>1, <1>2, <1>3, <1>4, <1>5, <1>6, <1>7, <1>9, StartStep

LEMMA RevokeCredentialStep ==
    ASSUME Inv, NEW c \in Clients, NEW x \in CredIds, RevokeCredential(c, x)
    PROVE  Inv'
<1>1. PICK j, h, w, v : /\ j = Job("revoke_credential", "scan_sessions", None, x, None, None, None)
                        /\ h = {<<x, "update">>} /\ w = writes'[c]
                        /\ v = [cred[x] EXCEPT !.status = "revoked"]
    OBVIOUS
<1>2. StartLocked(c, j, x) /\ Write(c, x, v) /\ cred[x] # None /\ cred[x].status # "revoked"
    BY <1>1 DEF RevokeCredential, Active
<1>3. j \in JobType
    BY <1>1 DEF Job, JobType, Ops, CredOps, Points
<1>4. x \in Rows /\ x \notin UserIds /\ x \notin SessionIds /\ cred[x] \in CredRow
    BY <1>2, RowsAssumption DEF Rows, Inv, TypeOK
<1>5. /\ x \in UserIds => usr[x] # None
      /\ x \in CredIds => cred[x] # None
      /\ x \in SessionIds => ses[x] # None
    BY <1>2, <1>4
<1>6. /\ v \in CredRow /\ v.status = "revoked" /\ v.usr = cred[x].usr /\ v.key = cred[x].key
      /\ v.replaces = cred[x].replaces /\ Strong(h, x)
    BY <1>1, <1>4 DEF CredRow, Status, Strong
<1>7. WriteOK(j, h, x, v, usr, cred, ses)
    <2>1. OldCredWrite(j, h, x, cred[x], v)
        BY <1>1, <1>2, <1>6 DEF OldCredWrite, CredOps, Job
    <2> QED
        BY <1>2, <1>4, <2>1 DEF WriteOK
<1>8. x \in DOMAIN w
    BY <1>1, <1>2, WriteAdds DEF Inv
<1>9. UserCallOK(j, w, h) /\ CredCallOK(j, w, h, cred) /\ CreateCallOK(j, w)
      /\ SessionCallOK(j, w, h, cred, ses) /\ CascadeOK(j, w, cred, ses) /\ j.new = None
    BY <1>1, <1>2, <1>8 DEF UserCallOK, CredCallOK, CreateCallOK, SessionCallOK, CascadeOK,
                            Cascading, ShutOps, UserOps, CredOps, Job
<1> QED
    BY <1>1, <1>2, <1>3, <1>4, <1>5, <1>6, <1>7, <1>9, StartStep

LEMMA RotateStep ==
    ASSUME Inv, NEW c \in Clients, NEW x \in CredIds, NEW new \in CredIds, Rotate(c, x, new)
    PROVE  Inv'
<1>1. PICK j, h, w, v : /\ j = Job("rotate", "scan_sessions", cred[x].usr, x, cred[x].key, None, new)
                        /\ h = {<<x, "update">>} /\ w = writes'[c]
                        /\ v = [cred[x] EXCEPT !.status = "revoked"]
    OBVIOUS
<1>2. StartLocked(c, j, x) /\ Write(c, x, v) /\ cred[x] # None /\ cred[x].status # "revoked"
      /\ Fresh(new)
    BY <1>1 DEF Rotate, Active
<1>3. x \in Rows /\ x \notin UserIds /\ x \notin SessionIds /\ cred[x] \in CredRow
    BY <1>2, RowsAssumption DEF Rows, Inv, TypeOK
<1>4. j \in JobType
    BY <1>1, <1>3 DEF Job, JobType, Ops, CredOps, Points, CredRow
<1>5. /\ x \in UserIds => usr[x] # None
      /\ x \in CredIds => cred[x] # None
      /\ x \in SessionIds => ses[x] # None
    BY <1>2, <1>3
<1>6. /\ v \in CredRow /\ v.status = "revoked" /\ v.usr = cred[x].usr /\ v.key = cred[x].key
      /\ v.replaces = cred[x].replaces /\ Strong(h, x)
    BY <1>1, <1>3 DEF CredRow, Status, Strong
<1>7. WriteOK(j, h, x, v, usr, cred, ses)
    <2>1. OldCredWrite(j, h, x, cred[x], v)
        BY <1>1, <1>2, <1>6 DEF OldCredWrite, CredOps, Job
    <2> QED
        BY <1>2, <1>3, <2>1 DEF WriteOK
<1>8. x \in DOMAIN w /\ w[x] = v
    <2>1. DOMAIN writes = Clients /\ Write(c, x, v)
        BY <1>2 DEF Inv
    <2>2. x \in DOMAIN writes'[c] /\ writes'[c][x] = v
        BY <2>1, WriteAdds
    <2> QED
        BY <1>1, <2>2
<1>9. UserCallOK(j, w, h) /\ CredCallOK(j, w, h, cred) /\ CreateCallOK(j, w)
      /\ SessionCallOK(j, w, h, cred, ses) /\ CascadeOK(j, w, cred, ses) /\ Fresh(j.new)
    BY <1>1, <1>2, <1>3, <1>6, <1>8 DEF UserCallOK, CredCallOK, CreateCallOK, SessionCallOK, CascadeOK,
                            Cascading, ShutOps, UserOps, CredOps, Job, CredRow
<1> QED
    BY <1>1, <1>2, <1>3, <1>4, <1>5, <1>6, <1>7, <1>9, StartStep

LEMMA ReinstateCredentialStep ==
    ASSUME Inv, NEW c \in Clients, NEW x \in CredIds, ReinstateCredential(c, x)
    PROVE  Inv'
<1>1. PICK j, h, w : /\ j = Job("reinstate_credential", "activate", None, x, cred[x].key, None, None)
                     /\ h = {<<x, "update">>} /\ w = writes'[c]
    OBVIOUS
<1>2. StartLocked(c, j, x) /\ UNCHANGED writes /\ cred[x] # None /\ cred[x].status = "suspended"
    BY <1>1 DEF ReinstateCredential
<1>3. x \in Rows /\ x \notin UserIds /\ x \notin SessionIds /\ cred[x] \in CredRow
    BY <1>2, RowsAssumption DEF Rows, Inv, TypeOK
<1>4. j \in JobType
    BY <1>1, <1>3 DEF Job, JobType, Ops, CredOps, Points, CredRow
<1>5. /\ x \in UserIds => usr[x] # None
      /\ x \in CredIds => cred[x] # None
      /\ x \in SessionIds => ses[x] # None
    BY <1>2, <1>3
<1>6. UserCallOK(j, w, h) /\ CredCallOK(j, w, h, cred) /\ CreateCallOK(j, w)
      /\ SessionCallOK(j, w, h, cred, ses) /\ CascadeOK(j, w, cred, ses) /\ j.new = None
    BY <1>1, <1>2 DEF UserCallOK, CredCallOK, CreateCallOK, SessionCallOK, CascadeOK,
                      Cascading, ShutOps, UserOps, CredOps, Job
<1> QED
    BY <1>1, <1>2, <1>3, <1>4, <1>5, <1>6, StartStep

LEMMA RefreshSessionStep ==
    ASSUME Inv, NEW c \in Clients, NEW s \in SessionIds, NEW new \in SessionIds,
           RefreshSession(c, s, new)
    PROVE  Inv'
<1>1. PICK j, h, w, v : /\ j = Job("refresh_session", "insert_session", ses[s].usr, ses[s].cred,
                                   None, s, new)
                        /\ h = {<<s, "update">>} /\ w = writes'[c]
                        /\ v = [ses[s] EXCEPT !.live = FALSE]
    OBVIOUS
<1>2. /\ StartLocked(c, j, s) /\ Write(c, s, v) /\ ses[s] # None /\ ses[s].live /\ Fresh(new)
    BY <1>1 DEF RefreshSession, Live
<1>3. /\ s \in Rows /\ s \notin UserIds /\ s \notin CredIds /\ ses[s] \in SesRow
      /\ cred[ses[s].cred] # None /\ cred[ses[s].cred].usr = ses[s].usr
    BY <1>2, RowsAssumption DEF Rows, Inv, TypeOK, TableOK
<1>4. j \in JobType
    BY <1>1, <1>3 DEF Job, JobType, Ops, Points, SesRow
<1>5. /\ s \in UserIds => usr[s] # None
      /\ s \in CredIds => cred[s] # None
      /\ s \in SessionIds => ses[s] # None
    BY <1>2, <1>3
<1>6. /\ v \in SesRow /\ ~v.live /\ v.usr = ses[s].usr /\ v.cred = ses[s].cred
      /\ v.refreshed = ses[s].refreshed /\ Strong(h, s)
    BY <1>1, <1>3 DEF SesRow, Strong
<1>7. WriteOK(j, h, s, v, usr, cred, ses)
    <2>1. OldSesWrite(j, h, s, ses[s], v)
        BY <1>1, <1>2, <1>6 DEF OldSesWrite, Job
    <2> QED
        BY <1>2, <1>3, <2>1 DEF WriteOK
<1>8. s \in DOMAIN w
    BY <1>1, <1>2, WriteAdds DEF Inv
<1>9. UserCallOK(j, w, h) /\ CredCallOK(j, w, h, cred) /\ CreateCallOK(j, w)
      /\ SessionCallOK(j, w, h, cred, ses) /\ CascadeOK(j, w, cred, ses) /\ Fresh(j.new)
    BY <1>1, <1>2, <1>3, <1>8 DEF UserCallOK, CredCallOK, CreateCallOK, SessionCallOK, CascadeOK,
                                  Cascading, ShutOps, UserOps, CredOps, Job, SesRow
<1> QED
    BY <1>1, <1>2, <1>3, <1>4, <1>5, <1>7, <1>9, StartStep

LEMMA CreateCredentialStep ==
    ASSUME Inv, NEW c \in Clients, NEW u \in UserIds, NEW k \in Keys, NEW new \in CredIds,
           CreateCredential(c, u, k, new)
    PROVE  Inv'
<1>1. PICK j : j = Job("create_credential", "insert_cred", u, None, k, None, new)
    OBVIOUS
<1>2. job[c] = Idle /\ Fresh(j.new) /\ job' = [job EXCEPT ![c] = j] /\ UNCHANGED <<db, writes, locks>>
    BY <1>1 DEF CreateCredential, Job
<1>3. j \in JobType
    BY <1>1 DEF Job, JobType, Ops, Points
<1>4. UserCallOK(j, <<>>, {}) /\ CredCallOK(j, <<>>, {}, cred) /\ CreateCallOK(j, <<>>)
      /\ SessionCallOK(j, <<>>, {}, cred, ses) /\ CascadeOK(j, <<>>, cred, ses)
    BY <1>1 DEF UserCallOK, CredCallOK, CreateCallOK, SessionCallOK, CascadeOK,
                Cascading, ShutOps, UserOps, CredOps, Job
<1> QED
    BY <1>2, <1>3, <1>4, BeginStep

LEMMA CreateSessionStep ==
    ASSUME Inv, NEW c \in Clients, NEW u \in UserIds, NEW x \in CredIds, NEW new \in SessionIds,
           CreateSession(c, u, x, new)
    PROVE  Inv'
<1>1. PICK j : j = Job("create_session", "read_cred", u, x, None, None, new)
    OBVIOUS
<1>2. /\ job[c] = Idle /\ Fresh(j.new) /\ cred[x] # None
      /\ job' = [job EXCEPT ![c] = j] /\ UNCHANGED <<db, writes, locks>>
    BY <1>1 DEF CreateSession, Job
<1>3. j \in JobType
    BY <1>1 DEF Job, JobType, Ops, Points
<1>4. UserCallOK(j, <<>>, {}) /\ CredCallOK(j, <<>>, {}, cred) /\ CreateCallOK(j, <<>>)
      /\ SessionCallOK(j, <<>>, {}, cred, ses) /\ CascadeOK(j, <<>>, cred, ses)
    BY <1>1, <1>2 DEF UserCallOK, CredCallOK, CreateCallOK, SessionCallOK, CascadeOK,
                      Cascading, ShutOps, UserOps, CredOps, Job
<1> QED
    BY <1>2, <1>3, <1>4, BeginStep


----------------------------------------------------------------------------
(* The steps that change the tables. *)

\* Each client is through with its call, or it has not moved and does not notice.
LEMMA TablesStep ==
    ASSUME Inv, DOMAIN writes' = Clients, locks' \subseteq Clients \X Rows \X Modes,
           job' \in [Clients -> JobType \cup {Idle}], TableOK(usr, cred, ses)',
           UniqueActiveKey', ReplacedOnce', NEW Kept \in SUBSET Clients,
           \A d \in Clients \ Kept : job'[d] = Idle /\ writes'[d] = <<>> /\ Held(locks', d) = {},
           \A d \in Kept :
              /\ job'[d] = job[d] /\ writes'[d] = writes[d] /\ Held(locks', d) = Held(locks, d)
              /\ job[d] # Idle => Untouched(job[d], Held(locks, d), usr, cred, ses, usr', cred', ses')
              /\ KeyOwned(writes[d], cred'),
           \A d \in Kept : \A e \in Kept \ {d} : KeysApart(writes[d], writes[e], cred')
    PROVE  Inv'
<1>1. CallOK(Idle, <<>>, {}, usr', cred', ses') /\ KeyOwned(<<>>, cred')
    BY DEF CallOK, KeyOwned
<1>2. ASSUME NEW d \in Clients
      PROVE  /\ CallOK(job'[d], writes'[d], Held(locks', d), usr', cred', ses')
             /\ KeyOwned(writes'[d], cred')
    <2>1. CASE d \notin Kept
        BY <1>1, <2>1
    <2>2. CASE d \in Kept
        <3>1. CallOK(job[d], writes[d], Held(locks, d), usr, cred, ses)
            BY DEF Inv
        <3>2. CallOK(job[d], writes[d], Held(locks, d), usr', cred', ses')
            <4>1. CASE job[d] = Idle
                BY <3>1, <4>1 DEF CallOK
            <4>2. CASE job[d] # Idle
                <5>1. Untouched(job[d], Held(locks, d), usr, cred, ses, usr', cred', ses')
                    BY <2>2, <4>2
                <5> QED
                    BY <3>1, <5>1, CallUntouched
            <4> QED
                BY <4>1, <4>2
        <3> QED
            BY <2>2, <3>2
    <2> QED
        BY <2>1, <2>2
<1>3. ASSUME NEW d \in Clients, NEW e \in Clients \ {d}
      PROVE  Apart(job'[d], writes'[d], Held(locks', d), job'[e], writes'[e], Held(locks', e), cred')
    <2>1. CASE d \in Kept /\ e \in Kept
        <3>1. Apart(job[d], writes[d], Held(locks, d), job[e], writes[e], Held(locks, e), cred)
            BY DEF Inv
        <3>2. KeysApart(writes[d], writes[e], cred') /\ KeysApart(writes[e], writes[d], cred')
            BY <2>1
        <3> QED
            BY <2>1, <3>1, <3>2 DEF Apart
    <2>2. CASE d \notin Kept
        <3>1. job'[d] = Idle /\ writes'[d] = <<>> /\ Held(locks', d) = {}
            BY <2>2
        <3> QED
            BY <3>1 DEF Apart, LocksApart, NewApart, KeysApart
    <2>3. CASE e \notin Kept
        <3>1. job'[e] = Idle /\ writes'[e] = <<>> /\ Held(locks', e) = {}
            BY <2>3
        <3> QED
            BY <3>1 DEF Apart, LocksApart, NewApart, KeysApart
    <2> QED
        BY <2>1, <2>2, <2>3
<1>4. ASSUME NEW d \in Clients
      PROVE  /\ DOMAIN writes'[d] \subseteq Rows
             /\ job'[d] = Idle => writes'[d] = <<>> /\ \A l \in locks' : l[1] # d
             /\ \A r \in DOMAIN writes'[d] :
                   \/ r \in CredIds /\ cred'[r] = None
                   \/ r \in SessionIds /\ ses'[r] = None
                   \/ \E m \in {"update", "no_key_update"} : <<d, r, m>> \in locks'
    <2>1. /\ DOMAIN writes'[d] \subseteq Rows
          /\ \A r \in DOMAIN writes'[d] : \/ r \in CredIds /\ cred'[r] = None
                                          \/ r \in SessionIds /\ ses'[r] = None
                                          \/ Strong(Held(locks', d), r)
          /\ job'[d] = Idle => writes'[d] = <<>> /\ Held(locks', d) = {}
        BY <1>2, WritesTyped
    <2>2. /\ Held(locks', d) = {} => \A l \in locks' : l[1] # d
          /\ \A r : Strong(Held(locks', d), r) =>
                       \E m \in {"update", "no_key_update"} : <<d, r, m>> \in locks'
        BY HeldTyped
    <2> QED
        BY <2>1, <2>2
<1>5. TypeOK'
    BY <1>4 DEF TypeOK, TableOK
<1> QED
    BY <1>2, <1>3, <1>5 DEF Inv

\* A new user is locked by nobody.
LEMMA CreateUserStep ==
    ASSUME Inv, NEW u \in UserIds, CreateUser(u)
    PROVE  Inv'
<1>1. /\ usr[u] = None /\ usr' = [usr EXCEPT ![u] = "active"]
      /\ UNCHANGED <<cred, ses, job, writes, locks>>
    BY DEF CreateUser
<1>2. /\ DOMAIN writes' = Clients /\ locks' \subseteq Clients \X Rows \X Modes
      /\ job' \in [Clients -> JobType \cup {Idle}] /\ usr \in [UserIds -> Status \cup {None}]
    BY <1>1 DEF Inv, TypeOK
<1>3. TableOK(usr, cred, ses)'
    BY <1>1, <1>2 DEF Inv, TableOK, Status
<1>4. UniqueActiveKey' /\ ReplacedOnce'
    BY <1>1 DEF Inv, UniqueActiveKey, ReplacedOnce, Active
<1>5. ASSUME NEW d \in Clients, job[d] # Idle
      PROVE  Untouched(job[d], Held(locks, d), usr, cred, ses, usr', cred', ses')
    <2>1. RowsOK(job[d], Held(locks, d), usr, cred, ses)
        BY <1>5, CallParts
    <2>2. ASSUME NEW q \in UserIds
          PROVE  /\ usr[q] # None => usr'[q] # None
                 /\ Strong(Held(locks, d), q) => usr'[q] = usr[q]
        BY <1>1, <1>2, <2>1, NoRowAssumption DEF RowsOK, Status
    <2>3. /\ job[d].new \in CredIds => cred[job[d].new] = None
          /\ job[d].new \in SessionIds => ses[job[d].new] = None
        BY <2>1 DEF RowsOK
    <2> QED
        BY <1>1, <2>2, <2>3 DEF Untouched
<1>6. ASSUME NEW d \in Clients
      PROVE  /\ job'[d] = job[d] /\ writes'[d] = writes[d] /\ Held(locks', d) = Held(locks, d)
             /\ KeyOwned(writes[d], cred')
             /\ \A e \in Clients \ {d} : KeysApart(writes[d], writes[e], cred')
    BY <1>1 DEF Inv, Apart
<1> QED
    BY <1>2, <1>3, <1>4, <1>5, <1>6, TablesStep

\* A session that is revoked on its own is written by nobody else.
LEMMA RevokeSessionStep ==
    ASSUME Inv, NEW c \in Clients, NEW s \in SessionIds, RevokeSession(c, s)
    PROVE  Inv'
<1>1. /\ job[c] = Idle /\ ses[s] # None /\ Free(c, s, "no_key_update")
      /\ ses' = [ses EXCEPT ![s].live = FALSE]
      /\ UNCHANGED <<usr, cred, job, writes, locks>>
    BY DEF RevokeSession, Live
<1>2. /\ DOMAIN writes' = Clients /\ locks' \subseteq Clients \X Rows \X Modes
      /\ job' \in [Clients -> JobType \cup {Idle}] /\ ses \in [SessionIds -> SesRow \cup {None}]
    BY <1>1 DEF Inv, TypeOK
<1>3. ASSUME NEW r \in SessionIds
      PROVE  /\ r # s => ses'[r] = ses[r]
             /\ ses[r] = None => ses'[r] = None
             /\ ses[r] # None => /\ ses'[r] # None /\ ses'[r] \in SesRow
                                 /\ ses'[r].usr = ses[r].usr /\ ses'[r].cred = ses[r].cred
                                 /\ ses'[r].refreshed = ses[r].refreshed
                                 /\ ses'[r].live => ses[r].live
    <2>1. CASE r # s
        BY <1>1, <1>2, <2>1
    <2>2. CASE r = s
        <3>1. ses[s] \in SesRow /\ ses'[s] = [ses[s] EXCEPT !.live = FALSE]
            BY <1>1, <1>2
        <3>2. /\ ses'[s] \in SesRow /\ ses'[s].usr = ses[s].usr /\ ses'[s].cred = ses[s].cred
              /\ ses'[s].refreshed = ses[s].refreshed /\ ~ses'[s].live
            BY <3>1 DEF SesRow
        <3> QED
            BY <1>1, <2>2, <3>2, NoRowAssumption
    <2> QED
        BY <2>1, <2>2
<1>4. ses' \in [SessionIds -> SesRow \cup {None}]
    BY <1>1, <1>2, <1>3
<1>5. TableOK(usr, cred, ses)'
    <2>1. TableOK(usr, cred, ses)
        BY DEF Inv
    <2>2. \A r \in SessionIds : ses[r] # None => ses[r].refreshed \in SessionIds \cup {None}
        BY <1>2 DEF SesRow
    <2>3. ASSUME NEW r \in SessionIds, ses'[r] # None
          PROVE  /\ cred'[ses'[r].cred] # None /\ cred'[ses'[r].cred].usr = ses'[r].usr
                 /\ ses'[r].refreshed # None =>
                       ses'[ses'[r].refreshed] # None /\ ~ses'[ses'[r].refreshed].live
        BY <1>1, <1>3, <2>1, <2>2, <2>3 DEF TableOK
    <2> QED
        BY <1>1, <1>4, <2>1, <2>3 DEF TableOK
<1>6. UniqueActiveKey' /\ ReplacedOnce'
    <2>1. UniqueActiveKey /\ ReplacedOnce
        BY DEF Inv
    <2>2. UniqueActiveKey'
        BY <1>1, <2>1 DEF UniqueActiveKey, Active
    <2>3. ASSUME NEW q \in SessionIds, NEW r \in SessionIds, ses'[q] # None, ses'[r] # None,
                 ses'[q].refreshed # None, ses'[q].refreshed = ses'[r].refreshed
          PROVE  q = r
        BY <1>3, <2>1, <2>3 DEF ReplacedOnce
    <2> QED
        BY <1>1, <2>1, <2>2, <2>3 DEF ReplacedOnce
<1>7. ASSUME NEW d \in Clients, job[d] # Idle
      PROVE  Untouched(job[d], Held(locks, d), usr, cred, ses, usr', cred', ses')
    <2>1. RowsOK(job[d], Held(locks, d), usr, cred, ses)
        BY <1>7, CallParts
    <2>2. ~Strong(Held(locks, d), s)
        <3>1. ASSUME NEW m \in Modes, <<s, m>> \in Held(locks, d) PROVE Compatible(m, "no_key_update")
            <4>1. <<d, s, m>> \in locks
                BY <3>1 DEF Held
            <4>2. <<d, s, m>>[1] = d /\ <<d, s, m>>[2] = s /\ <<d, s, m>>[3] = m
                OBVIOUS
            <4> QED
                BY <1>1, <1>7, <4>1, <4>2 DEF Free, Blocks
        <3> QED
            BY <3>1, CompatibleFacts DEF Strong, Modes
    <2>3. /\ job[d].new \in CredIds => cred[job[d].new] = None
          /\ job[d].new \in SessionIds => ses'[job[d].new] = None
        BY <1>3, <2>1 DEF RowsOK
    <2> QED
        BY <1>1, <1>3, <2>2, <2>3 DEF Untouched
<1>8. ASSUME NEW d \in Clients
      PROVE  /\ job'[d] = job[d] /\ writes'[d] = writes[d] /\ Held(locks', d) = Held(locks, d)
             /\ KeyOwned(writes[d], cred')
             /\ \A e \in Clients \ {d} : KeysApart(writes[d], writes[e], cred')
    BY <1>1 DEF Inv, Apart
<1> QED
    BY <1>2, <1>5, <1>6, <1>7, <1>8, TablesStep


----------------------------------------------------------------------------
(* The commit. *)

\* What the committing call has written, row by row.
LEMMA CommitFacts ==
    ASSUME Inv, NEW c \in Clients, Commit(c)
    PROVE  /\ job[c] # Idle /\ job[c].at = "commit"
           /\ \A u \in UserIds :
                 \/ u \notin DOMAIN writes[c] /\ usr'[u] = usr[u]
                 \/ /\ u \in DOMAIN writes[c] /\ usr'[u] = writes[c][u] /\ u = job[c].usr
                    /\ UserWrite(job[c], Held(locks, c), usr[u], usr'[u])
           /\ \A x \in CredIds :
                 \/ x \notin DOMAIN writes[c] /\ cred'[x] = cred[x]
                 \/ /\ x \in DOMAIN writes[c] /\ cred'[x] = writes[c][x] /\ cred[x] = None
                    /\ NewCredWrite(job[c], x, cred'[x])
                 \/ /\ x \in DOMAIN writes[c] /\ cred'[x] = writes[c][x] /\ cred[x] # None
                    /\ OldCredWrite(job[c], Held(locks, c), x, cred[x], cred'[x])
           /\ \A s \in SessionIds :
                 \/ s \notin DOMAIN writes[c] /\ ses'[s] = ses[s]
                 \/ /\ s \in DOMAIN writes[c] /\ ses'[s] = writes[c][s] /\ ses[s] = None
                    /\ NewSesWrite(job[c], Held(locks, c), s, ses'[s])
                 \/ /\ s \in DOMAIN writes[c] /\ ses'[s] = writes[c][s] /\ ses[s] # None
                    /\ OldSesWrite(job[c], Held(locks, c), s, ses[s], ses'[s])
           /\ usr' = [u \in UserIds |-> usr'[u]] /\ cred' = [x \in CredIds |-> cred'[x]]
           /\ ses' = [s \in SessionIds |-> ses'[s]]
<1>1. job[c] # Idle /\ job[c].at = "commit"
    BY DEF Commit, At
<1>2. WritesOK(job[c], writes[c], Held(locks, c), usr, cred, ses)
    BY <1>1, CallParts
<1>3. /\ usr' = [u \in UserIds |-> IF u \in DOMAIN writes[c] THEN writes[c][u] ELSE usr[u]]
      /\ cred' = [x \in CredIds |-> IF x \in DOMAIN writes[c] THEN writes[c][x] ELSE cred[x]]
      /\ ses' = [s \in SessionIds |-> IF s \in DOMAIN writes[c] THEN writes[c][s] ELSE ses[s]]
    BY DEF Commit, Committed, Inv, TypeOK
<1>4. ASSUME NEW u \in UserIds
      PROVE  \/ u \notin DOMAIN writes[c] /\ usr'[u] = usr[u]
             \/ /\ u \in DOMAIN writes[c] /\ usr'[u] = writes[c][u] /\ u = job[c].usr
                /\ UserWrite(job[c], Held(locks, c), usr[u], usr'[u])
    BY <1>2, <1>3 DEF WritesOK
<1>5. ASSUME NEW x \in CredIds
      PROVE  \/ x \notin DOMAIN writes[c] /\ cred'[x] = cred[x]
             \/ /\ x \in DOMAIN writes[c] /\ cred'[x] = writes[c][x] /\ cred[x] = None
                /\ NewCredWrite(job[c], x, cred'[x])
             \/ /\ x \in DOMAIN writes[c] /\ cred'[x] = writes[c][x] /\ cred[x] # None
                /\ OldCredWrite(job[c], Held(locks, c), x, cred[x], cred'[x])
    BY <1>2, <1>3 DEF WritesOK
<1>6. ASSUME NEW s \in SessionIds
      PROVE  \/ s \notin DOMAIN writes[c] /\ ses'[s] = ses[s]
             \/ /\ s \in DOMAIN writes[c] /\ ses'[s] = writes[c][s] /\ ses[s] = None
                /\ NewSesWrite(job[c], Held(locks, c), s, ses'[s])
             \/ /\ s \in DOMAIN writes[c] /\ ses'[s] = writes[c][s] /\ ses[s] # None
                /\ OldSesWrite(job[c], Held(locks, c), s, ses[s], ses'[s])
    BY <1>2, <1>3 DEF WritesOK
<1>7. /\ usr' = [u \in UserIds |-> usr'[u]] /\ cred' = [x \in CredIds |-> cred'[x]]
      /\ ses' = [s \in SessionIds |-> ses'[s]]
    BY <1>3
<1> QED
    BY <1>1, <1>4, <1>5, <1>6, <1>7

\* What was there stays, with what never changes of it.
LEMMA CommitKeeps ==
    ASSUME Inv, NEW c \in Clients, Commit(c)
    PROVE  /\ \A u \in UserIds : usr[u] # None => usr'[u] # None
           /\ \A x \in CredIds : cred[x] # None =>
                 /\ cred'[x] # None /\ cred'[x].usr = cred[x].usr /\ cred'[x].key = cred[x].key
                 /\ cred'[x].replaces = cred[x].replaces
                 /\ cred[x].status = "revoked" => cred'[x] = cred[x]
           /\ \A s \in SessionIds : ses[s] # None =>
                 /\ ses'[s] # None /\ ses'[s].usr = ses[s].usr /\ ses'[s].cred = ses[s].cred
                 /\ ses'[s].refreshed = ses[s].refreshed
                 /\ ~ses[s].live => ses'[s] = ses[s]
<1>1. ASSUME NEW u \in UserIds, usr[u] # None PROVE usr'[u] # None
    <2>1. \/ usr'[u] = usr[u]
          \/ UserWrite(job[c], Held(locks, c), usr[u], usr'[u])
        BY CommitFacts
    <2> QED
        BY <1>1, <2>1, NoRowAssumption DEF UserWrite, Status, UserOps
<1>2. ASSUME NEW x \in CredIds, cred[x] # None
      PROVE  /\ cred'[x] # None /\ cred'[x].usr = cred[x].usr /\ cred'[x].key = cred[x].key
             /\ cred'[x].replaces = cred[x].replaces
             /\ cred[x].status = "revoked" => cred'[x] = cred[x]
    <2>1. \/ cred'[x] = cred[x]
          \/ OldCredWrite(job[c], Held(locks, c), x, cred[x], cred'[x])
        BY <1>2, CommitFacts
    <2> QED
        BY <1>2, <2>1, NoRowAssumption DEF OldCredWrite
<1>3. ASSUME NEW s \in SessionIds, ses[s] # None
      PROVE  /\ ses'[s] # None /\ ses'[s].usr = ses[s].usr /\ ses'[s].cred = ses[s].cred
             /\ ses'[s].refreshed = ses[s].refreshed
             /\ ~ses[s].live => ses'[s] = ses[s]
    <2>1. \/ ses'[s] = ses[s]
          \/ OldSesWrite(job[c], Held(locks, c), s, ses[s], ses'[s])
        BY <1>3, CommitFacts
    <2> QED
        BY <1>3, <2>1, NoRowAssumption DEF OldSesWrite
<1> QED
    BY <1>1, <1>2, <1>3

\* What is new: a credential that replaces one revoked at this commit or none, and
\* a session that replaces one revoked at this commit or none.
LEMMA CommitNew ==
    ASSUME Inv, NEW c \in Clients, Commit(c)
    PROVE  /\ \A x \in CredIds : cred[x] = None /\ cred'[x] # None =>
                 /\ x = job[c].new /\ cred'[x] \in CredRow /\ cred'[x].replaces = job[c].cred
                 /\ cred'[x].replaces # None =>
                       LET r == job[c].cred
                       IN  /\ r \in CredIds /\ cred[r] # None /\ cred'[r].status = "revoked"
                           /\ cred[r].status # "revoked"
           /\ \A s \in SessionIds : ses[s] = None /\ ses'[s] # None =>
                 /\ s = job[c].new /\ ses'[s] \in SesRow /\ ses'[s].refreshed = job[c].ses
                 /\ cred'[ses'[s].cred] # None /\ cred'[ses'[s].cred].usr = ses'[s].usr
                 /\ ses'[s].refreshed # None =>
                       LET r == job[c].ses
                       IN  /\ r \in SessionIds /\ ses[r] # None /\ ~ses'[r].live
                           /\ ses[r].live
<1>0. job[c] # Idle /\ job[c].at = "commit"
    BY CommitFacts
<1>1. /\ CredCallOK(job[c], writes[c], Held(locks, c), cred) /\ CreateCallOK(job[c], writes[c])
      /\ SessionCallOK(job[c], writes[c], Held(locks, c), cred, ses)
    BY <1>0, CallParts
<1>2. ASSUME NEW x \in CredIds, cred[x] = None, cred'[x] # None
      PROVE  /\ x = job[c].new /\ cred'[x] \in CredRow /\ cred'[x].replaces = job[c].cred
             /\ cred'[x].replaces # None =>
                   LET r == job[c].cred
                   IN  /\ r \in CredIds /\ cred[r] # None /\ cred'[r].status = "revoked"
                       /\ cred[r].status # "revoked"
    <2>1. NewCredWrite(job[c], x, cred'[x])
        BY <1>2, CommitFacts
    <2>2. ASSUME job[c].op = "rotate"
          PROVE  LET r == job[c].cred
                 IN  /\ r \in CredIds /\ cred[r] # None /\ cred'[r].status = "revoked"
                     /\ cred[r].status # "revoked"
        <3>1. /\ job[c].cred \in CredIds /\ cred[job[c].cred] # None
              /\ job[c].cred \in DOMAIN writes[c] /\ writes[c][job[c].cred].status = "revoked"
            BY <1>1, <2>2 DEF CredCallOK, CredOps
        <3>2. /\ OldCredWrite(job[c], Held(locks, c), job[c].cred, cred[job[c].cred], cred'[job[c].cred])
              /\ cred'[job[c].cred] = writes[c][job[c].cred]
            BY <3>1, CommitFacts
        <3> QED
            BY <3>1, <3>2 DEF OldCredWrite
    <2>3. job[c].op = "create_credential" => job[c].cred = None
        BY <1>1 DEF CreateCallOK
    <2> QED
        BY <2>1, <2>2, <2>3 DEF NewCredWrite
<1>3. ASSUME NEW s \in SessionIds, ses[s] = None, ses'[s] # None
      PROVE  /\ s = job[c].new /\ ses'[s] \in SesRow /\ ses'[s].refreshed = job[c].ses
             /\ cred'[ses'[s].cred] # None /\ cred'[ses'[s].cred].usr = ses'[s].usr
             /\ ses'[s].refreshed # None =>
                   LET r == job[c].ses
                   IN  /\ r \in SessionIds /\ ses[r] # None /\ ~ses'[r].live
                       /\ ses[r].live
    <2>1. NewSesWrite(job[c], Held(locks, c), s, ses'[s])
        BY <1>3, CommitFacts
    <2>2. ASSUME job[c].op = "refresh_session"
          PROVE  LET r == job[c].ses
                 IN  /\ r \in SessionIds /\ ses[r] # None /\ ~ses'[r].live /\ ses[r].live
        <3>1. /\ job[c].ses \in SessionIds /\ ses[job[c].ses] # None
              /\ job[c].ses \in DOMAIN writes[c]
            BY <1>1, <2>2 DEF SessionCallOK
        <3>2. OldSesWrite(job[c], Held(locks, c), job[c].ses, ses[job[c].ses], ses'[job[c].ses])
            BY <3>1, CommitFacts
        <3> QED
            BY <3>1, <3>2 DEF OldSesWrite
    <2>3. job[c].op = "create_session" => job[c].ses = None
        BY <1>1 DEF SessionCallOK
    <2>4. cred'[ses'[s].cred] # None /\ cred'[ses'[s].cred].usr = ses'[s].usr
        <3>1. job[c].cred \in CredIds /\ cred[job[c].cred] # None /\ cred[job[c].cred].usr = job[c].usr
            BY <1>0, <1>1, <2>1 DEF SessionCallOK, NewSesWrite
        <3>2. cred'[job[c].cred] # None /\ cred'[job[c].cred].usr = job[c].usr
            BY <3>1, CommitKeeps
        <3> QED
            BY <2>1, <3>2 DEF NewSesWrite
    <2> QED
        BY <2>1, <2>2, <2>3, <2>4 DEF NewSesWrite
<1> QED
    BY <1>2, <1>3


\* A commit keeps the tables in order.
LEMMA CommitTables ==
    ASSUME Inv, NEW c \in Clients, Commit(c)
    PROVE  TableOK(usr, cred, ses)'
<1>0. TableOK(usr, cred, ses)
    BY DEF Inv
<1>1. usr' \in [UserIds -> Status \cup {None}]
    <2>1. ASSUME NEW u \in UserIds PROVE usr'[u] \in Status \cup {None}
        <3>1. usr'[u] = usr[u] \/ UserWrite(job[c], Held(locks, c), usr[u], usr'[u])
            BY CommitFacts
        <3> QED
            BY <1>0, <3>1 DEF TableOK, UserWrite, UserOps, Status
    <2> QED
        BY <2>1, CommitFacts
<1>2. cred' \in [CredIds -> CredRow \cup {None}]
    <2>1. ASSUME NEW x \in CredIds PROVE cred'[x] \in CredRow \cup {None}
        <3>1. \/ cred'[x] = cred[x] \/ NewCredWrite(job[c], x, cred'[x])
              \/ OldCredWrite(job[c], Held(locks, c), x, cred[x], cred'[x])
            BY CommitFacts
        <3> QED
            BY <1>0, <3>1 DEF TableOK, NewCredWrite, OldCredWrite
    <2> QED
        BY <2>1, CommitFacts
<1>3. ses' \in [SessionIds -> SesRow \cup {None}]
    <2>1. ASSUME NEW s \in SessionIds PROVE ses'[s] \in SesRow \cup {None}
        <3>1. \/ ses'[s] = ses[s] \/ NewSesWrite(job[c], Held(locks, c), s, ses'[s])
              \/ OldSesWrite(job[c], Held(locks, c), s, ses[s], ses'[s])
            BY CommitFacts
        <3> QED
            BY <1>0, <3>1 DEF TableOK, NewSesWrite, OldSesWrite
    <2> QED
        BY <2>1, CommitFacts
<1>4. ASSUME NEW s \in SessionIds, ses'[s] # None
      PROVE  cred'[ses'[s].cred] # None /\ cred'[ses'[s].cred].usr = ses'[s].usr
    <2>1. CASE ses[s] = None
        BY <1>4, <2>1, CommitNew
    <2>2. CASE ses[s] # None
        <3>1. ses[s].cred \in CredIds /\ cred[ses[s].cred] # None /\ cred[ses[s].cred].usr = ses[s].usr
            BY <1>0, <2>2 DEF TableOK, SesRow
        <3> QED
            BY <2>2, <3>1, CommitKeeps
    <2> QED
        BY <2>1, <2>2
<1>5. ASSUME NEW x \in CredIds, cred'[x] # None, cred'[x].replaces # None
      PROVE  cred'[cred'[x].replaces] # None /\ cred'[cred'[x].replaces].status = "revoked"
    <2>1. CASE cred[x] = None
        BY <1>5, <2>1, CommitNew, CommitKeeps
    <2>2. CASE cred[x] # None
        <3>1. cred'[x].replaces = cred[x].replaces
            BY <2>2, CommitKeeps
        <3>2. cred[x].replaces \in CredIds /\ cred[cred[x].replaces] # None
              /\ cred[cred[x].replaces].status = "revoked"
            BY <1>0, <1>5, <2>2, <3>1 DEF TableOK, CredRow
        <3> QED
            BY <3>1, <3>2, CommitKeeps
    <2> QED
        BY <2>1, <2>2
<1>6. ASSUME NEW s \in SessionIds, ses'[s] # None, ses'[s].refreshed # None
      PROVE  ses'[ses'[s].refreshed] # None /\ ~ses'[ses'[s].refreshed].live
    <2>1. CASE ses[s] = None
        BY <1>6, <2>1, CommitNew, CommitKeeps
    <2>2. CASE ses[s] # None
        <3>1. ses'[s].refreshed = ses[s].refreshed
            BY <2>2, CommitKeeps
        <3>2. ses[s].refreshed \in SessionIds /\ ses[ses[s].refreshed] # None
              /\ ~ses[ses[s].refreshed].live
            BY <1>0, <1>6, <2>2, <3>1 DEF TableOK, SesRow
        <3> QED
            BY <3>1, <3>2, CommitKeeps
    <2> QED
        BY <2>1, <2>2
<1> QED
    BY <1>1, <1>2, <1>3, <1>4, <1>5, <1>6 DEF TableOK

\* A call makes one credential active at most, and has what was under its key.
LEMMA CommitUnique ==
    ASSUME Inv, NEW c \in Clients, Commit(c)
    PROVE  UniqueActiveKey'
<1> SUFFICES ASSUME NEW x \in CredIds, NEW y \in CredIds, IsActive(cred', x), IsActive(cred', y),
                    cred'[x].key = cred'[y].key
             PROVE  x = y
    BY DEF UniqueActiveKey, Active, IsActive
<1>1. ASSUME NEW q \in CredIds, IsActive(cred', q), q \in DOMAIN writes[c]
      PROVE  /\ writes[c][q] = cred'[q]
             /\ \/ job[c].op \in {"create_credential", "rotate"} /\ q = job[c].new
                \/ job[c].op = "reinstate_credential" /\ q = job[c].cred
    BY <1>1, CommitFacts DEF IsActive, NewCredWrite, OldCredWrite
<1>2. ASSUME NEW q \in CredIds, IsActive(cred', q), q \notin DOMAIN writes[c]
      PROVE  IsActive(cred, q) /\ cred'[q] = cred[q]
    BY <1>2, CommitFacts DEF IsActive
<1>3. KeyOwned(writes[c], cred) /\ UniqueActiveKey
    BY DEF Inv
<1>4. CASE x \in DOMAIN writes[c] /\ y \in DOMAIN writes[c]
    BY <1>1, <1>4
<1>5. CASE x \notin DOMAIN writes[c] /\ y \notin DOMAIN writes[c]
    BY <1>2, <1>3, <1>5 DEF UniqueActiveKey, Active, IsActive
<1>6. CASE x \in DOMAIN writes[c] /\ y \notin DOMAIN writes[c]
    <2>1. writes[c][x].status = "active" /\ writes[c][x].key = cred[y].key /\ IsActive(cred, y)
        BY <1>1, <1>2, <1>6 DEF IsActive
    <2> QED
        BY <1>3, <1>6, <2>1 DEF KeyOwned
<1>7. CASE x \notin DOMAIN writes[c] /\ y \in DOMAIN writes[c]
    <2>1. writes[c][y].status = "active" /\ writes[c][y].key = cred[x].key /\ IsActive(cred, x)
        BY <1>1, <1>2, <1>7 DEF IsActive
    <2> QED
        BY <1>3, <1>7, <2>1 DEF KeyOwned
<1> QED
    BY <1>4, <1>5, <1>6, <1>7

\* What a call replaces was not revoked before, so nobody has replaced it before.
LEMMA CommitReplaced ==
    ASSUME Inv, NEW c \in Clients, Commit(c)
    PROVE  ReplacedOnce'
<1>0. TableOK(usr, cred, ses) /\ ReplacedOnce
    BY DEF Inv
<1>1. ASSUME NEW x \in CredIds, NEW y \in CredIds, cred'[x] # None, cred'[y] # None,
             cred'[x].replaces # None, cred'[x].replaces = cred'[y].replaces,
             cred[x] = None, cred[y] # None
      PROVE  FALSE
    <2>1. /\ cred'[x].replaces \in CredIds /\ cred[cred'[x].replaces] # None
          /\ cred[cred'[x].replaces].status # "revoked"
        BY <1>1, CommitNew
    <2>2. cred[y].replaces = cred'[x].replaces
        BY <1>1, CommitKeeps
    <2> QED
        BY <1>0, <1>1, <2>1, <2>2 DEF TableOK
<1>2. ASSUME NEW x \in CredIds, NEW y \in CredIds, cred'[x] # None, cred'[y] # None,
             cred'[x].replaces # None, cred'[x].replaces = cred'[y].replaces
      PROVE  x = y
    <2>1. CASE cred[x] # None /\ cred[y] # None
        BY <1>0, <1>2, <2>1, CommitKeeps DEF ReplacedOnce
    <2>2. CASE cred[x] = None /\ cred[y] = None
        BY <1>2, <2>2, CommitNew
    <2> QED
        BY <1>1, <1>2, <2>1, <2>2
<1>3. ASSUME NEW s \in SessionIds, NEW r \in SessionIds, ses'[s] # None, ses'[r] # None,
             ses'[s].refreshed # None, ses'[s].refreshed = ses'[r].refreshed,
             ses[s] = None, ses[r] # None
      PROVE  FALSE
    <2>1. /\ ses'[s].refreshed \in SessionIds /\ ses[ses'[s].refreshed] # None
          /\ ses[ses'[s].refreshed].live
        BY <1>3, CommitNew
    <2>2. ses[r].refreshed = ses'[s].refreshed
        BY <1>3, CommitKeeps
    <2> QED
        BY <1>0, <1>3, <2>1, <2>2 DEF TableOK
<1>4. ASSUME NEW s \in SessionIds, NEW r \in SessionIds, ses'[s] # None, ses'[r] # None,
             ses'[s].refreshed # None, ses'[s].refreshed = ses'[r].refreshed
      PROVE  s = r
    <2>1. CASE ses[s] # None /\ ses[r] # None
        BY <1>0, <1>4, <2>1, CommitKeeps DEF ReplacedOnce
    <2>2. CASE ses[s] = None /\ ses[r] = None
        BY <1>4, <2>2, CommitNew
    <2> QED
        BY <1>3, <1>4, <2>1, <2>2
<1> QED
    BY <1>2, <1>4 DEF ReplacedOnce

\* No row that another call has locked or is to insert is in the commit.
LEMMA CommitUntouched ==
    ASSUME Inv, NEW c \in Clients, Commit(c), NEW d \in Clients \ {c}, job[d] # Idle
    PROVE  Untouched(job[d], Held(locks, d), usr, cred, ses, usr', cred', ses')
<1>0. job[c] # Idle
    BY CommitFacts
<1>1. /\ RowsOK(job[d], Held(locks, d), usr, cred, ses)
      /\ LocksApart(Held(locks, c), Held(locks, d)) /\ NewApart(job[c], job[d])
    BY CallParts DEF Inv, Apart
<1>2. ASSUME NEW r \in Rows, Strong(Held(locks, c), r) PROVE ~Strong(Held(locks, d), r)
    BY <1>1, <1>2, StrongExcludes
<1>3. ASSUME NEW u \in UserIds, Strong(Held(locks, d), u) PROVE usr'[u] = usr[u]
    <2>1. \/ usr'[u] = usr[u]
          \/ u = job[c].usr /\ UserWrite(job[c], Held(locks, c), usr[u], usr'[u])
        BY CommitFacts
    <2>2. ~Strong(Held(locks, c), u)
        BY <1>2, <1>3 DEF Rows
    <2> QED
        BY <2>1, <2>2 DEF UserWrite, Strong
<1>4. ASSUME NEW x \in CredIds, Strong(Held(locks, d), x) PROVE cred'[x] = cred[x]
    BY <1>1, <1>2, <1>4, CommitFacts DEF OldCredWrite, RowsOK, Rows
<1>5. ASSUME NEW s \in SessionIds, Strong(Held(locks, d), s) PROVE ses'[s] = ses[s]
    BY <1>1, <1>2, <1>5, CommitFacts DEF OldSesWrite, RowsOK, Rows
<1>6. ASSUME job[d].new \in CredIds PROVE cred'[job[d].new] = None
    <2>1. cred[job[d].new] = None
        BY <1>1, <1>6 DEF RowsOK
    <2>2. job[d].new # job[c].new
        BY <1>0, <1>1, <1>6, RowsAssumption DEF NewApart
    <2> QED
        BY <1>6, <2>1, <2>2, CommitNew
<1>7. ASSUME job[d].new \in SessionIds PROVE ses'[job[d].new] = None
    <2>1. ses[job[d].new] = None
        BY <1>1, <1>7 DEF RowsOK
    <2>2. job[d].new # job[c].new
        BY <1>0, <1>1, <1>7, RowsAssumption DEF NewApart
    <2> QED
        BY <1>7, <2>1, <2>2, CommitNew
<1>8. ASSUME NEW s \in SessionIds, ses'[s] # None, ses'[s].live
      PROVE  \/ ses[s] # None /\ ses[s].live
             \/ /\ <<ses'[s].usr, "update">> \notin Held(locks, d)
                /\ <<ses'[s].cred, "update">> \notin Held(locks, d)
    <2>1. CASE ses'[s] = ses[s]
        BY <1>8, <2>1
    <2>2. CASE NewSesWrite(job[c], Held(locks, c), s, ses'[s])
        <3>1. /\ <<ses'[s].usr, "key_share">> \in Held(locks, c) /\ ses'[s].usr \in Rows
              /\ <<ses'[s].cred, "key_share">> \in Held(locks, c) /\ ses'[s].cred \in Rows
            BY <2>2 DEF NewSesWrite, SesRow, Rows
        <3> QED
            BY <1>1, <3>1, CompatibleFacts DEF LocksApart, Modes
    <2> QED
        BY <1>8, <2>1, <2>2, CommitFacts DEF OldSesWrite
<1> QED
    BY <1>3, <1>4, <1>5, <1>6, <1>7, <1>8, CommitKeeps DEF Untouched


\* A commit keeps the invariant.
LEMMA CommitStep ==
    ASSUME Inv, NEW c \in Clients, Commit(c)
    PROVE  Inv'
<1>1. /\ DOMAIN writes = Clients /\ locks \subseteq Clients \X Rows \X Modes
      /\ job \in [Clients -> JobType \cup {Idle}]
    BY DEF Inv, TypeOK
<1>2. End(c)
    BY DEF Commit
<1>3. /\ Held(locks', c) = {} /\ locks' \subseteq Clients \X Rows \X Modes
      /\ \A d \in Clients \ {c} : Held(locks', d) = Held(locks, d)
    BY <1>1, <1>2, HeldAfterEnd DEF End
<1>4. /\ DOMAIN writes' = Clients /\ job' \in [Clients -> JobType \cup {Idle}]
      /\ job'[c] = Idle /\ writes'[c] = <<>>
      /\ \A d \in Clients \ {c} : job'[d] = job[d] /\ writes'[d] = writes[d]
    BY <1>1, <1>2 DEF End
\* What another client has written and this commit has not is as it was.
<1>5. ASSUME NEW d \in Clients \ {c}, NEW y \in DOMAIN writes[d] \cap CredIds PROVE cred'[y] = cred[y]
    <2>1. CallOK(job[d], writes[d], Held(locks, d), usr, cred, ses)
        BY DEF Inv
    <2>2. job[d] # Idle /\ WritesOK(job[d], writes[d], Held(locks, d), usr, cred, ses)
        BY <2>1 DEF CallOK
    <2>3. Untouched(job[d], Held(locks, d), usr, cred, ses, usr', cred', ses')
        BY <2>2, CommitUntouched
    <2>4. CASE cred[y] = None
        BY <2>2, <2>3, <2>4 DEF WritesOK, NewCredWrite, Untouched
    <2>5. CASE cred[y] # None
        BY <2>2, <2>3, <2>5 DEF WritesOK, OldCredWrite, Untouched
    <2> QED
        BY <2>4, <2>5
<1>6. ASSUME NEW d \in Clients \ {c} PROVE KeyOwned(writes[d], cred')
    <2> SUFFICES ASSUME NEW x \in DOMAIN writes[d] \cap CredIds, NEW y \in CredIds,
                        writes[d][x].status = "active", IsActive(cred', y),
                        cred'[y].key = writes[d][x].key
                 PROVE  y \in DOMAIN writes[d]
        BY DEF KeyOwned
    <2>1. KeyOwned(writes[d], cred) /\ KeysApart(writes[d], writes[c], cred)
        BY DEF Inv, Apart
    <2>2. CASE cred'[y] = cred[y]
        BY <2>1, <2>2 DEF KeyOwned, IsActive
    <2>3. CASE y \in DOMAIN writes[c] /\ cred'[y] = writes[c][y]
        BY <2>1, <2>3 DEF KeysApart, IsActive
    <2> QED
        BY <2>2, <2>3, CommitFacts
<1>7. ASSUME NEW d \in Clients \ {c}, NEW e \in (Clients \ {c}) \ {d}
      PROVE  KeysApart(writes[d], writes[e], cred')
    <2>1. KeysApart(writes[d], writes[e], cred)
        BY DEF Inv, Apart
    <2>2. \A y \in DOMAIN writes[e] \cap CredIds : cred'[y] = cred[y]
        BY <1>5
    <2> QED
        BY <2>1, <2>2 DEF KeysApart, IsActive
<1>8. Clients \ {c} \in SUBSET Clients /\ \A d \in Clients \ (Clients \ {c}) : d = c
    OBVIOUS
<1>9. TableOK(usr, cred, ses)' /\ UniqueActiveKey' /\ ReplacedOnce'
    BY CommitTables, CommitUnique, CommitReplaced
<1>10. \A d \in Clients \ {c} :
          job[d] # Idle => Untouched(job[d], Held(locks, d), usr, cred, ses, usr', cred', ses')
    BY CommitUntouched
<1>11. PICK Kept \in SUBSET Clients : Kept = Clients \ {c}
    BY <1>8
<1>12. /\ \A d \in Clients \ Kept : job'[d] = Idle /\ writes'[d] = <<>> /\ Held(locks', d) = {}
       /\ \A d \in Kept :
             /\ job'[d] = job[d] /\ writes'[d] = writes[d] /\ Held(locks', d) = Held(locks, d)
             /\ job[d] # Idle => Untouched(job[d], Held(locks, d), usr, cred, ses, usr', cred', ses')
             /\ KeyOwned(writes[d], cred')
       /\ \A d \in Kept : \A e \in Kept \ {d} : KeysApart(writes[d], writes[e], cred')
    BY <1>3, <1>4, <1>6, <1>7, <1>8, <1>10, <1>11
<1> QED
    BY <1>3, <1>4, <1>9, <1>12, TablesStep

----------------------------------------------------------------------------
(* The invariant holds. *)

LEMMA InitInv == Init => Inv
<1> SUFFICES ASSUME Init PROVE Inv
    OBVIOUS
<1>1. /\ \A u \in UserIds : usr[u] = None
      /\ \A x \in CredIds : cred[x] = None
      /\ \A s \in SessionIds : ses[s] = None
      /\ \A c \in Clients : job[c] = Idle /\ writes[c] = <<>> /\ Held(locks, c) = {}
      /\ DOMAIN writes = Clients /\ locks = {}
    BY DEF Init, Held
<1>2. TypeOK
    BY <1>1 DEF Init, TypeOK
<1>3. TableOK(usr, cred, ses) /\ UniqueActiveKey /\ ReplacedOnce
    BY <1>1 DEF Init, TableOK, UniqueActiveKey, Active, ReplacedOnce
<1>4. ASSUME NEW c \in Clients
      PROVE  CallOK(job[c], writes[c], Held(locks, c), usr, cred, ses) /\ KeyOwned(writes[c], cred)
    BY <1>1 DEF CallOK, KeyOwned
<1>5. ASSUME NEW c \in Clients, NEW d \in Clients \ {c}
      PROVE  Apart(job[c], writes[c], Held(locks, c), job[d], writes[d], Held(locks, d), cred)
    BY <1>1 DEF Apart, LocksApart, NewApart, KeysApart
<1> QED
    BY <1>1, <1>2, <1>3, <1>4, <1>5 DEF Inv

LEMMA StutterStep ==
    ASSUME Inv, UNCHANGED vars
    PROVE  Inv'
<1>1. /\ usr' = usr /\ cred' = cred /\ ses' = ses /\ job' = job /\ writes' = writes /\ locks' = locks
    BY DEF vars, db
<1>2. TypeOK' /\ UniqueActiveKey' /\ ReplacedOnce' /\ TableOK(usr, cred, ses)'
    BY <1>1 DEF Inv, TypeOK, UniqueActiveKey, ReplacedOnce, Active
<1> QED
    BY <1>1, <1>2 DEF Inv

LEMMA NextInv == Inv /\ [Next]_vars => Inv'
<1> SUFFICES ASSUME Inv, [Next]_vars PROVE Inv'
    OBVIOUS
<1>1. CASE UNCHANGED vars
    BY <1>1, StutterStep
<1>2. CASE \E u \in UserIds : CreateUser(u)
    BY <1>2, CreateUserStep
<1>3. ASSUME NEW c \in Clients, Start(c) PROVE Inv'
    BY <1>3, SuspendUserStep, ReinstateUserStep, RevokeUserStep, CreateCredentialStep,
       CreateSessionStep, RotateStep, SuspendCredentialStep, ReinstateCredentialStep,
       RevokeCredentialStep, RefreshSessionStep, RevokeSessionStep DEF Start
<1>4. ASSUME NEW c \in Clients, Continue(c) PROVE Inv'
    <2>1. CASE UniqueViolation(c)
        BY <2>1, EndStep DEF UniqueViolation
    <2> QED
        BY <1>4, <2>1, ScanCredsStep, UpdateCredStep, CredsDoneStep, ScanSessionsStep,
           UpdateSessionStep, SessionsDoneStep, InsertCredentialStep, ActivateStep,
           ReadCredentialStep, InsertSessionStep, CommitStep DEF Continue
<1>5. ASSUME NEW c \in Clients, DeadlockVictim(c) \/ Disconnect(c) PROVE Inv'
    BY <1>5, EndStep DEF DeadlockVictim, Disconnect
<1> QED
    BY <1>1, <1>2, <1>3, <1>4, <1>5 DEF Next

\* Inv holds in every state that can be reached, for all values of the constants.
THEOREM Invariance == Spec => []Inv
<1>1. Init => Inv
    BY InitInv
<1>2. Inv /\ [Next]_vars => Inv'
    BY NextInv
<1> QED
    BY <1>1, <1>2, PTL DEF Spec

\* An idle client holds no lock and has written nothing; a busy one has written
\* existing rows only under a lock that keeps other writers out (the transactions
\* of PostgresIdentityStore, for any number of clients and rows).
THEOREM PgStoreTypeCorrect == Spec => []TypeOK
<1>1. Inv => TypeOK
    BY DEF Inv
<1> QED
    BY <1>1, Invariance, PTL

\* Creations, rotations and reinstatements that run at once never leave two active
\* credentials with one key.
THEOREM ActiveKeyUnique == Spec => []UniqueActiveKey
<1>1. Inv => UniqueActiveKey
    BY DEF Inv
<1> QED
    BY <1>1, Invariance, PTL

\* No credential is replaced by two rotations, and no session by two refreshes.
THEOREM ReplacementsOnce == Spec => []ReplacedOnce
<1>1. Inv => ReplacedOnce
    BY DEF Inv
<1> QED
    BY <1>1, Invariance, PTL


----------------------------------------------------------------------------
(* The cascade is complete. *)

\* What the invariant says of the call that commits.
LEMMA CommitCall ==
    ASSUME Inv, NEW c \in Clients, Commit(c)
    PROVE  /\ job[c] \in JobType /\ UserCallOK(job[c], writes[c], Held(locks, c))
           /\ CredCallOK(job[c], writes[c], Held(locks, c), cred)
           /\ SessionCallOK(job[c], writes[c], Held(locks, c), cred, ses)
           /\ RowsOK(job[c], Held(locks, c), usr, cred, ses)
           /\ job[c].op \in ShutOps => \A s \in SessionIds :
                 ses[s] # None /\ ses[s].live /\ Scope(job[c], ses[s]) => s \in DOMAIN writes[c]
<1>1. job[c] # Idle /\ job[c].at = "commit"
    BY CommitFacts
<1>2. CascadeOK(job[c], writes[c], cred, ses)
    BY <1>1, CallParts
<1> QED
    BY <1>1, <1>2, CallParts DEF CascadeOK, Cascading

\* At the commit of a cascade no session in its scope is live.
LEMMA CommitCascade ==
    ASSUME Inv, NEW c \in Clients, Commit(c), job[c].op \in ShutOps, NEW s \in SessionIds,
           ses'[s] # None, ses'[s].live
    PROVE  ses'[s] = ses[s] /\ ~Scope(job[c], ses[s])
<1>1. ses'[s] = ses[s] /\ s \notin DOMAIN writes[c]
    <2>1. ~NewSesWrite(job[c], Held(locks, c), s, ses'[s])
        BY DEF NewSesWrite, ShutOps, UserOps, CredOps
    <2>2. ~OldSesWrite(job[c], Held(locks, c), s, ses[s], ses'[s])
        BY DEF OldSesWrite
    <2> QED
        BY <2>1, <2>2, CommitFacts
<1> QED
    BY <1>1, CommitCall

NoneLeft == \A s \in SessionIds : Live(s)' =>
    /\ \A u \in UserIds : u = ses'[s].usr /\ usr[u] = "active" => usr'[u] = "active"
    /\ \A x \in CredIds : x = ses'[s].cred /\ Active(x) => Active(x)'

\* A commit leaves no session of what it shuts out.
LEMMA CommitNoneLeft ==
    ASSUME Inv, NEW c \in Clients, Commit(c)
    PROVE  NoneLeft
<1>1. ASSUME NEW s \in SessionIds, ses'[s] # None, ses'[s].live, NEW u \in UserIds,
             u = ses'[s].usr, usr[u] = "active", usr'[u] # "active"
      PROVE  FALSE
    <2>1. u = job[c].usr /\ UserWrite(job[c], Held(locks, c), usr[u], usr'[u])
        BY <1>1, CommitFacts
    <2>2. job[c].op \in UserOps /\ job[c].op \in ShutOps
        BY <1>1, <2>1 DEF UserWrite, UserOps, CredOps, ShutOps
    <2>3. ses'[s] = ses[s] /\ ~Scope(job[c], ses[s])
        BY <1>1, <2>2, CommitCascade
    <2> QED
        BY <1>1, <2>1, <2>2, <2>3 DEF Scope
<1>2. ASSUME NEW s \in SessionIds, ses'[s] # None, ses'[s].live, NEW x \in CredIds,
             x = ses'[s].cred, IsActive(cred, x), ~IsActive(cred', x)
      PROVE  FALSE
    <2>1. OldCredWrite(job[c], Held(locks, c), x, cred[x], cred'[x])
        BY <1>2, CommitFacts DEF IsActive
    <2>2. CASE job[c].op \in CredOps /\ x = job[c].cred
        <3>1. job[c].op # "reinstate_credential"
            BY <1>2, <2>2, CommitCall DEF CredCallOK, IsActive
        <3>2. job[c].op \in ShutOps /\ job[c].op \notin UserOps
            BY <2>2, <3>1 DEF ShutOps, UserOps, CredOps
        <3>3. ses'[s] = ses[s] /\ ~Scope(job[c], ses[s])
            BY <1>2, <3>2, CommitCascade
        <3> QED
            BY <1>2, <2>2, <3>2, <3>3 DEF Scope
    <2>3. CASE job[c].op = "revoke_user" /\ cred[x].usr = job[c].usr
        <3>1. job[c].op \in ShutOps /\ job[c].op \in UserOps
            BY <2>3 DEF ShutOps, UserOps, CredOps
        <3>2. ses'[s] = ses[s] /\ ~Scope(job[c], ses[s])
            BY <1>2, <3>1, CommitCascade
        <3>3. ses[s].usr = job[c].usr
            BY <1>2, <2>3, <3>2 DEF Inv, TableOK
        <3> QED
            BY <3>1, <3>2, <3>3 DEF Scope
    <2> QED
        BY <2>1, <2>2, <2>3 DEF OldCredWrite
<1> QED
    BY <1>1, <1>2 DEF NoneLeft, Live, Active, IsActive

\* The steps by what they do to the tables.
LEMMA TableSteps ==
    ASSUME [Next]_vars
    PROVE  \/ \E u \in UserIds : CreateUser(u)
           \/ \E c \in Clients, s \in SessionIds : RevokeSession(c, s)
           \/ \E c \in Clients : Commit(c)
           \/ UNCHANGED db
<1>1. ASSUME NEW c \in Clients, Start(c)
      PROVE  (\E s \in SessionIds : RevokeSession(c, s)) \/ UNCHANGED db
    BY <1>1 DEF Start, SuspendUser, ReinstateUser, RevokeUser, CreateCredential, CreateSession,
                Rotate, SuspendCredential, ReinstateCredential, RevokeCredential, RefreshSession,
                StartLocked
<1>2. ASSUME NEW c \in Clients, Continue(c)
      PROVE  Commit(c) \/ UNCHANGED db
    BY <1>2 DEF Continue, ScanCreds, UpdateCred, CredsDone, ScanSessions, UpdateSession,
                SessionsDone, InsertCredential, Activate, UniqueViolation, ReadCredential,
                InsertSession
<1>3. ASSUME NEW c \in Clients, DeadlockVictim(c) \/ Disconnect(c)
      PROVE  UNCHANGED db
    BY <1>3 DEF DeadlockVictim, Disconnect
<1>4. UNCHANGED vars => UNCHANGED db
    BY DEF vars
<1> QED
    BY <1>1, <1>2, <1>3, <1>4 DEF Next

\* No step leaves a session of what it shuts out.
LEMMA StepNoneLeft ==
    ASSUME Inv, [Next]_vars
    PROVE  NoneLeft
<1>1. ASSUME NEW u \in UserIds, CreateUser(u) PROVE NoneLeft
    <2>1. \A q \in UserIds : usr[q] = "active" => usr'[q] = "active"
        BY <1>1 DEF CreateUser, Inv, TypeOK
    <2> QED
        BY <1>1, <2>1 DEF CreateUser, NoneLeft, Active
<1>2. ASSUME NEW c \in Clients, NEW s \in SessionIds, RevokeSession(c, s) PROVE NoneLeft
    BY <1>2 DEF RevokeSession, NoneLeft, Active
<1>3. CASE UNCHANGED db
    BY <1>3 DEF db, NoneLeft, Active
<1> QED
    BY <1>1, <1>2, <1>3, CommitNoneLeft, TableSteps

\* When a user or a credential stops being active, no session of it is left at that
\* commit, whatever calls run beside it: the key-share locks of a session that is
\* inserted keep it out while the cascade goes on.
THEOREM CascadesComplete == Spec => CascadeComplete
<1>1. Inv /\ [Next]_vars => [NoneLeft]_vars
    BY StepNoneLeft
<1>2. Spec => [][NoneLeft]_vars
    BY <1>1, Invariance, PTL DEF Spec
<1> QED
    BY <1>2 DEF CascadeComplete, NoneLeft

----------------------------------------------------------------------------
(* Where the cascade guarantee of store.py can break. *)

\* The row of a live session, before a commit that is not one of create_session, is
\* that of a live session of the same user and credential.
LEMMA CommitBackedBy ==
    ASSUME Inv, NEW c \in Clients, Commit(c), job[c].op # "create_session",
           NEW s \in SessionIds, ses'[s] # None, ses'[s].live
    PROVE  \E r \in SessionIds : /\ ses[r] # None /\ ses[r].live
                                 /\ ses'[s].usr = ses[r].usr /\ ses'[s].cred = ses[r].cred
<1>1. CASE ses[s] # None
    BY <1>1, CommitKeeps
<1>2. CASE ses[s] = None
    <2>1. NewSesWrite(job[c], Held(locks, c), s, ses'[s])
        BY <1>2, CommitFacts
    <2>2. PICK r \in SessionIds : r = job[c].ses
        BY <2>1, CommitCall DEF NewSesWrite, SessionCallOK
    <2>3. /\ ses[r] # None /\ r \in DOMAIN writes[c]
          /\ ses[r].usr = job[c].usr /\ ses[r].cred = job[c].cred
        BY <2>1, <2>2, CommitCall DEF NewSesWrite, SessionCallOK
    <2>4. OldSesWrite(job[c], Held(locks, c), r, ses[r], ses'[r])
        BY <2>3, CommitFacts
    <2> QED
        BY <2>1, <2>3, <2>4 DEF NewSesWrite, OldSesWrite
<1> QED
    BY <1>1, <1>2

CreateCommits == \E c \in Clients : job[c] # job'[c] /\ At(c, {"create_session"}, "commit")

\* A session that is live after a step was backed before it, or create_session commits.
LEMMA BackedBefore ==
    ASSUME Inv, [Next]_vars, LiveSessionBacked, ~CreateCommits,
           NEW s \in SessionIds, ses'[s] # None, ses'[s].live
    PROVE  usr[ses'[s].usr] = "active" /\ Active(ses'[s].cred)
<1>1. SUFFICES \E r \in SessionIds : /\ ses[r] # None /\ ses[r].live
                                     /\ ses'[s].usr = ses[r].usr /\ ses'[s].cred = ses[r].cred
    BY DEF LiveSessionBacked, Live
<1>2. CASE ses' = ses
    BY <1>2
<1>3. ASSUME NEW c \in Clients, NEW q \in SessionIds, RevokeSession(c, q)
      PROVE  ses[s] # None /\ ses[s].live /\ ses'[s].usr = ses[s].usr /\ ses'[s].cred = ses[s].cred
    <2>1. /\ ses' = [ses EXCEPT ![q].live = FALSE] /\ ses[q] # None
          /\ ses \in [SessionIds -> SesRow \cup {None}]
        BY <1>3 DEF RevokeSession, Live, Inv, TypeOK
    <2>2. ses[q] \in SesRow /\ ses'[q] = [ses[q] EXCEPT !.live = FALSE]
        BY <2>1
    <2>3. ~ses'[q].live
        BY <2>2 DEF SesRow
    <2>4. s # q /\ ses'[s] = ses[s]
        BY <2>1, <2>3
    <2> QED
        BY <2>4
<1>4. ASSUME NEW c \in Clients, Commit(c) PROVE job[c].op # "create_session"
    <2>1. job[c] # Idle /\ job[c].at = "commit"
        BY <1>4, CommitFacts
    <2>2. job'[c] = Idle
        BY <1>4 DEF Commit, End, Inv, TypeOK
    <2> QED
        BY <2>1, <2>2 DEF CreateCommits, At
<1>5. ASSUME NEW c \in Clients, Commit(c)
      PROVE  \E r \in SessionIds : /\ ses[r] # None /\ ses[r].live
                                   /\ ses'[s].usr = ses[r].usr /\ ses'[s].cred = ses[r].cred
    BY <1>4, <1>5, CommitBackedBy
<1> QED
    BY <1>2, <1>3, <1>5, TableSteps DEF CreateUser, db

BackedKept == LiveSessionBacked =>
    \/ LiveSessionBacked'
    \/ \E c \in Clients : job[c] # job'[c] /\ At(c, {"create_session"}, "commit")

\* A step that keeps sessions shut out keeps them backed.
LEMMA StepBackedKept ==
    ASSUME Inv, [Next]_vars
    PROVE  BackedKept
<1> SUFFICES ASSUME LiveSessionBacked, ~CreateCommits
             PROVE  LiveSessionBacked'
    BY DEF BackedKept, CreateCommits
<1> SUFFICES ASSUME NEW s \in SessionIds, ses'[s] # None, ses'[s].live
             PROVE  usr'[ses'[s].usr] = "active" /\ IsActive(cred', ses'[s].cred)
    BY DEF LiveSessionBacked, Live, Active, IsActive
<1>1. ses'[s].usr \in UserIds /\ ses'[s].cred \in CredIds
    <2>1. TypeOK'
        BY NextInv DEF Inv
    <2>2. ses'[s] \in SesRow
        BY <2>1 DEF TypeOK
    <2> QED
        BY <2>2 DEF SesRow
<1>2. usr[ses'[s].usr] = "active" /\ Active(ses'[s].cred)
    BY BackedBefore
<1>3. NoneLeft
    BY StepNoneLeft
<1> QED
    BY <1>1, <1>2, <1>3 DEF NoneLeft, Live, Active, IsActive

\* The gap between create_session and a suspension is the only one: a step from a
\* state in which every live session is backed keeps them backed, unless it is the
\* commit of a create_session.
THEOREM OnlyCreateSessionUnbacks == Spec => OnlyCreateUnbacks
<1>1. Inv /\ [Next]_vars => [BackedKept]_vars
    BY StepBackedKept
<1>2. Spec => [][BackedKept]_vars
    BY <1>1, Invariance, PTL DEF Spec
<1> QED
    BY <1>2 DEF OnlyCreateUnbacks, BackedKept

----------------------------------------------------------------------------
(* The sessions implement BearerTokens. *)

Issued(S) == {s \in SessionIds : S[s] # None}
HolderOf(S, s) == IF S[s] # None /\ S[s].live THEN S[s].usr ELSE None
HolderMap(S) == [s \in SessionIds |-> HolderOf(S, s)]
OpenUsers(U) == {u \in UserIds : U[u] = "active"}

\* The refinement mapping, as the operators above.
LEMMA BearerView ==
    /\ {s \in SessionIds : ses[s] # None} = Issued(ses)
    /\ [s \in SessionIds |-> IF Live(s) THEN ses[s].usr ELSE None] = HolderMap(ses)
    /\ {u \in UserIds : usr[u] = "active"} = OpenUsers(usr)
BY DEF Issued, HolderMap, HolderOf, Live, OpenUsers

LEMMA BearerInitially == Init => Bearer!BearerInit
<1> SUFFICES ASSUME Init PROVE Bearer!BearerInit
    OBVIOUS
<1>1. {s \in SessionIds : ses[s] # None} = {}
    BY DEF Init
<1>2. [s \in SessionIds |-> IF Live(s) THEN ses[s].usr ELSE None] = [s \in SessionIds |-> None]
    BY DEF Init, Live
<1>3. {u \in UserIds : usr[u] = "active"} = {}
    BY NoRowAssumption DEF Init, Status
<1> QED
    BY <1>1, <1>2, <1>3 DEF Bearer!BearerInit


\* A holder is a user or nobody.
LEMMA HolderType ==
    ASSUME Inv, NEW s \in SessionIds
    PROVE  HolderOf(ses, s) \in UserIds \cup {None}
BY DEF Inv, TypeOK, SesRow, HolderOf

\* Sessions die, and nothing else happens.
LEMMA DieStep ==
    ASSUME Inv, OpenUsers(usr') = OpenUsers(usr),
           \A s \in SessionIds : /\ ses'[s] # None <=> ses[s] # None
                                 /\ HolderOf(ses', s) \in {HolderOf(ses, s), None}
    PROVE  Bearer!Die
<1>1. Issued(ses') = Issued(ses)
    BY DEF Issued
<1>2. HolderMap(ses') \in [SessionIds -> UserIds \cup {None}]
    BY HolderType DEF HolderMap
<1>3. \A s \in SessionIds : HolderMap(ses')[s] \in {HolderMap(ses)[s], None}
    BY DEF HolderMap
<1> QED
    BY <1>1, <1>2, <1>3 DEF Bearer!Die, Issued, HolderMap, HolderOf, Live, OpenUsers

\* What a call does to the sessions at its commit: the new one, and those revoked.
LEMMA CommitSessions ==
    ASSUME Inv, NEW c \in Clients, Commit(c), NEW s \in SessionIds
    PROVE  /\ ses[s] = None /\ ses'[s] # None =>
                 /\ job[c].op \in {"create_session", "refresh_session"} /\ s = job[c].new
                 /\ HolderOf(ses', s) = job[c].usr
           /\ ses[s] # None => /\ ses'[s] # None
                               /\ \/ HolderOf(ses', s) = HolderOf(ses, s)
                                  \/ /\ HolderOf(ses', s) = None
                                     /\ \/ job[c].op \in ShutOps /\ Scope(job[c], ses[s])
                                        \/ job[c].op = "refresh_session" /\ s = job[c].ses
<1>1. ASSUME ses[s] = None, ses'[s] # None
      PROVE  /\ job[c].op \in {"create_session", "refresh_session"} /\ s = job[c].new
             /\ HolderOf(ses', s) = job[c].usr
    <2>1. NewSesWrite(job[c], Held(locks, c), s, ses'[s])
        BY <1>1, CommitFacts
    <2> QED
        BY <1>1, <2>1 DEF NewSesWrite, HolderOf
<1>2. ASSUME ses[s] # None
      PROVE  /\ ses'[s] # None
             /\ \/ HolderOf(ses', s) = HolderOf(ses, s)
                \/ /\ HolderOf(ses', s) = None
                   /\ \/ job[c].op \in ShutOps /\ Scope(job[c], ses[s])
                      \/ job[c].op = "refresh_session" /\ s = job[c].ses
    <2>1. ses'[s] = ses[s] \/ OldSesWrite(job[c], Held(locks, c), s, ses[s], ses'[s])
        BY <1>2, CommitFacts
    <2> QED
        BY <1>2, <2>1, CommitKeeps DEF OldSesWrite, HolderOf
<1> QED
    BY <1>1, <1>2

\* Only a call on a user changes who is shut out.
LEMMA CommitOpen ==
    ASSUME Inv, NEW c \in Clients, Commit(c), job[c].op \notin UserOps
    PROVE  OpenUsers(usr') = OpenUsers(usr)
<1>1. \A u \in UserIds : usr'[u] = usr[u]
    BY CommitFacts DEF UserWrite
<1> QED
    BY <1>1 DEF OpenUsers

\* The commit of a call on a user is one step of BearerTokens.
LEMMA CommitUserBearer ==
    ASSUME Inv, NEW c \in Clients, Commit(c), job[c].op \in UserOps
    PROVE  Bearer!BearerNext
<1>1. PICK u \in UserIds : u = job[c].usr
    BY CommitCall DEF UserCallOK
<1>2. u \in DOMAIN writes[c]
    BY <1>1, CommitCall DEF UserCallOK
<1>3. UserWrite(job[c], Held(locks, c), usr[u], usr'[u])
    BY <1>2, CommitFacts
<1>4. \A v \in UserIds \ {u} : usr'[v] = usr[v]
    BY <1>1, CommitFacts
<1>5. ASSUME NEW s \in SessionIds PROVE ses'[s] # None <=> ses[s] # None
    BY CommitSessions DEF UserOps
<1>6. Issued(ses') = Issued(ses)
    BY <1>5 DEF Issued
<1>7. CASE job[c].op = "reinstate_user"
    <2>1. \A s \in SessionIds : HolderOf(ses', s) = HolderOf(ses, s)
        BY <1>5, <1>7, CommitSessions DEF ShutOps, HolderOf
    <2>2. HolderMap(ses') = HolderMap(ses)
        BY <2>1 DEF HolderMap
    <2>3. u \notin OpenUsers(usr) /\ OpenUsers(usr') = OpenUsers(usr) \cup {u}
        BY <1>3, <1>4, <1>7 DEF UserWrite, OpenUsers
    <2>4. Bearer!LetIn(u)
        BY <1>6, <2>2, <2>3 DEF Bearer!LetIn, Issued, HolderMap, HolderOf, Live, OpenUsers
    <2> QED
        BY <2>4 DEF Bearer!BearerNext
<1>8. CASE job[c].op # "reinstate_user"
    <2>1. job[c].op \in ShutOps
        BY <1>8 DEF ShutOps, UserOps, CredOps
    <2>2. ASSUME NEW s \in SessionIds
          PROVE  HolderOf(ses', s) = IF HolderOf(ses, s) = u THEN None ELSE HolderOf(ses, s)
        <3>1. CASE ses[s] = None
            BY <1>5, <3>1 DEF HolderOf
        <3>2. CASE ses[s] # None /\ ses[s].live /\ ses[s].usr = u
            <4>1. Scope(job[c], ses[s])
                BY <1>1, <3>2 DEF Scope
            <4>2. ~(ses'[s] # None /\ ses'[s].live)
                BY <2>1, <4>1, CommitCascade
            <4> QED
                BY <3>2, <4>2 DEF HolderOf
        <3>3. CASE ses[s] # None /\ ~(ses[s].live /\ ses[s].usr = u)
            <4>1. HolderOf(ses, s) # u
                BY <3>3, RowsAssumption DEF HolderOf
            <4>2. HolderOf(ses', s) = HolderOf(ses, s)
                <5>1. CASE ses[s].usr = u
                    BY <3>3, <5>1, CommitKeeps DEF HolderOf
                <5>2. CASE ses[s].usr # u
                    BY <1>1, <3>3, <5>2, CommitSessions DEF Scope, UserOps
                <5> QED
                    BY <5>1, <5>2
            <4> QED
                BY <4>1, <4>2
        <3> QED
            BY <3>1, <3>2, <3>3
    <2>3. CASE usr[u] = "active"
        <3>1. HolderMap(ses') = [s \in SessionIds |-> IF HolderMap(ses)[s] = u THEN None
                                                                              ELSE HolderMap(ses)[s]]
            BY <2>2 DEF HolderMap
        <3>2. u \in OpenUsers(usr) /\ OpenUsers(usr') = OpenUsers(usr) \ {u}
            BY <1>3, <1>4, <1>8, <2>3 DEF UserWrite, UserOps, OpenUsers
        <3>3. Bearer!ShutOut(u)
            BY <1>6, <3>1, <3>2 DEF Bearer!ShutOut, Issued, HolderMap, HolderOf, Live, OpenUsers
        <3> QED
            BY <3>3 DEF Bearer!BearerNext
    <2>4. CASE usr[u] # "active"
        <3>1. OpenUsers(usr') = OpenUsers(usr)
            BY <1>3, <1>4, <1>8, <2>4 DEF UserWrite, UserOps, OpenUsers
        <3>2. Bearer!Die
            BY <1>5, <2>2, <3>1, DieStep
        <3> QED
            BY <3>2 DEF Bearer!BearerNext
    <2> QED
        BY <2>3, <2>4
<1> QED
    BY <1>7, <1>8

\* The commit of a new session is one step of BearerTokens.
LEMMA CommitSessionBearer ==
    ASSUME Inv, NEW c \in Clients, Commit(c), job[c].op \in {"create_session", "refresh_session"}
    PROVE  Bearer!BearerNext
<1>1. job[c].usr \in UserIds /\ job[c].new \in SessionIds /\ ses[job[c].new] = None
    BY CommitCall DEF SessionCallOK, RowsOK
<1>0. PICK u \in UserIds, t \in SessionIds : u = job[c].usr /\ t = job[c].new
    BY <1>1
<1>2. OpenUsers(usr') = OpenUsers(usr)
    BY CommitOpen DEF UserOps
<1>3. ses'[job[c].new] # None /\ HolderOf(ses', job[c].new) = job[c].usr
    <2>1. job[c].new \in DOMAIN writes[c]
        BY CommitCall, CommitFacts DEF SessionCallOK
    <2>2. NewSesWrite(job[c], Held(locks, c), job[c].new, ses'[job[c].new])
        BY <1>1, <2>1, CommitFacts
    <2>3. ses'[job[c].new] # None
        BY <2>2, NoRowAssumption DEF NewSesWrite
    <2> QED
        BY <1>1, <2>3, CommitSessions
<1>4. \A s \in SessionIds \ {job[c].new} : ses'[s] # None <=> ses[s] # None
    BY CommitSessions
<1>5. Issued(ses') = Issued(ses) \cup {t} /\ t \notin Issued(ses)
    BY <1>0, <1>1, <1>3, <1>4 DEF Issued
<1>6. HolderMap(ses) \in [SessionIds -> UserIds \cup {None}]
    BY HolderType DEF HolderMap
<1>7. CASE job[c].op = "create_session"
    <2>1. \A s \in SessionIds \ {t} : HolderOf(ses', s) = HolderOf(ses, s)
        BY <1>0, <1>4, <1>7, CommitSessions DEF ShutOps, UserOps, CredOps, HolderOf
    <2>2. HolderMap(ses') = [HolderMap(ses) EXCEPT ![t] = u]
        BY <1>0, <1>1, <1>3, <2>1 DEF HolderMap
    <2>3. Bearer!Issue(t, u)
        BY <1>2, <1>5, <2>2 DEF Bearer!Issue, Issued, HolderMap, HolderOf, Live, OpenUsers
    <2> QED
        BY <2>3 DEF Bearer!BearerNext
<1>8. CASE job[c].op = "refresh_session"
    <2>1. PICK old \in SessionIds : old = job[c].ses
        BY <1>8, CommitCall DEF SessionCallOK
    <2>2. ses[old] # None /\ ses[old].usr = u /\ old \in DOMAIN writes[c]
        BY <1>0, <1>8, <2>1, CommitCall DEF SessionCallOK
    <2>3. OldSesWrite(job[c], Held(locks, c), old, ses[old], ses'[old])
        BY <2>2, CommitFacts
    <2>4. HolderOf(ses, old) = u /\ HolderOf(ses', old) = None
        BY <2>2, <2>3 DEF OldSesWrite, HolderOf
    <2>5. \A s \in SessionIds \ {t, old} : HolderOf(ses', s) = HolderOf(ses, s)
        BY <1>0, <1>4, <1>8, <2>1, CommitSessions DEF ShutOps, UserOps, CredOps, HolderOf
    <2>6. t # old
        BY <1>0, <1>1, <2>2
    <2>7. HolderMap(ses') = [HolderMap(ses) EXCEPT ![old] = None, ![t] = HolderMap(ses)[old]]
        BY <1>0, <1>3, <2>4, <2>5, <2>6 DEF HolderMap
    <2>8. HolderMap(ses)[old] # None
        BY <2>4, RowsAssumption DEF HolderMap
    <2>9. Bearer!Replace(old, t)
        BY <1>2, <1>5, <2>7, <2>8 DEF Bearer!Replace, Issued, HolderMap, HolderOf, Live, OpenUsers
    <2> QED
        BY <2>9 DEF Bearer!BearerNext
<1> QED
    BY <1>7, <1>8

\* Every commit is one step of BearerTokens.
LEMMA CommitBearer ==
    ASSUME Inv, NEW c \in Clients, Commit(c)
    PROVE  Bearer!BearerNext
<1>1. CASE job[c].op \notin UserOps /\ job[c].op \notin {"create_session", "refresh_session"}
    <2>1. \A s \in SessionIds : /\ ses'[s] # None <=> ses[s] # None
                                /\ HolderOf(ses', s) \in {HolderOf(ses, s), None}
        BY <1>1, CommitSessions DEF HolderOf
    <2>2. Bearer!Die
        BY <1>1, <2>1, CommitOpen, DieStep
    <2> QED
        BY <2>2 DEF Bearer!BearerNext
<1> QED
    BY <1>1, CommitUserBearer, CommitSessionBearer

\* Every commit is one step of the bearer tokens, whatever runs beside it: the calls
\* of PostgresIdentityStore implement the abstract specification.
THEOREM PgSessionsAreBearerTokens == Spec => ImplementsBearerTokens
<1>1. Init => Bearer!BearerInit
    BY BearerInitially
<1>2. ASSUME Inv, [Next]_vars PROVE [Bearer!BearerNext]_Bearer!bearerVars
    <2>1. ASSUME NEW u \in UserIds, CreateUser(u) PROVE Bearer!BearerNext
        <3>1. u \notin OpenUsers(usr) /\ OpenUsers(usr') = OpenUsers(usr) \cup {u}
            <4>1. None # "active"
                BY NoRowAssumption DEF Status
            <4>2. usr[u] = None /\ usr'[u] = "active" /\ \A v \in UserIds \ {u} : usr'[v] = usr[v]
                BY <1>2, <2>1 DEF CreateUser, Inv, TypeOK
            <4> QED
                BY <4>1, <4>2 DEF OpenUsers
        <3>2. Issued(ses') = Issued(ses) /\ HolderMap(ses') = HolderMap(ses)
            BY <2>1 DEF CreateUser
        <3>3. Bearer!LetIn(u)
            BY <3>1, <3>2 DEF Bearer!LetIn, Issued, HolderMap, HolderOf, Live, OpenUsers
        <3> QED
            BY <3>3 DEF Bearer!BearerNext
    <2>2. ASSUME NEW c \in Clients, NEW s \in SessionIds, RevokeSession(c, s) PROVE Bearer!BearerNext
        <3>1. /\ ses' = [ses EXCEPT ![s].live = FALSE] /\ ses[s] # None /\ usr' = usr
              /\ ses \in [SessionIds -> SesRow \cup {None}]
            BY <1>2, <2>2 DEF RevokeSession, Live, Inv, TypeOK
        <3>2. ses[s] \in SesRow /\ ses'[s] = [ses[s] EXCEPT !.live = FALSE]
            BY <3>1
        <3>3. ses'[s] \in SesRow /\ ~ses'[s].live
            BY <3>2 DEF SesRow
        <3>4. ses'[s] # None /\ HolderOf(ses', s) = None
            BY <3>3, NoRowAssumption DEF HolderOf
        <3>5. \A r \in SessionIds \ {s} : ses'[r] = ses[r]
            BY <3>1
        <3>6. \A r \in SessionIds : /\ ses'[r] # None <=> ses[r] # None
                                    /\ HolderOf(ses', r) \in {HolderOf(ses, r), None}
            BY <3>1, <3>4, <3>5 DEF HolderOf
        <3>7. Bearer!Die
            BY <1>2, <3>1, <3>6, DieStep
        <3> QED
            BY <3>7 DEF Bearer!BearerNext
    <2>3. CASE UNCHANGED db
        BY <2>3 DEF db, Bearer!bearerVars, Live
    <2> QED
        BY <1>2, <2>1, <2>2, <2>3, CommitBearer, TableSteps
<1>3. Inv /\ [Next]_vars => [Bearer!BearerNext]_Bearer!bearerVars
    BY <1>2
<1> QED
    BY <1>1, <1>3, Invariance, PTL DEF Spec, ImplementsBearerTokens, Bearer!BearerSpec
=============================================================================
