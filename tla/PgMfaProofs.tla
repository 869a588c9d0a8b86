---------------------------- MODULE PgMfaProofs ----------------------------
(***************************************************************************)
(* The safety properties of PgMfa, proved for all sets of clients,         *)
(* factors, users, credential ids and slots.  The inductive invariant says *)
(* of every transaction, also of the one that a rollback would go back to, *)
(* what it may have written given the locks it holds: it is Sound.  A      *)
(* commit keeps every transaction Sound that has no lock in common with    *)
(* the one that commits, and that is why row locks and index entries are   *)
(* enough.                                                                 *)
(***************************************************************************)
EXTENDS PgMfa, TLAPS

----------------------------------------------------------------------------
(* The invariant. t is a transaction; table and used are the committed rows *)
(* and the proofs that are spent.                                           *)

\* The row that a statement of the transaction sees: View(c, m) for tx[c].
Seen(t, table, m) == IF m \in DOMAIN t.writes THEN t.writes[m] ELSE table[m]

IsActive(row) == row # None /\ row.status = "active"

\* A row as the statements make it: the unique indexes have an entry for it when
\* it is active, and a factor that is not confirmed has no counter.
GoodRow(row) ==
    /\ row \in Row
    /\ row.type = "webauthn" => row.identifier \in WebAuthnIds
    /\ row.status = "pending" => row.signCount = 0

\* What an UPDATE may make of a row.
Grows(row, new) ==
    /\ new.usr = row.usr /\ new.type = row.type /\ new.identifier = row.identifier
    /\ row.consumed \subseteq new.consumed
    /\ row.signCount <= new.signCount
    /\ row.status = "revoked" => new = row

\* The row shows that the proof has been used.
Records(row, arg) == /\ arg \in Slots => arg \in row.consumed
                     /\ arg \in 1..MaxCount => arg <= row.signCount

UniqueSeen(t, table) == \A m, n \in FactorIds :
    LET row == Seen(t, table, m)  other == Seen(t, table, n) IN
    IsActive(row) /\ IsActive(other) /\ Key(row) = Key(other) => m = n

WroteUnderLock(t, table) == \A m \in DOMAIN t.writes :
    /\ m \in t.locks
    /\ GoodRow(t.writes[m])
    /\ table[m] # None => Grows(table[m], t.writes[m])
    /\ t.writes[m].status = "active" => Key(t.writes[m]) \in t.locks

LocksExist(t, table) == \A m \in FactorIds \cap t.locks : Seen(t, table, m) # None

\* Who holds an index entry has locked the committed row that is under it.
KeyMeansRow(t, table) == \A m \in FactorIds :
    IsActive(table[m]) /\ Key(table[m]) \in t.locks => m \in t.locks

AcceptedOnce(t, table, used) == \A p \in t.accepted :
    /\ p \notin used
    /\ p[1] \in DOMAIN t.writes
    /\ Records(t.writes[p[1]], p[2])
    /\ table[p[1]] # None => table[p[1]].status # "revoked"

Sound(t, table, used) ==
    /\ WroteUnderLock(t, table)
    /\ LocksExist(t, table)
    /\ KeyMeansRow(t, table)
    /\ UniqueSeen(t, table)
    /\ AcceptedOnce(t, table, used)

TableOK(table, used) ==
    /\ table \in [FactorIds -> Row \cup {None}]
    /\ \A m \in FactorIds : table[m] # None => GoodRow(table[m])
    /\ UniqueSeen(NoTx, table)
    /\ \A p \in used : table[p[1]] # None /\ Records(table[p[1]], p[2])

\* Confirmation, revocation and verification, which see this row: the row exists,
\* the proof is of its type, and a confirmation that has the lock knows what it is
\* about to write.
LockedCallOK(j, t, row) ==
    /\ row # None
    /\ j.op = "confirm" => /\ row.type \in {"totp", "webauthn"}
                           /\ j.arg \in 0..MaxCount
                           /\ row.type = "totp" => j.arg = 0
    /\ j.op = "verify" => \/ row.type = "webauthn" /\ j.arg \in 0..MaxCount
                          \/ row.type = "recovery" /\ j.arg \in Slots
    /\ \/ j.at = "lock" /\ t = j.saved
       \/ /\ j.at = "write" /\ j.op = "confirm"
          /\ t.locks = j.saved.locks \cup {j.factor}
          /\ row.status = "pending"
          /\ j.row = [row EXCEPT !.status = "active", !.signCount = j.arg]

\* The call j of a client with transaction t.
CallOK(j, t, o, table, used) == j # Idle =>
    /\ Sound(j.saved, table, used)
    /\ j.saved.locks \subseteq t.locks
    /\ o = "no" => j.saved = NoTx
    /\ j.op = "any" => j.at = "return"
    /\ j.op # "any" => j.factor \in FactorIds
    /\ j.op = "enroll" => /\ GoodRow(j.row) /\ t = j.saved
                          /\ j.at \in {"check_singleton", "write"}
    /\ j.op \in {"confirm", "revoke", "verify"} => LockedCallOK(j, t, Seen(t, table, j.factor))

\* The id of a row that is still to be inserted is known to its client alone.
Reserved(c) == job[c] # Idle /\ job[c].op = "enroll" =>
    /\ mfa[job[c].factor] = None
    /\ \A d \in Clients : job[c].factor \notin tx[d].locks
    /\ \A d \in Clients \ {c} : job[d] # Idle => job[d].factor # job[c].factor

Inv ==
    /\ TypeOK
    /\ TableOK(mfa, spent)
    /\ \A c \in Clients : /\ Sound(tx[c], mfa, spent)
                          /\ CallOK(job[c], tx[c], open[c], mfa, spent)
                          /\ Reserved(c)

----------------------------------------------------------------------------
(* Rows and transactions. *)

\* What a transaction has written are rows of factors.
LEMMA TransactionFacts ==
    ASSUME NEW t \in Transaction
    PROVE  /\ DOMAIN t.writes \subseteq FactorIds
           /\ t.writes \in [DOMAIN t.writes -> Row]
           /\ t.locks \subseteq FactorIds \cup Keys
           /\ t.accepted \subseteq Proofs
<1>1. PICK S \in SUBSET FactorIds : t.writes \in [S -> Row]
    BY DEF Transaction
<1> QED
    BY <1>1 DEF Transaction

\* NoTx is a transaction, without writes.
LEMMA NoTxFacts ==
    /\ NoTx \in Transaction
    /\ DOMAIN NoTx.writes = {} /\ NoTx.locks = {} /\ NoTx.accepted = {}
<1>1. NoTx.writes \in [{} -> Row]
    BY DEF NoTx
<1> QED
    BY <1>1 DEF NoTx, Transaction

\* A row that is good and active is under an index entry of its own kind.
LEMMA KeyInKeys ==
    ASSUME NEW row, GoodRow(row)
    PROVE  Key(row) \in Keys /\ Key(row) \notin FactorIds
<1>1. row.usr \in UserIds /\ row.type \in {"totp", "webauthn", "recovery"}
    BY DEF GoodRow, Row
<1>2. Key(row) \in Keys
    BY <1>1 DEF Key, Keys, GoodRow
<1> QED
    BY <1>2, PgMfaApart

\* An UPDATE leaves the row under its index entry.
LEMMA GrowsKey ==
    ASSUME NEW row, NEW new, Grows(row, new)
    PROVE  Key(new) = Key(row)
BY DEF Grows, Key

\* Updates of updates are updates, and what is recorded stays recorded.
LEMMA GrowsOn ==
    ASSUME NEW row \in Row, NEW mid \in Row, NEW new \in Row, Grows(row, mid), Grows(mid, new)
    PROVE  Grows(row, new)
<1>1. row.signCount \in Int /\ mid.signCount \in Int /\ new.signCount \in Int
    BY PgMfaAssumption DEF Row
<1> QED
    BY <1>1 DEF Grows

LEMMA RecordsOn ==
    ASSUME NEW row \in Row, NEW new \in Row, NEW arg, Grows(row, new), Records(row, arg)
    PROVE  Records(new, arg)
<1>1. row.signCount \in Int /\ new.signCount \in Int /\ 1..MaxCount \subseteq Int
    BY PgMfaAssumption DEF Row
<1> QED
    BY <1>1 DEF Grows, Records

\* None is no row.
LEMMA RowsAreThere ==
    ASSUME NEW row \in Row
    PROVE  row # None
BY NoRowAssumption

\* What a transaction sees is a good row or none, and grows what is committed.
LEMMA SeenFacts ==
    ASSUME NEW t \in Transaction, NEW table, NEW used, TableOK(table, used), Sound(t, table, used),
           NEW m \in FactorIds
    PROVE  /\ Seen(t, table, m) # None => GoodRow(Seen(t, table, m)) /\ Seen(t, table, m) \in Row
           /\ table[m] # None => /\ Seen(t, table, m) # None /\ table[m] \in Row
                                 /\ Grows(table[m], Seen(t, table, m))
           /\ m \notin t.locks => Seen(t, table, m) = table[m]
<1>1. CASE m \in DOMAIN t.writes
    <2>1. t.writes[m] \in Row /\ t.writes[m] # None
        BY <1>1, TransactionFacts, RowsAreThere
    <2> QED
        BY <1>1, <2>1 DEF Seen, Sound, WroteUnderLock, TableOK
<1>2. CASE m \notin DOMAIN t.writes
    <2>1. Seen(t, table, m) = table[m]
        BY <1>2 DEF Seen
    <2>2. table[m] # None => table[m] \in Row /\ GoodRow(table[m])
        BY DEF TableOK
    <2>3. table[m] # None => Grows(table[m], table[m])
        <3>1. table[m] # None => table[m].signCount \in Int
            BY <2>2, PgMfaAssumption DEF Row
        <3> QED
            BY <3>1 DEF Grows
    <2> QED
        BY <2>1, <2>2, <2>3
<1> QED
    BY <1>1, <1>2

----------------------------------------------------------------------------
(* What a statement and a commit do to transactions. *)

LEMMA NoTxSound ==
    ASSUME NEW table, NEW used, TableOK(table, used)
    PROVE  Sound(NoTx, table, used)
BY NoTxFacts DEF Sound, WroteUnderLock, LocksExist, KeyMeansRow, AcceptedOnce, TableOK

\* A row lock: SELECT ... FOR UPDATE of a row that the transaction sees.
LEMMA LockSound ==
    ASSUME NEW t \in Transaction, NEW s \in Transaction, NEW table, NEW used, TableOK(table, used),
           Sound(t, table, used), NEW m \in FactorIds, Seen(t, table, m) # None,
           s.writes = t.writes, s.locks = t.locks \cup {m}, s.accepted = t.accepted
    PROVE  Sound(s, table, used)
<1>1. \A n \in FactorIds : Seen(s, table, n) = Seen(t, table, n)
    BY DEF Seen
<1>2. WroteUnderLock(s, table)
    BY DEF Sound, WroteUnderLock
<1>3. LocksExist(s, table)
    BY <1>1 DEF Sound, LocksExist
<1>4. KeyMeansRow(s, table)
    <2> SUFFICES ASSUME NEW n \in FactorIds, IsActive(table[n]), Key(table[n]) \in s.locks
                 PROVE  n \in s.locks
        BY DEF KeyMeansRow
    <2>1. Key(table[n]) # m
        BY KeyInKeys DEF TableOK, IsActive
    <2> QED
        BY <2>1 DEF Sound, KeyMeansRow
<1>5. UniqueSeen(s, table)
    BY <1>1 DEF Sound, UniqueSeen
<1>6. AcceptedOnce(s, table, used)
    BY DEF Sound, AcceptedOnce
<1> QED
    BY <1>2, <1>3, <1>4, <1>5, <1>6 DEF Sound

\* An INSERT or an UPDATE of row m to new, which the unique indexes take, together
\* with the proofs that the call accepts.
LEMMA WriteSound ==
    ASSUME NEW t \in Transaction, NEW s \in Transaction, NEW table, NEW used, TableOK(table, used),
           Sound(t, table, used), NEW m \in FactorIds, NEW old, old = Seen(t, table, m),
           NEW new, GoodRow(new),
           old # None => old.status # "revoked" /\ Grows(old, new),
           IsActive(new) => \A n \in FactorIds \ {m} :
               IsActive(Seen(t, table, n)) => Key(Seen(t, table, n)) # Key(new),
           NEW keys, \A k : k \in keys <=> \/ IsActive(new) /\ k = Key(new)
                                           \/ IsActive(old) /\ k = Key(old),
           NEW acc, \A p \in acc : p[1] = m /\ p \notin used /\ Records(new, p[2]),
           s.writes = [n \in {m} \cup DOMAIN t.writes |-> IF n = m THEN new ELSE t.writes[n]],
           s.locks = t.locks \cup {m} \cup keys, s.accepted = t.accepted \cup acc
    PROVE  Sound(s, table, used)
<1>w. /\ DOMAIN s.writes = {m} \cup DOMAIN t.writes
      /\ s.writes[m] = new
      /\ \A n \in DOMAIN t.writes \ {m} : s.writes[n] = t.writes[n]
    OBVIOUS
<1>s. Seen(s, table, m) = new /\ \A n \in FactorIds \ {m} : Seen(s, table, n) = Seen(t, table, n)
    BY <1>w DEF Seen
<1>r. new \in Row /\ new # None
    BY RowsAreThere DEF GoodRow
<1>o. /\ table[m] # None => old # None /\ table[m] \in Row /\ Grows(table[m], old)
      /\ old # None => old \in Row /\ GoodRow(old)
      /\ \A n \in FactorIds : table[n] # None => GoodRow(table[n])
    BY SeenFacts DEF TableOK
<1>t. table[m] # None => table[m].status # "revoked" /\ Grows(table[m], new)
    <2> SUFFICES ASSUME table[m] # None
                 PROVE  table[m].status # "revoked" /\ Grows(table[m], new)
        OBVIOUS
    <2>1. Grows(table[m], new)
        BY <1>r, <1>o, GrowsOn
    <2>2. table[m].status # "revoked"
        BY <1>o DEF Grows
    <2> QED
        BY <2>1, <2>2
<1>k. /\ new.status = "active" => Key(new) \in keys
      /\ IsActive(old) => Key(old) \in keys
      /\ \A k \in keys : k \notin FactorIds /\ \/ IsActive(new) /\ k = Key(new)
                                               \/ IsActive(old) /\ k = Key(old)
    BY <1>r, <1>o, KeyInKeys DEF IsActive
<1>1. WroteUnderLock(s, table)
    <2> SUFFICES ASSUME NEW n \in DOMAIN s.writes
                 PROVE  /\ n \in s.locks
                        /\ GoodRow(s.writes[n])
                        /\ table[n] # None => Grows(table[n], s.writes[n])
                        /\ s.writes[n].status = "active" => Key(s.writes[n]) \in s.locks
        BY DEF WroteUnderLock
    <2>1. CASE n = m
        BY <2>1, <1>w, <1>t, <1>k
    <2>2. CASE n # m
        BY <2>2, <1>w DEF Sound, WroteUnderLock
    <2> QED
        BY <2>1, <2>2
<1>2. LocksExist(s, table)
    BY <1>s, <1>r, <1>k DEF Sound, LocksExist
<1>3. KeyMeansRow(s, table)
    <2> SUFFICES ASSUME NEW n \in FactorIds, IsActive(table[n]), Key(table[n]) \in s.locks,
                        n \notin s.locks
                 PROVE  FALSE
        BY DEF KeyMeansRow
    <2>1. n # m /\ n \notin t.locks
        OBVIOUS
    <2>2. Seen(t, table, n) = table[n]
        BY <2>1, SeenFacts
    <2>3. Key(table[n]) \in keys
        BY <2>1, <1>o, KeyInKeys DEF Sound, KeyMeansRow, IsActive
    <2>4. CASE IsActive(new) /\ Key(table[n]) = Key(new)
        BY <2>1, <2>2, <2>4
    <2>5. CASE IsActive(old) /\ Key(table[n]) = Key(old)
        BY <2>1, <2>2, <2>5 DEF Sound, UniqueSeen
    <2> QED
        BY <2>3, <2>4, <2>5, <1>k
<1>4. UniqueSeen(s, table)
    <2> SUFFICES ASSUME NEW n \in FactorIds, NEW o \in FactorIds,
                        IsActive(Seen(s, table, n)), IsActive(Seen(s, table, o)),
                        Key(Seen(s, table, n)) = Key(Seen(s, table, o))
                 PROVE  n = o
        BY DEF UniqueSeen
    <2>1. CASE n = m /\ o # m
        BY <2>1, <1>s
    <2>2. CASE n # m /\ o = m
        BY <2>2, <1>s
    <2>3. CASE n # m /\ o # m
        BY <2>3, <1>s DEF Sound, UniqueSeen
    <2> QED
        BY <2>1, <2>2, <2>3
<1>5. AcceptedOnce(s, table, used)
    <2> SUFFICES ASSUME NEW p \in s.accepted
                 PROVE  /\ p \notin used
                        /\ p[1] \in DOMAIN s.writes
                        /\ Records(s.writes[p[1]], p[2])
                        /\ table[p[1]] # None => table[p[1]].status # "revoked"
        BY DEF AcceptedOnce
    <2>1. CASE p \in acc
        BY <2>1, <1>w, <1>t
    <2>2. CASE p \in t.accepted
        <3>1. /\ p \notin used /\ p[1] \in DOMAIN t.writes /\ Records(t.writes[p[1]], p[2])
              /\ table[p[1]] # None => table[p[1]].status # "revoked"
            BY <2>2 DEF Sound, AcceptedOnce
        <3>2. CASE p[1] = m
            <4>1. old = t.writes[m] /\ t.writes[m] \in Row /\ old # None
                BY <3>1, <3>2, TransactionFacts, RowsAreThere DEF Seen
            <4>2. Records(new, p[2])
                BY <3>1, <3>2, <4>1, <1>r, RecordsOn
            <4> QED
                BY <3>1, <3>2, <4>2, <1>w
        <3>3. CASE p[1] # m
            BY <3>1, <3>3, <1>w
        <3> QED
            BY <3>2, <3>3
    <2> QED
        BY <2>1, <2>2
<1> QED
    BY <1>1, <1>2, <1>3, <1>4, <1>5 DEF Sound

\* COMMIT of t: the table stays good and every row only grows.
LEMMA CommitTable ==
    ASSUME NEW t \in Transaction, NEW table, NEW used, TableOK(table, used), Sound(t, table, used),
           NEW table2, table2 = [m \in FactorIds |-> Seen(t, table, m)],
           NEW used2, used2 = used \cup t.accepted, used \subseteq Proofs
    PROVE  /\ TableOK(table2, used2)
           /\ \A m \in FactorIds : table[m] # None =>
                 table2[m] # None /\ table[m] \in Row /\ table2[m] \in Row /\ Grows(table[m], table2[m])
           /\ \A m \in FactorIds \ t.locks : table2[m] = table[m]
<1>1. \A m \in FactorIds : table[m] # None =>
          table2[m] # None /\ table[m] \in Row /\ table2[m] \in Row /\ Grows(table[m], table2[m])
    BY SeenFacts
<1>2. \A m \in FactorIds \ t.locks : table2[m] = table[m]
    BY SeenFacts
<1>3. table2 \in [FactorIds -> Row \cup {None}]
    BY SeenFacts
<1>4. \A m \in FactorIds : table2[m] # None => GoodRow(table2[m])
    BY SeenFacts
<1>5. UniqueSeen(NoTx, table2)
    <2>1. \A m \in FactorIds : Seen(NoTx, table2, m) = Seen(t, table, m)
        BY NoTxFacts DEF Seen
    <2> QED
        BY <2>1 DEF Sound, UniqueSeen
<1>6. ASSUME NEW p \in used2 PROVE table2[p[1]] # None /\ Records(table2[p[1]], p[2])
    <2>1. CASE p \in used
        <3>1. p[1] \in FactorIds
            BY <2>1 DEF Proofs
        <3>2. table[p[1]] # None /\ Records(table[p[1]], p[2])
            BY <2>1 DEF TableOK
        <3> QED
            BY <1>1, <3>1, <3>2, RecordsOn
    <2>2. CASE p \in t.accepted
        <3>1. p[1] \in DOMAIN t.writes /\ Records(t.writes[p[1]], p[2])
            BY <2>2 DEF Sound, AcceptedOnce
        <3>2. p[1] \in FactorIds /\ t.writes[p[1]] \in Row
            BY <3>1, TransactionFacts
        <3>3. table2[p[1]] = t.writes[p[1]]
            BY <3>1, <3>2 DEF Seen
        <3> QED
            BY <3>1, <3>2, <3>3, RowsAreThere
    <2> QED
        BY <2>1, <2>2
<1> QED
    BY <1>1, <1>2, <1>3, <1>4, <1>5, <1>6 DEF TableOK

\* A transaction that holds none of the locks of t does not notice the commit of t.
LEMMA CommitSound ==
    ASSUME NEW t \in Transaction, NEW table, NEW used, TableOK(table, used), Sound(t, table, used),
           NEW table2, table2 = [m \in FactorIds |-> Seen(t, table, m)],
           NEW used2, used2 = used \cup t.accepted, used \subseteq Proofs,
           NEW s \in Transaction, Sound(s, table, used), s.locks \cap t.locks = {}
    PROVE  Sound(s, table2, used2)
<1>t. /\ \A m \in FactorIds : table[m] # None =>
             table2[m] # None /\ table[m] \in Row /\ table2[m] \in Row /\ Grows(table[m], table2[m])
      /\ \A m \in FactorIds \ t.locks : table2[m] = table[m]
      /\ TableOK(table2, used2)
    BY CommitTable
<1>d. DOMAIN s.writes \subseteq FactorIds /\ DOMAIN s.writes \subseteq s.locks
    BY TransactionFacts DEF Sound, WroteUnderLock
<1>e. \A m \in FactorIds : m \in t.locks => m \notin s.locks /\ m \notin DOMAIN s.writes
    BY <1>d
<1>1. WroteUnderLock(s, table2)
    <2>1. \A m \in DOMAIN s.writes : table2[m] = table[m]
        BY <1>t, <1>d, <1>e
    <2> QED
        BY <2>1 DEF Sound, WroteUnderLock
<1>2. LocksExist(s, table2)
    <2>1. \A m \in FactorIds \cap s.locks : Seen(s, table2, m) = Seen(s, table, m)
        BY <1>t, <1>e DEF Seen
    <2> QED
        BY <2>1 DEF Sound, LocksExist
\* An active row that t writes is under an index entry that t holds.
<1>a. ASSUME NEW m \in FactorIds, IsActive(table2[m]), table2[m] # table[m]
      PROVE  /\ m \in t.locks /\ m \in DOMAIN t.writes
             /\ table2[m] = t.writes[m] /\ Key(table2[m]) \in t.locks
    BY <1>a DEF Seen, IsActive, Sound, WroteUnderLock
<1>3. KeyMeansRow(s, table2)
    <2> SUFFICES ASSUME NEW m \in FactorIds, IsActive(table2[m]), Key(table2[m]) \in s.locks
                 PROVE  m \in s.locks
        BY DEF KeyMeansRow
    <2>1. table2[m] = table[m]
        BY <1>a
    <2> QED
        BY <2>1 DEF Sound, KeyMeansRow
<1>4. UniqueSeen(s, table2)
    <2>1. ASSUME NEW m \in DOMAIN s.writes, NEW n \in FactorIds \ DOMAIN s.writes,
                 IsActive(s.writes[m]), IsActive(table2[n]), Key(s.writes[m]) = Key(table2[n])
          PROVE  m = n
        <3>1. Key(s.writes[m]) \in s.locks
            BY <2>1 DEF Sound, WroteUnderLock, IsActive
        <3>2. table2[n] = table[n]
            BY <2>1, <3>1, <1>a
        <3>3. Seen(s, table, m) = s.writes[m] /\ Seen(s, table, n) = table2[n]
            BY <3>2 DEF Seen
        <3> QED
            BY <2>1, <3>3, <1>d DEF Sound, UniqueSeen
    <2> SUFFICES ASSUME NEW m \in FactorIds, NEW n \in FactorIds,
                        IsActive(Seen(s, table2, m)), IsActive(Seen(s, table2, n)),
                        Key(Seen(s, table2, m)) = Key(Seen(s, table2, n))
                 PROVE  m = n
        BY DEF UniqueSeen
    <2>2. CASE m \in DOMAIN s.writes /\ n \in DOMAIN s.writes
        <3>1. Seen(s, table2, m) = Seen(s, table, m) /\ Seen(s, table2, n) = Seen(s, table, n)
            BY <2>2 DEF Seen
        <3> QED
            BY <3>1 DEF Sound, UniqueSeen
    <2>3. CASE m \in DOMAIN s.writes /\ n \notin DOMAIN s.writes
        BY <2>1, <2>3 DEF Seen
    <2>4. CASE m \notin DOMAIN s.writes /\ n \in DOMAIN s.writes
        BY <2>1, <2>4 DEF Seen
    <2>5. CASE m \notin DOMAIN s.writes /\ n \notin DOMAIN s.writes
        <3>1. Seen(s, table2, m) = Seen(NoTx, table2, m) /\ Seen(s, table2, n) = Seen(NoTx, table2, n)
            BY <2>5, NoTxFacts DEF Seen
        <3> QED
            BY <3>1, <1>t DEF TableOK, UniqueSeen
    <2> QED
        BY <2>2, <2>3, <2>4, <2>5
<1>5. AcceptedOnce(s, table2, used2)
    <2> SUFFICES ASSUME NEW p \in s.accepted
                 PROVE  /\ p \notin used2
                        /\ p[1] \in DOMAIN s.writes
                        /\ Records(s.writes[p[1]], p[2])
                        /\ table2[p[1]] # None => table2[p[1]].status # "revoked"
        BY DEF AcceptedOnce
    <2>1. /\ p \notin used /\ p[1] \in DOMAIN s.writes /\ Records(s.writes[p[1]], p[2])
          /\ table[p[1]] # None => table[p[1]].status # "revoked"
        BY DEF Sound, AcceptedOnce
    <2>2. p[1] \in FactorIds /\ p[1] \notin t.locks
        BY <2>1, <1>d, <1>e
    <2>3. p \notin t.accepted
        BY <2>2 DEF Sound, AcceptedOnce, WroteUnderLock
    <2> QED
        BY <2>1, <2>2, <2>3, <1>t
<1> QED
    BY <1>1, <1>2, <1>3, <1>4, <1>5 DEF Sound

\* Nor does the call that this transaction is in the middle of.
LEMMA CommitCall ==
    ASSUME NEW t \in Transaction, NEW table, NEW used, TableOK(table, used), Sound(t, table, used),
           NEW table2, table2 = [m \in FactorIds |-> Seen(t, table, m)],
           NEW used2, used2 = used \cup t.accepted, used \subseteq Proofs,
           NEW s \in Transaction, Sound(s, table, used), s.locks \cap t.locks = {},
           NEW j \in JobType \cup {Idle}, NEW o, CallOK(j, s, o, table, used)
    PROVE  CallOK(j, s, o, table2, used2)
<1> SUFFICES ASSUME j # Idle
             PROVE  CallOK(j, s, o, table2, used2)
    BY DEF CallOK
<1>t. /\ \A m \in FactorIds : table[m] # None =>
             table2[m] # None /\ table[m] \in Row /\ table2[m] \in Row /\ Grows(table[m], table2[m])
      /\ \A m \in FactorIds \ t.locks : table2[m] = table[m]
    BY CommitTable
<1>1. j.saved \in Transaction
    BY DEF JobType
<1>2. Sound(j.saved, table2, used2)
    <2>1. j.saved.locks \cap t.locks = {} /\ Sound(j.saved, table, used)
        BY DEF CallOK
    <2> QED
        BY <1>1, <2>1, CommitSound
<1>3. ASSUME j.op \in {"confirm", "revoke", "verify"}
      PROVE  LockedCallOK(j, s, Seen(s, table2, j.factor))
    <2>1. j.factor \in FactorIds /\ LockedCallOK(j, s, Seen(s, table, j.factor))
        BY <1>3 DEF CallOK
    <2>2. CASE Seen(s, table2, j.factor) = Seen(s, table, j.factor)
        BY <2>1, <2>2
    <2>3. CASE Seen(s, table2, j.factor) # Seen(s, table, j.factor)
        <3>1. /\ Seen(s, table, j.factor) = table[j.factor]
              /\ Seen(s, table2, j.factor) = table2[j.factor]
              /\ j.factor \in t.locks
            BY <2>1, <2>3, <1>t DEF Seen
        <3>2. table[j.factor] # None
            BY <2>1, <3>1 DEF LockedCallOK
        <3>3. table2[j.factor] # None /\ table2[j.factor].type = table[j.factor].type
            BY <1>t, <2>1, <3>2 DEF Grows
        <3>4. j.at = "lock"
            BY <2>1, <3>1 DEF LockedCallOK
        <3> QED
            BY <2>1, <3>1, <3>3, <3>4 DEF LockedCallOK
    <2> QED
        BY <2>2, <2>3
<1> QED
    BY <1>2, <1>3 DEF CallOK

----------------------------------------------------------------------------
(* The steps of client c. *)

OthersKeep(c) ==
    /\ tx' \in [Clients -> Transaction]
    /\ job' \in [Clients -> JobType \cup {Idle}]
    /\ open' \in [Clients -> {"no", "implicit", "outer"}]
    /\ \A d \in Clients \ {c} : tx'[d] = tx[d] /\ job'[d] = job[d] /\ open'[d] = open[d]

\* What c has now locked, and is now about, is nothing that others lock or reserve.
Apart(c) == \A d \in Clients \ {c} :
    /\ tx'[c].locks \cap tx[d].locks = {}
    /\ job[d] # Idle /\ job[d].op = "enroll" =>
          /\ job[d].factor \notin tx'[c].locks
          /\ job'[c] # Idle => job'[c].factor # job[d].factor

\* A step that commits nothing keeps the invariant when it keeps it for c.
LEMMA QuietStep ==
    ASSUME Inv, NEW c \in Clients, OthersKeep(c), Apart(c), UNCHANGED <<mfa, spent>>,
           Sound(tx'[c], mfa, spent), CallOK(job'[c], tx'[c], open'[c], mfa, spent), Reserved(c)',
           job'[c] = Idle /\ open'[c] = "no" => tx'[c] = NoTx
    PROVE  Inv'
<1>1. TableOK(mfa, spent)'
    BY DEF Inv
<1>2. ASSUME NEW d \in Clients PROVE Sound(tx'[d], mfa', spent')
    BY <1>2 DEF Inv, OthersKeep
<1>3. ASSUME NEW d \in Clients PROVE CallOK(job'[d], tx'[d], open'[d], mfa', spent')
    BY <1>3 DEF Inv, OthersKeep
<1>4. ASSUME NEW d \in Clients PROVE Reserved(d)'
    <2>1. CASE d = c
        BY <2>1
    <2>2. CASE d # c
        <3> SUFFICES ASSUME job[d] # Idle, job[d].op = "enroll"
                     PROVE  /\ mfa[job[d].factor] = None
                            /\ \A e \in Clients : job[d].factor \notin tx'[e].locks
                            /\ \A e \in Clients \ {d} : job'[e] # Idle =>
                                  job'[e].factor # job[d].factor
            BY <2>2 DEF OthersKeep, Reserved
        <3>1. Reserved(d)
            BY DEF Inv
        <3> QED
            BY <2>2, <3>1 DEF OthersKeep, Reserved, Apart
    <2> QED
        BY <2>1, <2>2
<1>5. TypeOK'
    <2>1. ASSUME NEW d \in Clients
          PROVE  /\ job'[d] = Idle /\ open'[d] = "no" => tx'[d] = NoTx
                 /\ \A m \in DOMAIN tx'[d].writes : mfa'[m] # None => m \in tx'[d].locks
                 /\ \A e \in Clients \ {d} : tx'[d].locks \cap tx'[e].locks = {}
        <3>1. job'[d] = Idle /\ open'[d] = "no" => tx'[d] = NoTx
            BY DEF Inv, TypeOK, OthersKeep
        <3>2. \A m \in DOMAIN tx'[d].writes : mfa'[m] # None => m \in tx'[d].locks
            BY <1>2 DEF Sound, WroteUnderLock
        <3>3. \A e \in Clients \ {d} : tx'[d].locks \cap tx'[e].locks = {}
            BY DEF Inv, TypeOK, OthersKeep, Apart
        <3> QED
            BY <3>1, <3>2, <3>3
    <2> QED
        BY <2>1 DEF TypeOK, Inv, OthersKeep
<1> QED
    BY <1>1, <1>2, <1>3, <1>4, <1>5 DEF Inv

\* What a commit of c does to the table, in the words of the lemmas above.
LEMMA CommitRows ==
    ASSUME TypeOK, NEW c \in Clients, CommitAll(c)
    PROVE  /\ mfa' = [m \in FactorIds |-> Seen(tx[c], mfa, m)]
           /\ spent' = spent \cup tx[c].accepted
           /\ tx' = [tx EXCEPT ![c] = NoTx]
BY DEF CommitAll, Committed, Seen

\* A step that commits keeps the invariant: c is idle after it.
LEMMA CommitStep ==
    ASSUME Inv, NEW c \in Clients, CommitAll(c), OthersKeep(c), job'[c] = Idle
    PROVE  Inv'
<1>1. PICK t \in Transaction : t = tx[c]
    BY DEF Inv, TypeOK
<1>2. /\ mfa' = [m \in FactorIds |-> Seen(t, mfa, m)]
      /\ spent' = spent \cup t.accepted
      /\ tx'[c] = NoTx
    BY <1>1, CommitRows DEF Inv, TypeOK
<1>3. TableOK(mfa, spent) /\ Sound(t, mfa, spent) /\ spent \subseteq Proofs
    BY <1>1 DEF Inv, TypeOK
<1>4. TableOK(mfa', spent')
    BY <1>2, <1>3, CommitTable
<1>5. ASSUME NEW d \in Clients \ {c}
      PROVE  tx[d] \in Transaction /\ Sound(tx[d], mfa, spent) /\ tx[d].locks \cap t.locks = {}
             /\ job[d] \in JobType \cup {Idle} /\ CallOK(job[d], tx[d], open[d], mfa, spent)
    BY <1>1 DEF Inv, TypeOK
<1>6. ASSUME NEW d \in Clients \ {c} PROVE Sound(tx[d], mfa', spent')
    BY <1>2, <1>3, <1>5, CommitSound
<1>7. ASSUME NEW d \in Clients \ {c} PROVE CallOK(job[d], tx[d], open[d], mfa', spent')
    BY <1>2, <1>3, <1>5, CommitCall
<1>8. ASSUME NEW d \in Clients
      PROVE  Sound(tx'[d], mfa', spent') /\ CallOK(job'[d], tx'[d], open'[d], mfa', spent')
    <2>1. CASE d = c
        BY <2>1, <1>2, <1>4, NoTxSound DEF CallOK
    <2>2. CASE d # c
        BY <2>2, <1>6, <1>7 DEF OthersKeep
    <2> QED
        BY <2>1, <2>2
<1>9. ASSUME NEW d \in Clients PROVE Reserved(d)'
    <2> SUFFICES ASSUME job'[d] # Idle, job'[d].op = "enroll"
                 PROVE  /\ mfa'[job'[d].factor] = None
                        /\ \A e \in Clients : job'[d].factor \notin tx'[e].locks
                        /\ \A e \in Clients \ {d} : job'[e] # Idle =>
                              job'[e].factor # job'[d].factor
        BY DEF Reserved
    <2>1. d # c /\ job'[d] = job[d]
        BY DEF OthersKeep
    <2>2. Reserved(d) /\ job[d].factor \in FactorIds
        BY <2>1, <1>5 DEF Inv, CallOK
    <2>3. mfa[job[d].factor] = None /\ job[d].factor \notin t.locks
        BY <1>1, <2>1, <2>2 DEF Reserved
    <2>4. mfa'[job[d].factor] = None
        BY <1>2, <1>3, <2>2, <2>3 DEF Seen, Sound, WroteUnderLock
    <2>5. \A e \in Clients : job[d].factor \notin tx'[e].locks
        BY <1>2, <2>1, <2>2, NoTxFacts DEF Reserved, OthersKeep
    <2> QED
        BY <2>1, <2>2, <2>4, <2>5 DEF Reserved, OthersKeep
<1>10. TypeOK'
    <2>1. ASSUME NEW d \in Clients
          PROVE  /\ job'[d] = Idle /\ open'[d] = "no" => tx'[d] = NoTx
                 /\ \A m \in DOMAIN tx'[d].writes : mfa'[m] # None => m \in tx'[d].locks
                 /\ \A e \in Clients \ {d} : tx'[d].locks \cap tx'[e].locks = {}
        <3>1. job'[d] = Idle /\ open'[d] = "no" => tx'[d] = NoTx
            BY <1>2 DEF Inv, TypeOK, OthersKeep
        <3>2. \A m \in DOMAIN tx'[d].writes : mfa'[m] # None => m \in tx'[d].locks
            BY <1>8 DEF Sound, WroteUnderLock
        <3>3. \A e \in Clients \ {d} : tx'[d].locks \cap tx'[e].locks = {}
            BY <1>2, NoTxFacts DEF Inv, TypeOK, OthersKeep
        <3> QED
            BY <3>1, <3>2, <3>3
    <2>2. mfa' \in [FactorIds -> Row \cup {None}]
        BY <1>4 DEF TableOK
    <2>3. spent' \subseteq Proofs
        BY <1>2, <1>3, TransactionFacts
    <2> QED
        BY <2>1, <2>2, <2>3 DEF TypeOK, OthersKeep
<1> QED
    BY <1>4, <1>8, <1>9, <1>10 DEF Inv

\* The call of c after its last statement.
LEMMA ThroughJob ==
    ASSUME Inv, NEW c \in Clients, job[c] # Idle, Through(c)
    PROVE  /\ job' \in [Clients -> JobType \cup {Idle}]
           /\ \A d \in Clients \ {c} : job'[d] = job[d]
           /\ job'[c] \in JobType /\ job'[c].op = "any" /\ job'[c].at = "return"
           /\ job'[c].factor = None /\ job'[c].saved = job[c].saved
<1>1. job \in [Clients -> JobType \cup {Idle}] /\ job[c].saved \in Transaction
    BY DEF Inv, TypeOK, JobType
<1>2. PICK j : j = [op |-> "any", at |-> "return", factor |-> None, arg |-> None, row |-> None,
                    saved |-> job[c].saved]
    OBVIOUS
<1>3. job' = [job EXCEPT ![c] = j]
    <2>1. [Job(c, "any", "return", None, None, None) EXCEPT !.saved = job[c].saved] = j
        BY <1>2 DEF Job
    <2> QED
        BY <2>1 DEF Through
<1>4. j \in JobType
    BY <1>1, <1>2 DEF JobType, Ops
<1> QED
    BY <1>1, <1>2, <1>3, <1>4

\* No client holds the index entry of a row that is active and not locked.
LEMMA OldKeyFree ==
    ASSUME Inv, NEW c \in Clients, NEW m \in FactorIds, Free(c, m), IsActive(View(c, m)),
           NEW d \in Clients \ {c}
    PROVE  Key(View(c, m)) \notin tx[d].locks
<1>1. tx[c].locks \cap tx[d].locks = {} /\ Sound(tx[c], mfa, spent) /\ Sound(tx[d], mfa, spent)
    BY DEF Inv, TypeOK
<1>2. CASE m \in DOMAIN tx[c].writes
    BY <1>1, <1>2 DEF View, Sound, WroteUnderLock, IsActive
<1>3. CASE m \notin DOMAIN tx[c].writes
    BY <1>1, <1>3 DEF View, Sound, KeyMeansRow, Free
<1> QED
    BY <1>2, <1>3

\* Facts about the call of c that every step of it starts from.
LEMMA CallFacts ==
    ASSUME Inv, NEW c \in Clients, job[c] # Idle
    PROVE  /\ job[c] \in JobType /\ job[c].saved \in Transaction /\ tx[c] \in Transaction
           /\ Sound(job[c].saved, mfa, spent) /\ Sound(tx[c], mfa, spent)
           /\ job[c].saved.locks \subseteq tx[c].locks
           /\ open[c] = "no" => job[c].saved = NoTx
           /\ job[c].op # "any" => job[c].factor \in FactorIds
           /\ job[c].op = "enroll" => GoodRow(job[c].row) /\ tx[c] = job[c].saved /\ Reserved(c)
           /\ job[c].op \in {"confirm", "revoke", "verify"}
                 => LockedCallOK(job[c], tx[c], View(c, job[c].factor))
           /\ \A d \in Clients \ {c} :
                 /\ tx[c].locks \cap tx[d].locks = {}
                 /\ job[d] # Idle /\ job[d].op = "enroll" =>
                       /\ job[d].factor \in FactorIds
                       /\ job[d].factor # job[c].factor
                       /\ job[d].factor \notin tx[c].locks
<1>1. /\ job[c] \in JobType /\ tx[c] \in Transaction /\ Sound(tx[c], mfa, spent)
      /\ CallOK(job[c], tx[c], open[c], mfa, spent) /\ Reserved(c)
      /\ \A d \in Clients \ {c} : tx[c].locks \cap tx[d].locks = {}
    BY DEF Inv, TypeOK
<1>2. ASSUME NEW d \in Clients \ {c}, job[d] # Idle, job[d].op = "enroll"
      PROVE  /\ job[d].factor \in FactorIds
             /\ job[d].factor # job[c].factor
             /\ job[d].factor \notin tx[c].locks
    <2>1. CallOK(job[d], tx[d], open[d], mfa, spent) /\ Reserved(d)
        BY DEF Inv
    <2> QED
        BY <1>2, <2>1 DEF CallOK, Reserved
<1>3. View(c, job[c].factor) = Seen(tx[c], mfa, job[c].factor)
    BY DEF View, Seen
<1> QED
    BY <1>1, <1>2, <1>3 DEF CallOK, JobType

\* The call raises: what it has locked and written goes, what was there before stays.
LEMMA RaiseStep ==
    ASSUME Inv, NEW c \in Clients, job[c] # Idle, Raise(c)
    PROVE  Inv'
<1>1. /\ tx'[c] = job[c].saved /\ job'[c] = Idle /\ open'[c] = open[c]
      /\ OthersKeep(c) /\ UNCHANGED <<mfa, spent>>
    BY CallFacts DEF Raise, OthersKeep, Inv, TypeOK
<1>2. Apart(c)
    BY <1>1, CallFacts DEF Apart
<1>3. CallOK(job'[c], tx'[c], open'[c], mfa, spent) /\ Reserved(c)'
    BY <1>1 DEF CallOK, Reserved
<1>4. Sound(tx'[c], mfa, spent) /\ (job'[c] = Idle /\ open'[c] = "no" => tx'[c] = NoTx)
    BY <1>1, CallFacts
<1> QED
    BY <1>1, <1>2, <1>3, <1>4, QuietStep

\* The statement that writes: the row and its new index entry are nobody else's.
LEMMA WriteStep ==
    ASSUME Inv, NEW c \in Clients, job[c] # Idle, NEW m \in FactorIds, m = job[c].factor,
           NEW row, NEW acc \in SUBSET Proofs, Write(c, m, row, acc), Free(c, m), GoodRow(row),
           View(c, m) # None => View(c, m).status # "revoked" /\ Grows(View(c, m), row),
           IsActive(row) => /\ Free(c, Key(row))
                            /\ \A n \in FactorIds \ {m} :
                                  IsActive(View(c, n)) => Key(View(c, n)) # Key(row),
           \A p \in acc : p[1] = m /\ p \notin spent /\ Records(row, p[2])
    PROVE  Inv'
<1>0. PICK t \in Transaction : t = tx[c]
    BY CallFacts
<1>1. PICK old : old = View(c, m)
    OBVIOUS
<1>2. PICK keys : keys = {Key(r) : r \in {r \in {old, row} : r # None /\ r.status = "active"}}
    OBVIOUS
<1>k. \A k : k \in keys <=> \/ IsActive(row) /\ k = Key(row)
                            \/ IsActive(old) /\ k = Key(old)
    BY <1>2 DEF IsActive
<1>3. PICK s : s = [writes |-> [n \in {m} \cup DOMAIN t.writes |-> IF n = m THEN row ELSE t.writes[n]],
                    locks |-> t.locks \cup {m} \cup keys, accepted |-> t.accepted \cup acc]
    OBVIOUS
<1>4. tx' = [tx EXCEPT ![c] = s] /\ Through(c) /\ UNCHANGED <<mfa, open, spent>>
    BY <1>0, <1>1, <1>2, <1>3 DEF Write, Transaction
<1>5. /\ old = Seen(t, mfa, m)
      /\ \A n \in FactorIds : View(c, n) = Seen(t, mfa, n)
      /\ TableOK(mfa, spent) /\ Sound(t, mfa, spent)
    BY <1>0, <1>1 DEF View, Seen, Inv
<1>6. old # None => GoodRow(old)
    BY <1>5, SeenFacts
<1>7. \A k \in keys : \/ IsActive(row) /\ k = Key(row) /\ k \in Keys
                      \/ IsActive(old) /\ k = Key(old) /\ k \in Keys
    BY <1>k, <1>6, KeyInKeys DEF IsActive
<1>8. s \in Transaction
    <2>1. row \in Row
        BY DEF GoodRow
    <2>2. [n \in {m} \cup DOMAIN t.writes |-> IF n = m THEN row ELSE t.writes[n]]
             \in [{m} \cup DOMAIN t.writes -> Row]
        BY <2>1, TransactionFacts
    <2>3. {m} \cup DOMAIN t.writes \in SUBSET FactorIds
        BY TransactionFacts
    <2>4. t.locks \cup {m} \cup keys \in SUBSET (FactorIds \cup Keys)
        BY <1>7, TransactionFacts
    <2>5. t.accepted \cup acc \in SUBSET Proofs
        BY TransactionFacts
    <2> QED
        BY <1>3, <2>2, <2>3, <2>4, <2>5 DEF Transaction
<1>9. Sound(s, mfa, spent)
    <2>1. IsActive(row) => \A n \in FactorIds \ {m} :
             IsActive(Seen(t, mfa, n)) => Key(Seen(t, mfa, n)) # Key(row)
        BY <1>5
    <2>2. old # None => old.status # "revoked" /\ Grows(old, row)
        BY <1>1
    <2>3. /\ s.writes = [n \in {m} \cup DOMAIN t.writes |-> IF n = m THEN row ELSE t.writes[n]]
          /\ s.locks = t.locks \cup {m} \cup keys /\ s.accepted = t.accepted \cup acc
        BY <1>3
    <2> QED
        BY <1>k, <1>5, <1>8, <2>1, <2>2, <2>3, WriteSound
<1>10. tx'[c] = s /\ open'[c] = open[c] /\ OthersKeep(c)
    BY <1>4, <1>8, ThroughJob DEF OthersKeep, Inv, TypeOK
<1>11. Apart(c)
    <2> SUFFICES ASSUME NEW d \in Clients \ {c}
                 PROVE  /\ s.locks \cap tx[d].locks = {}
                        /\ job[d] # Idle /\ job[d].op = "enroll" =>
                              job[d].factor \notin s.locks /\ job'[c].factor # job[d].factor
        BY <1>10 DEF Apart
    <2>1. \A k \in keys : k \notin tx[d].locks
        BY <1>1, <1>7, OldKeyFree DEF Free
    <2>2. s.locks \cap tx[d].locks = {}
        BY <1>0, <1>3, <2>1, CallFacts DEF Free
    <2>3. ASSUME job[d] # Idle, job[d].op = "enroll"
          PROVE  job[d].factor \notin s.locks /\ job'[c].factor # job[d].factor
        <3>1. /\ job[d].factor \in FactorIds /\ job[d].factor # m /\ job[d].factor \notin t.locks
            BY <1>0, <2>3, CallFacts
        <3>2. job[d].factor \notin keys
            BY <1>7, <3>1, PgMfaApart
        <3>3. job'[c].factor = None
            BY <1>4, ThroughJob
        <3> QED
            BY <1>3, <3>1, <3>2, <3>3, PgMfaAssumption
    <2> QED
        BY <2>2, <2>3
<1>12. CallOK(job'[c], s, open[c], mfa, spent) /\ Reserved(c)' /\ job'[c] # Idle
    <2>1. /\ job'[c] \in JobType /\ job'[c].op = "any" /\ job'[c].at = "return"
          /\ job'[c].saved = job[c].saved
        BY <1>4, ThroughJob
    <2>2. job'[c] # Idle
        BY <2>1, NoRowAssumption DEF Idle
    <2>3. Sound(job'[c].saved, mfa, spent) /\ job'[c].saved.locks \subseteq s.locks
        BY <1>0, <1>3, <2>1, CallFacts
    <2>4. open[c] = "no" => job'[c].saved = NoTx
        BY <2>1, CallFacts
    <2> QED
        BY <2>1, <2>2, <2>3, <2>4 DEF CallOK, Reserved
<1> QED
    BY <1>4, <1>9, <1>10, <1>11, <1>12, QuietStep

\* The statement that only locks the row that the call is about.
LEMMA LockStep ==
    ASSUME Inv, NEW c \in Clients, job[c] # Idle, NEW m \in FactorIds, m = job[c].factor,
           View(c, m) # None, Free(c, m), LockRow(c),
           job' \in [Clients -> JobType \cup {Idle}], \A d \in Clients \ {c} : job'[d] = job[d],
           job'[c] # Idle, job'[c].op # "enroll", job'[c].factor \in {m, None},
           Sound(job'[c].saved, mfa, spent), job'[c].saved = job[c].saved,
           NEW s, s = [tx[c] EXCEPT !.locks = @ \cup {m}],
           CallOK(job'[c], s, open[c], mfa, spent)
    PROVE  Inv'
<1>0. PICK t \in Transaction : t = tx[c]
    BY CallFacts
<1>1. s.writes = t.writes /\ s.locks = t.locks \cup {m} /\ s.accepted = t.accepted
    BY <1>0 DEF Transaction
<1>2. s \in Transaction
    BY <1>0 DEF Transaction
<1>3. tx' = [tx EXCEPT ![c] = s] /\ UNCHANGED <<mfa, open, spent>>
    BY DEF LockRow
<1>4. TableOK(mfa, spent) /\ Sound(t, mfa, spent) /\ Seen(t, mfa, m) # None
    BY <1>0 DEF Inv, View, Seen
<1>5. Sound(s, mfa, spent)
    BY <1>1, <1>2, <1>4, LockSound
<1>6. tx'[c] = s /\ open'[c] = open[c] /\ OthersKeep(c)
    BY <1>2, <1>3 DEF OthersKeep, Inv, TypeOK
<1>7. Apart(c)
    <2> SUFFICES ASSUME NEW d \in Clients \ {c}
                 PROVE  /\ s.locks \cap tx[d].locks = {}
                        /\ job[d] # Idle /\ job[d].op = "enroll" =>
                              job[d].factor \notin s.locks /\ job'[c].factor # job[d].factor
        BY <1>6 DEF Apart
    <2>1. s.locks \cap tx[d].locks = {}
        BY <1>0, <1>1, CallFacts DEF Free
    <2>2. job[d] # Idle /\ job[d].op = "enroll" =>
              /\ job[d].factor \in FactorIds /\ job[d].factor # m /\ job[d].factor \notin t.locks
        BY <1>0, CallFacts
    <2> QED
        BY <1>1, <2>1, <2>2, PgMfaAssumption
<1>8. Reserved(c)'
    BY DEF Reserved
<1> QED
    BY <1>3, <1>5, <1>6, <1>7, <1>8, QuietStep

\* A factor that nobody has inserted yet is known to nobody.
LEMMA FreshFactor ==
    ASSUME Inv, NEW m \in FactorIds, Fresh(m), NEW d \in Clients
    PROVE  mfa[m] = None /\ m \notin tx[d].locks /\ (job[d] # Idle => job[d].factor # m)
<1>1. Seen(tx[d], mfa, m) = None
    BY DEF Fresh, Seen
<1> QED
    BY <1>1 DEF Fresh, Inv, Sound, LocksExist

\* A row that is reserved is seen by nobody.
LEMMA ReservedUnseen ==
    ASSUME Inv, NEW c \in Clients, NEW d \in Clients, job[d] # Idle, job[d].op = "enroll"
    PROVE  job[d].factor \in FactorIds /\ Seen(tx[c], mfa, job[d].factor) = None
<1>1. /\ CallOK(job[d], tx[d], open[d], mfa, spent) /\ Reserved(d)
      /\ tx[c] \in Transaction /\ Sound(tx[c], mfa, spent) /\ TableOK(mfa, spent)
    BY DEF Inv, TypeOK
<1>2. PICK m \in FactorIds : m = job[d].factor
    BY <1>1 DEF CallOK
<1>3. mfa[m] = None /\ m \notin tx[c].locks
    BY <1>1, <1>2 DEF Reserved
<1>4. Seen(tx[c], mfa, m) = None
    BY <1>1, <1>3, SeenFacts
<1> QED
    BY <1>2, <1>4

\* A call begins: with an id that nobody knows, or about a row that is there.
LEMMA BeginStep ==
    ASSUME Inv, NEW c \in Clients, NEW j \in JobType, Begin(c, j), j.saved = tx[c],
           j.factor \in FactorIds, NEW o \in {"no", "implicit", "outer"},
           open' = [open EXCEPT ![c] = o], o = "no" => open[c] = "no",
           \/ /\ j.op = "enroll" /\ j.at \in {"check_singleton", "write"}
              /\ GoodRow(j.row) /\ Fresh(j.factor)
           \/ /\ j.op \in {"confirm", "revoke", "verify"}
              /\ LockedCallOK(j, tx[c], View(c, j.factor))
    PROVE  Inv'
<1>1. /\ tx' = tx /\ UNCHANGED <<mfa, spent>> /\ job[c] = Idle /\ job'[c] = j /\ open'[c] = o
      /\ OthersKeep(c) /\ Sound(tx[c], mfa, spent)
    BY DEF Begin, OthersKeep, Inv, TypeOK
<1>2. o = "no" => tx[c] = NoTx
    BY <1>1 DEF Inv, TypeOK
<1>3. View(c, j.factor) = Seen(tx[c], mfa, j.factor)
    BY DEF View, Seen
<1>4. CallOK(j, tx[c], o, mfa, spent)
    BY <1>1, <1>2, <1>3 DEF CallOK
<1>5. Reserved(c)'
    <2> SUFFICES ASSUME j.op = "enroll"
                 PROVE  /\ mfa[j.factor] = None
                        /\ \A d \in Clients : j.factor \notin tx[d].locks
                        /\ \A d \in Clients \ {c} : job[d] # Idle => job[d].factor # j.factor
        BY <1>1 DEF Reserved, OthersKeep
    <2> QED
        BY FreshFactor
<1>6. Apart(c)
    <2> SUFFICES ASSUME NEW d \in Clients \ {c}
                 PROVE  /\ tx[c].locks \cap tx[d].locks = {}
                        /\ job[d] # Idle /\ job[d].op = "enroll" =>
                              job[d].factor \notin tx[c].locks /\ j.factor # job[d].factor
        BY <1>1 DEF Apart
    <2>1. tx[c].locks \cap tx[d].locks = {}
        BY DEF Inv, TypeOK
    <2>2. ASSUME job[d] # Idle, job[d].op = "enroll"
          PROVE  job[d].factor \notin tx[c].locks /\ j.factor # job[d].factor
        <3>1. Reserved(d)
            BY DEF Inv
        <3>2. Seen(tx[c], mfa, job[d].factor) = None
            BY <2>2, ReservedUnseen
        <3>3. j.factor # job[d].factor
            BY <2>2, <3>2, <1>3, FreshFactor DEF LockedCallOK
        <3> QED
            BY <2>2, <3>1, <3>3 DEF Reserved
    <2> QED
        BY <2>1, <2>2
<1>7. j # Idle
    BY NoRowAssumption DEF Idle
<1> QED
    BY <1>1, <1>2, <1>4, <1>5, <1>6, <1>7, QuietStep

----------------------------------------------------------------------------
(* Start(c): a call begins. *)

LEMMA NewRowIsGood ==
    ASSUME NEW u \in UserIds, NEW type \in {"totp", "webauthn", "recovery"},
           NEW w \in WebAuthnIds \cup {None}, type = "webauthn" => w \in WebAuthnIds,
           NEW status \in {"pending", "active"}
    PROVE  GoodRow(NewRow(u, type, w, status)) /\ NewRow(u, type, w, status) \in Row
BY PgMfaAssumption DEF NewRow, GoodRow, Row

\* A plain read opens a transaction, unless there is one or the connection autocommits.
LEMMA PlainReadOpens ==
    ASSUME Inv, NEW c \in Clients, PlainRead(c)
    PROVE  \E o \in {"no", "implicit", "outer"} :
               open' = [open EXCEPT ![c] = o] /\ (o = "no" => open[c] = "no")
<1>1. open[c] \in {"no", "implicit", "outer"}
    BY DEF Inv, TypeOK
<1>2. PICK o : o = IF open[c] = "no" /\ c \notin Autocommit THEN "implicit" ELSE open[c]
    OBVIOUS
<1>3. open' = [open EXCEPT ![c] = o]
    BY <1>2 DEF PlainRead
<1> QED
    BY <1>1, <1>2, <1>3

LEMMA EnrollStep ==
    ASSUME Inv, NEW c \in Clients, NEW m \in FactorIds, NEW row, GoodRow(row), row \in Row,
           NEW at \in {"check_singleton", "write"}, Fresh(m),
           Begin(c, Job(c, "enroll", at, m, None, row)), PlainRead(c)
    PROVE  Inv'
<1>1. PICK j : j = Job(c, "enroll", at, m, None, row)
    OBVIOUS
<1>2. j \in JobType /\ j.op = "enroll" /\ j.at = at /\ j.factor = m /\ j.row = row /\ j.saved = tx[c]
    <2>1. "enroll" \in Ops /\ tx[c] \in Transaction
        BY DEF Ops, Inv, TypeOK
    <2> QED
        BY <1>1, <2>1 DEF Job, JobType
<1>3. PICK o \in {"no", "implicit", "outer"} :
          open' = [open EXCEPT ![c] = o] /\ (o = "no" => open[c] = "no")
    BY PlainReadOpens
<1>4. Begin(c, j) /\ Fresh(j.factor)
    BY <1>1, <1>2
<1> QED
    BY <1>2, <1>3, <1>4, BeginStep

LEMMA LockedStart ==
    ASSUME Inv, NEW c \in Clients, NEW m \in FactorIds, NEW op \in {"confirm", "revoke", "verify"},
           NEW arg \in Slots \cup 0..MaxCount \cup {None},
           NEW row, row = View(c, m), row # None,
           op = "confirm" => /\ row.type \in {"totp", "webauthn"} /\ arg \in 0..MaxCount
                             /\ row.type = "totp" => arg = 0,
           op = "verify" => \/ row.type = "webauthn" /\ arg \in 0..MaxCount
                            \/ row.type = "recovery" /\ arg \in Slots,
           Begin(c, Job(c, op, "lock", m, arg, None)), UNCHANGED open
    PROVE  Inv'
<1>1. PICK j : j = Job(c, op, "lock", m, arg, None)
    OBVIOUS
<1>2. j \in JobType /\ j.op = op /\ j.at = "lock" /\ j.factor = m /\ j.arg = arg /\ j.saved = tx[c]
    <2>1. op \in Ops /\ tx[c] \in Transaction
        BY DEF Ops, Inv, TypeOK
    <2> QED
        BY <1>1, <2>1 DEF Job, JobType
<1>3. PICK o \in {"no", "implicit", "outer"} :
          open' = [open EXCEPT ![c] = o] /\ (o = "no" => open[c] = "no")
    BY DEF Inv, TypeOK
<1>4. LockedCallOK(j, tx[c], View(c, j.factor))
    BY <1>2 DEF LockedCallOK
<1>5. Begin(c, j) /\ j.factor \in FactorIds
    BY <1>1, <1>2
<1> QED
    BY <1>2, <1>3, <1>4, <1>5, BeginStep

LEMMA StartStep ==
    ASSUME Inv, NEW c \in Clients, Start(c)
    PROVE  Inv'
<1>1. ASSUME NEW m \in FactorIds, NEW u \in UserIds, EnrollTotpFactor(c, m, u) PROVE Inv'
    BY <1>1, NewRowIsGood, EnrollStep DEF EnrollTotpFactor
<1>2. ASSUME NEW m \in FactorIds, NEW u \in UserIds, NEW w \in WebAuthnIds,
             EnrollWebAuthnFactor(c, m, u, w)
      PROVE  Inv'
    BY <1>2, NewRowIsGood, EnrollStep DEF EnrollWebAuthnFactor
<1>3. ASSUME NEW m \in FactorIds, NEW u \in UserIds, EnrollRecoveryFactor(c, m, u) PROVE Inv'
    BY <1>3, NewRowIsGood, EnrollStep DEF EnrollRecoveryFactor
<1>4. ASSUME NEW m \in FactorIds, NEW count \in 0..MaxCount, BeginConfirm(c, m, count) PROVE Inv'
    BY <1>4, LockedStart DEF BeginConfirm
<1>5. ASSUME NEW m \in FactorIds, BeginRevoke(c, m) PROVE Inv'
    BY <1>5, LockedStart DEF BeginRevoke
<1>6. ASSUME NEW m \in FactorIds, NEW arg \in Slots \cup 0..MaxCount, BeginVerify(c, m, arg)
      PROVE  Inv'
    BY <1>6, LockedStart DEF BeginVerify, Is
<1> QED
    BY <1>1, <1>2, <1>3, <1>4, <1>5, <1>6 DEF Start

----------------------------------------------------------------------------
(* Continue(c): the statements of a call. *)

\* A row that stays active under its key needs nobody's leave.
LEMMA SameKey ==
    ASSUME Inv, NEW c \in Clients, NEW m \in FactorIds, Free(c, m), IsActive(View(c, m)),
           NEW row, Grows(View(c, m), row)
    PROVE  /\ Free(c, Key(row))
           /\ \A n \in FactorIds \ {m} : IsActive(View(c, n)) => Key(View(c, n)) # Key(row)
<1>1. Key(row) = Key(View(c, m))
    BY GrowsKey
<1>2. \A n \in FactorIds : View(c, n) = Seen(tx[c], mfa, n)
    BY DEF View, Seen
<1>3. UniqueSeen(tx[c], mfa)
    BY DEF Inv, Sound
<1> QED
    BY <1>1, <1>2, <1>3, OldKeyFree DEF Free, UniqueSeen

\* The index lets an active row in whose entry is free and not taken.
LEMMA IndexLetsIn ==
    ASSUME NEW c \in Clients, NEW m \in FactorIds, NEW row, IndexAllows(c, m, row)
    PROVE  IsActive(row) => /\ Free(c, Key(row))
                            /\ \A n \in FactorIds \ {m} :
                                  IsActive(View(c, n)) => Key(View(c, n)) # Key(row)
BY DEF IndexAllows, KeyWaits, KeyTaken, IsActive

LEMMA InsertStep ==
    ASSUME Inv, NEW c \in Clients, InsertFactor(c)
    PROVE  Inv'
<1>1. job[c] # Idle /\ job[c].op = "enroll"
    BY DEF InsertFactor, At
<1>2. PICK m \in FactorIds : m = job[c].factor
    BY <1>1, CallFacts
<1>3. GoodRow(job[c].row) /\ Reserved(c)
    BY <1>1, CallFacts
<1>4. Free(c, m)
    BY <1>1, <1>2, <1>3 DEF Reserved, Free
<1>5. View(c, m) = None
    BY <1>1, <1>2, ReservedUnseen DEF View, Seen
<1>6. Write(c, m, job[c].row, {}) /\ IndexAllows(c, m, job[c].row)
    BY <1>2 DEF InsertFactor
<1> QED
    <2>1. IsActive(job[c].row) =>
              /\ Free(c, Key(job[c].row))
              /\ \A n \in FactorIds \ {m} :
                    IsActive(View(c, n)) => Key(View(c, n)) # Key(job[c].row)
        BY <1>6, IndexLetsIn
    <2>2. {} \in SUBSET Proofs
        OBVIOUS
    <2> QED
        BY <1>1, <1>2, <1>3, <1>4, <1>5, <1>6, <2>1, <2>2, WriteStep

LEMMA CheckStep ==
    ASSUME Inv, NEW c \in Clients, CheckNoActiveTotp(c)
    PROVE  Inv'
<1>1. job[c] # Idle /\ job[c].op = "enroll"
    BY DEF CheckNoActiveTotp, At
<1>2. CASE Raise(c)
    BY <1>1, <1>2, RaiseStep
<1>3. CASE job' = [job EXCEPT ![c].at = "write"] /\ UNCHANGED <<mfa, open, tx, spent>>
    <2>1. PICK j : j = [job[c] EXCEPT !.at = "write"]
        OBVIOUS
    <2>2. /\ j \in JobType /\ j.op = "enroll" /\ j.at = "write" /\ j.saved = job[c].saved
          /\ j.factor = job[c].factor /\ j.row = job[c].row
        <3>1. job[c] \in JobType
            BY <1>1, CallFacts
        <3> QED
            BY <1>1, <2>1, <3>1 DEF JobType
    <2>3. job' = [job EXCEPT ![c] = j]
        BY <1>3, <2>1
    <2>4. j # Idle /\ job'[c] = j /\ OthersKeep(c) /\ tx'[c] = tx[c] /\ open'[c] = open[c]
        BY <1>3, <2>2, <2>3, NoRowAssumption DEF OthersKeep, Inv, TypeOK, Idle
    <2>5. CallOK(j, tx[c], open[c], mfa, spent) /\ Sound(tx[c], mfa, spent)
        BY <1>1, <2>2, CallFacts DEF CallOK
    <2>6. Reserved(c)'
        BY <1>1, <1>3, <2>2, <2>4, CallFacts DEF Reserved, OthersKeep
    <2>7. Apart(c)
        BY <1>1, <2>2, <2>4, CallFacts DEF Apart
    <2> QED
        BY <1>3, <2>4, <2>5, <2>6, <2>7, QuietStep
<1> QED
    BY <1>2, <1>3 DEF CheckNoActiveTotp

LEMMA ConfirmLockStep ==
    ASSUME Inv, NEW c \in Clients, LockToConfirm(c)
    PROVE  Inv'
<1>1. job[c] # Idle /\ job[c].op = "confirm" /\ job[c].at = "lock" /\ job[c] \in JobType
    BY CallFacts DEF LockToConfirm, At
<1>2. PICK m \in FactorIds : m = job[c].factor
    BY <1>1, CallFacts
<1>3. PICK row : row = View(c, m)
    OBVIOUS
<1>4. LockedCallOK(job[c], tx[c], row) /\ row # None /\ tx[c] = job[c].saved
    BY <1>1, <1>2, <1>3, CallFacts DEF LockedCallOK
<1>5. row = Seen(tx[c], mfa, m) /\ row \in Row
    <2>1. row = Seen(tx[c], mfa, m)
        BY <1>3 DEF View, Seen
    <2>2. tx[c] \in Transaction /\ TableOK(mfa, spent) /\ Sound(tx[c], mfa, spent)
        BY DEF Inv, TypeOK
    <2> QED
        BY <1>4, <2>1, <2>2, SeenFacts
<1>6. CASE Raise(c)
    BY <1>1, <1>6, RaiseStep
<1>7. CASE row.status = "pending" /\ LockRow(c)
           /\ job' = [job EXCEPT ![c].at = "write",
                                 ![c].row = [row EXCEPT !.status = "active", !.signCount = job[c].arg]]
    <2>1. PICK new : new = [row EXCEPT !.status = "active", !.signCount = job[c].arg]
        OBVIOUS
    <2>2. new \in Row
        BY <1>1, <1>4, <1>5, <2>1 DEF Row, LockedCallOK
    <2>3. PICK j : j = [job[c] EXCEPT !.at = "write", !.row = new]
        OBVIOUS
    <2>4. /\ j \in JobType /\ j.op = "confirm" /\ j.at = "write" /\ j.saved = job[c].saved
          /\ j.factor = m /\ j.row = new /\ j.arg = job[c].arg
        BY <1>1, <1>2, <2>2, <2>3 DEF JobType
    <2>5. job' = [job EXCEPT ![c] = j]
        BY <1>7, <2>1, <2>3
    <2>6. /\ j # Idle /\ job'[c] = j /\ job' \in [Clients -> JobType \cup {Idle}]
          /\ \A d \in Clients \ {c} : job'[d] = job[d]
        BY <2>4, <2>5, NoRowAssumption DEF Inv, TypeOK, Idle
    <2>7. PICK s : s = [tx[c] EXCEPT !.locks = @ \cup {m}]
        OBVIOUS
    <2>8. s.writes = tx[c].writes /\ s.locks = tx[c].locks \cup {m}
        BY <1>1, <2>7, CallFacts DEF Transaction
    <2>9. LockedCallOK(j, s, Seen(s, mfa, m))
        <3>1. Seen(s, mfa, m) = row
            BY <1>5, <2>8 DEF Seen
        <3> QED
            BY <1>1, <1>4, <1>7, <2>1, <2>4, <2>8, <3>1 DEF LockedCallOK
    <2>10. CallOK(j, s, open[c], mfa, spent)
        BY <1>1, <2>4, <2>8, <2>9, CallFacts DEF CallOK
    <2>11. Free(c, m) /\ View(c, m) # None /\ LockRow(c) /\ Sound(j.saved, mfa, spent)
        BY <1>1, <1>2, <1>3, <1>4, <1>7, <2>4, CallFacts DEF LockToConfirm
    <2> QED
        BY <1>1, <1>2, <2>4, <2>6, <2>7, <2>10, <2>11, LockStep
<1> QED
    BY <1>2, <1>3, <1>6, <1>7 DEF LockToConfirm

LEMMA ActivateStep ==
    ASSUME Inv, NEW c \in Clients, ActivateFactor(c)
    PROVE  Inv'
<1>1. job[c] # Idle /\ job[c].op = "confirm" /\ job[c].at = "write" /\ job[c] \in JobType
    BY CallFacts DEF ActivateFactor, At
<1>2. PICK m \in FactorIds : m = job[c].factor
    BY <1>1, CallFacts
<1>3. PICK old : old = View(c, m)
    OBVIOUS
<1>4. PICK arg \in 0..MaxCount : arg = job[c].arg
    BY <1>1, <1>2, CallFacts DEF LockedCallOK
<1>5. PICK row : row = job[c].row
    OBVIOUS
<1>6. /\ old # None /\ old.status = "pending" /\ m \in tx[c].locks
      /\ row = [old EXCEPT !.status = "active", !.signCount = arg]
    <2>1. LockedCallOK(job[c], tx[c], old)
        BY <1>1, <1>2, <1>3, CallFacts
    <2> QED
        BY <1>1, <1>2, <1>4, <1>5, <2>1 DEF LockedCallOK
<1>7. /\ old \in Row /\ GoodRow(old) /\ tx[c] \in Transaction
      /\ TableOK(mfa, spent) /\ Sound(tx[c], mfa, spent)
      /\ mfa[m] # None => mfa[m] \in Row /\ Grows(mfa[m], old)
    <2>1. old = Seen(tx[c], mfa, m)
        BY <1>3 DEF View, Seen
    <2>2. tx[c] \in Transaction /\ TableOK(mfa, spent) /\ Sound(tx[c], mfa, spent)
        BY DEF Inv, TypeOK
    <2> QED
        BY <1>6, <2>1, <2>2, SeenFacts
<1>8. GoodRow(row) /\ row.consumed = old.consumed /\ row.signCount = arg
    BY <1>6, <1>7 DEF GoodRow, Row
<1>9. Grows(old, row) /\ old.signCount = 0
    BY <1>6, <1>7, PgMfaAssumption DEF GoodRow, Row, Grows
<1>10. PICK acc : acc = Spends(m, arg)
    OBVIOUS
<1>11. Write(c, m, row, acc) /\ IndexAllows(c, m, row)
    BY <1>2, <1>4, <1>5, <1>10 DEF ActivateFactor
<1>12. Free(c, m)
    BY <1>1, <1>6, CallFacts DEF Free
<1>13. acc \in SUBSET Proofs
    BY <1>10 DEF Spends, Proofs
<1>14. ASSUME NEW p \in acc PROVE p[1] = m /\ p \notin spent /\ Records(row, p[2])
    <2>1. p = <<m, arg>> /\ arg \in 1..MaxCount /\ arg \notin Slots
        BY <1>10, PgMfaApart DEF Spends
    <2>2. Records(row, arg)
        BY <1>8, <2>1, PgMfaAssumption DEF Records
    <2>3. ASSUME p \in spent PROVE FALSE
        <3>1. mfa[m] # None /\ Records(mfa[m], arg)
            BY <1>7, <2>1, <2>3 DEF TableOK
        <3>2. arg <= old.signCount
            BY <1>7, <2>1, <3>1, RecordsOn DEF Records
        <3> QED
            BY <1>9, <2>1, <3>2
    <2> QED
        BY <2>1, <2>2, <2>3
<1>15. IsActive(row) => /\ Free(c, Key(row))
                        /\ \A n \in FactorIds \ {m} :
                              IsActive(View(c, n)) => Key(View(c, n)) # Key(row)
    BY <1>11, IndexLetsIn
<1>16. View(c, m) # None => View(c, m).status # "revoked" /\ Grows(View(c, m), row)
    BY <1>3, <1>6, <1>9
<1> QED
    BY <1>1, <1>2, <1>8, <1>11, <1>12, <1>13, <1>14, <1>15, <1>16, WriteStep

\* What is known of a call that has its row: a row that is there, and good.
LEMMA RowFacts ==
    ASSUME Inv, NEW c \in Clients, NEW m \in FactorIds, NEW row, row = View(c, m), row # None
    PROVE  /\ row \in Row /\ GoodRow(row)
           /\ mfa[m] # None => mfa[m] \in Row /\ Grows(mfa[m], row)
           /\ TableOK(mfa, spent)
<1>1. row = Seen(tx[c], mfa, m)
    BY DEF View, Seen
<1>2. tx[c] \in Transaction /\ TableOK(mfa, spent) /\ Sound(tx[c], mfa, spent)
    BY DEF Inv, TypeOK
<1> QED
    BY <1>1, <1>2, SeenFacts

LEMMA RevokeStep ==
    ASSUME Inv, NEW c \in Clients, RevokeMfaFactor(c)
    PROVE  Inv'
<1>1. job[c] # Idle /\ job[c].op = "revoke" /\ job[c].at = "lock" /\ job[c] \in JobType
    BY CallFacts DEF RevokeMfaFactor, At
<1>2. PICK m \in FactorIds : m = job[c].factor
    BY <1>1, CallFacts
<1>3. PICK row : row = View(c, m)
    OBVIOUS
<1>4. row # None /\ Free(c, m) /\ tx[c] \in Transaction
    BY <1>1, <1>2, <1>3, CallFacts DEF LockedCallOK, RevokeMfaFactor
<1>5. row \in Row /\ GoodRow(row)
    BY <1>3, <1>4, RowFacts
<1>6. CASE row.status = "revoked" /\ LockRow(c) /\ Through(c)
    <2>1. /\ job' \in [Clients -> JobType \cup {Idle}]
          /\ \A d \in Clients \ {c} : job'[d] = job[d]
          /\ job'[c] \in JobType /\ job'[c].op = "any" /\ job'[c].at = "return"
          /\ job'[c].factor = None /\ job'[c].saved = job[c].saved
        BY <1>1, <1>6, ThroughJob
    <2>2. PICK s : s = [tx[c] EXCEPT !.locks = @ \cup {m}]
        OBVIOUS
    <2>3. s.writes = tx[c].writes /\ s.locks = tx[c].locks \cup {m}
        BY <1>4, <2>2 DEF Transaction
    <2>4. CallOK(job'[c], s, open[c], mfa, spent)
        BY <1>1, <2>1, <2>3, CallFacts DEF CallOK
    <2>5. Sound(job'[c].saved, mfa, spent) /\ job'[c] # Idle
        BY <1>1, <2>1, CallFacts, NoRowAssumption DEF Idle
    <2>6. View(c, m) # None /\ LockRow(c) /\ job'[c].op # "enroll" /\ job'[c].factor \in {m, None}
        BY <1>3, <1>4, <1>6, <2>1
    <2> QED
        BY <1>1, <1>2, <1>4, <2>1, <2>2, <2>4, <2>5, <2>6, LockStep
<1>7. CASE row.status # "revoked" /\ Write(c, m, [row EXCEPT !.status = "revoked"], {})
    <2>1. PICK new : new = [row EXCEPT !.status = "revoked"]
        OBVIOUS
    <2>2. GoodRow(new) /\ new.status = "revoked" /\ Grows(row, new)
        BY <1>5, <1>7, <2>1, PgMfaAssumption DEF GoodRow, Grows, Row
    <2>3. ~IsActive(new)
        BY <2>2 DEF IsActive
    <2>4. Write(c, m, new, {}) /\ {} \in SUBSET Proofs
        BY <1>7, <2>1
    <2>5. View(c, m) # None => View(c, m).status # "revoked" /\ Grows(View(c, m), new)
        BY <1>3, <1>7, <2>2
    <2> QED
        BY <1>1, <1>2, <1>4, <2>2, <2>3, <2>4, <2>5, WriteStep
<1> QED
    BY <1>2, <1>3, <1>6, <1>7 DEF RevokeMfaFactor

LEMMA VerifyStep ==
    ASSUME Inv, NEW c \in Clients, VerifyMfa(c)
    PROVE  Inv'
<1>1. job[c] # Idle /\ job[c].op = "verify" /\ job[c].at = "lock" /\ job[c] \in JobType
    BY CallFacts DEF VerifyMfa, At
<1>2. PICK m \in FactorIds : m = job[c].factor
    BY <1>1, CallFacts
<1>3. PICK old : old = View(c, m)
    OBVIOUS
<1>4. PICK arg : arg = job[c].arg
    OBVIOUS
<1>5. /\ old # None /\ Free(c, m)
      /\ \/ old.type = "webauthn" /\ arg \in 0..MaxCount
         \/ old.type = "recovery" /\ arg \in Slots
    <2>1. LockedCallOK(job[c], tx[c], old) /\ Free(c, m)
        BY <1>1, <1>2, <1>3, CallFacts DEF VerifyMfa
    <2> QED
        BY <1>1, <1>4, <2>1 DEF LockedCallOK
<1>6. /\ old \in Row /\ GoodRow(old) /\ TableOK(mfa, spent)
      /\ mfa[m] # None => mfa[m] \in Row /\ Grows(mfa[m], old)
    BY <1>3, <1>5, RowFacts
<1>7. CASE Raise(c)
    BY <1>1, <1>7, RaiseStep
<1>8. CASE old.status = "active" /\ Unspent(old, arg) /\ Write(c, m, Spent(old, arg), Spends(m, arg))
    <2>1. PICK new : new = Spent(old, arg)
        OBVIOUS
    <2>2. PICK acc : acc = Spends(m, arg)
        OBVIOUS
    <2>c. old.signCount \in Int /\ 0..MaxCount \subseteq Int
        BY <1>6, PgMfaAssumption DEF Row
    <2>3. ASSUME old.type = "webauthn", arg \in 0..MaxCount
          PROVE  /\ GoodRow(new) /\ Grows(old, new)
                 /\ \A p \in acc : p[1] = m /\ p \notin spent /\ Records(new, p[2])
        <3>1. new = [old EXCEPT !.signCount = arg]
            BY <2>1, <2>3 DEF Spent
        <3>2. old.signCount <= arg /\ (arg \in 1..MaxCount => old.signCount < arg)
            BY <1>8, <2>3, <2>c DEF Unspent, Advances, CounterAdvances
        <3>3. GoodRow(new) /\ Grows(old, new) /\ new.status = "active" /\ new.signCount = arg
            BY <1>6, <1>8, <2>3, <3>1, <3>2 DEF GoodRow, Row, Grows
        <3>4. ASSUME NEW p \in acc PROVE p[1] = m /\ p \notin spent /\ Records(new, p[2])
            <4>1. p = <<m, arg>> /\ arg \in 1..MaxCount /\ arg \notin Slots
                BY <2>2, <2>3, PgMfaApart DEF Spends
            <4>2. Records(new, arg)
                BY <3>3, <4>1, <2>c DEF Records
            <4>3. ASSUME p \in spent PROVE FALSE
                <5>1. mfa[m] # None /\ Records(mfa[m], arg)
                    BY <1>6, <4>1, <4>3 DEF TableOK
                <5>2. arg <= old.signCount
                    BY <1>6, <4>1, <5>1, RecordsOn DEF Records
                <5> QED
                    BY <3>2, <4>1, <5>2, <2>c, <2>3
            <4> QED
                BY <4>1, <4>2, <4>3
        <3> QED
            BY <3>3, <3>4
    <2>4. ASSUME old.type = "recovery", arg \in Slots
          PROVE  /\ GoodRow(new) /\ Grows(old, new)
                 /\ \A p \in acc : p[1] = m /\ p \notin spent /\ Records(new, p[2])
        <3>1. new = [old EXCEPT !.consumed = @ \cup {arg}]
            BY <2>1, <2>4 DEF Spent
        <3>2. arg \notin old.consumed
            BY <1>8, <2>4 DEF Unspent
        <3>3. GoodRow(new) /\ Grows(old, new) /\ new.status = "active" /\ arg \in new.consumed
            BY <1>6, <1>8, <2>4, <3>1, <2>c DEF GoodRow, Row, Grows
        <3>4. ASSUME NEW p \in acc PROVE p[1] = m /\ p \notin spent /\ Records(new, p[2])
            <4>1. p = <<m, arg>> /\ arg \notin 1..MaxCount
                BY <2>2, <2>4, PgMfaApart, PgMfaAssumption DEF Spends
            <4>2. Records(new, arg)
                BY <3>3, <4>1 DEF Records
            <4>3. ASSUME p \in spent PROVE FALSE
                <5>1. mfa[m] # None /\ Records(mfa[m], arg)
                    BY <1>6, <4>1, <4>3 DEF TableOK
                <5>2. arg \in old.consumed
                    BY <1>6, <2>4, <5>1, RecordsOn DEF Records
                <5> QED
                    BY <3>2, <5>2
            <4> QED
                BY <4>1, <4>2, <4>3
        <3> QED
            BY <3>3, <3>4
    <2>5. /\ GoodRow(new) /\ Grows(old, new) /\ IsActive(old)
          /\ \A p \in acc : p[1] = m /\ p \notin spent /\ Records(new, p[2])
        BY <1>5, <1>8, <2>3, <2>4 DEF IsActive
    <2>6. acc \in SUBSET Proofs
        BY <2>2 DEF Spends, Proofs
    <2>7. /\ Free(c, Key(new))
          /\ \A n \in FactorIds \ {m} : IsActive(View(c, n)) => Key(View(c, n)) # Key(new)
        BY <1>3, <1>5, <2>5, SameKey
    <2>8. Write(c, m, new, acc)
        BY <1>8, <2>1, <2>2
    <2>9. View(c, m) # None => View(c, m).status # "revoked" /\ Grows(View(c, m), new)
        BY <1>3, <1>8, <2>5
    <2> QED
        BY <1>1, <1>2, <1>5, <2>5, <2>6, <2>7, <2>8, <2>9, WriteStep
<1> QED
    BY <1>2, <1>3, <1>4, <1>7, <1>8 DEF VerifyMfa

\* The end of a with-block, and what an adopter does, between calls or by breaking off.
LEMMA EndStep ==
    ASSUME Inv, NEW c \in Clients, Return(c) \/ Adopter(c)
    PROVE  Inv'
<1>t. /\ tx \in [Clients -> Transaction] /\ job \in [Clients -> JobType \cup {Idle}]
      /\ open \in [Clients -> {"no", "implicit", "outer"}]
      /\ TableOK(mfa, spent) /\ Sound(tx[c], mfa, spent) /\ Reserved(c)
      /\ job[c] = Idle /\ open[c] = "no" => tx[c] = NoTx
      /\ \A d \in Clients \ {c} : /\ tx[c].locks \cap tx[d].locks = {}
                                  /\ job[d] # Idle /\ job[d].op = "enroll" =>
                                        job[d].factor \notin tx[c].locks
    BY DEF Inv, TypeOK, Reserved
\* A step of c that leaves it idle, with its transaction or without one.
<1>q. ASSUME UNCHANGED <<mfa, spent>>, OthersKeep(c), job'[c] = Idle, tx'[c] \in {tx[c], NoTx},
             open'[c] = "no" => tx'[c] = NoTx
      PROVE  Inv'
    <2>1. Sound(tx'[c], mfa, spent)
        BY <1>q, <1>t, NoTxSound
    <2>2. Apart(c)
        BY <1>q, <1>t, NoTxFacts DEF Apart
    <2>3. CallOK(job'[c], tx'[c], open'[c], mfa, spent) /\ Reserved(c)'
        BY <1>q DEF CallOK, Reserved
    <2> QED
        BY <1>q, <2>1, <2>2, <2>3, QuietStep
<1>1. CASE Return(c)
    <2>1. job'[c] = Idle /\ job' \in [Clients -> JobType \cup {Idle}] /\ open' = open
          /\ \A d \in Clients \ {c} : job'[d] = job[d]
        BY <1>1, <1>t DEF Return
    <2>2. CASE open[c] = "no" /\ CommitAll(c)
        <3>1. OthersKeep(c)
            BY <1>t, <2>1, <2>2, NoTxFacts DEF OthersKeep, CommitAll
        <3> QED
            BY <2>1, <2>2, <3>1, CommitStep
    <2>3. CASE open[c] # "no" /\ UNCHANGED <<mfa, spent, tx>>
        <3>1. OthersKeep(c)
            BY <1>t, <2>1, <2>3 DEF OthersKeep
        <3> QED
            BY <1>q, <2>1, <2>3, <3>1
    <2> QED
        BY <1>1, <2>2, <2>3 DEF Return
<1>2. CASE Read(c)
    <2>1. PICK o \in {"no", "implicit", "outer"} :
              open' = [open EXCEPT ![c] = o] /\ (o = "no" => open[c] = "no")
        BY <1>2, PlainReadOpens DEF Read
    <2>2. UNCHANGED <<mfa, tx, job, spent>> /\ job[c] = Idle
        BY <1>2 DEF Read
    <2>3. OthersKeep(c) /\ open'[c] = o
        BY <1>t, <2>1, <2>2 DEF OthersKeep
    <2> QED
        BY <1>q, <1>t, <2>1, <2>2, <2>3
<1>3. CASE BeginOuter(c)
    <2>1. UNCHANGED <<mfa, tx, job, spent>> /\ job[c] = Idle /\ open' = [open EXCEPT ![c] = "outer"]
        BY <1>3 DEF BeginOuter
    <2>2. OthersKeep(c) /\ open'[c] = "outer"
        BY <1>t, <2>1 DEF OthersKeep
    <2> QED
        BY <1>q, <2>1, <2>2
<1>4. CASE AdopterCommits(c)
    <2>1. OthersKeep(c) /\ CommitAll(c) /\ job'[c] = Idle
        BY <1>4, <1>t, NoTxFacts DEF AdopterCommits, OthersKeep, CommitAll
    <2> QED
        BY <2>1, CommitStep
<1>5. CASE Disconnect(c)
    <2>1. OthersKeep(c) /\ UNCHANGED <<mfa, spent>> /\ job'[c] = Idle /\ tx'[c] = NoTx
        BY <1>5, <1>t, NoTxFacts DEF Disconnect, OthersKeep
    <2> QED
        BY <1>q, <2>1
<1> QED
    BY <1>1, <1>2, <1>3, <1>4, <1>5 DEF Adopter

----------------------------------------------------------------------------
(* The invariant. *)

LEMMA InitInv == Init => Inv
<1> SUFFICES ASSUME Init
             PROVE  Inv
    OBVIOUS
<1>1. TableOK(mfa, spent)
    <2>1. \A m \in FactorIds : mfa[m] = None /\ Seen(NoTx, mfa, m) = None
        BY NoTxFacts DEF Init, Seen
    <2> QED
        BY <2>1 DEF Init, TableOK, UniqueSeen, IsActive
<1>2. TypeOK
    BY NoTxFacts DEF Init, TypeOK
<1>3. ASSUME NEW c \in Clients
      PROVE  Sound(tx[c], mfa, spent) /\ CallOK(job[c], tx[c], open[c], mfa, spent) /\ Reserved(c)
    BY <1>1, NoTxSound DEF Init, CallOK, Reserved
<1> QED
    BY <1>1, <1>2, <1>3 DEF Inv

LEMMA NextInv == Inv /\ [Next]_vars => Inv'
<1> SUFFICES ASSUME Inv, [Next]_vars
             PROVE  Inv'
    OBVIOUS
<1>1. ASSUME NEW c \in Clients, Start(c) PROVE Inv'
    BY <1>1, StartStep
<1>2. ASSUME NEW c \in Clients, Continue(c) PROVE Inv'
    <2>1. CASE CheckNoActiveTotp(c)
        BY <2>1, CheckStep
    <2>2. CASE InsertFactor(c)
        BY <2>2, InsertStep
    <2>3. CASE LockToConfirm(c)
        BY <2>3, ConfirmLockStep
    <2>4. CASE PendingExpired(c)
        BY <2>4, RaiseStep DEF PendingExpired, At
    <2>5. CASE ActivateFactor(c)
        BY <2>5, ActivateStep
    <2>6. CASE UniqueViolation(c)
        BY <2>6, RaiseStep DEF UniqueViolation, At
    <2>7. CASE RevokeMfaFactor(c)
        BY <2>7, RevokeStep
    <2>8. CASE VerifyMfa(c)
        BY <2>8, VerifyStep
    <2>9. CASE Return(c)
        BY <2>9, EndStep
    <2> QED
        BY <1>2, <2>1, <2>2, <2>3, <2>4, <2>5, <2>6, <2>7, <2>8, <2>9 DEF Continue
<1>3. ASSUME NEW c \in Clients, DeadlockVictim(c) PROVE Inv'
    <2>1. job[c] # Idle /\ Raise(c)
        BY <1>3 DEF DeadlockVictim, WaitsFor
    <2> QED
        BY <2>1, RaiseStep
<1>4. ASSUME NEW c \in Clients, Adopter(c) PROVE Inv'
    BY <1>4, EndStep
<1>5. CASE UNCHANGED vars
    <2>1. TypeOK' = TypeOK
        BY <1>5 DEF vars, TypeOK
    <2>2. \A c \in Clients : Reserved(c)' = Reserved(c)
        BY <1>5 DEF vars, Reserved
    <2> QED
        BY <1>5, <2>1, <2>2 DEF vars, Inv
<1> QED
    BY <1>1, <1>2, <1>3, <1>4, <1>5 DEF Next

\* Inv holds in every state that can be reached.
THEOREM Invariance == Spec => []Inv
BY InitInv, NextInv, PTL DEF Spec

\* The tables, the transactions and the calls keep their shape, and two clients
\* never lock the same row or index entry.
THEOREM PgMfaTypeCorrect == Spec => []TypeOK
<1>1. Inv => TypeOK
    BY DEF Inv
<1> QED
    BY <1>1, Invariance, PTL

\* One active TOTP and one active recovery factor per user, one active factor per
\* WebAuthn credential id, whatever calls, savepoints and adopters are under way.
THEOREM ActiveFactorUnique == Spec => []UniqueActiveFactor
<1>1. Inv => UniqueActiveFactor
    BY NoTxFacts DEF Inv, TableOK, UniqueSeen, Seen, IsActive, UniqueActiveFactor
<1> QED
    BY <1>1, Invariance, PTL

\* No two calls accept one recovery code or one counted assertion, not even when
\* the first has not committed yet.
THEOREM ProofsSpentOnce == Spec => []SpentOnce
<1>1. ASSUME Inv PROVE SpentOnce
    <2> SUFFICES ASSUME NEW c \in Clients
                 PROVE  /\ tx[c].accepted \cap spent = {}
                        /\ \A d \in Clients \ {c} : tx[c].accepted \cap tx[d].accepted = {}
        BY DEF SpentOnce
    <2>1. \A d \in Clients : \A p \in tx[d].accepted : p \notin spent /\ p[1] \in tx[d].locks
        BY <1>1 DEF Inv, Sound, AcceptedOnce, WroteUnderLock
    <2>2. \A d \in Clients \ {c} : tx[c].locks \cap tx[d].locks = {}
        BY <1>1 DEF Inv, TypeOK
    <2> QED
        BY <2>1, <2>2
<1> QED
    BY <1>1, Invariance, PTL

\* A client that waits in a transaction of its own call holds at most the lock of
\* the one row that it is about to activate.
LEMMA WaiterHolds ==
    ASSUME Inv, NEW c \in Clients, job[c] # Idle, open[c] = "no", job[c].at \in {"lock", "write"}
    PROVE  \/ tx[c].locks = {}
           \/ /\ job[c].at = "write" /\ job[c].factor \in FactorIds
              /\ tx[c].locks = {job[c].factor} /\ GoodRow(job[c].row)
<1>1. /\ job[c] \in JobType /\ job[c].op # "any" /\ job[c].factor \in FactorIds
      /\ job[c].saved.locks = {}
    BY CallFacts, NoTxFacts DEF Inv, CallOK
<1>2. CASE job[c].op = "enroll"
    BY <1>1, <1>2, CallFacts
<1>3. CASE job[c].op \in {"confirm", "revoke", "verify"}
    <2>1. PICK m \in FactorIds : m = job[c].factor
        BY <1>1
    <2>2. PICK row : row = View(c, m)
        OBVIOUS
    <2>3. LockedCallOK(job[c], tx[c], row)
        BY <1>3, <2>1, <2>2, CallFacts
    <2>4. CASE job[c].at = "lock"
        BY <1>1, <2>3, <2>4 DEF LockedCallOK
    <2>5. CASE job[c].at = "write"
        <3>1. /\ job[c].op = "confirm" /\ tx[c].locks = {m} /\ row # None
              /\ job[c].arg \in 0..MaxCount
              /\ job[c].row = [row EXCEPT !.status = "active", !.signCount = job[c].arg]
            BY <1>1, <2>1, <2>3, <2>5 DEF LockedCallOK
        <3>2. row \in Row /\ GoodRow(row)
            BY <2>2, <3>1, RowFacts
        <3>3. GoodRow(job[c].row)
            BY <3>1, <3>2 DEF GoodRow, Row
        <3> QED
            BY <2>1, <2>5, <3>1, <3>3
    <2> QED
        BY <2>4, <2>5
<1> QED
    BY <1>1, <1>2, <1>3 DEF JobType, Ops

\* Calls on their own never deadlock: who waits for a row holds nothing, and who
\* waits for an index entry holds no index entry.
THEOREM NoDeadlockOfCalls == Spec => []NoDeadlockAlone
<1>1. ASSUME Inv PROVE NoDeadlockAlone
    <2> SUFFICES ASSUME NEW S \in SUBSET Clients, S # {}, \A a \in S : \E b \in S : WaitsFor(a, b),
                        \A c \in S : open[c] = "no"
                 PROVE  FALSE
        BY DEF NoDeadlockAlone
    <2>1. ASSUME NEW a \in S
          PROVE  \/ tx[a].locks = {}
                 \/ /\ job[a].at = "write" /\ job[a].factor \in FactorIds
                    /\ tx[a].locks = {job[a].factor} /\ GoodRow(job[a].row)
        <3>1. job[a] # Idle /\ job[a].at \in {"lock", "write"}
            BY DEF WaitsFor
        <3> QED
            BY <1>1, <3>1, WaiterHolds
    <2>2. PICK a \in S, b \in S : WaitsFor(a, b)
        OBVIOUS
    <2>3. PICK e \in S : WaitsFor(b, e)
        OBVIOUS
    <2>4. job[b].at = "write" /\ GoodRow(job[b].row)
        BY <2>1, <2>2 DEF WaitsFor
    <2>5. Key(job[b].row) \in tx[e].locks
        BY <2>3, <2>4 DEF WaitsFor
    <2> QED
        BY <2>1, <2>4, <2>5, KeyInKeys
<1> QED
    BY <1>1, Invariance, PTL

----------------------------------------------------------------------------
(* Commits. *)

\* The table changes when somebody commits, and not otherwise.
LEMMA CommitOrNot ==
    ASSUME [Next]_vars
    PROVE  UNCHANGED <<mfa, spent>> \/ \E c \in Clients : CommitAll(c)
<1>1. ASSUME NEW c \in Clients, Start(c) PROVE UNCHANGED <<mfa, spent>>
    BY <1>1 DEF Start, EnrollTotpFactor, EnrollWebAuthnFactor, EnrollRecoveryFactor, BeginConfirm,
        BeginRevoke, BeginVerify, Begin
<1>2. ASSUME NEW c \in Clients, Continue(c) PROVE UNCHANGED <<mfa, spent>> \/ CommitAll(c)
    BY <1>2 DEF Continue, CheckNoActiveTotp, InsertFactor, LockToConfirm, PendingExpired,
        ActivateFactor, UniqueViolation, RevokeMfaFactor, VerifyMfa, Return, Raise, Write, LockRow
<1>3. ASSUME NEW c \in Clients, Adopter(c) PROVE UNCHANGED <<mfa, spent>> \/ CommitAll(c)
    BY <1>3 DEF Adopter, Read, BeginOuter, AdopterCommits, Disconnect
<1>4. ASSUME NEW c \in Clients, DeadlockVictim(c) PROVE UNCHANGED <<mfa, spent>>
    BY <1>4 DEF DeadlockVictim, Raise
<1> QED
    BY <1>1, <1>2, <1>3, <1>4 DEF Next, vars

\* The facts of CommitTable about the transaction of client c.
LEMMA CommitFacts ==
    ASSUME Inv, NEW c \in Clients, CommitAll(c)
    PROVE  /\ spent' = spent \cup tx[c].accepted
           /\ AcceptedOnce(tx[c], mfa, spent)
           /\ \A m \in FactorIds : mfa[m] # None =>
                 mfa'[m] # None /\ mfa[m] \in Row /\ mfa'[m] \in Row /\ Grows(mfa[m], mfa'[m])
<1>1. PICK t \in Transaction : t = tx[c]
    BY DEF Inv, TypeOK
<1>2. mfa' = [m \in FactorIds |-> Seen(t, mfa, m)] /\ spent' = spent \cup t.accepted
    BY <1>1, CommitRows DEF Inv
<1>3. TableOK(mfa, spent) /\ Sound(t, mfa, spent) /\ spent \subseteq Proofs
    BY <1>1 DEF Inv, TypeOK
<1>4. \A m \in FactorIds : mfa[m] # None =>
          mfa'[m] # None /\ mfa[m] \in Row /\ mfa'[m] \in Row /\ Grows(mfa[m], mfa'[m])
    BY <1>2, <1>3, CommitTable
<1>5. AcceptedOnce(t, mfa, spent)
    BY <1>3 DEF Sound
<1> QED
    BY <1>1, <1>2, <1>4, <1>5

\* The body of NoLostUpdate.
UpdatesKept == \A m \in FactorIds : mfa[m] # None =>
    /\ mfa'[m] # None
    /\ mfa[m].consumed \subseteq mfa'[m].consumed
    /\ mfa[m].signCount <= mfa'[m].signCount
    /\ mfa[m].status = "revoked" => mfa'[m] = mfa[m]

\* No commit undoes another: used slots stay used, counters do not go back, and a
\* revoked factor keeps its record for good.
THEOREM UpdatesAreKept == Spec => NoLostUpdate
<1>1. ASSUME Inv, [Next]_vars PROVE UpdatesKept
    <2>1. CASE UNCHANGED <<mfa, spent>>
        <3>1. \A m \in FactorIds : mfa[m] # None => mfa[m].signCount \in Int
            BY <1>1, PgMfaAssumption DEF Inv, TypeOK, Row
        <3> QED
            BY <2>1, <3>1 DEF UpdatesKept
    <2>2. ASSUME NEW c \in Clients, CommitAll(c) PROVE UpdatesKept
        BY <1>1, <2>2, CommitFacts DEF UpdatesKept, Grows
    <2> QED
        BY <1>1, <2>1, <2>2, CommitOrNot
<1>2. Inv /\ [Next]_vars => [UpdatesKept]_vars
    BY <1>1
<1>3. Spec => [][UpdatesKept]_vars
    BY <1>2, Invariance, PTL DEF Spec
<1> QED
    BY <1>3 DEF NoLostUpdate, UpdatesKept

\* The body of RevokedNotAccepted.
NoneOfRevoked == \A p \in spent' \ spent : mfa[p[1]] # None => mfa[p[1]].status # "revoked"

\* Once a revocation is committed, no commit accepts a proof of that factor.
THEOREM NoRevokedAccepted == Spec => RevokedNotAccepted
<1>1. ASSUME Inv, [Next]_vars PROVE NoneOfRevoked
    <2>1. CASE UNCHANGED <<mfa, spent>>
        BY <2>1 DEF NoneOfRevoked
    <2>2. ASSUME NEW c \in Clients, CommitAll(c) PROVE NoneOfRevoked
        BY <1>1, <2>2, CommitFacts DEF NoneOfRevoked, AcceptedOnce
    <2> QED
        BY <1>1, <2>1, <2>2, CommitOrNot
<1>2. Inv /\ [Next]_vars => [NoneOfRevoked]_vars
    BY <1>1
<1>3. Spec => [][NoneOfRevoked]_vars
    BY <1>2, Invariance, PTL DEF Spec
<1> QED
    BY <1>3 DEF RevokedNotAccepted, NoneOfRevoked
=============================================================================
