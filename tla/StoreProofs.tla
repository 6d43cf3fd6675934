---------------------------- MODULE StoreProofs ----------------------------
(***************************************************************************)
(* Proofs about Store, for any accounts, grants, rotations and bounds.     *)
(***************************************************************************)
EXTENDS Store, WellFoundedInduction, TLAPS

-----------------------------------------------------------------------------
(* The inductive invariant.                                                *)

(* Tables as a mutation sees them, whatever their revision. *)
Rows ==
    [revision : Nat, meta : Metas \union {None}, tombstones : SUBSET Accounts,
     grants : [Keys -> Grants \union {None}], generations : [Keys -> Nat],
     operations : [Operations -> OperationRows \union {None}]]

(* Started operations and refreshing grants come in pairs, and a grant has *)
(* the generation of its watermark.                                        *)
Agree(d) ==
    /\ \A o \in Started(d) :
          LET op == d.operations[o]
          IN  op.key \in Refreshing(d) /\ d.grants[op.key].generation = op.generation
    /\ \A k \in Refreshing(d) : \E o \in Started(d) : d.operations[o].key = k
    /\ \A o, p \in Started(d) : d.operations[o].key = d.operations[p].key => o = p
    /\ \A k \in Keys : d.grants[k] # None => d.grants[k].generation = d.generations[k]

(* The account has its tombstone and no grant. *)
Gone(d, a) ==
    a \in d.tombstones /\ \A k \in Keys : AccountOf(k) = a => d.grants[k] = None

Ready(d, k) == d.grants[k] # None /\ d.grants[k].state = "ready"

(* What the caller was told about the installation still shows in d. *)
Honours(d, installation, sent, given, gone) ==
    /\ \A i \in sent : i.token[1] = installation =>
          /\ i.token[3] <= d.generations[i.token[2]]
          /\ Ready(d, i.token[2]) => i.token[3] < d.generations[i.token[2]]
    /\ \A t \in given : t[1] = installation => t[3] <= d.generations[t[2]]
    /\ \A a \in Accounts : <<installation, a>> \in gone => Gone(d, a)

Safe(f) == Honours(f.tables, f.checkpoint.installation, issues, minted, forgotten)

(* The databases that exist or that the history remembers. *)
Known == ({db, txn, acked, attempt} \union backups) \cap Databases

Dated(f, n) ==
    /\ f.checkpoint.nonce <= n /\ f.checkpoint.sequence <= n /\ f.checkpoint.installation <= n
    /\ f.tables.revision <= n

(* A drawn nonce names one database. *)
KnownOK ==
    /\ \A f \in Known : Dated(f, draws) /\ Agree(f.tables)
    /\ \A f, g \in Known : f.checkpoint = g.checkpoint => f = g

(* The authority fences everything but the last two contents. *)
Fenced == \A c \in auth : \E f \in {acked, attempt} : f \in Databases /\ f.checkpoint = c /\ Safe(f)

HistoryOK ==
    /\ acked \in Databases \union {Absent, Blank} /\ attempt \in Databases \union {Absent, Blank}
    /\ \A i, j \in issues : i.token = j.token => i = j
    /\ \A i \in issues : i.token \in (1..draws) \X Keys \X Nat
    /\ minted \subseteq (1..draws) \X Keys \X Nat
    /\ forgotten \subseteq (1..draws) \X Accounts

Serving == db \in Databases /\ auth = {db.checkpoint} /\ ckpt = db.checkpoint

(* A running mutation. *)
Running ==
    /\ txn \in Databases
    /\ reply.kind = "create" /\ mode = "staged" => (auth = {} => attempt = txn /\ Safe(txn))
    /\ reply.kind # "create" \/ mode = "reserved" => attempt = txn /\ Safe(txn)
    /\ reply.kind # "create" /\ mode = "staged" => Serving /\ acked = db
    /\ mode = "reserved" => auth = {txn.checkpoint}
    /\ reply.kind = "begin" =>
          /\ reply.key \in Refreshing(txn.tables)
          /\ reply.generation = txn.tables.grants[reply.key].generation
          /\ \A i \in issues : i.token # <<txn.checkpoint.installation, reply.key, reply.generation>>
    /\ reply.kind = "commit" =>
          /\ DOMAIN reply.changes = 1..Len(reply.changes) /\ Len(reply.changes) \in Nat
          /\ \A i \in 1..Len(reply.changes) : reply.changes[i] \in Changes
          /\ \A a \in Accounts : <<txn.checkpoint.installation, a>> \in Forgets(txn.checkpoint.installation, reply.changes)
                                 => Gone(txn.tables, a)

IInv ==
    /\ TypeOK /\ KnownOK /\ Fenced /\ HistoryOK
    /\ mode = "open" => Serving
    /\ mode \in {"staged", "reserved"} => Running

(* What a mutation of the tables may do: it keeps started operations and   *)
(* refreshing grants in pairs, lowers no watermark, and a grant becomes    *)
(* ready only with a new generation.                                       *)
Advances(d, e) ==
    /\ e \in Rows /\ Agree(e)
    /\ \A k \in Keys : d.generations[k] <= e.generations[k]
    /\ \A k \in Keys : Ready(e, k) /\ ~Ready(d, k) => d.generations[k] < e.generations[k]

KeepsGone(d, e) == \A a \in Accounts : Gone(d, a) => Gone(e, a)

-----------------------------------------------------------------------------
(* The statements of a mutation. *)

LEMMA AdvancesTransitive ==
    ASSUME NEW d \in Rows, NEW e, NEW f, Advances(d, e), Advances(e, f)
    PROVE  Advances(d, f)
<1>1. \A k \in Keys : d.generations[k] \in Nat /\ e.generations[k] \in Nat /\ f.generations[k] \in Nat
  BY Zenon DEF Advances, Rows
<1>. QED BY <1>1 DEF Advances

LEMMA QuarantineType ==
    ASSUME NEW d \in Rows, NEW keys
    PROVE  QuarantineStarted(d, keys) \in [Operations -> OperationRows \union {None}]
<1>1. d.operations \in [Operations -> OperationRows \union {None}]
  BY Zenon DEF Rows
<1>2. \A o \in Started(d) : [d.operations[o] EXCEPT !.state = "quarantined"] \in OperationRows
  BY <1>1, Zenon DEF Started, OperationRows
<1>. QED BY <1>1, <1>2, Zenon DEF QuarantineStarted

(* Grants go together with their started operations. *)
LEMMA DropAdvances ==
    ASSUME NEW d \in Rows, Agree(d), NEW keys \in SUBSET Keys, NEW e \in Rows,
           e.generations = d.generations,
           e.grants = [k \in Keys |-> IF k \in keys THEN None ELSE d.grants[k]],
           e.operations = QuarantineStarted(d, keys)
    PROVE  Advances(d, e)
<1>1. /\ d.operations \in [Operations -> OperationRows \union {None}]
      /\ d.grants \in [Keys -> Grants \union {None}] /\ d.generations \in [Keys -> Nat]
      /\ d.meta \in Metas \union {None} /\ d.revision \in Nat
  BY Zenon DEF Rows
<1>2. \A o \in Operations :
          /\ o \in Started(e) <=> o \in Started(d) /\ d.operations[o].key \notin keys
          /\ o \in Started(e) => e.operations[o] = d.operations[o]
  BY <1>1, StoreAssumption DEF QuarantineStarted, Started, OperationRows
<1>3. \A k \in Keys : /\ e.grants[k] \in Grants \union {None}
                      /\ k \in Refreshing(e) <=> k \in Refreshing(d) /\ k \notin keys
                      /\ e.grants[k] # None => e.grants[k] = d.grants[k]
                      /\ k \notin keys => e.grants[k] = d.grants[k]
  BY <1>1, Zenon DEF Refreshing
<1>5. Agree(e)
  <2>1. Started(d) \subseteq Operations /\ Started(e) \subseteq Operations /\ Refreshing(e) \subseteq Keys
    BY Zenon DEF Started, Refreshing
  <2>2. ASSUME NEW o \in Started(e)
        PROVE  e.operations[o].key \in Refreshing(e)
               /\ e.grants[e.operations[o].key].generation = e.operations[o].generation
    <3>1. d.operations[o].key \in Refreshing(d) /\ d.operations[o].key \in Keys
      BY <1>2, <2>1, Zenon DEF Agree, Refreshing
    <3>. QED BY <1>2, <1>3, <2>1, <3>1 DEF Agree
  <2>3. ASSUME NEW k \in Refreshing(e) PROVE \E o \in Started(e) : e.operations[o].key = k
    <3>1. PICK o \in Started(d) : d.operations[o].key = k
      BY <1>3, <2>1, Zenon DEF Agree
    <3>. QED BY <1>2, <1>3, <2>1, <3>1, Zenon
  <2>4. \A o, p \in Started(e) : e.operations[o].key = e.operations[p].key => o = p
    BY <1>2, <2>1, Zenon DEF Agree
  <2>5. \A k \in Keys : e.grants[k] # None => e.grants[k].generation = e.generations[k]
    BY <1>3, Zenon DEF Agree
  <2>. QED BY <2>2, <2>3, <2>4, <2>5, Zenon DEF Agree
<1>6. \A k \in Keys : Ready(e, k) => Ready(d, k)
  BY <1>3, Zenon DEF Ready
<1>. QED BY <1>1, <1>5, <1>6 DEF Advances

LEMMA DeleteAdvances ==
    ASSUME NEW d \in Rows, Agree(d), NEW key \in Keys
    PROVE  LET e == DeleteGrant(d, key)
           IN  Advances(d, e) /\ KeepsGone(d, e) /\ e.revision = d.revision
<1> DEFINE g == [k \in Keys |-> IF k \in {key} THEN None ELSE d.grants[k]]
           o == QuarantineStarted(d, {key})
           e == [d EXCEPT !.grants = g, !.operations = o]
<1>1. d.grants \in [Keys -> Grants \union {None}]
  BY Zenon DEF Rows
<1>2. g = [d.grants EXCEPT ![key] = None]
  BY <1>1, Zenon
<1>3. DeleteGrant(d, key) = e
  BY <1>2, Zenon DEF DeleteGrant
<1>4. g \in [Keys -> Grants \union {None}] /\ o \in [Operations -> OperationRows \union {None}]
  BY <1>1, QuarantineType, Zenon
<1> HIDE DEF g, o
<1>5. /\ e \in Rows /\ e.revision = d.revision /\ e.generations = d.generations
      /\ e.tombstones = d.tombstones /\ e.grants = g /\ e.operations = o
  BY <1>4, Zenon DEF Rows
<1> HIDE DEF e
<1>6. Advances(d, e)
  BY <1>5, DropAdvances, Zenon DEF g, o
<1>7. KeepsGone(d, e)
  BY <1>5, Zenon DEF KeepsGone, Gone, g
<1>. QED BY <1>3, <1>5, <1>6, <1>7, Zenon

LEMMA TombstoneAdvances ==
    ASSUME NEW d \in Rows, Agree(d), NEW account \in Accounts
    PROVE  LET e == TombstoneAccount(d, account)
           IN  Advances(d, e) /\ KeepsGone(d, e) /\ Gone(e, account) /\ e.revision = d.revision
<1> DEFINE owned == {k \in Keys : AccountOf(k) = account}
           g == [k \in Keys |-> IF k \in owned THEN None ELSE d.grants[k]]
           o == QuarantineStarted(d, owned)
           s == d.tombstones \union {account}
           e == [d EXCEPT !.tombstones = s, !.grants = g, !.operations = o]
<1>1. TombstoneAccount(d, account) = e
  BY Zenon DEF TombstoneAccount
<1>2. /\ s \in SUBSET Accounts /\ owned \in SUBSET Keys
      /\ g \in [Keys -> Grants \union {None}] /\ o \in [Operations -> OperationRows \union {None}]
  BY QuarantineType, Zenon DEF Rows
<1> HIDE DEF g, o, s, owned
<1>3. /\ e \in Rows /\ e.revision = d.revision /\ e.generations = d.generations
      /\ e.tombstones = s /\ e.grants = g /\ e.operations = o
  BY <1>2, Zenon DEF Rows
<1> HIDE DEF e
<1>4. Advances(d, e)
  BY <1>2, <1>3, DropAdvances, Zenon DEF g, o
<1>5. KeepsGone(d, e)
  BY <1>3, Zenon DEF KeepsGone, Gone, g, s
<1>6. Gone(e, account)
  BY <1>3, Zenon DEF Gone, g, s, owned
<1>. QED BY <1>1, <1>3, <1>4, <1>5, <1>6, Zenon

LEMMA ReenrollAdvances ==
    ASSUME NEW d \in Rows, Agree(d), NEW account \in Accounts
    PROVE  LET e == ReenrollAccount(d, account)
           IN  /\ Advances(d, e) /\ e.revision = d.revision
               /\ \A a \in Accounts \ {account} : Gone(d, a) => Gone(e, a)
<1> DEFINE s == d.tombstones \ {account}
           e == [d EXCEPT !.tombstones = s]
<1>1. ReenrollAccount(d, account) = e /\ s \in SUBSET Accounts
  BY Zenon DEF ReenrollAccount, Rows
<1> HIDE DEF s
<1>2. /\ e \in Rows /\ e.revision = d.revision /\ e.generations = d.generations
      /\ e.tombstones = s /\ e.grants = d.grants /\ e.operations = d.operations
  BY <1>1, Zenon DEF Rows
<1> HIDE DEF e
<1>3. Agree(e)
  BY <1>2 DEF Agree, Started, Refreshing
<1>4. \A a \in Accounts \ {account} : Gone(d, a) => Gone(e, a)
  BY <1>2, Zenon DEF Gone, s
<1>5. \A k \in Keys : d.generations[k] \in Nat /\ (Ready(e, k) <=> Ready(d, k))
  BY <1>2, Zenon DEF Rows, Ready
<1>. QED BY <1>1, <1>2, <1>3, <1>4, <1>5 DEF Advances

LEMMA PutAdvances ==
    ASSUME NEW d \in Rows, Agree(d), NEW key \in Keys, NEW owner \in Owners, CanPut(d, key)
    PROVE  LET e == Put(d, key, owner)
           IN  Advances(d, e) /\ KeepsGone(d, e) /\ e.revision = d.revision
<1> DEFINE n == d.generations[key] + 1
           r == [generation |-> n, owner |-> owner, state |-> "ready"]
           g == [d.grants EXCEPT ![key] = r]
           w == [d.generations EXCEPT ![key] = n]
           e == [d EXCEPT !.grants = g, !.generations = w]
<1>1. Put(d, key, owner) = e
  BY Zenon DEF Put, NextGeneration
<1>2. /\ d.grants \in [Keys -> Grants \union {None}] /\ d.generations \in [Keys -> Nat]
      /\ d.operations \in [Operations -> OperationRows \union {None}]
      /\ n \in Nat \ {0} /\ d.generations[key] < n
  BY DEF Rows
<1>3. r \in Grants /\ r # None /\ r.generation = n /\ r.state = "ready"
  BY <1>2, StoreAssumption DEF Grants
<1> HIDE DEF n, r
<1>4. /\ g \in [Keys -> Grants \union {None}] /\ w \in [Keys -> Nat]
      /\ g[key] = r /\ w[key] = n
      /\ \A k \in Keys \ {key} : g[k] = d.grants[k] /\ w[k] = d.generations[k]
  BY <1>2, <1>3, Zenon
<1> HIDE DEF g, w
<1>5. /\ e \in Rows /\ e.revision = d.revision /\ e.generations = w
      /\ e.tombstones = d.tombstones /\ e.grants = g /\ e.operations = d.operations
  BY <1>4, Zenon DEF Rows
<1> HIDE DEF e
<1>6. key \notin Refreshing(d) /\ Refreshing(e) = Refreshing(d) /\ Started(e) = Started(d)
  BY <1>3, <1>4, <1>5 DEF CanPut, Refreshing, Started
<1>7. Agree(e)
  BY <1>3, <1>4, <1>5, <1>6 DEF Agree, Refreshing
<1>8. \A k \in Keys : /\ d.generations[k] \in Nat /\ d.generations[k] <= e.generations[k]
                      /\ Ready(e, k) /\ ~Ready(d, k) => d.generations[k] < e.generations[k]
  BY <1>2, <1>4, <1>5 DEF Ready
<1>9. KeepsGone(d, e)
  BY <1>4, <1>5, Zenon DEF CanPut, KeepsGone, Gone
<1>. QED BY <1>1, <1>5, <1>7, <1>8, <1>9, Zenon DEF Advances

(* The new revision and snapshot of a mutation. *)
LEMMA SnapshotAdvances ==
    ASSUME NEW d \in Rows, NEW e, Advances(d, e), e.revision = d.revision,
           NEW f, f = BumpRevision(e) \/ \E meta \in Metas : f = UpdateSnapshot(e, meta)
    PROVE  /\ Advances(d, f) /\ f.revision = d.revision + 1
           /\ f.grants = e.grants /\ f.tombstones = e.tombstones
<1>1. e \in Rows /\ Agree(e)
  BY Zenon DEF Advances
<1>2. /\ f \in Rows /\ f.revision = d.revision + 1 /\ f.tombstones = e.tombstones
      /\ f.grants = e.grants /\ f.generations = e.generations /\ f.operations = e.operations
  <2> DEFINE b == BumpRevision(e)
  <2>1. /\ b \in Rows /\ b.revision = d.revision + 1 /\ b.tombstones = e.tombstones
        /\ b.grants = e.grants /\ b.generations = e.generations /\ b.operations = e.operations
    BY <1>1 DEF Rows, BumpRevision
  <2> HIDE DEF b
  <2>2. ASSUME NEW meta \in Metas, f = [b EXCEPT !.meta = meta]
        PROVE  /\ f \in Rows /\ f.revision = d.revision + 1 /\ f.tombstones = e.tombstones
               /\ f.grants = e.grants /\ f.generations = e.generations /\ f.operations = e.operations
    BY <2>1, <2>2, Zenon DEF Rows
  <2>3. f = b \/ \E meta \in Metas : f = [b EXCEPT !.meta = meta]
    BY Zenon DEF UpdateSnapshot, b
  <2>. QED BY <2>1, <2>2, <2>3, Zenon
<1>3. Agree(f)
  BY <1>1, <1>2 DEF Agree, Started, Refreshing
<1>. QED BY <1>2, <1>3, Zenon DEF Advances, Ready

LEMMA BeginAdvances ==
    ASSUME NEW d \in Rows, Agree(d), NEW o \in Operations, NEW key \in Keys,
           d.operations[o] = None, Ready(d, key)
    PROVE  LET e == [d EXCEPT !.grants[key].state = "refreshing",
                              !.operations[o] = [key |-> key, generation |-> d.grants[key].generation,
                                                 state |-> "started", committed_revision |-> None]]
           IN  /\ Advances(d, e) /\ KeepsGone(d, e) /\ e.revision = d.revision
               /\ key \in Refreshing(e) /\ e.grants[key].generation = d.grants[key].generation
<1> DEFINE r == [d.grants[key] EXCEPT !.state = "refreshing"]
           op == [key |-> key, generation |-> d.grants[key].generation,
                  state |-> "started", committed_revision |-> None]
           g == [d.grants EXCEPT ![key] = r]
           w == [d.operations EXCEPT ![o] = op]
           e == [d EXCEPT !.grants = g, !.operations = w]
           t == [d EXCEPT !.grants[key].state = "refreshing",
                          !.operations[o] = [key |-> key, generation |-> d.grants[key].generation,
                                             state |-> "started", committed_revision |-> None]]
<1>1. t = e
  BY Zenon
<1> HIDE DEF t
<1>2. /\ d.grants \in [Keys -> Grants \union {None}] /\ d.generations \in [Keys -> Nat]
      /\ d.operations \in [Operations -> OperationRows \union {None}]
      /\ d.grants[key] \in Grants
  BY Zenon DEF Rows, Ready
<1>3. /\ r \in Grants /\ r # None /\ r.generation = d.grants[key].generation /\ r.state = "refreshing"
      /\ op \in OperationRows /\ op # None /\ op.key = key /\ op.generation = d.grants[key].generation
      /\ op.state = "started"
  BY <1>2, StoreAssumption DEF Grants, OperationRows
<1> HIDE DEF r, op
<1>4. /\ g \in [Keys -> Grants \union {None}] /\ w \in [Operations -> OperationRows \union {None}]
      /\ g[key] = r /\ w[o] = op
      /\ \A k \in Keys \ {key} : g[k] = d.grants[k]
      /\ \A p \in Operations \ {o} : w[p] = d.operations[p]
  BY <1>2, <1>3, Zenon
<1> HIDE DEF g, w
<1>5. /\ e \in Rows /\ e.revision = d.revision /\ e.generations = d.generations
      /\ e.tombstones = d.tombstones /\ e.grants = g /\ e.operations = w
  BY <1>4, Zenon DEF Rows
<1> HIDE DEF e
<1>6. Started(e) = Started(d) \union {o} /\ o \notin Started(d)
  BY <1>3, <1>4, <1>5 DEF Started
<1>7. Refreshing(e) = Refreshing(d) \union {key} /\ key \notin Refreshing(d)
  BY <1>3, <1>4, <1>5 DEF Refreshing, Ready
<1>8. \A p \in Started(d) : /\ p \in Operations /\ p # o /\ e.operations[p] = d.operations[p]
                            /\ d.operations[p].key \in Keys \ {key}
                            /\ e.grants[d.operations[p].key] = d.grants[d.operations[p].key]
  BY <1>4, <1>5, <1>6, <1>7 DEF Agree, Started, Refreshing
<1>9. e.operations[o] = op /\ e.grants[key] = r
  BY <1>4, <1>5, Zenon
<1>10. Agree(e)
  <2>1. ASSUME NEW p \in Started(e)
        PROVE  e.operations[p].key \in Refreshing(e)
               /\ e.grants[e.operations[p].key].generation = e.operations[p].generation
    BY <1>3, <1>6, <1>7, <1>8, <1>9 DEF Agree
  <2>2. ASSUME NEW k \in Refreshing(e) PROVE \E p \in Started(e) : e.operations[p].key = k
    BY <1>3, <1>6, <1>7, <1>8, <1>9 DEF Agree
  <2>3. \A p, q \in Started(e) : e.operations[p].key = e.operations[q].key => p = q
    BY <1>3, <1>6, <1>7, <1>8, <1>9 DEF Agree
  <2>4. \A k \in Keys : e.grants[k] # None => e.grants[k].generation = e.generations[k]
    BY <1>3, <1>4, <1>5, <1>9 DEF Agree, Ready
  <2>. QED BY <2>1, <2>2, <2>3, <2>4, Zenon DEF Agree
<1>11. \A k \in Keys : Ready(e, k) => Ready(d, k)
  BY <1>3, <1>4, <1>5 DEF Ready
<1>12. Advances(d, e)
  BY <1>2, <1>5, <1>10, <1>11 DEF Advances
<1>13. KeepsGone(d, e)
  BY <1>4, <1>5, Zenon DEF KeepsGone, Gone, Ready
<1>14. Advances(d, t) /\ KeepsGone(d, t) /\ t.revision = d.revision
       /\ key \in Refreshing(t) /\ t.grants[key].generation = d.grants[key].generation
  BY <1>1, <1>3, <1>5, <1>7, <1>9, <1>12, <1>13, Zenon
<1>. QED BY <1>14, Zenon DEF t

(* A rotation ends: its operation and its grant leave their pair. *)
Ends(d, o, key, e) ==
    /\ key = d.operations[o].key
    /\ e.tombstones = d.tombstones
    /\ \A p \in Operations \ {o} : e.operations[p] = d.operations[p]
    /\ e.operations[o].state # "started"
    /\ \A k \in Keys \ {key} : e.grants[k] = d.grants[k] /\ e.generations[k] = d.generations[k]
    /\ e.grants[key] # None /\ e.grants[key].state # "refreshing"
    /\ e.grants[key].generation = e.generations[key]
    /\ d.generations[key] <= e.generations[key]
    /\ e.grants[key].state = "ready" => d.generations[key] < e.generations[key]

LEMMA EndAdvances ==
    ASSUME NEW d \in Rows, Agree(d), NEW o \in Started(d), NEW key, NEW e \in Rows, Ends(d, o, key, e)
    PROVE  Advances(d, e) /\ KeepsGone(d, e)
<1>1. /\ key \in Keys /\ key \in Refreshing(d) /\ o \in Operations /\ d.operations[o].key = key
      /\ d.generations \in [Keys -> Nat] /\ e.generations \in [Keys -> Nat]
  BY Zenon DEF Ends, Agree, Refreshing, Started, Rows
<1>2. \A k \in Keys \ {key} : e.grants[k] = d.grants[k] /\ e.generations[k] = d.generations[k]
  BY Zenon DEF Ends
<1>3. \A p \in Operations : /\ p \in Started(e) <=> p \in Started(d) /\ p # o
                            /\ p \in Started(e) => e.operations[p] = d.operations[p]
  BY Zenon DEF Started, Ends
<1>4. \A k \in Keys : k \in Refreshing(e) <=> k \in Refreshing(d) /\ k # key
  BY <1>1, Zenon DEF Refreshing, Ends
<1>5. \A p \in Started(e) : /\ p \in Operations /\ p # o /\ p \in Started(d)
                            /\ e.operations[p] = d.operations[p]
                            /\ d.operations[p].key \in Keys /\ d.operations[p].key \in Refreshing(d)
                            /\ d.operations[p].key # key
  <2>. SUFFICES ASSUME NEW p \in Started(e)
                PROVE  /\ p \in Operations /\ p # o /\ p \in Started(d)
                       /\ e.operations[p] = d.operations[p]
                       /\ d.operations[p].key \in Keys /\ d.operations[p].key \in Refreshing(d)
                       /\ d.operations[p].key # key
    BY Zenon
  <2>1. p \in Operations
    BY Zenon DEF Started
  <2>2. p # o /\ p \in Started(d) /\ e.operations[p] = d.operations[p]
    BY <1>3, <2>1, Zenon
  <2>3. d.operations[p].key \in Refreshing(d) /\ d.operations[p].key # key
    BY <1>1, <2>2, Zenon DEF Agree
  <2>4. d.operations[p].key \in Keys
    BY <2>3, Zenon DEF Refreshing
  <2>. QED BY <2>1, <2>2, <2>3, <2>4, Zenon
<1>6. Agree(e)
  <2>1. ASSUME NEW p \in Started(e)
        PROVE  e.operations[p].key \in Refreshing(e)
               /\ e.grants[e.operations[p].key].generation = e.operations[p].generation
    <3> DEFINE k == d.operations[p].key
    <3>1. k \in Keys /\ k \in Refreshing(d) /\ k # key /\ e.operations[p] = d.operations[p] /\ p \in Started(d)
      BY <1>5, Zenon
    <3>2. d.grants[k].generation = d.operations[p].generation
      BY <3>1, Zenon DEF Agree
    <3>3. e.grants[k] = d.grants[k]
      BY <1>2, <3>1, Zenon
    <3>. QED BY <1>4, <3>1, <3>2, <3>3, Zenon
  <2>2. ASSUME NEW k \in Refreshing(e) PROVE \E p \in Started(e) : e.operations[p].key = k
    <3>1. k \in Keys /\ k \in Refreshing(d) /\ k # key
      BY <1>4, Zenon DEF Refreshing
    <3>2. PICK p \in Started(d) : d.operations[p].key = k
      BY <3>1, Zenon DEF Agree
    <3>3. p \in Operations /\ p # o
      BY <1>1, <3>1, <3>2, Zenon DEF Started
    <3>4. p \in Started(e) /\ e.operations[p] = d.operations[p]
      BY <1>3, <3>2, <3>3, Zenon
    <3>. QED BY <3>2, <3>4, Zenon
  <2>3. \A p, q \in Started(e) : e.operations[p].key = e.operations[q].key => p = q
    BY <1>5, Zenon DEF Agree
  <2>4. ASSUME NEW k \in Keys, e.grants[k] # None PROVE e.grants[k].generation = e.generations[k]
    <3>1. CASE k = key
      BY <3>1, Zenon DEF Ends
    <3>2. CASE k # key
      <4>1. e.grants[k] = d.grants[k] /\ e.generations[k] = d.generations[k]
        BY <1>2, <3>2, Zenon
      <4>2. d.grants[k] # None => d.grants[k].generation = d.generations[k]
        BY Zenon DEF Agree
      <4>. QED BY <2>4, <4>1, <4>2, Zenon
    <3>. QED BY <3>1, <3>2, Zenon
  <2>. QED BY <2>1, <2>2, <2>3, <2>4, Zenon DEF Agree
<1>7. \A k \in Keys : /\ d.generations[k] <= e.generations[k]
                      /\ Ready(e, k) /\ ~Ready(d, k) => d.generations[k] < e.generations[k]
  <2>. SUFFICES ASSUME NEW k \in Keys
                PROVE  /\ d.generations[k] <= e.generations[k]
                       /\ Ready(e, k) /\ ~Ready(d, k) => d.generations[k] < e.generations[k]
    BY Zenon
  <2>1. CASE k = key
    BY <2>1, Zenon DEF Ends, Ready
  <2>2. CASE k # key
    <3>1. e.generations[k] = d.generations[k] /\ e.grants[k] = d.grants[k]
      BY <1>2, <2>2, Zenon
    <3>2. e.generations[k] \in Nat
      BY <1>1, Zenon
    <3>. QED BY <3>1, <3>2 DEF Ready
  <2>. QED BY <2>1, <2>2, Zenon
<1>8. KeepsGone(d, e)
  <2>. SUFFICES ASSUME NEW a \in Accounts, Gone(d, a) PROVE Gone(e, a)
    BY Zenon DEF KeepsGone
  <2>1. AccountOf(key) # a
    BY <1>1, Zenon DEF Gone, Refreshing
  <2>. QED BY <1>2, <2>1, Zenon DEF Gone, Ends
<1>. QED BY <1>6, <1>7, <1>8, Zenon DEF Advances

Completed(d, o, key, next) ==
    [d EXCEPT !.grants[key] = [@ EXCEPT !.generation = next, !.state = "ready"],
              !.generations[key] = next,
              !.operations[o] = [@ EXCEPT !.state = "completed", !.committed_revision = d.revision + 1]]

LEMMA CompleteAdvances ==
    ASSUME NEW d \in Rows, Agree(d), NEW o \in Started(d), NEW key, key = d.operations[o].key,
           NEW next, next = d.operations[o].generation + 1
    PROVE  LET e == Completed(d, o, key, next)
           IN  Advances(d, e) /\ KeepsGone(d, e) /\ e.revision = d.revision
<1> DEFINE r == [d.grants[key] EXCEPT !.generation = next, !.state = "ready"]
           op == [d.operations[o] EXCEPT !.state = "completed", !.committed_revision = d.revision + 1]
           g == [d.grants EXCEPT ![key] = r]
           n == [d.generations EXCEPT ![key] = next]
           w == [d.operations EXCEPT ![o] = op]
           e == [d EXCEPT !.grants = g, !.generations = n, !.operations = w]
           t == Completed(d, o, key, next)
<1>1. t = e
  BY Zenon DEF Completed
<1> HIDE DEF t
<1>2. /\ d.grants \in [Keys -> Grants \union {None}] /\ d.generations \in [Keys -> Nat]
      /\ d.operations \in [Operations -> OperationRows \union {None}] /\ d.revision \in Nat
      /\ key \in Keys /\ key \in Refreshing(d) /\ o \in Operations
      /\ d.grants[key] \in Grants /\ d.operations[o] \in OperationRows
      /\ d.grants[key].generation = d.operations[o].generation
      /\ d.grants[key].generation = d.generations[key]
  BY DEF Rows, Agree, Started, Refreshing
<1>3. next \in Nat \ {0} /\ d.generations[key] < next
  BY <1>2
<1>4. /\ r \in Grants /\ r # None /\ r.generation = next /\ r.state = "ready"
      /\ op \in OperationRows /\ op.state = "completed"
  <2>1. r \in Grants /\ r.generation = next /\ r.state = "ready"
    BY <1>2, <1>3, Zenon DEF Grants
  <2>2. op \in OperationRows /\ op.state = "completed"
    <3>1. d.revision + 1 \in Nat \union {None}
      BY <1>2
    <3>. QED BY <1>2, <3>1, Zenon DEF OperationRows
  <2>. QED BY <2>1, <2>2, StoreAssumption, Zenon
<1> HIDE DEF r, op
<1>5. /\ g \in [Keys -> Grants \union {None}] /\ w \in [Operations -> OperationRows \union {None}]
      /\ n \in [Keys -> Nat] /\ g[key] = r /\ w[o] = op /\ n[key] = next
      /\ \A k \in Keys \ {key} : g[k] = d.grants[k] /\ n[k] = d.generations[k]
      /\ \A p \in Operations \ {o} : w[p] = d.operations[p]
  BY <1>2, <1>3, <1>4, Zenon
<1> HIDE DEF g, w, n
<1>6. /\ e \in Rows /\ e.revision = d.revision /\ e.generations = n
      /\ e.tombstones = d.tombstones /\ e.grants = g /\ e.operations = w
  BY <1>5, Zenon DEF Rows
<1> HIDE DEF e
<1>7. Advances(d, e) /\ KeepsGone(d, e)
  <2>1. /\ \A p \in Operations \ {o} : e.operations[p] = d.operations[p]
        /\ e.operations[o].state # "started"
    BY <1>4, <1>5, <1>6, Zenon
  <2>2. /\ \A k \in Keys \ {key} : e.grants[k] = d.grants[k] /\ e.generations[k] = d.generations[k]
        /\ e.grants[key] # None /\ e.grants[key].state # "refreshing"
        /\ e.grants[key].generation = e.generations[key]
        /\ e.generations[key] = next
    BY <1>4, <1>5, <1>6, Zenon
  <2>3. d.generations[key] <= e.generations[key] /\ d.generations[key] < e.generations[key]
    <3>1. d.generations[key] <= next /\ d.generations[key] < next
      BY <1>2, <1>3
    <3>. QED BY <2>2, <3>1, Zenon
  <2>4. Ends(d, o, key, e)
    BY <1>6, <2>1, <2>2, <2>3, Zenon DEF Ends
  <2>. QED BY <1>6, <2>4, EndAdvances, Zenon
<1>8. Advances(d, t) /\ KeepsGone(d, t) /\ t.revision = d.revision
  BY <1>1, <1>6, <1>7, Zenon
<1>. QED BY <1>8, Zenon DEF t

Quarantined(d, o, hit) ==
    [d EXCEPT !.grants = [k \in Keys |-> IF k \in hit
                             THEN [@[k] EXCEPT !.state = "quarantined"] ELSE @[k]],
              !.operations[o].state = "quarantined"]

LEMMA QuarantineAdvances ==
    ASSUME NEW d \in Rows, Agree(d), NEW o \in Started(d), NEW op, op = d.operations[o],
           NEW hit, hit = {k \in Refreshing(d) : k = op.key /\ d.grants[k].generation = op.generation}
    PROVE  LET e == Quarantined(d, o, hit)
           IN  Advances(d, e) /\ KeepsGone(d, e) /\ e.revision = d.revision
<1> DEFINE key == op.key
           r == [d.grants[key] EXCEPT !.state = "quarantined"]
           q == [d.operations[o] EXCEPT !.state = "quarantined"]
           g == [k \in Keys |-> IF k \in hit THEN [d.grants[k] EXCEPT !.state = "quarantined"] ELSE d.grants[k]]
           w == [d.operations EXCEPT ![o] = q]
           e == [d EXCEPT !.grants = g, !.operations = w]
           t == Quarantined(d, o, hit)
<1>1. t = e
  BY Zenon DEF Quarantined
<1> HIDE DEF t
<1>2. /\ d.grants \in [Keys -> Grants \union {None}] /\ d.generations \in [Keys -> Nat]
      /\ d.operations \in [Operations -> OperationRows \union {None}]
      /\ key \in Keys /\ key \in Refreshing(d) /\ o \in Operations
      /\ d.grants[key] \in Grants /\ d.operations[o] \in OperationRows
      /\ d.grants[key].generation = d.operations[o].generation
      /\ d.grants[key].generation = d.generations[key]
  BY DEF Rows, Agree, Started, Refreshing
<1>3. hit = {key}
  BY <1>2, Zenon
<1>4. /\ r \in Grants /\ r # None /\ r.generation = d.grants[key].generation /\ r.state = "quarantined"
      /\ q \in OperationRows /\ q.state = "quarantined"
  BY <1>2, StoreAssumption, Zenon DEF Grants, OperationRows
<1>5. /\ g \in [Keys -> Grants \union {None}] /\ w \in [Operations -> OperationRows \union {None}]
      /\ g[key] = r /\ w[o] = q
      /\ \A k \in Keys \ {key} : g[k] = d.grants[k]
      /\ \A p \in Operations \ {o} : w[p] = d.operations[p]
  <2>1. g = [k \in Keys |-> IF k = key THEN r ELSE d.grants[k]]
    BY <1>3, Zenon
  <2> HIDE DEF g, r, q
  <2>. QED BY <1>2, <1>4, <2>1, Zenon
<1> HIDE DEF g, w, r, q
<1>6. /\ e \in Rows /\ e.revision = d.revision /\ e.generations = d.generations
      /\ e.tombstones = d.tombstones /\ e.grants = g /\ e.operations = w
  BY <1>5, Zenon DEF Rows
<1> HIDE DEF e
<1>7. Advances(d, e) /\ KeepsGone(d, e)
  <2>1. /\ \A p \in Operations \ {o} : e.operations[p] = d.operations[p]
        /\ e.operations[o].state # "started"
    BY <1>4, <1>5, <1>6, Zenon
  <2>2. /\ \A k \in Keys \ {key} : e.grants[k] = d.grants[k] /\ e.generations[k] = d.generations[k]
        /\ e.grants[key] # None /\ e.grants[key].state = "quarantined"
        /\ e.grants[key].generation = e.generations[key]
    BY <1>2, <1>4, <1>5, <1>6, Zenon
  <2>3. d.generations[key] <= e.generations[key]
    BY <1>2, <1>6
  <2>4. Ends(d, o, key, e)
    BY <1>6, <2>1, <2>2, <2>3, Zenon DEF Ends
  <2>. QED BY <1>6, <2>4, EndAdvances, Zenon
<1>8. Advances(d, t) /\ KeepsGone(d, t) /\ t.revision = d.revision
  BY <1>1, <1>6, <1>7, Zenon
<1>. QED BY <1>8, Zenon DEF t

LEMMA QuarantineAllAdvances ==
    ASSUME NEW d \in Rows, Agree(d)
    PROVE  LET e == [d EXCEPT
                        !.grants = [k \in Keys |-> IF k \in Refreshing(d)
                                       THEN [@[k] EXCEPT !.state = "quarantined"] ELSE @[k]],
                        !.operations = QuarantineStarted(d, Keys)]
           IN  Advances(d, e) /\ KeepsGone(d, e) /\ e.revision = d.revision
<1> DEFINE g == [k \in Keys |-> IF k \in Refreshing(d) THEN [d.grants[k] EXCEPT !.state = "quarantined"]
                                ELSE d.grants[k]]
           w == QuarantineStarted(d, Keys)
           e == [d EXCEPT !.grants = g, !.operations = w]
           t == [d EXCEPT
                    !.grants = [k \in Keys |-> IF k \in Refreshing(d)
                                   THEN [@[k] EXCEPT !.state = "quarantined"] ELSE @[k]],
                    !.operations = QuarantineStarted(d, Keys)]
<1>1. t = e
  BY Zenon
<1> HIDE DEF t
<1>2. /\ d.grants \in [Keys -> Grants \union {None}] /\ d.generations \in [Keys -> Nat]
      /\ d.operations \in [Operations -> OperationRows \union {None}]
  BY Zenon DEF Rows
<1>3. \A k \in Refreshing(d) :
          LET r == [d.grants[k] EXCEPT !.state = "quarantined"]
          IN  r \in Grants /\ r.generation = d.grants[k].generation /\ r.state = "quarantined"
  BY <1>2, Zenon DEF Refreshing, Grants
<1>4. /\ g \in [Keys -> Grants \union {None}] /\ w \in [Operations -> OperationRows \union {None}]
      /\ \A k \in Keys : \/ k \in Refreshing(d) /\ g[k].generation = d.grants[k].generation
                                                /\ g[k].state = "quarantined"
                         \/ k \notin Refreshing(d) /\ g[k] = d.grants[k]
      /\ \A k \in Keys : d.grants[k] = None => g[k] = None
  BY <1>2, <1>3, QuarantineType, Zenon DEF Refreshing
<1>5. \A o \in Operations : w[o] # None => w[o].state # "started"
  <2> SUFFICES ASSUME NEW o \in Operations, w[o] # None, w[o].state = "started" PROVE FALSE
    BY Zenon
  <2>1. CASE o \in Started(d)
    <3>1. d.operations[o].key \in Keys /\ d.operations[o] \in OperationRows
      BY <1>2, <2>1 DEF Agree, Refreshing, Started
    <3>2. w[o] = [d.operations[o] EXCEPT !.state = "quarantined"]
      BY <2>1, <3>1, Zenon DEF QuarantineStarted
    <3>. QED BY <3>1, <3>2, Zenon DEF OperationRows
  <2>2. CASE o \notin Started(d)
    BY <2>2, Zenon DEF QuarantineStarted, Started
  <2>. QED BY <2>1, <2>2, Zenon
<1> HIDE DEF g, w
<1>6. /\ e \in Rows /\ e.revision = d.revision /\ e.generations = d.generations
      /\ e.tombstones = d.tombstones /\ e.grants = g /\ e.operations = w
  BY <1>4, Zenon DEF Rows
<1> HIDE DEF e
<1>7. Started(e) = {} /\ Refreshing(e) = {}
  BY <1>4, <1>5, <1>6, Zenon DEF Started, Refreshing
<1>8. \A k \in Keys : e.grants[k] # None => e.grants[k].generation = e.generations[k]
  BY <1>4, <1>6, Zenon DEF Agree
<1>9. Agree(e)
  BY <1>7, <1>8, Zenon DEF Agree
<1>10. \A k \in Keys : Ready(e, k) => Ready(d, k)
  BY <1>4, <1>6, Zenon DEF Ready
<1>11. Advances(d, e)
  BY <1>2, <1>6, <1>9, <1>10 DEF Advances
<1>12. KeepsGone(d, e)
  BY <1>4, <1>6, Zenon DEF KeepsGone, Gone
<1>13. Advances(d, t) /\ KeepsGone(d, t) /\ t.revision = d.revision
  BY <1>1, <1>6, <1>11, <1>12, Zenon
<1>. QED BY <1>13, Zenon DEF t

-----------------------------------------------------------------------------
(* The changes of a commit, one after the other. *)

(* A set of naturals that is not empty has a least element. *)
LEMMA Least ==
    ASSUME NEW S, S \subseteq Nat, S # {}
    PROVE  \E n \in S : \A m \in S : n <= m
<1>1. PICK n \in S : \A m \in S : ~(<<m, n>> \in OpToRel(<, Nat))
  BY WFMin, NatLessThanWellFounded, Zenon
<1>2. ASSUME NEW m \in S PROVE n <= m
  <2>1. <<m, n>> \in Nat \X Nat /\ <<m, n>>[1] = m /\ <<m, n>>[2] = n
    BY Zenon
  <2>2. m < n => <<m, n>> \in OpToRel(<, Nat)
    BY <2>1, Zenon DEF OpToRel
  <2>3. ~(m < n)
    BY <1>1, <2>2, Zenon
  <2>. QED BY <2>3
<1>. QED BY <1>2, Zenon

LEMMA Lists ==
    ASSUME NEW n \in Nat, NEW S, NEW s \in [1..n -> S]
    PROVE  Len(s) = n /\ DOMAIN s = 1..n
<1>1. s \in Seq(S)
  OBVIOUS
<1>2. DOMAIN s = 1..n /\ DOMAIN s = 1..Len(s) /\ Len(s) \in Nat
  BY <1>1
<1>. QED BY <1>2

(* What the changes make of the tables d. *)
IsRun(f, d, changes, n) ==
    f = [i \in 0..n |-> IF i = 0 THEN d ELSE ApplyChange(f[i - 1], changes[i])]

LEMMA RunExists ==
    ASSUME NEW d, NEW changes, NEW n \in Nat
    PROVE  \E f : IsRun(f, d, changes, n)
<1> DEFINE Bad == {m \in Nat : ~\E f : IsRun(f, d, changes, m)}
<1>1. SUFFICES ASSUME Bad # {} PROVE FALSE
  BY Zenon
<1>2. PICK m \in Bad : \A k \in Bad : m <= k
  <2>1. Bad \subseteq Nat
    BY Zenon
  <2> HIDE DEF Bad
  <2>. QED BY <1>1, <2>1, Least, Zenon
<1>3. m \in Nat /\ ~\E f : IsRun(f, d, changes, m)
  BY <1>2, Zenon
<1>4. m # 0
  <2> DEFINE f == [i \in 0..0 |-> d]
  <2>1. IsRun(f, d, changes, 0)
    BY DEF IsRun
  <2>. QED BY <1>3, <2>1, Zenon
<1>5. m - 1 \in Nat /\ m - 1 \notin Bad
  BY <1>2, <1>3, <1>4
<1>6. PICK f : IsRun(f, d, changes, m - 1)
  BY <1>5, Zenon
<1> DEFINE g == [i \in 0..m |-> IF i = m THEN ApplyChange(f[m - 1], changes[m]) ELSE f[i]]
<1>7. \A i \in 0..(m - 1) : f[i] = IF i = 0 THEN d ELSE ApplyChange(f[i - 1], changes[i])
  BY <1>6, Zenon DEF IsRun
<1>8. \A i \in 0..m : g[i] = IF i = 0 THEN d ELSE ApplyChange(g[i - 1], changes[i])
  <2> TAKE i \in 0..m
  <2>1. CASE i = m
    <3>1. g[i] = ApplyChange(f[m - 1], changes[m]) /\ g[m - 1] = f[m - 1]
      BY <1>3, <1>4, <1>5, <2>1
    <3>. QED BY <1>4, <2>1, <3>1, Zenon
  <2>2. CASE i = 0
    BY <1>3, <1>4, <1>5, <1>7, <2>2
  <2>3. CASE i # m /\ i # 0
    <3>1. i \in 0..(m - 1) /\ i - 1 \in 0..m /\ i - 1 # m
      BY <1>3, <2>3
    <3>2. g[i] = f[i] /\ g[i - 1] = f[i - 1]
      BY <2>3, <3>1, Zenon
    <3>. QED BY <1>7, <2>3, <3>1, <3>2, Zenon
  <2>. QED BY <2>1, <2>2, <2>3, Zenon
<1>9. IsRun(g, d, changes, m)
  <2>1. g = [i \in 0..m |-> g[i]]
    BY Zenon
  <2> HIDE DEF g
  <2>. QED BY <1>8, <2>1, Zenon DEF IsRun
<1>. QED BY <1>3, <1>9, Zenon

LEMMA ApplyRun ==
    ASSUME NEW d, NEW n \in Nat, NEW changes \in [1..n -> Changes]
    PROVE  \E f : IsRun(f, d, changes, n) /\ ApplyChanges(d, changes) = f[n]
<1>1. Len(changes) = n
  BY Lists, Zenon
<1> DEFINE f == CHOOSE f : f = [i \in 0..n |-> IF i = 0 THEN d ELSE ApplyChange(f[i - 1], changes[i])]
<1>2. ApplyChanges(d, changes) = f[n]
  BY <1>1, Zenon DEF ApplyChanges
<1>3. IsRun(f, d, changes, n)
  <2>1. \E g : g = [i \in 0..n |-> IF i = 0 THEN d ELSE ApplyChange(g[i - 1], changes[i])]
    <3>1. PICK g : IsRun(g, d, changes, n)
      BY RunExists, Zenon
    <3>. QED BY <3>1, Zenon DEF IsRun
  <2>2. f = [i \in 0..n |-> IF i = 0 THEN d ELSE ApplyChange(f[i - 1], changes[i])]
    BY <2>1, Zenon
  <2>. QED BY <2>2, Zenon DEF IsRun
<1>. QED BY <1>2, <1>3, Zenon

LEMMA ChangeFields ==
    ASSUME NEW c \in Changes
    PROVE  \/ c.kind = "put" /\ c.key \in Keys /\ c.owner \in Owners
           \/ c.kind = "delete" /\ c.key \in Keys
           \/ c.kind \in {"tombstone_account", "reenroll_account"} /\ c.account \in Accounts
BY Zenon DEF Changes

LEMMA ChangeAdvances ==
    ASSUME NEW d \in Rows, Agree(d), NEW c \in Changes, d # None, ApplyChange(d, c) # None
    PROVE  LET e == ApplyChange(d, c)
           IN  /\ Advances(d, e) /\ e.revision = d.revision
               /\ \A a \in Accounts : Gone(d, a) /\ ~(c.kind = "reenroll_account" /\ c.account = a) => Gone(e, a)
               /\ c.kind = "tombstone_account" => Gone(e, c.account)
<1> DEFINE e == ApplyChange(d, c)
<1>1. CASE c.kind = "put" /\ c.key \in Keys /\ c.owner \in Owners
  <2>1. CanPut(d, c.key) /\ e = Put(d, c.key, c.owner)
    BY <1>1, Zenon DEF ApplyChange
  <2>. QED BY <1>1, <2>1, PutAdvances, Zenon DEF KeepsGone
<1>2. CASE c.kind = "delete" /\ c.key \in Keys
  <2>1. e = DeleteGrant(d, c.key)
    BY <1>2, Zenon DEF ApplyChange
  <2>. QED BY <1>2, <2>1, DeleteAdvances, Zenon DEF KeepsGone
<1>3. CASE c.kind = "tombstone_account" /\ c.account \in Accounts
  <2>1. e = TombstoneAccount(d, c.account)
    BY <1>3, Zenon DEF ApplyChange
  <2>. QED BY <1>3, <2>1, TombstoneAdvances DEF KeepsGone
<1>4. CASE c.kind = "reenroll_account" /\ c.account \in Accounts
  <2>1. e = ReenrollAccount(d, c.account)
    BY <1>4, Zenon DEF ApplyChange
  <2>. QED BY <1>4, <2>1, ReenrollAdvances, Zenon
<1>. QED BY <1>1, <1>2, <1>3, <1>4, ChangeFields, Zenon

Reenrolled(changes, a, i, m) ==
    \E j \in 1..m : j > i /\ changes[j].kind = "reenroll_account" /\ changes[j].account = a

(* Account a is gone after the first m changes, for what they say of it. *)
LeftGone(d, changes, a, m) ==
    \/ Gone(d, a) /\ ~Reenrolled(changes, a, 0, m)
    \/ \E i \in 1..m : /\ changes[i].kind = "tombstone_account" /\ changes[i].account = a
                       /\ ~Reenrolled(changes, a, i, m)

RunOK(f, d, changes, m) ==
    f[m] # None =>
        /\ Advances(d, f[m]) /\ f[m].revision = d.revision
        /\ \A a \in Accounts : LeftGone(d, changes, a, m) => Gone(f[m], a)

LEMMA RunAdvances ==
    ASSUME NEW d \in Rows, Agree(d), NEW n \in Nat, NEW changes \in [1..n -> Changes],
           NEW f, IsRun(f, d, changes, n)
    PROVE  RunOK(f, d, changes, n)
<1> DEFINE Bad == {m \in 0..n : ~RunOK(f, d, changes, m)}
<1>1. SUFFICES ASSUME Bad # {} PROVE FALSE
  OBVIOUS
<1>2. PICK m \in Bad : \A k \in Bad : m <= k
  <2>1. Bad \subseteq Nat
    OBVIOUS
  <2> HIDE DEF Bad
  <2>. QED BY <1>1, <2>1, Least, Zenon
<1>3. m \in 0..n /\ ~RunOK(f, d, changes, m)
  BY <1>2, Zenon
<1>4. f[m] = IF m = 0 THEN d ELSE ApplyChange(f[m - 1], changes[m])
  BY <1>3, Zenon DEF IsRun
<1>5. m # 0
  <2> SUFFICES ASSUME m = 0 PROVE FALSE
    BY Zenon
  <2>1. f[m] = d
    BY <1>4, Zenon
  <2>2. Advances(d, d)
    BY DEF Advances, Rows
  <2>3. \A a \in Accounts : LeftGone(d, changes, a, m) => Gone(d, a)
    BY DEF LeftGone
  <2>. QED BY <1>3, <2>1, <2>2, <2>3, Zenon DEF RunOK
<1> DEFINE p == m - 1
           c == changes[m]
           e == f[p]
           g == f[m]
<1>6. p \in 0..n /\ RunOK(f, d, changes, p) /\ c \in Changes /\ m \in 1..n
  BY <1>2, <1>3, <1>5
<1>7. g # None /\ g = ApplyChange(e, c)
  BY <1>3, <1>4, <1>5, Zenon DEF RunOK
<1>8. e # None
  BY <1>7, Zenon DEF ApplyChange
<1>9. /\ Advances(d, e) /\ e.revision = d.revision /\ e \in Rows /\ Agree(e)
      /\ \A a \in Accounts : LeftGone(d, changes, a, p) => Gone(e, a)
  BY <1>6, <1>8, Zenon DEF RunOK, Advances
<1>10. /\ Advances(e, g) /\ g.revision = e.revision
       /\ \A a \in Accounts : Gone(e, a) /\ ~(c.kind = "reenroll_account" /\ c.account = a) => Gone(g, a)
       /\ c.kind = "tombstone_account" => Gone(g, c.account)
  BY <1>6, <1>7, <1>8, <1>9, ChangeAdvances
<1>11. Advances(d, g)
  BY <1>9, <1>10, AdvancesTransitive, Zenon
<1>12. ASSUME NEW a \in Accounts, LeftGone(d, changes, a, m) PROVE Gone(g, a)
  <2>1. 1..m = 1..p \union {m} /\ m \notin 1..p /\ p \in Nat /\ m \in Nat
    BY <1>3, <1>5
  <2>2. \A i \in 0..p : Reenrolled(changes, a, i, p) => Reenrolled(changes, a, i, m)
    BY <2>1, Zenon DEF Reenrolled
  <2>3. \A i \in 0..p : i < m /\ (~Reenrolled(changes, a, i, m) => ~(c.kind = "reenroll_account" /\ c.account = a))
    BY <2>1, <1>5 DEF Reenrolled
  <2>4. CASE c.kind = "tombstone_account" /\ c.account = a
    BY <1>10, <2>4, Zenon
  <2>5. CASE ~(c.kind = "tombstone_account" /\ c.account = a)
    <3>1. \/ Gone(d, a) /\ ~Reenrolled(changes, a, 0, m)
          \/ \E i \in 1..p : /\ changes[i].kind = "tombstone_account" /\ changes[i].account = a
                             /\ ~Reenrolled(changes, a, i, m)
      BY <1>12, <2>1, <2>5, Zenon DEF LeftGone
    <3>2. LeftGone(d, changes, a, p) /\ ~(c.kind = "reenroll_account" /\ c.account = a)
      <4>1. CASE Gone(d, a) /\ ~Reenrolled(changes, a, 0, m)
        BY <2>1, <2>2, <2>3, <4>1 DEF LeftGone
      <4>2. ASSUME NEW i \in 1..p, changes[i].kind = "tombstone_account", changes[i].account = a,
                   ~Reenrolled(changes, a, i, m)
            PROVE  LeftGone(d, changes, a, p) /\ ~(c.kind = "reenroll_account" /\ c.account = a)
        <5>1. i \in 0..p
          BY <2>1
        <5>. QED BY <2>2, <2>3, <4>2, <5>1, Zenon DEF LeftGone
      <4>. QED BY <3>1, <4>1, <4>2, Zenon
    <3>. QED BY <1>9, <1>10, <3>2, Zenon
  <2>. QED BY <2>4, <2>5, Zenon
<1>. QED BY <1>3, <1>9, <1>10, <1>11, <1>12, Zenon DEF RunOK

LEMMA CommitContent ==
    ASSUME NEW d \in Rows, Agree(d), NEW n \in Nat, NEW changes \in [1..n -> Changes],
           ApplyChanges(d, changes) # None
    PROVE  LET e == ApplyChanges(d, changes)
           IN  /\ Advances(d, e) /\ e.revision = d.revision
               /\ \A a \in Accounts : LeftGone(d, changes, a, n) => Gone(e, a)
<1>1. PICK f : IsRun(f, d, changes, n) /\ ApplyChanges(d, changes) = f[n]
  BY ApplyRun, Zenon
<1>2. RunOK(f, d, changes, n)
  BY <1>1, RunAdvances, Zenon
<1>. QED BY <1>1, <1>2, Zenon DEF RunOK

-----------------------------------------------------------------------------
(* Steps. *)

(* What the caller was told survives a mutation of the tables. *)
LEMMA HonoursAdvances ==
    ASSUME NEW d \in Rows, NEW e, Advances(d, e), NEW i, NEW sent, NEW given, NEW gone, NEW left,
           Honours(d, i, sent, given, gone),
           \A s \in sent : s.token \in Nat \X Keys \X Nat,
           given \subseteq Nat \X Keys \X Nat,
           \A a \in Accounts : <<i, a>> \in left => Gone(e, a)
    PROVE  Honours(e, i, sent, given, left)
<1>1. \A k \in Keys : d.generations[k] \in Nat /\ e.generations[k] \in Nat
  BY Zenon DEF Advances, Rows
<1>2. ASSUME NEW s \in sent, s.token[1] = i
      PROVE  /\ s.token[3] <= e.generations[s.token[2]]
             /\ Ready(e, s.token[2]) => s.token[3] < e.generations[s.token[2]]
  <2>1. s.token[2] \in Keys /\ s.token[3] \in Nat
    BY Zenon
  <2>. QED BY <1>1, <1>2, <2>1 DEF Honours, Advances
<1>3. ASSUME NEW t \in given, t[1] = i PROVE t[3] <= e.generations[t[2]]
  <2>1. t[2] \in Keys /\ t[3] \in Nat
    BY Zenon
  <2>. QED BY <1>1, <1>3, <2>1 DEF Honours, Advances
<1>. QED BY <1>2, <1>3, Zenon DEF Honours

(* The database that the authority names is one of the last two contents,  *)
(* and keeps every promise.                                                *)
LEMMA ServingIsSafe ==
    ASSUME IInv, db \in Databases, auth = {db.checkpoint}
    PROVE  /\ db \in {acked, attempt} /\ Safe(db) /\ Dated(db, draws) /\ Agree(db.tables)
           /\ db.tables \in Rows
<1>1. PICK f \in {acked, attempt} : f \in Databases /\ f.checkpoint = db.checkpoint /\ Safe(f)
  BY Zenon DEF IInv, Fenced
<1>2. f \in Known /\ db \in Known
  BY <1>1, Zenon DEF Known
<1>3. f = db
  BY <1>1, <1>2, Zenon DEF IInv, KnownOK
<1>4. db.tables \in Rows
  BY StoreAssumption DEF Databases, Tables, Rows
<1>. QED BY <1>1, <1>2, <1>3, <1>4, Zenon DEF IInv, KnownOK

LEMMA KnownKeeps ==
    ASSUME IInv, Known' \subseteq Known, draws' = draws
    PROVE  KnownOK'
<1>1. KnownOK
  BY Zenon DEF IInv
<1>2. ASSUME NEW f \in Known' PROVE Dated(f, draws)' /\ Agree(f.tables)'
  <2>1. f \in Known
    OBVIOUS
  <2>2. Dated(f, draws) /\ Agree(f.tables)
    BY <1>1, <2>1, Zenon DEF KnownOK
  <2>. QED BY ONLY <2>2, draws' = draws, Zenon DEF Dated, Agree, Started, Refreshing
<1>3. ASSUME NEW f \in Known', NEW g \in Known', f.checkpoint = g.checkpoint PROVE f = g
  BY <1>1, <1>3, Zenon DEF KnownOK
<1>. QED BY ONLY <1>2, <1>3, Zenon DEF KnownOK

(* A new checkpoint has a new nonce. *)
LEMMA KnownGrows ==
    ASSUME IInv, NEW t \in Databases, t.checkpoint.nonce = draws + 1, Dated(t, draws + 1), Agree(t.tables),
           Known' \subseteq Known \union {t}, draws' = draws + 1
    PROVE  KnownOK'
<1>1. draws \in Nat
  BY StoreAssumption DEF IInv, TypeOK
<1>2. \A f \in Known : /\ f \in Databases /\ Dated(f, draws) /\ Agree(f.tables)
                       /\ f.checkpoint.nonce \in Nat /\ f.checkpoint.sequence \in Nat
                       /\ f.checkpoint.installation \in Nat /\ f.tables.revision \in Nat
  BY StoreAssumption DEF IInv, KnownOK, Known, Databases, Checkpoints, Tables
<1>3. \A f \in Known : Dated(f, draws + 1) /\ f.checkpoint.nonce # draws + 1
  BY <1>1, <1>2 DEF Dated
<1>4. ASSUME NEW f \in Known' PROVE Dated(f, draws') /\ Agree(f.tables)
  BY <1>2, <1>3, Zenon
<1>5. ASSUME NEW f \in Known', NEW g \in Known', f.checkpoint = g.checkpoint PROVE f = g
  BY <1>3, <1>5, Zenon DEF IInv, KnownOK
<1>. QED BY <1>4, <1>5, Zenon DEF KnownOK, Dated, Agree, Started, Refreshing

(* A step that ends a mutation without an answer, or works on the files. *)
LEMMA PlainKeeps ==
    ASSUME IInv, UNCHANGED history, draws' = draws, TypeOK', Known' \subseteq Known,
           \A c \in auth' : c \in auth \/ (attempt \in Databases /\ attempt.checkpoint = c /\ Safe(attempt)),
           mode' \notin {"staged", "reserved"}, mode' = "open" => Serving'
    PROVE  IInv'
<1>1. KnownOK'
  BY KnownKeeps, Zenon
<1>2. HistoryOK'
  BY Zenon DEF IInv, HistoryOK, history
<1>3. \A f : Safe(f)' <=> Safe(f)
  BY Zenon DEF Safe, history, Honours, Gone, Ready
<1>4. Fenced'
  BY <1>3, Zenon DEF IInv, Fenced, history
<1>. QED BY <1>1, <1>2, <1>4, Zenon DEF IInv

(* The transaction of a mutation of the database that is being served. *)
LEMMA StageKeeps ==
    ASSUME IInv, db \in Databases, auth = {db.checkpoint}, ckpt' = db.checkpoint,
           NEW content, NEW answer, Stage(content, answer), answer.kind # "create",
           Advances(db.tables, content), content.revision = db.tables.revision + 1,
           \A a \in Accounts : <<db.checkpoint.installation, a>> \in forgotten' => Gone(content, a),
           answer.kind = "begin" =>
              /\ answer.key \in Refreshing(content)
              /\ answer.generation = content.grants[answer.key].generation
              /\ \A i \in issues : i.token # <<db.checkpoint.installation, answer.key, answer.generation>>,
           answer.kind = "commit" =>
              /\ DOMAIN answer.changes = 1..Len(answer.changes) /\ Len(answer.changes) \in Nat
              /\ \A i \in 1..Len(answer.changes) : answer.changes[i] \in Changes
              /\ \A a \in Accounts :
                    <<db.checkpoint.installation, a>> \in Forgets(db.checkpoint.installation, answer.changes)'
                        => Gone(content, a)
    PROVE  IInv'
<1> DEFINE c == db.checkpoint
           s == Successor(c, content, draws + 1)
           t == Database(s, content)
<1>1. /\ draws \in Nat /\ MaxDraws \in Nat /\ draws < MaxDraws /\ draws' = draws + 1
      /\ txn' = t /\ mode' = "staged" /\ reply' = answer /\ acked' = db /\ attempt' = t
      /\ db' = db /\ auth' = auth /\ backups' = backups /\ issues' = issues /\ minted' = minted
      /\ forgotten' \subseteq forgotten
  BY StoreAssumption DEF Stage, IInv, TypeOK
<1>2. /\ Safe(db) /\ Dated(db, draws) /\ db.tables \in Rows
  BY ServingIsSafe, Zenon
<1>3. /\ c \in Checkpoints /\ content \in Rows /\ Agree(content)
      /\ c.installation \in 1..MaxDraws /\ c.sequence \in Nat /\ c.sequence <= draws
      /\ c.installation \in Nat /\ c.installation <= draws
      /\ db.tables.revision \in Nat /\ db.tables.revision <= draws
  BY <1>2, StoreAssumption DEF Databases, Checkpoints, Advances, Dated, Rows
<1>4. /\ content \in Tables /\ content.revision \in Nat /\ content.revision <= draws + 1
      /\ content.meta \in Metas \union {None}
  BY <1>1, <1>3 DEF Rows, Tables
<1>5. /\ s \in Checkpoints /\ s.nonce = draws + 1 /\ s.installation = c.installation
      /\ s.sequence <= draws + 1
  <2>1. /\ c.sequence + 1 \in 0..MaxDraws /\ c.sequence + 1 <= draws + 1
        /\ draws + 1 \in 1..MaxDraws /\ content.revision \in 0..MaxDraws
    BY <1>1, <1>3, <1>4
  <2>2. s = [installation |-> c.installation, sequence |-> c.sequence + 1, nonce |-> draws + 1,
             revision |-> content.revision, digest |-> content.meta]
    BY Zenon DEF Successor
  <2> HIDE DEF s, c
  <2>. QED BY <1>3, <1>4, <2>1, <2>2, Zenon DEF Checkpoints
<1> HIDE DEF s
<1>6. t \in Databases /\ t.checkpoint = s /\ t.tables = content
  BY <1>4, <1>5, Zenon DEF Database, Databases
<1> HIDE DEF t
<1>7. Dated(t, draws + 1) /\ t.checkpoint.nonce = draws + 1 /\ Agree(t.tables)
  BY <1>1, <1>3, <1>4, <1>5, <1>6 DEF Dated
<1>8. KnownOK'
  <2>1. Known' \subseteq Known \union {t}
    BY <1>1, Zenon DEF Known
  <2>. QED BY <1>1, <1>6, <1>7, <2>1, KnownGrows, Zenon
<1>9. HistoryOK'
  <2>1. 1..draws \subseteq 1..draws'
    BY <1>1
  <2>. QED BY <1>1, <1>6, <2>1, Zenon DEF IInv, HistoryOK
<1>10. TypeOK'
  <2>1. draws' \in 0..MaxDraws /\ ckpt' \in Checkpoints
    BY <1>1, <1>3
  <2>. QED BY <1>1, <1>6, <2>1, Zenon DEF IInv, TypeOK
<1>11. Honours(content, c.installation, issues, minted, forgotten')
  <2>1. /\ \A i \in issues : i.token \in Nat \X Keys \X Nat
        /\ minted \subseteq Nat \X Keys \X Nat
    BY <1>1 DEF IInv, HistoryOK
  <2>2. Honours(db.tables, c.installation, issues, minted, forgotten)
    BY <1>2, Zenon DEF Safe
  <2>. QED BY <1>2, <2>1, <2>2, HonoursAdvances, Zenon
<1>12. Honours(t.tables, t.checkpoint.installation, issues', minted', forgotten')
  BY <1>1, <1>5, <1>6, <1>11, Zenon
<1>13. Honours(db.tables, c.installation, issues', minted', forgotten')
  BY <1>1, <1>2, Zenon DEF Safe, Honours
<1>14. Fenced'
  BY <1>1, <1>13, Zenon DEF Fenced, Safe
<1>15. Running'
  <2>1. Safe(txn)' /\ Serving'
    BY <1>1, <1>12, Zenon DEF Safe, Serving
  <2>2. txn'.checkpoint.installation = c.installation /\ txn'.tables = content
    BY <1>1, <1>5, <1>6, Zenon
  <2>3. reply'.kind = "begin" =>
            /\ reply'.key \in Refreshing(txn.tables)'
            /\ reply'.generation = txn'.tables.grants[reply'.key].generation
            /\ \A i \in issues' : i.token # <<txn'.checkpoint.installation, reply'.key, reply'.generation>>
    BY <1>1, <2>2, Zenon DEF Refreshing
  <2>4. reply'.kind = "commit" =>
            /\ DOMAIN reply'.changes = 1..Len(reply'.changes) /\ Len(reply'.changes) \in Nat
            /\ \A i \in 1..Len(reply'.changes) : reply'.changes[i] \in Changes
            /\ \A a \in Accounts :
                  <<txn'.checkpoint.installation, a>> \in Forgets(txn.checkpoint.installation, reply.changes)'
                      => Gone(txn'.tables, a)
    BY <1>1, <2>2 DEF Forgets
  <2>. QED BY <1>1, <1>6, <2>1, <2>3, <2>4, Zenon DEF Running, Gone
<1>. QED BY <1>1, <1>8, <1>9, <1>10, <1>14, <1>15, Zenon DEF IInv

(* A mutation other than a commit leaves the tombstones' accounts gone. *)
LEMMA StageOther ==
    ASSUME IInv, db \in Databases, auth = {db.checkpoint}, ckpt' = db.checkpoint,
           NEW content, NEW answer, Stage(content, answer), answer.kind \notin {"create", "commit"},
           NEW e, Advances(db.tables, e), KeepsGone(db.tables, e), e.revision = db.tables.revision,
           content = BumpRevision(e) \/ \E meta \in Metas : content = UpdateSnapshot(e, meta),
           answer.kind = "begin" =>
              /\ answer.key \in Refreshing(e)
              /\ answer.generation = e.grants[answer.key].generation
              /\ \A i \in issues : i.token # <<db.checkpoint.installation, answer.key, answer.generation>>
    PROVE  IInv'
<1>1. db.tables \in Rows /\ Safe(db)
  BY ServingIsSafe, Zenon
<1>2. /\ Advances(db.tables, content) /\ content.revision = db.tables.revision + 1
      /\ content.grants = e.grants /\ content.tombstones = e.tombstones
  BY <1>1, SnapshotAdvances, Zenon
<1>3. forgotten' = forgotten
  BY Zenon DEF Stage
<1>4. \A a \in Accounts : <<db.checkpoint.installation, a>> \in forgotten' => Gone(content, a)
  BY <1>1, <1>2, <1>3, Zenon DEF Safe, Honours, KeepsGone, Gone
<1>5. answer.kind = "begin" =>
          /\ answer.key \in Refreshing(content)
          /\ answer.generation = content.grants[answer.key].generation
          /\ \A i \in issues : i.token # <<db.checkpoint.installation, answer.key, answer.generation>>
  BY <1>2, Zenon DEF Refreshing
<1>. QED BY <1>2, <1>4, <1>5, StageKeeps, Zenon

LEMMA CommitKeeps ==
    ASSUME IInv, NEW n \in 0..MaxChanges, NEW changes \in [1..n -> Changes], NEW meta \in Metas,
           Commit(changes, meta)
    PROVE  IInv'
<1> DEFINE e == ApplyChanges(db.tables, changes)
           content == UpdateSnapshot(e, meta)
           answer == [kind |-> "commit", changes |-> changes]
           inst == db.checkpoint.installation
<1>1. /\ mode = "open" /\ e # None /\ Stage(content, answer) /\ ckpt' = ckpt
  BY Zenon DEF Commit, Mutate
<1>2. Serving
  BY <1>1, Zenon DEF IInv
<1>3. /\ db \in Databases /\ auth = {db.checkpoint} /\ ckpt' = db.checkpoint
      /\ db.tables \in Rows /\ Safe(db) /\ Agree(db.tables)
  BY <1>1, <1>2, ServingIsSafe, Zenon DEF Serving
<1>4. n \in Nat /\ Len(changes) = n /\ DOMAIN changes = 1..n
  BY StoreAssumption, Lists
<1>5. /\ Advances(db.tables, e) /\ e.revision = db.tables.revision
      /\ \A a \in Accounts : LeftGone(db.tables, changes, a, n) => Gone(e, a)
  BY <1>1, <1>3, <1>4, CommitContent, Zenon
<1> HIDE DEF e
<1>6. /\ Advances(db.tables, content) /\ content.revision = db.tables.revision + 1
      /\ content.grants = e.grants /\ content.tombstones = e.tombstones
  BY <1>3, <1>5, SnapshotAdvances
<1> HIDE DEF content
<1>7. answer.kind = "commit" /\ answer.changes = changes
  BY Zenon
<1>8. forgotten' = {f \in forgotten : \A i \in DOMAIN changes :
                        \/ changes[i].kind # "reenroll_account"
                        \/ f # <<inst, changes[i].account>>}
  BY <1>1, <1>3, <1>7, Zenon DEF Stage
<1>9. ASSUME NEW a \in Accounts, <<inst, a>> \in forgotten' PROVE Gone(content, a)
  <2>1. Gone(db.tables, a)
    BY <1>3, <1>8, <1>9, Zenon DEF Safe, Honours
  <2>2. ~Reenrolled(changes, a, 0, n)
    BY <1>4, <1>8, <1>9, Zenon DEF Reenrolled
  <2>3. LeftGone(db.tables, changes, a, n)
    BY <2>1, <2>2, Zenon DEF LeftGone
  <2>. QED BY <1>5, <1>6, <2>3, Zenon DEF Gone
<1>10. ASSUME NEW a \in Accounts, <<inst, a>> \in Forgets(inst, changes)' PROVE Gone(content, a)
  <2>1. CASE <<inst, a>> \in forgotten'
    BY <1>9, <2>1, Zenon
  <2>2. CASE <<inst, a>> \notin forgotten'
    <3>1. PICK i \in DOMAIN changes :
              /\ changes[i].kind = "tombstone_account" /\ <<inst, a>> = <<inst', changes[i].account>>
              /\ \A j \in DOMAIN changes : j > i /\ changes[j].kind = "reenroll_account" =>
                    changes[j].account # changes[i].account
      BY <1>10, <2>2, Zenon DEF Forgets
    <3>2. changes[i].account = a /\ i \in 1..n
      BY <1>4, <3>1, Zenon
    <3>3. ~Reenrolled(changes, a, i, n)
      BY <1>4, <3>1, <3>2, Zenon DEF Reenrolled
    <3>4. LeftGone(db.tables, changes, a, n)
      BY <3>1, <3>2, <3>3, Zenon DEF LeftGone
    <3>. QED BY <1>5, <1>6, <3>4, Zenon DEF Gone
  <2>. QED BY <2>1, <2>2, Zenon
<1>11. \A i \in 1..n : changes[i] \in Changes
  BY Zenon
<1>12. \A a \in Accounts : <<db.checkpoint.installation, a>> \in forgotten' => Gone(content, a)
  BY <1>9, Zenon
<1>13. /\ DOMAIN answer.changes = 1..Len(answer.changes) /\ Len(answer.changes) \in Nat
       /\ \A i \in 1..Len(answer.changes) : answer.changes[i] \in Changes
       /\ \A a \in Accounts :
             <<db.checkpoint.installation, a>> \in Forgets(db.checkpoint.installation, answer.changes)'
                 => Gone(content, a)
  BY <1>4, <1>7, <1>10, <1>11 DEF Forgets
<1> HIDE DEF answer, inst
<1>. QED BY <1>1, <1>3, <1>6, <1>7, <1>12, <1>13, StageKeeps, Zenon

LEMMA BeginKeeps ==
    ASSUME IInv, NEW o \in Operations, NEW key \in Keys, BeginRotation(o, key)
    PROVE  IInv'
<1> DEFINE d == db.tables
           e == [d EXCEPT !.grants[key].state = "refreshing",
                          !.operations[o] = [key |-> key, generation |-> d.grants[key].generation,
                                             state |-> "started", committed_revision |-> None]]
           answer == [kind |-> "begin", key |-> key, generation |-> d.grants[key].generation]
<1>1. /\ mode = "open" /\ Stage(BumpRevision(e), answer) /\ ckpt' = ckpt
      /\ d.operations[o] = None /\ Ready(d, key)
  BY Zenon DEF BeginRotation, Mutate, Ready
<1>2. Serving
  BY <1>1, Zenon DEF IInv
<1>3. /\ db \in Databases /\ auth = {db.checkpoint} /\ ckpt' = db.checkpoint
      /\ d \in Rows /\ Safe(db) /\ Agree(d)
  BY <1>1, <1>2, ServingIsSafe, Zenon DEF Serving
<1>4. /\ Advances(d, e) /\ KeepsGone(d, e) /\ e.revision = d.revision
      /\ key \in Refreshing(e) /\ e.grants[key].generation = d.grants[key].generation
  BY <1>1, <1>3, BeginAdvances, Zenon
<1> HIDE DEF e
<1>5. \A i \in issues : i.token # <<db.checkpoint.installation, key, d.grants[key].generation>>
  <2> SUFFICES ASSUME NEW i \in issues, i.token = <<db.checkpoint.installation, key, d.grants[key].generation>>
               PROVE  FALSE
    BY Zenon
  <2>1. d.grants[key].generation < d.generations[key]
    BY <1>1, <1>3 DEF Safe, Honours
  <2>2. d.grants[key].generation = d.generations[key] /\ d.generations[key] \in Nat
    BY <1>1, <1>3, Zenon DEF Agree, Ready, Rows
  <2>. QED BY <2>1, <2>2
<1>6. answer.kind = "begin" /\ answer.key = key /\ answer.generation = d.grants[key].generation
  BY Zenon
<1> HIDE DEF answer
<1>. QED BY <1>1, <1>3, <1>4, <1>5, <1>6, StageOther

LEMMA CompleteKeeps ==
    ASSUME IInv, NEW o \in Operations, NEW meta \in Metas, CompleteRotation(o, meta)
    PROVE  IInv'
<1> DEFINE d == db.tables
           key == d.operations[o].key
           next == d.operations[o].generation + 1
           e == Completed(d, o, key, next)
           answer == [kind |-> "complete"]
<1>1. /\ mode = "open" /\ Stage(UpdateSnapshot(e, meta), answer) /\ ckpt' = ckpt /\ o \in Started(d)
  BY Zenon DEF CompleteRotation, Mutate, Completed
<1>2. Serving
  BY <1>1, Zenon DEF IInv
<1>3. /\ db \in Databases /\ auth = {db.checkpoint} /\ ckpt' = db.checkpoint
      /\ d \in Rows /\ Agree(d)
  BY <1>1, <1>2, ServingIsSafe, Zenon DEF Serving
<1>4. Advances(d, e) /\ KeepsGone(d, e) /\ e.revision = d.revision
  BY <1>1, <1>3, CompleteAdvances
<1> HIDE DEF e
<1>5. answer.kind = "complete"
  BY Zenon
<1> HIDE DEF answer
<1>. QED BY <1>1, <1>3, <1>4, <1>5, StageOther, Zenon

LEMMA QuarantineKeeps ==
    ASSUME IInv, NEW o \in Operations, QuarantineRotation(o)
    PROVE  IInv'
<1> DEFINE d == db.tables
           op == d.operations[o]
           hit == {k \in Refreshing(d) : k = op.key /\ d.grants[k].generation = op.generation}
           e == Quarantined(d, o, hit)
           answer == [kind |-> "quarantine"]
<1>1. /\ mode = "open" /\ Stage(BumpRevision(e), answer) /\ ckpt' = ckpt /\ o \in Started(d)
  BY Zenon DEF QuarantineRotation, Mutate, Quarantined
<1>2. Serving
  BY <1>1, Zenon DEF IInv
<1>3. /\ db \in Databases /\ auth = {db.checkpoint} /\ ckpt' = db.checkpoint
      /\ d \in Rows /\ Agree(d)
  BY <1>1, <1>2, ServingIsSafe, Zenon DEF Serving
<1>4. Advances(d, e) /\ KeepsGone(d, e) /\ e.revision = d.revision
  <2>1. op = d.operations[o]
        /\ hit = {k \in Refreshing(d) : k = op.key /\ d.grants[k].generation = op.generation}
    BY Zenon
  <2> HIDE DEF d, op, hit
  <2>. QED BY <1>1, <1>3, <2>1, QuarantineAdvances
<1> HIDE DEF e
<1>5. answer.kind = "quarantine"
  BY Zenon
<1> HIDE DEF answer
<1>. QED BY <1>1, <1>3, <1>4, <1>5, StageOther, Zenon

LEMMA OpenKeeps ==
    ASSUME IInv, NEW validated \in BOOLEAN, Open(validated)
    PROVE  IInv'
<1>1. db \in Databases /\ auth = {db.checkpoint} /\ ckpt' = db.checkpoint
  <2>1. db \in Databases
    BY DEF Open, Admits, IsDatabase, IInv, TypeOK, Absent, Blank
  <2>2. db.checkpoint \in auth
    BY Zenon DEF Open, Admits, Verifies
  <2>. QED BY <2>1, <2>2, Zenon DEF Open, IInv, TypeOK
<1>2. db.tables \in Rows /\ Agree(db.tables)
  BY <1>1, ServingIsSafe, Zenon
<1>3. CASE Started(db.tables) = {} /\ Refreshing(db.tables) = {}
  <2>1. /\ mode' = "open" /\ UNCHANGED <<db, auth, backups, txn, reply, draws>> /\ UNCHANGED history
    BY <1>3, Zenon DEF Open
  <2>2. TypeOK'
    BY <1>1, <2>1, Zenon DEF IInv, TypeOK, Databases
  <2>3. Known' \subseteq Known
    BY <2>1, Zenon DEF Known, history
  <2>4. Serving'
    BY <1>1, <2>1, Zenon DEF Serving
  <2>. QED BY <2>1, <2>2, <2>3, <2>4, PlainKeeps, Zenon
<1>4. CASE ~(Started(db.tables) = {} /\ Refreshing(db.tables) = {})
  <2> DEFINE d == db.tables
             e == [d EXCEPT
                      !.grants = [k \in Keys |-> IF k \in Refreshing(d)
                                     THEN [@[k] EXCEPT !.state = "quarantined"] ELSE @[k]],
                      !.operations = QuarantineStarted(d, Keys)]
             answer == [kind |-> "reconcile"]
  <2>1. Stage(BumpRevision(e), answer)
    BY <1>4, Zenon DEF Open, QuarantineAll
  <2>2. Advances(d, e) /\ KeepsGone(d, e) /\ e.revision = d.revision
    BY <1>2, QuarantineAllAdvances, Zenon
  <2>3. answer.kind = "reconcile"
    BY Zenon
  <2> HIDE DEF e, answer
  <2>. QED BY <1>1, <2>1, <2>2, <2>3, StageOther, Zenon
<1>. QED BY <1>3, <1>4, Zenon

(* A new installation: nobody was told anything about it. *)
LEMMA CreateKeeps ==
    ASSUME IInv, Create
    PROVE  IInv'
<1> DEFINE c == Fresh(draws + 1)
           t == Database(c, InitialTables)
<1>1. /\ draws \in Nat /\ MaxDraws \in Nat /\ draws < MaxDraws /\ draws' = draws + 1
      /\ db' = Blank /\ txn' = t /\ ckpt' = None /\ mode' = "staged"
      /\ reply' = [kind |-> "create"]
      /\ auth' = auth /\ backups' = backups
      /\ issues' = issues /\ minted' = minted /\ forgotten' = forgotten
      /\ IF auth = {} THEN acked' = Blank /\ attempt' = t ELSE acked' = acked /\ attempt' = attempt
  BY StoreAssumption DEF Create, IInv, TypeOK
<1>2. c \in Checkpoints /\ c.nonce = draws + 1 /\ c.installation = draws + 1 /\ c.sequence = 0
  <2>1. draws + 1 \in 1..MaxDraws /\ 0 \in 0..MaxDraws
    BY <1>1
  <2>. QED BY <2>1, Zenon DEF Fresh, Checkpoints
<1>3. /\ InitialTables \in Tables /\ InitialTables.revision = 0
      /\ \A k \in Keys : InitialTables.grants[k] = None
      /\ \A o \in Operations : InitialTables.operations[o] = None
  <2>1. 0 \in 0..MaxDraws
    BY <1>1
  <2>. QED BY <2>1, Zenon DEF InitialTables, Tables
<1>4. Agree(InitialTables)
  BY <1>3, Zenon DEF Agree, Started, Refreshing
<1> HIDE DEF c
<1>5. t \in Databases /\ t.checkpoint = c /\ t.tables = InitialTables
  BY <1>2, <1>3, Zenon DEF Database, Databases
<1> HIDE DEF t
<1>6. Dated(t, draws + 1) /\ t.checkpoint.nonce = draws + 1 /\ Agree(t.tables)
  BY <1>1, <1>2, <1>3, <1>4, <1>5 DEF Dated
<1>7. KnownOK'
  <2>1. Known' \subseteq Known \union {t}
    BY <1>1 DEF Known, Blank, Databases
  <2>. QED BY <1>1, <1>5, <1>6, <2>1, KnownGrows, Zenon
<1>8. HistoryOK'
  <2>1. 1..draws \subseteq 1..draws'
    BY <1>1
  <2>. QED BY <1>1, <1>5, <2>1, Zenon DEF IInv, HistoryOK
<1>9. TypeOK'
  <2>1. draws' \in 0..MaxDraws
    BY <1>1
  <2>. QED BY <1>1, <1>5, <2>1, Zenon DEF IInv, TypeOK
<1>10. Honours(t.tables, t.checkpoint.installation, issues, minted, forgotten)
  <2>1. /\ \A i \in issues : i.token[1] # draws + 1
        /\ \A m \in minted : m[1] # draws + 1
        /\ \A a \in Accounts : <<draws + 1, a>> \notin forgotten
    BY <1>1 DEF IInv, HistoryOK
  <2>. QED BY <1>2, <1>5, <2>1, Zenon DEF Honours
<1>11. Fenced'
  <2>1. \A f : Safe(f)' <=> Safe(f)
    BY <1>1, Zenon DEF Safe, Honours, Gone, Ready
  <2>. QED BY <1>1, <2>1, Zenon DEF IInv, Fenced
<1>12. Running'
  <2>1. Safe(txn)'
    BY <1>1, <1>10, Zenon DEF Safe
  <2>. QED BY <1>1, <1>5, <2>1, Zenon DEF Running
<1>. QED BY <1>1, <1>7, <1>8, <1>9, <1>11, <1>12, Zenon DEF IInv

LEMMA ReservedIsSafe ==
    ASSUME IInv, mode = "staged", ReservePermitted
    PROVE  txn \in Databases /\ attempt = txn /\ Safe(txn)
BY Zenon DEF IInv, Running, ReservePermitted

LEMMA ReserveKeeps ==
    ASSUME IInv, Reserve
    PROVE  IInv'
<1>1. /\ mode = "staged" /\ mode' = "reserved" /\ auth' = {txn.checkpoint}
      /\ UNCHANGED <<db, backups, ckpt, txn, reply, draws>> /\ UNCHANGED history
      /\ txn \in Databases /\ attempt = txn /\ Safe(txn)
  BY ReservedIsSafe, Zenon DEF Reserve
<1>2. TypeOK'
  BY <1>1, Zenon DEF IInv, TypeOK, Databases
<1>3. KnownOK'
  BY <1>1, KnownKeeps, Zenon DEF Known, history
<1>4. HistoryOK'
  BY <1>1, Zenon DEF IInv, HistoryOK, history
<1>5. \A f : Safe(f)' <=> Safe(f)
  BY <1>1, Zenon DEF Safe, history, Honours, Gone, Ready
<1>6. Fenced'
  BY <1>1, <1>5, Zenon DEF Fenced, history
<1>7. Running'
  <2>1. Safe(txn)'
    BY <1>1, Zenon DEF Safe, history
  <2>2. /\ reply.kind = "begin" =>
              /\ reply.key \in Refreshing(txn.tables)
              /\ reply.generation = txn.tables.grants[reply.key].generation
              /\ \A i \in issues : i.token # <<txn.checkpoint.installation, reply.key, reply.generation>>
        /\ reply.kind = "commit" =>
              /\ DOMAIN reply.changes = 1..Len(reply.changes) /\ Len(reply.changes) \in Nat
              /\ \A i \in 1..Len(reply.changes) : reply.changes[i] \in Changes
              /\ \A a \in Accounts :
                    <<txn.checkpoint.installation, a>> \in Forgets(txn.checkpoint.installation, reply.changes)
                        => Gone(txn.tables, a)
    BY <1>1, Zenon DEF IInv, Running
  <2>3. \A i, s : Forgets(i, s)' = Forgets(i, s)
    BY <1>1, Zenon DEF Forgets, history
  <2>. QED BY <1>1, <2>1, <2>2, <2>3, Zenon DEF Running, history
<1>. QED BY <1>1, <1>2, <1>3, <1>4, <1>6, <1>7, Zenon DEF IInv

(* A step that changes neither files nor history, apart from leaving a     *)
(* mutation unanswered.                                                    *)
LEMMA ReserveFailsKeeps ==
    ASSUME IInv, ReserveFails
    PROVE  IInv'
<1>1. /\ mode = "staged" /\ mode' = "poisoned" /\ txn' = None
      /\ UNCHANGED <<db, backups, ckpt, draws>> /\ UNCHANGED history
      /\ auth' = auth \/ (ReservePermitted /\ auth' = {txn.checkpoint})
  BY Zenon DEF ReserveFails
<1>2. auth' = auth \/ (txn \in Databases /\ attempt = txn /\ Safe(txn) /\ auth' = {txn.checkpoint})
  BY <1>1, ReservedIsSafe, Zenon
<1>3. TypeOK'
  BY <1>1, <1>2, Zenon DEF IInv, TypeOK, Databases
<1>4. Known' \subseteq Known
  BY <1>1, StoreAssumption, Zenon DEF Known, history
<1>. QED BY <1>1, <1>2, <1>3, <1>4, PlainKeeps, Zenon

LEMMA CommitFailsKeeps ==
    ASSUME IInv, CommitFails
    PROVE  IInv'
<1>1. /\ mode = "reserved" /\ mode' = "poisoned" /\ txn' = None /\ db' \in {db, txn}
      /\ UNCHANGED <<auth, backups, ckpt, draws>> /\ UNCHANGED history
  BY Zenon DEF CommitFails
<1>2. txn \in Databases
  BY <1>1, Zenon DEF IInv, Running
<1>3. TypeOK'
  BY <1>1, <1>2, Zenon DEF IInv, TypeOK
<1>4. Known' \subseteq Known
  BY <1>1, StoreAssumption, Zenon DEF Known, history
<1>. QED BY <1>1, <1>3, <1>4, PlainKeeps, Zenon

LEMMA RollBackKeeps ==
    ASSUME IInv, RollBack
    PROVE  IInv'
<1>1. /\ mode = "staged" /\ reply.kind # "create" /\ mode' = "open" /\ txn' = None
      /\ UNCHANGED <<db, auth, backups, ckpt, draws>> /\ UNCHANGED history
  BY Zenon DEF RollBack
<1>2. Serving'
  BY <1>1, Zenon DEF IInv, Running, Serving
<1>3. TypeOK'
  BY <1>1, Zenon DEF IInv, TypeOK
<1>4. Known' \subseteq Known
  BY <1>1, StoreAssumption, Zenon DEF Known, history
<1>. QED BY <1>1, <1>2, <1>3, <1>4, PlainKeeps, Zenon

LEMMA StopKeeps ==
    ASSUME IInv, Stop
    PROVE  IInv'
<1>1. /\ mode' = "closed" /\ ckpt' = None /\ txn' = None
      /\ db' = db \/ (mode = "reserved" /\ db' = txn)
      /\ auth' = auth \/ (mode = "staged" /\ ReservePermitted /\ auth' = {txn.checkpoint})
      /\ UNCHANGED <<backups, draws>> /\ UNCHANGED history
  BY Zenon DEF Stop
<1>2. auth' = auth \/ (txn \in Databases /\ attempt = txn /\ Safe(txn) /\ auth' = {txn.checkpoint})
  BY <1>1, ReservedIsSafe, Zenon
<1>3. db' = db \/ (txn \in Databases /\ db' = txn)
  BY <1>1, Zenon DEF IInv, Running
<1>4. TypeOK'
  BY <1>1, <1>2, <1>3, Zenon DEF IInv, TypeOK, Databases
<1>5. Known' \subseteq Known
  BY <1>1, <1>3, StoreAssumption, Zenon DEF Known, history
<1>. QED BY <1>1, <1>2, <1>4, <1>5, PlainKeeps, Zenon

(* The files while the daemon is down, and a copy of an open database. *)
LEMMA FilesKeep ==
    ASSUME IInv, Backup \/ Restore \/ LoseDatabase \/ LoseAuthority
    PROVE  IInv'
<1>1. /\ UNCHANGED <<mode, ckpt, txn, draws>> /\ UNCHANGED history
      /\ auth' \in {auth, {}} /\ mode \in {"closed", "open"}
      /\ mode = "open" => UNCHANGED <<db, auth>>
      /\ db' = db \/ db' = Absent \/ db' \in backups
      /\ backups' = backups \/ (IsDatabase(db) /\ backups' = backups \union {db})
  BY Zenon DEF Backup, Restore, LoseDatabase, LoseAuthority
<1>2. IsDatabase(db) => db \in Databases
  BY DEF IInv, TypeOK, IsDatabase, Absent, Blank
<1>3. TypeOK'
  BY <1>1, <1>2, Zenon DEF IInv, TypeOK
<1>4. Known' \subseteq Known
  <2>1. Absent \notin Databases
    BY Zenon DEF Absent, Databases
  <2>. QED BY <1>1, <2>1, Zenon DEF Known, history
<1>5. mode' = "open" => Serving'
  BY <1>1, Zenon DEF IInv, Serving
<1>6. \A c \in auth' : c \in auth
  BY <1>1, Zenon
<1>. QED BY <1>1, <1>3, <1>4, <1>5, <1>6, PlainKeeps, Zenon

(* COMMIT: the caller may send one rotation to its issuer, learns the      *)
(* generations, and the accounts of the commit are forgotten.              *)
LEMMA CommitSucceedsKeeps ==
    ASSUME IInv, CommitSucceeds
    PROVE  IInv'
<1> DEFINE d == txn.tables
           n == txn.checkpoint.installation
           token == <<n, reply.key, reply.generation>>
           new == [token |-> token, nonce |-> txn.checkpoint.nonce]
<1>1. /\ mode = "reserved" /\ db' = txn /\ ckpt' = txn.checkpoint /\ mode' = "open" /\ txn' = None
      /\ issues' = IF reply.kind # "begin" THEN issues ELSE issues \union {new}
      /\ minted' = minted \union {t \in {<<n, k, d.generations[k]>> : k \in Keys} : t[3] > 0}
      /\ forgotten' = IF reply.kind = "commit" THEN Forgets(n, reply.changes) ELSE forgotten
      /\ acked' = txn /\ UNCHANGED <<auth, backups, draws, attempt>>
  BY Zenon DEF CommitSucceeds
<1>2. txn \in Databases /\ attempt = txn /\ Safe(txn) /\ auth = {txn.checkpoint}
  BY <1>1, Zenon DEF IInv, Running
<1>3. Dated(txn, draws) /\ Agree(d)
  BY <1>2, Zenon DEF IInv, KnownOK, Known
<1>4. draws \in Nat /\ n \in 1..draws
  BY <1>2, <1>3, StoreAssumption DEF IInv, TypeOK, Databases, Checkpoints, Dated
<1>5. d.grants \in [Keys -> Grants \union {None}] /\ d.generations \in [Keys -> Nat]
  BY <1>2, Zenon DEF Databases, Tables
<1>6. ASSUME reply.kind = "begin"
      PROVE  /\ reply.key \in Keys /\ reply.generation \in Nat
             /\ reply.generation = d.generations[reply.key] /\ ~Ready(d, reply.key)
             /\ \A i \in issues : i.token # token
  <2>1. reply.key \in Refreshing(d) /\ reply.generation = d.grants[reply.key].generation
        /\ \A i \in issues : i.token # token
    BY <1>1, <1>6, Zenon DEF IInv, Running
  <2>2. reply.key \in Keys /\ d.grants[reply.key] # None /\ d.grants[reply.key].state = "refreshing"
    BY <2>1, Zenon DEF Refreshing
  <2>3. d.grants[reply.key] \in Grants
    BY <1>5, <2>2, Zenon
  <2>4. d.grants[reply.key].generation \in Nat
    BY <2>3, Zenon DEF Grants
  <2>. QED BY <1>3, <2>1, <2>2, <2>4, Zenon DEF Agree, Ready
<1>7. ASSUME reply.kind = "commit"
      PROVE  /\ \A a \in Accounts : <<n, a>> \in Forgets(n, reply.changes) => Gone(d, a)
             /\ Forgets(n, reply.changes) \subseteq (1..draws) \X Accounts
  <2>1. /\ DOMAIN reply.changes = 1..Len(reply.changes)
        /\ \A i \in 1..Len(reply.changes) : reply.changes[i] \in Changes
        /\ \A a \in Accounts : <<n, a>> \in Forgets(n, reply.changes) => Gone(d, a)
    BY <1>1, <1>7, Zenon DEF IInv, Running
  <2>2. \A i \in DOMAIN reply.changes :
            reply.changes[i].kind = "tombstone_account" => reply.changes[i].account \in Accounts
    BY <2>1, ChangeFields, Zenon
  <2>3. forgotten \subseteq (1..draws) \X Accounts
    BY Zenon DEF IInv, HistoryOK
  <2>. QED BY <1>4, <2>1, <2>2, <2>3 DEF Forgets
<1> HIDE DEF d, n
<1>8. HistoryOK'
  <2>1. \A i \in issues' : i.token \in (1..draws) \X Keys \X Nat
    BY <1>1, <1>4, <1>6 DEF IInv, HistoryOK
  <2>2. \A i, j \in issues' : i.token = j.token => i = j
    BY <1>1, <1>6 DEF IInv, HistoryOK
  <2>3. minted' \subseteq (1..draws) \X Keys \X Nat
    BY <1>1, <1>4, <1>5 DEF IInv, HistoryOK
  <2>4. forgotten' \subseteq (1..draws) \X Accounts
    BY <1>1, <1>7, Zenon DEF IInv, HistoryOK
  <2>5. acked' \in Databases \union {Absent, Blank} /\ attempt' \in Databases \union {Absent, Blank}
    BY <1>1, <1>2, Zenon DEF IInv, HistoryOK
  <2>. QED BY <1>1, <2>1, <2>2, <2>3, <2>4, <2>5, Zenon DEF HistoryOK
<1>9. Honours(d, n, issues', minted', forgotten')
  <2>1. Honours(d, n, issues, minted, forgotten)
    BY <1>2, Zenon DEF Safe, d, n
  <2>2. ASSUME NEW i \in issues', i.token[1] = n
        PROVE  /\ i.token[3] <= d.generations[i.token[2]]
               /\ Ready(d, i.token[2]) => i.token[3] < d.generations[i.token[2]]
    <3>1. CASE i \in issues
      BY <2>1, <2>2, <3>1, Zenon DEF Honours
    <3>2. CASE reply.kind = "begin" /\ i = new
      BY <1>5, <1>6, <3>2
    <3>. QED BY <1>1, <3>1, <3>2, Zenon
  <2>3. ASSUME NEW t \in minted', t[1] = n PROVE t[3] <= d.generations[t[2]]
    <3>1. CASE t \in minted
      BY <2>1, <2>3, <3>1, Zenon DEF Honours
    <3>2. CASE \E k \in Keys : t = <<n, k, d.generations[k]>>
      BY <1>5, <3>2
    <3>. QED BY <1>1, <3>1, <3>2, Zenon
  <2>4. ASSUME NEW a \in Accounts, <<n, a>> \in forgotten' PROVE Gone(d, a)
    BY <1>1, <1>7, <2>1, <2>4, Zenon DEF Honours
  <2>. QED BY <2>2, <2>3, <2>4, Zenon DEF Honours
<1>10. Fenced'
  <2>1. Safe(attempt)'
    BY <1>1, <1>2, <1>9, Zenon DEF Safe, d, n
  <2>. QED BY <1>1, <1>2, <2>1, Zenon DEF Fenced
<1>11. KnownOK'
  <2>1. Known' \subseteq Known
    BY <1>1, StoreAssumption, Zenon DEF Known
  <2>. QED BY <1>1, <2>1, KnownKeeps, Zenon
<1>12. TypeOK'
  BY <1>1, <1>2, Zenon DEF IInv, TypeOK, Databases
<1>13. Serving'
  BY <1>1, <1>2, Zenon DEF Serving
<1>. QED BY <1>1, <1>8, <1>10, <1>11, <1>12, <1>13, Zenon DEF IInv

-----------------------------------------------------------------------------
LEMMA InitHolds == Init => IInv
<1>. SUFFICES ASSUME Init PROVE IInv
  BY Zenon
<1>1. Absent \notin Databases
  BY Zenon DEF Absent, Databases
<1>2. TypeOK
  BY StoreAssumption DEF Init, TypeOK
<1>3. Known = {}
  BY <1>1, StoreAssumption, Zenon DEF Init, Known
<1>4. KnownOK
  BY <1>3, Zenon DEF KnownOK
<1>5. Fenced /\ HistoryOK
  BY Zenon DEF Init, Fenced, HistoryOK
<1>. QED BY <1>2, <1>4, <1>5, Zenon DEF Init, IInv

LEMMA StutterKeeps ==
    ASSUME IInv, UNCHANGED vars
    PROVE  IInv'
<1>1. UNCHANGED <<db, auth, backups, mode, ckpt, txn, reply, draws, acked, attempt, issues, minted, forgotten>>
  BY Zenon DEF vars
<1>2. TypeOK' /\ HistoryOK'
  BY <1>1, Zenon DEF IInv, TypeOK, HistoryOK
<1>3. KnownOK'
  BY <1>1, KnownKeeps, Zenon DEF Known
<1>4. \A f : Safe(f)' <=> Safe(f)
  BY <1>1, Zenon DEF Safe, Honours, Gone, Ready
<1>5. Fenced'
  BY <1>1, <1>4, Zenon DEF IInv, Fenced
<1>6. mode' = "open" => Serving'
  BY <1>1, Zenon DEF IInv, Serving
<1>7. ASSUME mode \in {"staged", "reserved"} PROVE Running'
  <2>1. Running
    BY <1>7, Zenon DEF IInv
  <2>2. Safe(txn)' <=> Safe(txn)
    BY <1>1, Zenon DEF Safe
  <2>3. \A i, s : Forgets(i, s)' = Forgets(i, s)
    BY <1>1, Zenon DEF Forgets
  <2>. QED BY <1>1, <2>1, <2>2, <2>3, Zenon DEF Running, Serving
<1>. QED BY <1>1, <1>2, <1>3, <1>5, <1>6, <1>7, Zenon DEF IInv

LEMMA NextKeeps ==
    ASSUME IInv, [Next]_vars
    PROVE  IInv'
<1>1. CASE UNCHANGED vars
  BY <1>1, StutterKeeps, Zenon
<1>2. CASE Create
  BY <1>2, CreateKeeps, Zenon
<1>3. ASSUME NEW validated \in BOOLEAN, Open(validated) PROVE IInv'
  BY <1>3, OpenKeeps, Zenon
<1>4. CASE CommitAny
  BY <1>4, CommitKeeps, Zenon DEF CommitAny
<1>5. ASSUME NEW o \in Operations, NEW key \in Keys, BeginRotation(o, key) PROVE IInv'
  BY <1>5, BeginKeeps, Zenon
<1>6. ASSUME NEW o \in Operations, NEW meta \in Metas, CompleteRotation(o, meta) PROVE IInv'
  BY <1>6, CompleteKeeps, Zenon
<1>7. ASSUME NEW o \in Operations, QuarantineRotation(o) PROVE IInv'
  BY <1>7, QuarantineKeeps, Zenon
<1>8. CASE Reserve \/ ReserveFails \/ CommitSucceeds \/ CommitFails \/ RollBack \/ Stop
  BY <1>8, ReserveKeeps, ReserveFailsKeeps, CommitSucceedsKeeps, CommitFailsKeeps, RollBackKeeps, StopKeeps, Zenon
<1>9. CASE Backup \/ Restore \/ LoseDatabase \/ LoseAuthority
  BY <1>9, FilesKeep, Zenon
<1>. QED BY <1>1, <1>2, <1>3, <1>4, <1>5, <1>6, <1>7, <1>8, <1>9, Zenon DEF Next

(* In every reachable state the authority names one of the last two        *)
(* contents, whatever crashed, failed or was restored, and each content a  *)
(* store can still open keeps what the callers were told.                  *)
THEOREM Invariance == Spec => []IInv
<1>1. Init => IInv
  BY InitHolds, Zenon
<1>2. IInv /\ [Next]_vars => IInv'
  BY NextKeeps, Zenon
<1>. QED BY <1>1, <1>2, PTL DEF Spec

(* A store that opens shows the content of the last acknowledged mutation  *)
(* or of a later one whose outcome its caller never learnt, and never the  *)
(* content before an acknowledged mutation, one commit behind included     *)
(* (Checkpoint.verify, openRootValidated, finishMutation).                 *)
THEOREM OpensLatest == Spec => []OpenIsLatest
<1>1. IInv => OpenIsLatest
  <2>. SUFFICES ASSUME IInv, mode = "open" PROVE db \in {acked, attempt}
    BY Zenon DEF OpenIsLatest
  <2>1. db \in Databases /\ auth = {db.checkpoint}
    BY Zenon DEF IInv, Serving
  <2>. QED BY <2>1, ServingIsSafe, Zenon
<1>. QED BY <1>1, Invariance, PTL

(* beginRotation lets one token generation be sent to its issuer at most   *)
(* once, and a credential that loadGrant releases was never sent.          *)
THEOREM RotatesOnce == Spec => []RotationIssuedOnce
<1>1. IInv => RotationIssuedOnce
  <2>. SUFFICES ASSUME IInv PROVE RotationIssuedOnce
    BY Zenon
  <2>1. \A i, j \in issues : i.token = j.token => i = j
    BY Zenon DEF IInv, HistoryOK
  <2>2. ASSUME mode = "open", NEW k \in Keys, Ready(db.tables, k), NEW i \in issues,
               i.token = <<db.checkpoint.installation, k, db.tables.grants[k].generation>>
        PROVE  FALSE
    <3>1. db \in Databases /\ auth = {db.checkpoint}
      BY <2>2, Zenon DEF IInv, Serving
    <3>2. Safe(db) /\ Agree(db.tables) /\ db.tables \in Rows
      BY <3>1, ServingIsSafe, Zenon
    <3>3. db.tables.generations[k] \in Nat /\ db.tables.grants[k].generation = db.tables.generations[k]
      BY <2>2, <3>2, Zenon DEF Agree, Ready, Rows
    <3>4. i.token[1] = db.checkpoint.installation /\ i.token[2] = k
          /\ i.token[3] = db.tables.generations[k]
      BY <2>2, <3>3
    <3>5. i.token[3] < db.tables.generations[k]
      BY <2>2, <3>2, <3>4, Zenon DEF Safe, Honours
    <3>. QED BY <3>3, <3>4, <3>5
  <2>. QED BY <2>1, <2>2, Zenon DEF RotationIssuedOnce, Ready
<1>. QED BY <1>1, Invariance, PTL

(* nextGeneration is above every generation an acknowledged mutation gave  *)
(* to a grant id of the installation, deleted and forgotten ones included. *)
THEOREM GenerationsNew == Spec => []NoGenerationReuse
<1>1. IInv => NoGenerationReuse
  <2>. SUFFICES ASSUME IInv, mode = "open", NEW t \in minted, t[1] = db.checkpoint.installation
                PROVE  t[3] < NextGeneration(db.tables, t[2])
    BY Zenon DEF NoGenerationReuse
  <2>1. db \in Databases /\ auth = {db.checkpoint}
    BY Zenon DEF IInv, Serving
  <2>2. Safe(db) /\ db.tables \in Rows
    BY <2>1, ServingIsSafe, Zenon
  <2>3. t[2] \in Keys /\ t[3] \in Nat
    BY Zenon DEF IInv, HistoryOK
  <2>4. t[3] <= db.tables.generations[t[2]]
    BY <2>2, Zenon DEF Safe, Honours
  <2>5. db.tables.generations[t[2]] \in Nat
    BY <2>2, <2>3, Zenon DEF Rows
  <2>. QED BY <2>3, <2>4, <2>5 DEF NextGeneration
<1>. QED BY <1>1, Invariance, PTL

(* An account whose forgetting was acknowledged has its tombstone and no   *)
(* grant until a re-enrollment is attempted (tombstoneAccount, put).       *)
THEOREM StaysForgotten == Spec => []ForgottenStaysForgotten
<1>1. IInv => ForgottenStaysForgotten
  <2>. SUFFICES ASSUME IInv, mode = "open", NEW a \in Accounts, <<db.checkpoint.installation, a>> \in forgotten
                PROVE  Gone(db.tables, a)
    BY Zenon DEF ForgottenStaysForgotten, Gone
  <2>1. db \in Databases /\ auth = {db.checkpoint}
    BY Zenon DEF IInv, Serving
  <2>2. Safe(db)
    BY <2>1, ServingIsSafe, Zenon
  <2>. QED BY <2>2, Zenon DEF Safe, Honours
<1>. QED BY <1>1, Invariance, PTL

(* In every committed database started operations and refreshing grants    *)
(* come in pairs of one generation (beginRotation, completeRotation,       *)
(* quarantineRotation, reconcilePendingRotations).                         *)
THEOREM TablesAgree == Spec => []RotationTablesAgree
<1>1. IInv => RotationTablesAgree
  <2>. SUFFICES ASSUME IInv PROVE RotationTablesAgree
    BY Zenon
  <2>1. ASSUME IsDatabase(db) PROVE Agree(db.tables)
    <3>1. db \in Databases
      BY <2>1 DEF IInv, TypeOK, IsDatabase, Absent, Blank
    <3>. QED BY <3>1, Zenon DEF IInv, KnownOK, Known
  <2>. QED BY <2>1, Zenon DEF IInv, RotationTablesAgree, Agree
<1>. QED BY <1>1, Invariance, PTL

=============================================================================
