------------------------------- MODULE Store -------------------------------
(***************************************************************************)
(* The durable store of the daemon (storage.zig) and the independent       *)
(* rollback fence kept beside it (recovery.zig).                           *)
(*                                                                         *)
(* One SQLite database holds the metadata snapshot, the grants, their      *)
(* generation watermarks, the account tombstones, the rotation operations  *)
(* and a checkpoint.  A second file, the authority, holds the checkpoint   *)
(* of the last mutation that was allowed to commit.  A mutation stages its *)
(* writes in a transaction, reserves the successor checkpoint in the       *)
(* authority and only then commits.  The process may die between any two   *)
(* of these steps, a write may fail with an unknown outcome, and the       *)
(* database file (not the authority) may be replaced by a backup.          *)
(***************************************************************************)
EXTENDS Naturals, Sequences, FiniteSets

CONSTANTS
    Accounts,     \* opaque account ids
    GrantIds,     \* opaque grant ids, local to an account
    Owners,       \* renewal owners a grant is put with
    Operations,   \* operation ids of token rotations
    Metas,        \* metadata snapshots an actor commits (never the empty one)
    MaxChanges,   \* bound: grant changes in one commit
    MaxDraws,     \* bound: random draws (nonces and installation ids)
    MaxBackups,   \* bound: database copies kept
    None          \* no row, or the empty metadata snapshot

Keys == Accounts \X GrantIds

Checkpoints ==
    [installation : 1..MaxDraws, sequence : 0..MaxDraws, nonce : 1..MaxDraws,
     revision : 0..MaxDraws, digest : Metas \union {None}]

Grants ==
    [generation : Nat \ {0}, owner : Owners, state : {"ready", "refreshing", "quarantined"}]

OperationRows ==
    [key : Keys, generation : Nat \ {0}, state : {"started", "completed", "quarantined"},
     committed_revision : Nat \union {None}]

Tables ==
    [revision : 0..MaxDraws, meta : Metas \union {None}, tombstones : SUBSET Accounts,
     grants : [Keys -> Grants \union {None}], generations : [Keys -> Nat],
     operations : [Operations -> OperationRows \union {None}]]

Databases == [file : {"database"}, checkpoint : Checkpoints, tables : Tables]

(* The database path: no file, a file at user_version 0, or a database. *)
Absent == [file |-> "absent"]

Blank == [file |-> "blank"]

(* None is no record. *)
ASSUME StoreAssumption ==
    /\ MaxDraws \in Nat /\ MaxChanges \in Nat /\ MaxBackups \in Nat
    /\ None \notin Checkpoints \union Grants \union OperationRows \union Tables \union Databases

VARIABLES
    db,        \* the database file: absent, blank or its committed content
    auth,      \* the authority file: the set of the checkpoint it holds, if any
    backups,   \* copies of the database that may be restored
    mode,      \* "closed", "open", "staged", "reserved" or "poisoned"
    ckpt,      \* Store.checkpoint, meaningful while the store is open
    txn,       \* the transaction-visible database of the running mutation
    reply,     \* what the running mutation tells its caller when it commits
    draws,     \* how many random values were drawn so far
    (* History, for the properties only. *)
    acked,     \* content acknowledged last, or found open by the last mutation
    attempt,   \* content the last mutation tried to commit
    issues,    \* rotations a caller was told it may send to the issuer
    minted,    \* grant generations handed out in acknowledged mutations
    forgotten  \* accounts acknowledged as forgotten and not re-enrolled since

vars == <<db, auth, backups, mode, ckpt, txn, reply, draws,
          acked, attempt, issues, minted, forgotten>>

history == <<acked, attempt, issues, minted, forgotten>>

AccountOf(key) == key[1]

Database(checkpoint, tables) == [file |-> "database", checkpoint |-> checkpoint, tables |-> tables]

IsDatabase(f) == f.file = "database"

-----------------------------------------------------------------------------
(* Checkpoints. *)

Fresh(draw) ==
    [installation |-> draw, sequence |-> 0, nonce |-> draw, revision |-> 0, digest |-> None]

Successor(checkpoint, d, draw) ==
    [installation |-> checkpoint.installation, sequence |-> checkpoint.sequence + 1,
     nonce |-> draw, revision |-> d.revision, digest |-> d.meta]

(* The digest is a hash of the exact snapshot bytes: here, the snapshot. *)
SnapshotAuthentic(f) ==
    f.tables.revision = f.checkpoint.revision /\ f.tables.meta = f.checkpoint.digest

(* Mutation of Verifies: a database one checkpoint behind is let in. *)
VerifiesOneBehind(independent, checkpoint) ==
    /\ independent.installation = checkpoint.installation
    /\ checkpoint.sequence + 1 >= independent.sequence

(* Checkpoint.verify, with the authority as self and the database as other. *)
Verifies(independent, checkpoint) ==
    /\ independent.installation = checkpoint.installation
    /\ checkpoint.sequence >= independent.sequence
    /\ independent = checkpoint

(* Everything openRootValidated checks before it changes anything. *)
Admits(f, authority) ==
    /\ IsDatabase(f) /\ SnapshotAuthentic(f)
    /\ \E independent \in authority : Verifies(independent, f.checkpoint)

Started(d) == {o \in Operations : d.operations[o] # None /\ d.operations[o].state = "started"}

Refreshing(d) == {k \in Keys : d.grants[k] # None /\ d.grants[k].state = "refreshing"}

(* The extra gate of a daemon start: typed defaults may only replace the   *)
(* empty snapshot of an untouched database, and unresolved rotations are   *)
(* refused rather than reconciled.                                         *)
ValidateActorRecovery(f) ==
    LET d == f.tables
    IN  /\ d.meta = None =>
             /\ d.revision = 0 /\ f.checkpoint.sequence = 0
             /\ d.tombstones = {}
             /\ \A k \in Keys : d.grants[k] = None /\ d.generations[k] = 0
             /\ \A o \in Operations : d.operations[o] = None
        /\ Started(d) = {} /\ Refreshing(d) = {}

-----------------------------------------------------------------------------
(* The effect of each statement of a mutation on the tables. *)

NextGeneration(d, key) == d.generations[key] + 1

QuarantineStarted(d, keys) ==
    [o \in Operations |->
        IF o \in Started(d) /\ d.operations[o].key \in keys
          THEN [d.operations[o] EXCEPT !.state = "quarantined"] ELSE d.operations[o]]

(* Mutation of CanPut: the tombstone of the account is not looked at. *)
CanPutDespiteTombstone(d, key) ==
    d.grants[key] # None => /\ NextGeneration(d, key) = d.grants[key].generation + 1
                            /\ d.grants[key].state # "refreshing"

CanPut(d, key) ==
    /\ AccountOf(key) \notin d.tombstones
    /\ d.grants[key] # None => /\ NextGeneration(d, key) = d.grants[key].generation + 1
                               /\ d.grants[key].state # "refreshing"

Put(d, key, owner) ==
    [d EXCEPT
       !.grants[key] = [generation |-> NextGeneration(d, key), owner |-> owner, state |-> "ready"],
       !.generations[key] = NextGeneration(d, key)]

(* Mutation of DeleteGrant: the watermark goes with the grant. *)
DeleteGrantAndWatermark(d, key) ==
    [d EXCEPT !.grants[key] = None, !.generations[key] = 0,
              !.operations = QuarantineStarted(d, {key})]

DeleteGrant(d, key) ==
    [d EXCEPT !.grants[key] = None, !.operations = QuarantineStarted(d, {key})]

(* Mutation of TombstoneAccount: running rotations of the account stay.    *)
TombstoneKeepsRotations(d, account) ==
    [d EXCEPT !.tombstones = @ \union {account},
              !.grants = [k \in Keys |-> IF AccountOf(k) = account THEN None ELSE @[k]]]

TombstoneAccount(d, account) ==
    LET owned == {k \in Keys : AccountOf(k) = account}
    IN  [d EXCEPT !.tombstones = @ \union {account},
                  !.grants = [k \in Keys |-> IF k \in owned THEN None ELSE @[k]],
                  !.operations = QuarantineStarted(d, owned)]

ReenrollAccount(d, account) == [d EXCEPT !.tombstones = @ \ {account}]

Changes ==
    [kind : {"put"}, key : Keys, owner : Owners]
        \union [kind : {"delete"}, key : Keys]
        \union [kind : {"tombstone_account", "reenroll_account"}, account : Accounts]

(* One change inside a commit; the whole commit is refused once one is. *)
ApplyChange(d, change) ==
    IF d = None THEN None
    ELSE CASE change.kind = "put" ->
                IF CanPut(d, change.key) THEN Put(d, change.key, change.owner) ELSE None
           [] change.kind = "delete" -> DeleteGrant(d, change.key)
           [] change.kind = "tombstone_account" -> TombstoneAccount(d, change.account)
           [] change.kind = "reenroll_account" -> ReenrollAccount(d, change.account)

ApplyChanges(d, changes) ==
    LET after[i \in 0..Len(changes)] == IF i = 0 THEN d ELSE ApplyChange(after[i - 1], changes[i])
    IN  after[Len(changes)]

BumpRevision(d) == [d EXCEPT !.revision = @ + 1]

UpdateSnapshot(d, meta) == [BumpRevision(d) EXCEPT !.meta = meta]

-----------------------------------------------------------------------------
Init ==
    /\ db = Absent /\ auth = {} /\ backups = {}
    /\ mode = "closed" /\ ckpt = None /\ txn = None /\ reply = None
    /\ draws = 0
    /\ acked = Absent /\ attempt = Absent
    /\ issues = {} /\ minted = {} /\ forgotten = {}

(* The transaction of a mutation: BEGIN, the table writes, and the         *)
(* successor checkpoint written in the same transaction (finishMutation).  *)
Stage(content, answer) ==
    /\ draws < MaxDraws
    /\ draws' = draws + 1
    /\ txn' = Database(Successor(ckpt', content, draws'), content)
    /\ mode' = "staged"
    /\ reply' = answer
    /\ acked' = db /\ attempt' = txn'
    /\ forgotten' = IF answer.kind # "commit" THEN forgotten
                    ELSE {f \in forgotten : \A i \in DOMAIN answer.changes :
                            \/ answer.changes[i].kind # "reenroll_account"
                            \/ f # <<ckpt'.installation, answer.changes[i].account>>}
    /\ UNCHANGED <<db, auth, backups, issues, minted>>

Mutate(content, answer) ==
    mode = "open" /\ UNCHANGED ckpt /\ Stage(content, answer)

InitialTables ==
    [revision |-> 0, meta |-> None, tombstones |-> {},
     grants |-> [k \in Keys |-> None], generations |-> [k \in Keys |-> 0],
     operations |-> [o \in Operations |-> None]]

(* openRootValidated on a path with no database: the file is created, the  *)
(* schema and the first checkpoint are staged.                             *)
Create ==
    /\ mode = "closed" /\ db = Absent
    /\ draws < MaxDraws
    /\ draws' = draws + 1
    /\ db' = Blank
    /\ txn' = Database(Fresh(draws'), InitialTables)
    /\ ckpt' = None
    /\ mode' = "staged"
    /\ reply' = [kind |-> "create"]
    /\ IF auth = {} THEN acked' = Blank /\ attempt' = txn' ELSE UNCHANGED <<acked, attempt>>
    /\ UNCHANGED <<auth, backups, issues, minted, forgotten>>

(* Mutation of QuarantineAll: an interrupted rotation is made retriable. *)
ReleaseAll(d) ==
    BumpRevision([d EXCEPT
        !.grants = [k \in Keys |-> IF k \in Refreshing(d)
                                     THEN [@[k] EXCEPT !.state = "ready"] ELSE @[k]],
        !.operations = QuarantineStarted(d, Keys)])

(* reconcilePendingRotations: a rotation that was running when the process *)
(* stopped is ambiguous, so its grant and its operation are quarantined.   *)
QuarantineAll(d) ==
    BumpRevision([d EXCEPT
        !.grants = [k \in Keys |-> IF k \in Refreshing(d)
                                     THEN [@[k] EXCEPT !.state = "quarantined"] ELSE @[k]],
        !.operations = QuarantineStarted(d, Keys)])

(* openRootValidated on an existing database; `validated` when the caller  *)
(* is the actor and passes its snapshot validator.                         *)
Open(validated) ==
    /\ mode = "closed"
    /\ Admits(db, auth)
    /\ validated => ValidateActorRecovery(db)
    /\ ckpt' = db.checkpoint
    /\ IF Started(db.tables) = {} /\ Refreshing(db.tables) = {}
         THEN /\ mode' = "open"
              /\ UNCHANGED <<db, auth, backups, txn, reply, draws>> /\ UNCHANGED history
         ELSE Stage(QuarantineAll(db.tables), [kind |-> "reconcile"])

(* Store.commit: CAS on the revision the caller read, every change, then   *)
(* the new snapshot.                                                       *)
Commit(changes, meta) ==
    LET content == ApplyChanges(db.tables, changes)
    IN  /\ mode = "open"
        /\ content # None
        /\ Mutate(UpdateSnapshot(content, meta), [kind |-> "commit", changes |-> changes])

(* beginRotation with an operation id that was not used before.  A used id *)
(* only reads the recorded status and never permits another issuer call.   *)
BeginRotation(o, key) ==
    /\ mode = "open"
    /\ db.tables.operations[o] = None
    /\ db.tables.grants[key] # None
    /\ db.tables.grants[key].state = "ready" /\ db.tables.grants[key].owner = "omux"
    /\ Mutate(BumpRevision([db.tables EXCEPT
                  !.grants[key].state = "refreshing",
                  !.operations[o] = [key |-> key, generation |-> db.tables.grants[key].generation,
                                     state |-> "started", committed_revision |-> None]]),
              [kind |-> "begin", key |-> key, generation |-> db.tables.grants[key].generation])

(* completeRotation, once the issuer answered: the successor generation,   *)
(* its watermark, the operation and the snapshot change together.          *)
CompleteRotation(o, meta) ==
    /\ mode = "open"
    /\ o \in Started(db.tables)
    /\ LET key == db.tables.operations[o].key
           next == db.tables.operations[o].generation + 1
       IN  /\ db.tables.grants[key] # None
           /\ db.tables.grants[key].generation = db.tables.operations[o].generation
           /\ db.tables.grants[key].state = "refreshing" /\ db.tables.grants[key].owner = "omux"
           /\ Mutate(UpdateSnapshot([db.tables EXCEPT
                         !.grants[key] = [@ EXCEPT !.generation = next, !.state = "ready"],
                         !.generations[key] = next,
                         !.operations[o] = [@ EXCEPT !.state = "completed",
                                                     !.committed_revision = db.tables.revision + 1]], meta),
                     [kind |-> "complete"])

(* quarantineRotation, after a timeout or an ambiguous issuer answer. *)
QuarantineRotation(o) ==
    /\ mode = "open"
    /\ o \in Started(db.tables)
    /\ LET op == db.tables.operations[o]
           hit == {k \in Refreshing(db.tables) : k = op.key /\ db.tables.grants[k].generation = op.generation}
       IN  Mutate(BumpRevision([db.tables EXCEPT
                      !.grants = [k \in Keys |-> IF k \in hit
                                     THEN [@[k] EXCEPT !.state = "quarantined"] ELSE @[k]],
                      !.operations[o].state = "quarantined"]),
                  [kind |-> "quarantine"])

-----------------------------------------------------------------------------
(* finishMutation after the writes: reserve, then COMMIT. *)

(* FileAuthority.initialize for a new database, FileAuthority.reserve for  *)
(* a mutation: both read the authority again before they publish.          *)
ReservePermitted ==
    IF reply.kind = "create" THEN auth = {}
    ELSE \E independent \in auth : Verifies(independent, ckpt)

Reserve ==
    /\ mode = "staged" /\ ReservePermitted
    /\ auth' = {txn.checkpoint}
    /\ mode' = "reserved"
    /\ UNCHANGED <<db, backups, ckpt, txn, reply, draws>> /\ UNCHANGED history

(* The authority refuses, its write fails with an unknown outcome, or an   *)
(* earlier statement fails and so does the ROLLBACK.                       *)
ReserveFails ==
    /\ mode = "staged"
    /\ auth' \in {auth} \union (IF ReservePermitted THEN {{txn.checkpoint}} ELSE {})
    /\ mode' = "poisoned"
    /\ txn' = None /\ reply' = None
    /\ UNCHANGED <<db, backups, ckpt, draws>> /\ UNCHANGED history

(* Accounts a commit leaves forgotten: a tombstone that no later change of *)
(* the commit takes back.                                                  *)
Forgets(installation, changes) ==
    LET last == {i \in DOMAIN changes :
                    /\ changes[i].kind = "tombstone_account"
                    /\ \A j \in DOMAIN changes : j > i /\ changes[j].kind = "reenroll_account" =>
                          changes[j].account # changes[i].account}
    IN  forgotten \union {<<installation, changes[i].account>> : i \in last}

(* COMMIT succeeds: the caller is answered. *)
CommitSucceeds ==
    /\ mode = "reserved"
    /\ db' = txn
    /\ ckpt' = txn.checkpoint
    /\ mode' = "open"
    /\ LET installation == txn.checkpoint.installation
       IN  /\ issues' = IF reply.kind # "begin" THEN issues
                        ELSE issues \union {[token |-> <<installation, reply.key, reply.generation>>,
                                             nonce |-> txn.checkpoint.nonce]}
           /\ minted' = minted \union
                  {t \in {<<installation, k, txn.tables.generations[k]>> : k \in Keys} : t[3] > 0}
           /\ forgotten' = IF reply.kind = "commit" THEN Forgets(installation, reply.changes)
                           ELSE forgotten
    /\ acked' = txn
    /\ txn' = None /\ reply' = None
    /\ UNCHANGED <<auth, backups, draws, attempt>>

(* COMMIT returns an error and may or may not have become durable. *)
CommitFails ==
    /\ mode = "reserved"
    /\ db' \in {db, txn}
    /\ mode' = "poisoned"
    /\ txn' = None /\ reply' = None
    /\ UNCHANGED <<auth, backups, ckpt, draws>> /\ UNCHANGED history

(* A statement before the reservation fails and ROLLBACK undoes the rest. *)
RollBack ==
    /\ mode = "staged" /\ reply.kind # "create"
    /\ mode' = "open"
    /\ txn' = None /\ reply' = None
    /\ UNCHANGED <<db, auth, backups, ckpt, draws>> /\ UNCHANGED history

(* close, or the death of the process at any point, the publication of the *)
(* authority and COMMIT included.                                          *)
Stop ==
    /\ mode # "closed"
    /\ mode' = "closed"
    /\ db' \in {db} \union (IF mode = "reserved" THEN {txn} ELSE {})
    /\ auth' \in {auth} \union (IF mode = "staged" /\ ReservePermitted
                                  THEN {{txn.checkpoint}} ELSE {})
    /\ ckpt' = None /\ txn' = None /\ reply' = None
    /\ UNCHANGED <<backups, draws>> /\ UNCHANGED history

-----------------------------------------------------------------------------
(* The files while the daemon is down: a copy of the database is taken,    *)
(* put back, or a file is removed.  Restoring the authority together with  *)
(* the database is outside recovery.zig's boundary.                        *)

Backup ==
    /\ mode \in {"closed", "open"} /\ IsDatabase(db)
    /\ Cardinality(backups) < MaxBackups
    /\ backups' = backups \union {db}
    /\ UNCHANGED <<db, auth, mode, ckpt, txn, reply, draws>> /\ UNCHANGED history

Restore ==
    /\ mode = "closed"
    /\ db' \in backups
    /\ UNCHANGED <<auth, backups, mode, ckpt, txn, reply, draws>> /\ UNCHANGED history

LoseDatabase ==
    /\ mode = "closed"
    /\ db' = Absent
    /\ UNCHANGED <<auth, backups, mode, ckpt, txn, reply, draws>> /\ UNCHANGED history

LoseAuthority ==
    /\ mode = "closed"
    /\ auth' = {}
    /\ UNCHANGED <<db, backups, mode, ckpt, txn, reply, draws>> /\ UNCHANGED history

CommitAny ==
    \E n \in 0..MaxChanges : \E changes \in [1..n -> Changes], meta \in Metas : Commit(changes, meta)

Next ==
    \/ Create
    \/ \E validated \in BOOLEAN : Open(validated)
    \/ CommitAny
    \/ \E o \in Operations, key \in Keys : BeginRotation(o, key)
    \/ \E o \in Operations, meta \in Metas : CompleteRotation(o, meta)
    \/ \E o \in Operations : QuarantineRotation(o)
    \/ Reserve \/ ReserveFails \/ CommitSucceeds \/ CommitFails \/ RollBack \/ Stop
    \/ Backup \/ Restore \/ LoseDatabase \/ LoseAuthority

Spec == Init /\ [][Next]_vars

-----------------------------------------------------------------------------
(* Properties. *)

(* Every variable keeps its shape: the files hold what storage.zig and     *)
(* recovery.zig write, the handle is in one of its five states.            *)
TypeOK ==
    /\ db \in Databases \union {Absent, Blank}
    /\ auth = {} \/ \E c \in Checkpoints : auth = {c}
    /\ backups \subseteq Databases
    /\ mode \in {"closed", "open", "staged", "reserved", "poisoned"}
    /\ ckpt \in Checkpoints \union {None}
    /\ txn \in Databases \union {None}
    /\ draws \in 0..MaxDraws

(* A store that opens shows the content of the last acknowledged mutation  *)
(* or of a later one whose outcome its caller never learnt, never an older *)
(* one: once a mutation is acknowledged the content before it is refused,  *)
(* be it a single commit behind.  This holds after a crash between the     *)
(* reservation and COMMIT, after a failed COMMIT and after a backup was    *)
(* restored (Checkpoint.verify, openRootValidated, finishMutation).        *)
OpenIsLatest == mode = "open" => db \in {acked, attempt}

(* beginRotation answers may_issue at most once for one token generation   *)
(* of one installation, whatever crashes, restores and operation ids come  *)
(* between, and a credential that loadGrant would release was never sent   *)
(* to its issuer: the old token of an ambiguous or completed rotation is   *)
(* not served again.                                                       *)
RotationIssuedOnce ==
    /\ \A i, j \in issues : i.token = j.token => i = j
    /\ mode = "open" =>
          \A k \in Keys : (db.tables.grants[k] # None /\ db.tables.grants[k].state = "ready") =>
              \A i \in issues :
                  i.token # <<db.checkpoint.installation, k, db.tables.grants[k].generation>>

(* nextGeneration is above every generation an acknowledged mutation gave  *)
(* to this grant id, deleted and forgotten ones included, so that a lease  *)
(* for an older grant with the same ids cannot become valid again.         *)
NoGenerationReuse ==
    mode = "open" =>
        \A t \in minted : t[1] = db.checkpoint.installation => t[3] < NextGeneration(db.tables, t[2])

(* An account whose forgetting was acknowledged has its tombstone and no   *)
(* grant until a re-enrollment is attempted (tombstoneAccount, put).       *)
ForgottenStaysForgotten ==
    mode = "open" =>
        \A a \in Accounts : <<db.checkpoint.installation, a>> \in forgotten =>
            /\ a \in db.tables.tombstones
            /\ \A k \in Keys : AccountOf(k) = a => db.tables.grants[k] = None

(* In every committed database a started operation and a refreshing grant  *)
(* of the same generation come in pairs, so completeRotation never meets   *)
(* RotationConflict and no grant stays in refreshing with nobody to end it.*)
(* The files and the handle keep their shape throughout (TypeOK).          *)
RotationTablesAgree ==
    TypeOK /\ (IsDatabase(db) =>
        /\ \A o \in Started(db.tables) :
              LET op == db.tables.operations[o]
              IN  op.key \in Refreshing(db.tables) /\ db.tables.grants[op.key].generation = op.generation
        /\ \A k \in Refreshing(db.tables) : \E o \in Started(db.tables) : db.tables.operations[o].key = k)
=============================================================================
