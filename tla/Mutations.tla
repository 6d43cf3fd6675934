----------------------------- MODULE Mutations -----------------------------
(***************************************************************************)
(* Mutating control requests: the mutation ledger (mutation_authority.zig) *)
(* and the way the engine runs a request around it (engine.zig,            *)
(* authorizedRequest, persist, restoreCommitted, bootstrap).               *)
(*                                                                         *)
(* A client names every mutation by an operation id and may repeat it.  A  *)
(* local mutation changes only the snapshot; an external one also acts on  *)
(* the world outside (files, sources, native processes).  The daemon may   *)
(* die at any point, and a commit may fail with an unknown outcome; both   *)
(* may leave a database that Store.tla shows never opens again.            *)
(***************************************************************************)
EXTENDS Naturals, FiniteSets

CONSTANTS
    Ids,          \* operation ids
    Local,        \* intents of local_atomic methods
    External,     \* intents of external methods
    Results,      \* redacted results
    Capacity,     \* record capacity of the ledger
    MaxRevision   \* bound: commits

ASSUME MutationsAssumption ==
    /\ Local \intersect External = {}
    /\ Capacity \in Nat /\ MaxRevision \in Nat

VARIABLES
    disk,     \* the committed snapshot
    wedged,   \* the recovery fence is ahead of the database: it never opens
    mode,     \* where the daemon is
    mem,      \* the engine's in-memory snapshot
    active,   \* the operation id an external handler is running for
    world,    \* how often the external effect of an id happened
    answers   \* results reported as success, per id

vars == <<disk, wedged, mode, mem, active, world, answers>>

Intents == Local \union External

Absent == [state |-> "absent"]

Record(intent, revision, state, result) ==
    [state |-> state, intent |-> intent, expected_revision |-> revision, result |-> result]

NoResult == "none"

Unresolved(s, id) == s.ledger[id].state \in {"started", "indeterminate"}

(* validatePersistedAdmission, the part about mutations: an external        *)
(* mutation that did not complete holds an outcome credit, and only such a  *)
(* mutation does.                                                           *)
Restorable(s) ==
    \A id \in Ids : id \in s.credits <=> Unresolved(s, id) /\ s.ledger[id].intent \in External

-----------------------------------------------------------------------------
(* Engine.persist: one commit of the whole snapshot. *)

Committed(s) == [s EXCEPT !.revision = @ + 1]

Persist(s, next_mode) ==
    /\ s.revision < MaxRevision
    /\ disk' = Committed(s)
    /\ mem' = disk'
    /\ mode' = next_mode
    /\ UNCHANGED wedged

(* Store.commit failed: the snapshot may be durable all the same, or the   *)
(* rollback fence may have moved ahead of a database that did not change.  *)
PersistFails(s, next_mode) ==
    /\ s.revision < MaxRevision
    /\ mode' = next_mode
    /\ \/ disk' = Committed(s) /\ UNCHANGED wedged
       \/ UNCHANGED disk /\ wedged' \in {wedged, TRUE}
    /\ UNCHANGED mem

-----------------------------------------------------------------------------
Init ==
    /\ disk = [revision |-> 0, ledger |-> [id \in Ids |-> Absent],
               applied |-> [id \in Ids |-> 0], credits |-> {}, recovering |-> FALSE]
    /\ mem = disk
    /\ wedged = FALSE /\ mode = "down" /\ active \in Ids
    /\ world = [id \in Ids |-> 0]
    /\ answers = [id \in Ids |-> {}]

(* Ledger.begin for an id that is not in the ledger. *)
Admissible(id, revision) ==
    /\ mem.ledger[id] = Absent
    /\ revision = mem.revision
    /\ Cardinality({i \in Ids : mem.ledger[i] # Absent}) < Capacity

(* Ledger.begin for an id that is: only the exact same request matches. *)
Matches(id, intent, revision) ==
    /\ mem.ledger[id] # Absent
    /\ mem.ledger[id].intent = intent
    /\ mem.ledger[id].expected_revision = revision

(* A completed record answers its repetition from the cached result; a     *)
(* started or indeterminate one answers OperationIndeterminate.            *)
Replay(id, intent, revision) ==
    /\ mode = "up"
    /\ Matches(id, intent, revision)
    /\ mem.ledger[id].state = "completed"
    /\ answers' = [answers EXCEPT ![id] = @ \union {mem.ledger[id].result}]
    /\ UNCHANGED <<disk, wedged, mode, mem, active, world>>

(* A local_atomic request: its effect and its completed record are staged  *)
(* and commit together.  A handler error restores the committed snapshot.  *)
RunLocal(id, intent, revision, result) ==
    /\ mode = "up"
    /\ intent \in Local
    /\ Admissible(id, revision)
    /\ LET next == [mem EXCEPT !.ledger[id] = Record(intent, revision, "completed", result),
                               !.applied[id] = @ + 1]
       IN  \/ /\ Persist(next, "up")
              /\ answers' = [answers EXCEPT ![id] = @ \union {result}]
           \/ PersistFails(next, "poisoned") /\ UNCHANGED answers
    /\ UNCHANGED <<active, world>>

(* An external request first commits its started record and the credit for *)
(* its outcome.                                                            *)
FenceExternal(id, intent, revision) ==
    /\ mode = "up"
    /\ intent \in External
    /\ Admissible(id, revision)
    /\ LET next == [mem EXCEPT !.ledger[id] = Record(intent, revision, "started", NoResult),
                               !.credits = @ \union {id}]
       IN  Persist(next, "fenced") \/ PersistFails(next, "poisoned")
    /\ active' = id
    /\ UNCHANGED <<world, answers>>

(* The handler acts on the outside world. *)
PerformEffect ==
    /\ mode = "fenced"
    /\ mode' = "effected"
    /\ world' = [world EXCEPT ![active] = @ + 1]
    /\ UNCHANGED <<disk, wedged, mem, active, answers>>

(* The handler's effect is a commit of its own, made while the record is   *)
(* still started (source.connect, source.disconnect, imports).             *)
PerformThroughCommit ==
    /\ mode = "fenced"
    /\ \/ Persist(mem, "effected")
       \/ PersistFails(mem, "poisoned")
    /\ world' = IF disk' = disk THEN world ELSE [world EXCEPT ![active] = @ + 1]
    /\ UNCHANGED <<active, answers>>

(* Mutation of CompleteExternal: the client is answered before the commit. *)
AnswerBeforeCommit(result) ==
    /\ mode = "effected"
    /\ LET next == [mem EXCEPT !.ledger[active].state = "completed",
                               !.ledger[active].result = result,
                               !.credits = @ \ {active}]
       IN  Persist(next, "up") \/ PersistFails(next, "poisoned")
    /\ answers' = [answers EXCEPT ![active] = @ \union {result}]
    /\ UNCHANGED <<active, world>>

(* The handler succeeded: the cached result, the terminal record and the   *)
(* release of the credit commit together, then the client is answered.     *)
CompleteExternal(result) ==
    /\ mode = "effected"
    /\ LET next == [mem EXCEPT !.ledger[active].state = "completed",
                               !.ledger[active].result = result,
                               !.credits = @ \ {active}]
       IN  \/ /\ Persist(next, "up")
              /\ answers' = [answers EXCEPT ![active] = @ \union {result}]
           \/ PersistFails(next, "poisoned") /\ UNCHANGED answers
    /\ UNCHANGED <<active, world>>

(* Mutation of FailExternal: the credit of the uncertain outcome is freed. *)
FailExternalFreesCredit ==
    /\ mode \in {"fenced", "effected"}
    /\ LET next == [disk EXCEPT !.ledger[active].state = "indeterminate", !.credits = @ \ {active}]
       IN  Persist(next, "up") \/ PersistFails(next, "poisoned")
    /\ UNCHANGED <<active, world, answers>>

(* Mutation of FailExternal: a failed request is taken back. *)
FailExternalForgets ==
    /\ mode \in {"fenced", "effected"}
    /\ LET next == [disk EXCEPT !.ledger[active] = Absent, !.credits = @ \ {active}]
       IN  Persist(next, "up") \/ PersistFails(next, "poisoned")
    /\ UNCHANGED <<active, world, answers>>

(* The handler, or the encoding of its reply, failed before or after its   *)
(* effect: the errdefer of authorizedRequest restores the committed        *)
(* snapshot and commits the uncertainty, or poisons the engine.            *)
FailExternal ==
    /\ mode \in {"fenced", "effected"}
    /\ LET next == [disk EXCEPT !.ledger[active].state = "indeterminate"]
       IN  Persist(next, "up") \/ PersistFails(next, "poisoned")
    /\ UNCHANGED <<active, world, answers>>

(* Any other handler or maintenance step that commits. *)
OtherCommit ==
    /\ mode = "up"
    /\ Persist(mem, "up") \/ PersistFails(mem, "poisoned")
    /\ UNCHANGED <<active, world, answers>>

(* A failed maintenance step or restoration fences the daemon: it answers  *)
(* reads only until it is restarted.                                       *)
Fence ==
    /\ mode \in {"up", "fenced", "effected"}
    /\ mode' = "poisoned"
    /\ UNCHANGED <<disk, wedged, mem, active, world, answers>>

Crash ==
    /\ mode # "down"
    /\ mode' = "down"
    /\ UNCHANGED <<disk, wedged, mem, active, world, answers>>

-----------------------------------------------------------------------------
(* bootstrap: three commits, the last two around recoverIntegrations. *)

(* Mutation of RecoverAfterRestart: work that never completed is dropped. *)
DropUnfinished(s) ==
    LET started == {id \in Ids : s.ledger[id].state = "started"}
    IN  [s EXCEPT !.ledger = [id \in Ids |-> IF id \in started THEN Absent ELSE @[id]],
                  !.credits = @ \ started]

RecoverAfterRestart(s) ==
    [s EXCEPT !.ledger = [id \in Ids |->
        IF @[id].state = "started" THEN [@[id] EXCEPT !.state = "indeterminate"] ELSE @[id]]]

Boot ==
    /\ mode = "down"
    /\ ~wedged /\ Restorable(disk)
    /\ \/ Persist(RecoverAfterRestart(disk), IF disk.recovering THEN "down" ELSE "booted")
       \/ PersistFails(RecoverAfterRestart(disk), "down")
    /\ UNCHANGED <<active, world, answers>>

ReserveRecovery ==
    /\ mode = "booted"
    /\ LET next == [mem EXCEPT !.recovering = TRUE]
       IN  Persist(next, "recovering") \/ PersistFails(next, "down")
    /\ UNCHANGED <<active, world, answers>>

FinishRecovery ==
    /\ mode = "recovering"
    /\ LET next == [mem EXCEPT !.recovering = FALSE]
       IN  Persist(next, "up") \/ PersistFails(next, "down")
    /\ UNCHANGED <<active, world, answers>>

Next ==
    \/ \E id \in Ids, revision \in 0..MaxRevision, result \in Results :
          \/ \E intent \in Local : RunLocal(id, intent, revision, result)
          \/ \E intent \in Intents : Replay(id, intent, revision)
          \/ \E intent \in External : FenceExternal(id, intent, revision)
    \/ PerformEffect \/ PerformThroughCommit
    \/ \E result \in Results : CompleteExternal(result)
    \/ FailExternal \/ OtherCommit \/ Fence \/ Crash
    \/ Boot \/ ReserveRecovery \/ FinishRecovery

Spec == Init /\ [][Next]_vars

-----------------------------------------------------------------------------
(* Properties. *)

Records ==
    [state : {"started", "completed", "indeterminate"}, intent : Intents,
     expected_revision : Nat, result : Results \union {NoResult}]

Snapshots ==
    [revision : Nat, ledger : [Ids -> Records \union {Absent}], applied : [Ids -> Nat],
     credits : SUBSET Ids, recovering : BOOLEAN]

(* Every variable keeps its shape; a record of the ledger has the fields   *)
(* mutation_authority.Record gives it.                                     *)
TypeOK ==
    /\ disk \in Snapshots /\ mem \in Snapshots
    /\ wedged \in BOOLEAN
    /\ mode \in {"down", "booted", "recovering", "up", "fenced", "effected", "poisoned"}
    /\ active \in Ids
    /\ world \in [Ids -> Nat]
    /\ answers \in [Ids -> SUBSET Results]

(* An effect is performed outside, or by a commit that applies it. *)
Performed == [id \in Ids |-> world[id] + disk.applied[id]]

Promise == INSTANCE OnceOnly WITH performed <- Performed

(* Repeating an operation id through crashes, restarts, failed handlers    *)
(* and ambiguous commits performs its effect at most once, reports success *)
(* only for a performed effect and always reports the same result.         *)
EffectOnce == Promise!Spec

(* A result reported to a client is the result of a durable completed      *)
(* record, so that the same request after a restart is answered the same.  *)
AcknowledgedIsDurable ==
    \A id \in Ids : \A result \in answers[id] :
        disk.ledger[id].state = "completed" /\ disk.ledger[id].result = result

(* Every snapshot that reaches the disk passes validatePersistedAdmission: *)
(* whatever the daemon was doing when it stopped, its own committed state  *)
(* is not the reason it cannot start, nor a reason restoreCommitted fails. *)
CommittedSnapshotRestorable == Restorable(disk)

Kept(old, new) ==
    \A id \in Ids : old[id] # Absent =>
        /\ new[id] # Absent
        /\ new[id].intent = old[id].intent
        /\ new[id].expected_revision = old[id].expected_revision
        /\ old[id].state = "completed" => new[id] = old[id]
        /\ old[id].state = "indeterminate" => new[id].state = "indeterminate"

(* A commit never removes a ledger record, never changes what it was       *)
(* admitted for, and never reopens a completed or indeterminate one.       *)
LedgerNeverForgets == [][Kept(disk.ledger, disk.ledger')]_vars
=============================================================================
