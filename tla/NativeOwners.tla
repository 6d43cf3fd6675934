---------------------------- MODULE NativeOwners ----------------------------
(***************************************************************************)
(* Native owners, their attachments and the removal of the adapter: the    *)
(* ledger (native_owner.zig), the native tasks that drive it (engine.zig,  *)
(* startNativeInvocation to finishNativeRemoval) and the part of           *)
(* validatePersistedAdmission that reads it back.                          *)
(*                                                                         *)
(* A native owner is a process that runs threads.  Registering a thread    *)
(* puts it under the daemon's management; detaching it ends that.  Both    *)
(* are requests to the owner, fenced by a commit before they are sent and  *)
(* resolved by a commit after the owner acknowledged.  integrations.remove *)
(* fences the adapter's epoch, detaches what it can and takes the adapter  *)
(* out of the owner's configuration once nothing is left.  Requests and    *)
(* acknowledgements may be lost or late, commits may fail with an unknown  *)
(* outcome, the daemon may die.                                            *)
(***************************************************************************)
EXTENDS Naturals

CONSTANTS
    Owners,        \* native owner processes
    Names,         \* the thread of each thread instance generation
    Registers,     \* operation ids of adapter.owner.register
    Attaches,      \* operation ids of integrations.attach
    Detaches,      \* operation ids of integrations.detach
    Removals,      \* operation ids of integrations.remove
    MaxEpoch,      \* bound: adapter epochs
    MaxGeneration, \* bound: attachment generations of one thread instance
    None

Epochs == 1..MaxEpoch

Refs == [owner : Owners, epoch : Epochs, instance : DOMAIN Names, generation : 1..MaxGeneration]

Controls == Attaches \union Detaches \union Removals

(* Operations with an inner registration record. *)
Enrolments == Registers \union Attaches

(* The registration an owner sends because of an announcement carries the  *)
(* operation id of the announcement.                                       *)
Callback(a) == <<a>>

Callbacks == {Callback(a) : a \in Attaches}

Calls == Registers \union Callbacks \union Controls

Operation(t) == IF t \in Callbacks THEN t[1] ELSE t

(* nativeDetachOperation: the stable child operation of a removal. *)
ChildOf(m) == <<m>>

Children == {ChildOf(m) : m \in Removals}

MutationCredit(op) == <<"mutation", op>>
RegistrationCredit(op) == <<"registration", op>>
DetachCredit(op, ref) == <<"detach", op, ref>>

-----------------------------------------------------------------------------
(* native_owner.Snapshot with the records and credits beside it. *)

Phases == {"absent", "pending_registration", "attached", "pending_detach", "unresolved", "retired"}

Attachments ==
    [phase : Phases, registration : Enrolments \union {None}, detach : Detaches \union Children \union {None},
     from : {"registration", "attachment", "detachment"}]

RecordStates == {"absent", "started", "indeterminate", "completed"}

Credits ==
    {MutationCredit(op) : op \in Controls} \union {RegistrationCredit(op) : op \in Enrolments}
        \union {DetachCredit(op, ref) : op \in Detaches \union Children, ref \in Refs}

RegistryRecords == {"pending_install", "installed", "pending_remove", "removed"} \X Epochs

Registries == {None} \union RegistryRecords

Snapshots ==
    [installed : BOOLEAN, epoch : Epochs, registry : Registries,
     owners : [Owners -> [Epochs -> {"absent", "open", "closing", "retired"}]],
     rows : [Refs -> Attachments],
     removals : [Epochs -> [phase : {"none", "pending", "retired"}, operation : Removals \union {None}]],
     control : [Controls -> RecordStates], inner : [Enrolments -> RecordStates],
     credits : SUBSET Credits, bindings : SUBSET Refs, leases : SUBSET Refs]

Tasks ==
    [stage : {"none", "identify", "announcement_identify", "registration", "announcement", "detachment"},
     owner : Owners \union {None}, instance : DOMAIN Names \union {None}, ref : Refs \union {None},
     admitted : BOOLEAN, registry : Registries, result : {"running", "acknowledged", "failed"}]

(* An operation id names one operation: the ledger refuses it for another, *)
(* and the hash of nativeDetachOperation is nobody's id.                   *)
ASSUME NativeOwnersAssumption ==
    /\ Names # <<>> /\ MaxEpoch \in Nat \ {0} /\ MaxGeneration \in Nat \ {0}
    /\ Registers \cap Controls = {} /\ Attaches \cap (Detaches \union Removals) = {}
    /\ Detaches \cap Removals = {} /\ Callbacks \cap (Registers \union Controls) = {}
    /\ None \notin Refs \union Enrolments \union Detaches \union Removals \union Children \union RegistryRecords
    /\ Detaches \cap (Children \union {ChildOf(None)}) = {} /\ ChildOf(None) # None

VARIABLES
    disk,    \* the committed snapshot; the engine's own copy equals it between handlers
    mode,    \* "up", "poisoned" after a failed commit, "down"
    task,    \* the native task of each call
    managed, \* threads their owner believes managed
    wire,    \* requests that timed out and may still reach their owner
    config   \* the adapter's registry beside the owner's configuration

vars == <<disk, mode, task, managed, wire, config>>

NoTask == [stage |-> "none", owner |-> None, instance |-> None, ref |-> None,
           admitted |-> FALSE, registry |-> None, result |-> "running"]

NoRow == [phase |-> "absent", registration |-> None, detach |-> None, from |-> "registration"]

Rows(s) == {ref \in Refs : s.rows[ref].phase # "absent"}

Fenced(s) == s.removals[s.epoch].phase # "none"

-----------------------------------------------------------------------------
(* The ledger. *)

(* Mutation of MarkUnresolved: a detach that failed is taken not to have   *)
(* happened.                                                               *)
MarkUnresolvedReattaches(row) ==
    CASE row.phase = "pending_registration" -> [row EXCEPT !.phase = "unresolved"]
      [] row.phase = "pending_detach" -> [row EXCEPT !.phase = "attached", !.detach = None,
                                                     !.from = "attachment"]
      [] OTHER -> row

MarkUnresolved(row) ==
    IF row.phase \in {"absent", "unresolved", "retired"} THEN row
    ELSE [row EXCEPT !.phase = "unresolved",
                     !.from = CASE row.phase = "pending_registration" -> "registration"
                                [] row.phase = "attached" -> "attachment"
                                [] row.phase = "pending_detach" -> "detachment"]

(* admitOwner for an owner that is not in the ledger under this epoch. *)
OwnerAdmissible(s, o) ==
    \/ s.owners[o][s.epoch] = "open"
    \/ /\ s.owners[o][s.epoch] = "absent"
       /\ \A e \in Epochs : s.owners[o][e] \in {"absent", "retired"}

Siblings(s, o) == {ref \in Rows(s) : ref.owner = o /\ ref.epoch = s.epoch}

(* Mutation of NextGeneration: retired rows are not counted. *)
NextLiveGeneration(s, o, i) ==
    LET used == {ref.generation : ref \in {r \in Siblings(s, o) :
                                              r.instance = i /\ s.rows[r].phase # "retired"}}
    IN  {g \in 1..MaxGeneration : g - 1 \in used \union {0} /\ \A h \in used : h < g}

(* The attachment generation prepareNativeRegistration chooses, one above  *)
(* the greatest of the thread instance.                                    *)
NextGeneration(s, o, i) ==
    LET used == {ref.generation : ref \in {r \in Siblings(s, o) : r.instance = i}}
    IN  {g \in 1..MaxGeneration : g - 1 \in used \union {0} /\ \A h \in used : h < g}

(* admitAttachment. *)
AttachmentAdmissible(s, o, i) ==
    /\ \A ref \in Siblings(s, o) : Names[ref.instance] = Names[i] => s.rows[ref].phase = "retired"
    /\ \/ \E ref \in Siblings(s, o) : ref.instance = i
       \/ \A ref \in Siblings(s, o) : ref.instance < i

DetachAdmissible(row) ==
    /\ row.detach = None
    /\ row.phase = "attached" \/ (row.phase = "unresolved" /\ row.from = "attachment")

(* Mutation of NativeRequestsPending: leases do not count. *)
NoRequestsPending(s, ref) == FALSE

(* nativeRequestsPending of one attachment: a lease, or an attempt without *)
(* an outcome, carries its reference.                                      *)
NativeRequestsPending(s, ref) == ref \in s.leases

(* nativeRequestsPending(null). *)
RequestsPending(s) == \E ref \in s.leases : ref.epoch = s.epoch

BeginDetach(s, ref, op) ==
    [s EXCEPT !.rows[ref] = [s.rows[ref] EXCEPT !.detach = op, !.phase = "pending_detach",
                                                !.from = "detachment"],
              !.credits = s.credits \union {DetachCredit(op, ref)}]

DetachCompletable(s, ref, op) ==
    LET row == s.rows[ref]
    IN  /\ row.detach = op
        /\ row.phase = "pending_detach" \/ (row.phase = "unresolved" /\ row.from = "detachment")
        /\ ~NativeRequestsPending(s, ref)

(* Mutation of CompleteDetach: the bindings of the thread stay behind. *)
CompleteDetachKeepsBindings(s, ref, op) ==
    [s EXCEPT !.rows[ref] = [s.rows[ref] EXCEPT !.phase = "retired"],
              !.credits = s.credits \ {DetachCredit(op, ref)}]

(* completeDetach, releaseBindingsForNativeRef and the release of its credit. *)
CompleteDetach(s, ref, op) ==
    [s EXCEPT !.rows[ref] = [s.rows[ref] EXCEPT !.phase = "retired"],
              !.bindings = s.bindings \ {ref}, !.credits = s.credits \ {DetachCredit(op, ref)}]

(* beginApplicationRemoval, or the fence that is already there. *)
BeginApplicationRemoval(s, m) ==
    IF Fenced(s) THEN s
    ELSE [s EXCEPT !.removals[s.epoch] = [phase |-> "pending", operation |-> m],
                   !.owners = [o \in Owners |-> [e \in Epochs |->
                       IF e = s.epoch /\ s.owners[o][e] = "open" THEN "closing" ELSE s.owners[o][e]]]]

(* The loop of finishNativeRemoval over retireOwnerForOwner. *)
RetireOwners(s) ==
    [s EXCEPT !.owners = [o \in Owners |-> [e \in Epochs |->
        IF /\ e = s.epoch /\ s.owners[o][e] = "closing"
           /\ \A ref \in Siblings(s, o) : s.rows[ref].phase = "retired"
        THEN "retired" ELSE s.owners[o][e]]]]

(* Mutation of RemovalReady: the owners are not looked at. *)
RemovalReadyAtFence(s) == Fenced(s)

RemovalReady(s) ==
    /\ Fenced(s)
    /\ \A o \in Owners : s.owners[o][s.epoch] \in {"absent", "retired"}

-----------------------------------------------------------------------------
(* What a snapshot must satisfy to be read back: native_owner.fromSnapshot,*)
(* validateNativeAttribution and the native part of                        *)
(* validatePersistedAdmission.                                             *)

ValidRow(s, ref) ==
    LET row == s.rows[ref]
        inner == s.inner[row.registration]
        registering == row.phase = "pending_registration"
                       \/ (row.phase = "unresolved" /\ row.from = "registration")
        detaching == row.phase = "pending_detach"
                     \/ (row.phase = "unresolved" /\ row.from = "detachment")
    IN  /\ row.phase = "attached" => row.from = "attachment"
        /\ (row.detach # None) <=> (row.from = "detachment")
        /\ row.phase = "retired" => row.from = "detachment"
        /\ s.owners[ref.owner][ref.epoch] # "absent"
        /\ s.owners[ref.owner][ref.epoch] = "retired" => row.phase = "retired"
        /\ inner # "absent"
        /\ row.from # "registration" => inner = "completed"
        /\ registering <=> RegistrationCredit(row.registration) \in s.credits
        /\ registering => inner # "completed"
        /\ detaching <=> DetachCredit(row.detach, ref) \in s.credits
        /\ \A other \in Rows(s) \ {ref} :
               /\ other.owner = ref.owner /\ other.epoch = ref.epoch
               /\ Names[other.instance] = Names[ref.instance]
               => row.phase = "retired" \/ s.rows[other].phase = "retired"

ValidCredit(s, credit) ==
    CASE credit[1] = "mutation" -> s.control[credit[2]] \in {"started", "indeterminate"}
      [] credit[1] = "registration" ->
             /\ s.inner[credit[2]] \in {"started", "indeterminate"}
             /\ \E ref \in Rows(s) : s.rows[ref].registration = credit[2]
      [] credit[1] = "detach" ->
             /\ s.rows[credit[3]].detach = credit[2]
             /\ \/ credit[2] \in Detaches /\ s.control[credit[2]] # "absent"
                \/ credit[2] = ChildOf(s.removals[credit[3].epoch].operation)

Restorable(s) ==
    /\ \A o \in Owners : \A e, f \in Epochs :
           e # f => s.owners[o][e] \in {"absent", "retired"} \/ s.owners[o][f] \in {"absent", "retired"}
    /\ \A ref \in Rows(s) : ValidRow(s, ref)
    /\ \A o \in Owners : \A e \in Epochs :
           /\ s.removals[e].phase # "none" => s.owners[o][e] # "open"
           /\ s.removals[e].phase = "retired" => s.owners[o][e] # "closing"
    /\ \A ref \in s.bindings \union s.leases : s.rows[ref].phase \notin {"absent", "retired"}
    /\ \A credit \in s.credits : ValidCredit(s, credit)
    /\ \A op \in Controls :
           s.control[op] \in {"started", "indeterminate"} => MutationCredit(op) \in s.credits
    /\ \A op \in Enrolments :
           s.inner[op] # "absent" => \E ref \in Rows(s) : s.rows[ref].registration = op

-----------------------------------------------------------------------------
(* Engine.persist, and the ways a handler can end. *)

Commit(s) == disk' = s /\ mode' = "up"

(* Store.commit failed with an unknown outcome; the handler returns and    *)
(* restoreCommitted reads back whatever is on disk.                        *)
FailedCommit(before, after) ==
    /\ mode' = "poisoned"
    /\ disk' \in {before, after}

(* failNativeTask: an admitted task that did not complete leaves its       *)
(* record and its attachment uncertain.                                    *)
Uncertain(s, t, ref) ==
    LET op == Operation(t)
        state == IF t \in Controls THEN s.control[op] ELSE s.inner[op]
        doubtful == IF ref = None THEN s ELSE [s EXCEPT !.rows[ref] = MarkUnresolved(s.rows[ref])]
    IN  IF state = "completed" THEN s
        ELSE IF t \in Controls THEN [doubtful EXCEPT !.control[op] = "indeterminate"]
        ELSE [doubtful EXCEPT !.inner[op] = "indeterminate"]

(* A commit failed inside completeNativeWork, which then runs              *)
(* failNativeTask: it can commit only if the store rolled back, and may    *)
(* fail too.                                                               *)
FailedCommitOf(before, after, t, ref) ==
    /\ mode' = "poisoned"
    /\ disk' \in {before, after, Uncertain(before, t, ref)}

(* failNativeTask after an error that left the store alone. *)
CommitUncertain(s, t, ref) ==
    \/ Commit(Uncertain(s, t, ref))
    \/ FailedCommit(s, Uncertain(s, t, ref))

End(t) == task' = [task EXCEPT ![t] = NoTask]

(* admitNativeControl: the record of the operation and its credit. *)
Admit(s, op) == [s EXCEPT !.control[op] = "started", !.credits = s.credits \union {MutationCredit(op)}]

CompleteControl(s, op) ==
    [s EXCEPT !.control[op] = "completed", !.credits = s.credits \ {MutationCredit(op)}]

(* startNativeInvocation before it looks at the method.  An operation that *)
(* is in the ledger already answers from its record.                       *)
Startable(op) ==
    /\ mode = "up"
    /\ task[op].stage = "none"
    /\ disk.installed
    /\ op \in Controls => disk.control[op] = "absent"
    /\ op \in Registers => disk.inner[op] = "absent"

-----------------------------------------------------------------------------
Init ==
    /\ disk = [installed |-> FALSE, epoch |-> 1, registry |-> None,
               owners |-> [o \in Owners |-> [e \in Epochs |-> "absent"]],
               rows |-> [ref \in Refs |-> NoRow],
               removals |-> [e \in Epochs |-> [phase |-> "none", operation |-> None]],
               control |-> [op \in Controls |-> "absent"],
               inner |-> [op \in Enrolments |-> "absent"],
               credits |-> {}, bindings |-> {}, leases |-> {}]
    /\ mode = "up"
    /\ task = [t \in Calls |-> NoTask]
    /\ managed = {} /\ wire = {} /\ config = None

(* install: setup.install writes the configuration, then the actor commits *)
(* what it wrote.  It wants the registry it committed last, and may fail   *)
(* half way.                                                               *)
Install ==
    /\ mode = "up"
    /\ ~Fenced(disk)
    /\ ~disk.installed
    /\ config = disk.registry
    /\ \/ /\ config' = <<"pending_install", disk.epoch>>
          /\ UNCHANGED <<disk, mode>>
       \/ /\ config' = <<"installed", disk.epoch>>
          /\ LET next == [disk EXCEPT !.installed = TRUE, !.registry = config']
             IN  Commit(next) \/ FailedCommit(disk, next)
    /\ UNCHANGED <<task, managed, wire>>

(* adapter.owner.register by owner o for its thread instance i. *)
StartRegister(r, o, i) ==
    /\ Startable(r)
    /\ ~Fenced(disk)
    /\ task' = [task EXCEPT ![r] = [NoTask EXCEPT !.stage = "identify", !.owner = o, !.instance = i]]
    /\ UNCHANGED <<disk, mode, managed, wire, config>>

(* The owner of an announced thread calls back: registrationReplay accepts *)
(* it only while the announcement is running and its row is pending.       *)
StartCallback(a) ==
    /\ mode = "up"
    /\ disk.installed /\ ~Fenced(disk)
    /\ task[Callback(a)].stage = "none"
    /\ task[a].stage = "announcement"
    /\ disk.inner[a] = "started"
    /\ disk.rows[task[a].ref].phase = "pending_registration"
    /\ task' = [task EXCEPT ![Callback(a)] = [task[a] EXCEPT !.stage = "identify", !.admitted = FALSE,
                                                             !.result = "running"]]
    /\ UNCHANGED <<disk, mode, managed, wire, config>>

(* integrations.attach.  Without a selector the operation is admitted at   *)
(* once; with one it remembers the registry and is admitted after the      *)
(* owner was identified.  The supervisor may have no room for the task of  *)
(* an operation that was admitted.                                         *)
StartAttach(a, o, i, selected) ==
    /\ Startable(a)
    /\ ~Fenced(disk)
    /\ LET fresh == [NoTask EXCEPT !.stage = "announcement_identify", !.owner = o, !.instance = i,
                                   !.admitted = ~selected, !.registry = disk.registry]
       IN  \/ /\ selected
              /\ task' = [task EXCEPT ![a] = fresh]
              /\ UNCHANGED <<disk, mode>>
           \/ /\ ~selected
              /\ Commit(Admit(disk, a))
              /\ task' \in {task, [task EXCEPT ![a] = fresh]}
           \/ /\ ~selected
              /\ FailedCommit(disk, Admit(disk, a))
              /\ UNCHANGED task
    /\ UNCHANGED <<managed, wire, config>>

Detaching(ref) == [NoTask EXCEPT !.stage = "detachment", !.ref = ref, !.admitted = TRUE]

(* integrations.detach: prepareNativeDetach.  The operation is admitted    *)
(* before beginDetach looks at the row, so a refusal leaves it started.    *)
StartDetach(d, ref) ==
    /\ Startable(d)
    /\ ref \in Rows(disk) /\ ref.epoch = disk.epoch
    /\ ~NativeRequestsPending(disk, ref)
    /\ LET admitted == Admit(disk, d)
           begun == BeginDetach(admitted, ref, d)
       IN  \/ FailedCommit(disk, admitted) /\ UNCHANGED task
           \/ /\ ~DetachAdmissible(disk.rows[ref])
              /\ Commit(admitted)
              /\ UNCHANGED task
           \/ /\ DetachAdmissible(disk.rows[ref])
              /\ FailedCommit(admitted, begun)
              /\ UNCHANGED task
           \/ /\ DetachAdmissible(disk.rows[ref])
              /\ Commit(begun)
              /\ task' \in {task, [task EXCEPT ![d] = Detaching(ref)]}
    /\ UNCHANGED <<managed, wire, config>>

-----------------------------------------------------------------------------
(* The worker's side of a task: the request to the native owner. *)

Effect(stage, ref) ==
    CASE stage = "registration" -> managed \union {ref}
      [] stage = "detachment" -> managed \ {ref}
      [] OTHER -> managed

(* The owner acknowledged; an announcement possibly before its callback    *)
(* was answered.                                                           *)
Acknowledge(t) ==
    /\ mode # "down"
    /\ task[t].stage # "none" /\ task[t].result = "running"
    /\ managed' = Effect(task[t].stage, task[t].ref)
    /\ task' = [task EXCEPT ![t].result = "acknowledged"]
    /\ UNCHANGED <<disk, mode, wire, config>>

(* Requests that may take effect after the daemon stopped waiting. *)
Sent(calls) ==
    {<<task[t].stage, task[t].ref>> : t \in {c \in calls : /\ task[c].stage \in {"registration", "detachment"}
                                                         /\ task[c].result = "running"}}

(* The request failed, timed out or was cancelled; it may still take       *)
(* effect, and need not.                                                   *)
Timeout(t) ==
    /\ mode # "down"
    /\ task[t].stage # "none" /\ task[t].result = "running"
    /\ task' = [task EXCEPT ![t].result = "failed"]
    /\ wire' = wire \union Sent({t})
    /\ UNCHANGED <<disk, mode, managed, config>>

LateEffect(request) ==
    /\ request \in wire
    /\ managed' = Effect(request[1], request[2])
    /\ wire' = wire \ {request}
    /\ UNCHANGED <<disk, mode, task, config>>

-----------------------------------------------------------------------------
(* completeNativeWork, after an acknowledgement. *)

Acknowledged(t, stages) ==
    /\ mode = "up"
    /\ task[t].stage \in stages
    /\ task[t].result = "acknowledged"

(* Mutation of Enrollable: a fence that appeared while the owner was being *)
(* identified is not seen.                                                 *)
EnrollableThroughFence(s, t) ==
    /\ s.inner[Operation(t)] = "absent"
    /\ OwnerAdmissible(s, task[t].owner)
    /\ AttachmentAdmissible(s, task[t].owner, task[t].instance)

(* The checks of prepareNativeRegistration on the ledgers. *)
Enrollable(s, t) ==
    /\ ~Fenced(s)
    /\ s.inner[Operation(t)] = "absent"
    /\ OwnerAdmissible(s, task[t].owner)
    /\ AttachmentAdmissible(s, task[t].owner, task[t].instance)

(* The row, its inner registration record and its credit. *)
Enrol(s, t, ref) ==
    [s EXCEPT !.owners[ref.owner] = [s.owners[ref.owner] EXCEPT ![ref.epoch] = "open"],
              !.rows[ref] = [NoRow EXCEPT !.phase = "pending_registration", !.registration = Operation(t)],
              !.inner[Operation(t)] = "started",
              !.credits = s.credits \union {RegistrationCredit(Operation(t))}]

(* completeNativeWork admits a selected announcement only in the context   *)
(* it was selected in.                                                     *)
SelectionHolds(t) ==
    /\ task[t].registry = disk.registry
    /\ ~Fenced(disk)
    /\ disk.control[t] = "absent"

(* The snapshot prepareNativeRegistration starts from. *)
Admitted(t) == IF t \in Attaches /\ ~task[t].admitted THEN Admit(disk, t) ELSE disk

(* A task whose owner was identified may be enrolled. *)
Prepared(t) ==
    /\ t \in Attaches => task[t].admitted \/ SelectionHolds(t)
    /\ Enrollable(Admitted(t), t)

(* prepareNativeRegistration of a call that nobody announced, or of the    *)
(* announcement itself: its row is committed, then its request is queued,  *)
(* if the supervisor has room.                                             *)
PrepareRegistration(t) ==
    /\ Acknowledged(t, {"identify", "announcement_identify"})
    /\ task[t].ref = None
    /\ Prepared(t)
    /\ LET base == Admitted(t)
       IN  \E generation \in NextGeneration(base, task[t].owner, task[t].instance) :
           LET ref == [owner |-> task[t].owner, epoch |-> base.epoch, instance |-> task[t].instance,
                       generation |-> generation]
               enrolled == Enrol(base, t, ref)
           IN  \/ /\ Commit(enrolled)
                  /\ task' = [task EXCEPT ![t].stage = IF t \in Attaches THEN "announcement" ELSE "registration",
                                          ![t].ref = ref, ![t].admitted = TRUE, ![t].result = "running"]
               \/ /\ base # disk
                  /\ FailedCommit(disk, base)
                  /\ End(t)
               \/ /\ t \in Attaches
                  /\ FailedCommitOf(base, enrolled, t, ref)
                  /\ End(t)
               \/ /\ t \notin Attaches
                  /\ FailedCommit(base, enrolled)
                  /\ End(t)
               \/ CommitUncertain(enrolled, t, ref) /\ End(t)
    /\ UNCHANGED <<managed, wire, config>>

(* A selected announcement is admitted, then prepareNativeRegistration     *)
(* refuses it.                                                             *)
RefuseSelected(a) ==
    /\ Acknowledged(a, {"announcement_identify"})
    /\ ~task[a].admitted /\ SelectionHolds(a)
    /\ ~Enrollable(Admitted(a), a)
    /\ \/ CommitUncertain(Admitted(a), a, None)
       \/ FailedCommit(disk, Admitted(a))
    /\ End(a)
    /\ UNCHANGED <<managed, wire, config>>

(* The callback of an announcement takes over the row of its parent. *)
CallbackPrepared(t) ==
    /\ ~Fenced(disk)
    /\ disk.rows[task[t].ref].phase = "pending_registration"
    /\ task[t].ref.epoch = disk.epoch
    /\ disk.inner[Operation(t)] = "started"

PrepareCallback(t) ==
    /\ Acknowledged(t, {"identify"})
    /\ task[t].ref # None
    /\ CallbackPrepared(t)
    /\ \/ /\ task' = [task EXCEPT ![t].stage = "registration", ![t].admitted = TRUE,
                                  ![t].result = "running"]
          /\ UNCHANGED <<disk, mode>>
       \/ CommitUncertain(disk, t, task[t].ref) /\ End(t)
    /\ UNCHANGED <<managed, wire, config>>

(* completeRegistration, the inner record and its credit. *)
CompleteRegistration(s, ref, op) ==
    [s EXCEPT !.rows[ref] = [s.rows[ref] EXCEPT !.phase = "attached", !.from = "attachment"],
              !.inner[op] = "completed", !.credits = s.credits \ {RegistrationCredit(op)}]

(* finishNativeTask, stage registration. *)
FinishRegistration(t) ==
    /\ Acknowledged(t, {"registration"})
    /\ LET ref == task[t].ref
           next == CompleteRegistration(disk, ref, Operation(t))
       IN  /\ disk.rows[ref].phase = "pending_registration"
           /\ Commit(next) \/ FailedCommitOf(disk, next, t, ref)
    /\ End(t)
    /\ UNCHANGED <<managed, wire, config>>

(* finishNativeTask, stage announcement: the inner registration must have  *)
(* been committed.                                                         *)
FinishAnnouncement(a) ==
    /\ Acknowledged(a, {"announcement"})
    /\ disk.rows[task[a].ref].phase = "attached"
    /\ \/ Commit(CompleteControl(disk, a))
       \/ FailedCommitOf(disk, CompleteControl(disk, a), a, task[a].ref)
    /\ End(a)
    /\ UNCHANGED <<managed, wire, config>>

(* finishNativeTask, stage detachment, of integrations.detach. *)
FinishDetach(d) ==
    /\ Acknowledged(d, {"detachment"})
    /\ d \in Detaches
    /\ LET ref == task[d].ref
           detached == CompleteDetach(disk, ref, d)
       IN  /\ DetachCompletable(disk, ref, d)
           /\ \/ Commit(CompleteControl(detached, d))
              \/ FailedCommitOf(disk, detached, d, ref)
              \/ FailedCommitOf(detached, CompleteControl(detached, d), d, ref)
    /\ End(d)
    /\ UNCHANGED <<managed, wire, config>>

-----------------------------------------------------------------------------
(* integrations.remove. *)

(* scheduleNextNativeRemoval takes the first such row; here it takes any. *)
NextDetaches(s) ==
    {ref \in Rows(s) : ref.epoch = s.epoch /\ DetachAdmissible(s.rows[ref])
                      /\ ~NativeRequestsPending(s, ref)}

(* The end of finishNativeRemoval. *)
Removed(s, m) ==
    [CompleteControl(s, m) EXCEPT !.removals[s.epoch] = [s.removals[s.epoch] EXCEPT !.phase = "retired"],
                                  !.installed = FALSE, !.registry = <<"removed", s.epoch>>,
                                  !.epoch = s.epoch + 1]

(* Nothing left to detach: retire the owners and, if that was all, take    *)
(* the adapter out of the configuration.  setup.remove may fail with the   *)
(* configuration untouched or half way.  ref is the row detached last.     *)
FinishRemoval(s, m, ref) ==
    LET retired == RetireOwners(s)
        ready == RemovalReady(retired) /\ ~RequestsPending(retired)
        pending == CompleteControl(retired, m)
    IN  /\ End(m)
        /\ \/ /\ ~ready
              /\ Commit(pending) \/ FailedCommitOf(s, pending, m, ref)
              /\ UNCHANGED config
           \/ /\ ready
              /\ FailedCommitOf(s, retired, m, ref)
              /\ UNCHANGED config
           \/ /\ ready
              /\ CommitUncertain(retired, m, ref)
              /\ config' \in {config, <<"pending_remove", s.epoch>>}
           \/ /\ ready
              /\ s.epoch < MaxEpoch
              /\ Commit(Removed(retired, m)) \/ FailedCommitOf(retired, Removed(retired, m), m, ref)
              /\ config' = <<"removed", s.epoch>>

(* The detach of a removal is named by the removal that holds the fence. *)
Child(s) == ChildOf(s.removals[s.epoch].operation)

Begun(s, next) == BeginDetach(s, next, Child(s))

(* scheduleNextNativeRemoval, then finishNativeRemoval. *)
AdvanceRemoval(s, m, ref) ==
    \/ \E next \in NextDetaches(s) :
          /\ Commit(Begun(s, next))
          /\ task' = [task EXCEPT ![m] = Detaching(next)]
          /\ UNCHANGED config
    \/ NextDetaches(s) = {} /\ FinishRemoval(s, m, ref)

(* startNativeRemoval: the operation, then the fence, are committed before *)
(* anything is detached; the first detach may find no room at the          *)
(* supervisor.                                                             *)
StartRemoval(m) ==
    /\ Startable(m)
    /\ config = disk.registry
    /\ LET admitted == Admit(disk, m)
           fenced == BeginApplicationRemoval(admitted, m)
       IN  \/ /\ FailedCommit(disk, admitted) \/ FailedCommit(admitted, fenced)
              /\ UNCHANGED <<task, config>>
           \/ /\ RequestsPending(disk)
              /\ \/ Commit(CompleteControl(fenced, m))
                 \/ FailedCommit(fenced, CompleteControl(fenced, m))
              /\ UNCHANGED <<task, config>>
           \/ /\ ~RequestsPending(disk)
              /\ \E next \in NextDetaches(fenced) :
                     Commit(Begun(fenced, next)) \/ FailedCommit(fenced, Begun(fenced, next))
              /\ UNCHANGED <<task, config>>
           \/ /\ ~RequestsPending(disk)
              /\ AdvanceRemoval(fenced, m, None)
    /\ UNCHANGED <<managed, wire>>

(* finishNativeTask, stage detachment, of a removal; advanceNativeRemoval. *)
FinishRemovalDetach(m) ==
    /\ Acknowledged(m, {"detachment"})
    /\ m \in Removals
    /\ LET ref == task[m].ref
           op == Child(disk)
           detached == CompleteDetach(disk, ref, op)
       IN  /\ DetachCompletable(disk, ref, op)
           /\ \/ /\ \/ FailedCommitOf(disk, detached, m, ref)
                    \/ \E next \in NextDetaches(detached) :
                          \/ CommitUncertain(Begun(detached, next), m, next)
                          \/ FailedCommitOf(detached, Begun(detached, next), m, next)
                 /\ End(m)
                 /\ UNCHANGED config
              \/ AdvanceRemoval(detached, m, ref)
    /\ UNCHANGED <<managed, wire>>

-----------------------------------------------------------------------------
(* An acknowledged task that the actor will not carry on with. *)
Refused(t) ==
    LET stage == task[t].stage
        ref == task[t].ref
    IN  CASE stage \in {"identify", "announcement_identify"} ->
                 IF ref # None THEN ~CallbackPrepared(t)
                 ELSE IF t \in Attaches /\ ~task[t].admitted THEN ~SelectionHolds(t)
                 ELSE ~Enrollable(disk, t)
          [] stage = "registration" -> disk.rows[ref].phase # "pending_registration"
          [] stage = "announcement" -> disk.rows[ref].phase # "attached"
          [] stage = "detachment" ->
                 ~DetachCompletable(disk, ref, IF t \in Removals THEN Child(disk) ELSE t)

(* completeNativeWork of a task that failed, that the actor refuses, or    *)
(* that completes after custody was poisoned.                              *)
FailTask(t) ==
    /\ mode # "down"
    /\ task[t].stage # "none"
    /\ \/ task[t].result = "failed"
       \/ task[t].result = "acknowledged" /\ (mode = "poisoned" \/ Refused(t))
    /\ IF task[t].admitted
       THEN /\ disk' \in {disk, Uncertain(disk, t, task[t].ref)}
            /\ mode' = IF mode = "up" /\ disk' = Uncertain(disk, t, task[t].ref) THEN "up" ELSE "poisoned"
       ELSE UNCHANGED <<disk, mode>>
    /\ End(t)
    /\ UNCHANGED <<managed, wire, config>>

(* adapter.acquire by a managed thread (protectedNativeRef): a binding and *)
(* a lease that carry its reference.                                       *)
Acquire(ref) ==
    /\ mode = "up"
    /\ disk.installed
    /\ ref \in Rows(disk) /\ ref.epoch = disk.epoch
    /\ disk.owners[ref.owner][ref.epoch] = "open" /\ ~Fenced(disk)
    /\ disk.rows[ref].phase = "attached"
    /\ ref \notin disk.leases
    /\ LET next == [disk EXCEPT !.bindings = disk.bindings \union {ref}, !.leases = disk.leases \union {ref}]
       IN  Commit(next) \/ FailedCommit(disk, next)
    /\ UNCHANGED <<task, managed, wire, config>>

(* adapter.report: the work of the lease is settled. *)
Report(ref) ==
    /\ mode = "up"
    /\ disk.installed
    /\ ref \in disk.leases
    /\ LET next == [disk EXCEPT !.leases = disk.leases \ {ref}]
       IN  Commit(next) \/ FailedCommit(disk, next)
    /\ UNCHANGED <<task, managed, wire, config>>

(* adapter.releaseBinding, refused while work is in flight. *)
ReleaseBinding(ref) ==
    /\ mode = "up"
    /\ disk.installed
    /\ ref \in disk.bindings \ disk.leases
    /\ LET next == [disk EXCEPT !.bindings = disk.bindings \ {ref}]
       IN  Commit(next) \/ FailedCommit(disk, next)
    /\ UNCHANGED <<task, managed, wire, config>>

(* The daemon dies; requests it had sent may still take effect. *)
Crash ==
    /\ mode # "down"
    /\ mode' = "down"
    /\ task' = [t \in Calls |-> NoTask]
    /\ wire' = wire \union Sent(Calls)
    /\ UNCHANGED <<disk, managed, config>>

(* recoverAfterRestart of the ledgers. *)
Recovered(s) ==
    LET uncertain(state) == IF state = "started" THEN "indeterminate" ELSE state
    IN  [s EXCEPT !.rows = [ref \in Refs |-> MarkUnresolved(s.rows[ref])],
                  !.control = [op \in Controls |-> uncertain(s.control[op])],
                  !.inner = [op \in Enrolments |-> uncertain(s.inner[op])]]

(* bootstrap and recoverIntegrations: without a removal fence the registry *)
(* must be the one committed last, or the daemon does not start.           *)
Restart ==
    /\ mode = "down"
    /\ Restorable(disk)
    /\ Fenced(disk) \/ config = disk.registry
    /\ mode' = "up"
    /\ disk' = Recovered(disk)
    /\ UNCHANGED <<task, managed, wire, config>>

Next ==
    \/ Install
    \/ \E r \in Registers, o \in Owners, i \in DOMAIN Names : StartRegister(r, o, i)
    \/ \E a \in Attaches : StartCallback(a)
    \/ \E a \in Attaches, o \in Owners, i \in DOMAIN Names, selected \in BOOLEAN :
           StartAttach(a, o, i, selected)
    \/ \E d \in Detaches, ref \in Refs : StartDetach(d, ref)
    \/ \E m \in Removals : StartRemoval(m)
    \/ \E t \in Calls : Acknowledge(t)
    \/ \E t \in Calls : Timeout(t)
    \/ \E request \in wire : LateEffect(request)
    \/ \E t \in Calls : PrepareRegistration(t)
    \/ \E a \in Attaches : RefuseSelected(a)
    \/ \E t \in Calls : PrepareCallback(t)
    \/ \E t \in Calls : FinishRegistration(t)
    \/ \E t \in Calls : FinishAnnouncement(t)
    \/ \E t \in Calls : FinishDetach(t)
    \/ \E t \in Calls : FinishRemovalDetach(t)
    \/ \E t \in Calls : FailTask(t)
    \/ \E ref \in Refs : Acquire(ref)
    \/ \E ref \in Refs : Report(ref)
    \/ \E ref \in Refs : ReleaseBinding(ref)
    \/ Crash
    \/ Restart

Spec == Init /\ [][Next]_vars

-----------------------------------------------------------------------------
(* The variables have their types (native_owner.Snapshot, NativeTask). *)
TypeOK ==
    /\ disk \in Snapshots /\ mode \in {"up", "poisoned", "down"} /\ task \in [Calls -> Tasks]
    /\ managed \subseteq Refs /\ wire \subseteq {"registration", "detachment"} \X Refs
    /\ config \in Registries

(* Whatever was lost, late or repeated, a thread its owner still manages   *)
(* has a committed row that was not retired, and the configuration of its  *)
(* epoch has not been touched: finishNativeRemoval restores it only after  *)
(* every detach of the epoch was acknowledged.                             *)
ManagedHasCustody ==
    \A ref \in managed \union {request[2] : request \in {w \in wire : w[1] = "registration"}} :
        /\ disk.rows[ref].phase \notin {"absent", "retired"}
        /\ config \notin {<<"pending_remove", ref.epoch>>, <<"removed", ref.epoch>>}

(* The ledger never calls a thread attached that its owner has let go, or  *)
(* never took: a lost or late detach leaves its row uncertain, for every   *)
(* later operation and across restarts.  Rows, records and tasks keep      *)
(* their shape (TypeOK).                                                   *)
AttachedIsManaged ==
    /\ TypeOK
    /\ \A ref \in Rows(disk) : disk.rows[ref].phase = "attached" => ref \in managed

(* Every snapshot a handler commits, or may have committed when it failed, *)
(* passes validatePersistedAdmission: the daemon can start from it.        *)
CommittedSnapshotRestorable == Restorable(disk)

(* Uncertain native work keeps its attachment: no detach, of whichever     *)
(* operation, is under way or done while a lease refers to the row.        *)
WorkKeepsAttachment ==
    \A ref \in disk.leases :
        \/ disk.rows[ref].phase = "attached"
        \/ disk.rows[ref].phase = "unresolved" /\ disk.rows[ref].from = "attachment"

(* Once the fence of a removal is committed no owner, attachment or lease  *)
(* enters its epoch, not even for a call that was identified before it.    *)
FencedEpochAdmitsNothing ==
    [][\A e \in Epochs : disk.removals[e].phase # "none" =>
           /\ \A o \in Owners : disk.owners[o][e] = "absent" => disk'.owners[o][e] = "absent"
           /\ \A ref \in Refs : ref.epoch = e =>
                  /\ disk.rows[ref].phase = "absent" => disk'.rows[ref].phase = "absent"
                  /\ ref \in disk'.leases => ref \in disk.leases]_vars

(* Rows are tombstones: one is never forgotten or given to another         *)
(* operation, and a retired one never changes again (markUnresolved and    *)
(* recoverAfterRestart pass it over).                                      *)
RowsAreNeverRecycled ==
    [][\A ref \in Rows(disk) :
           /\ disk'.rows[ref].registration = disk.rows[ref].registration
           /\ disk'.rows[ref].phase # "absent"
           /\ disk.rows[ref].phase = "retired" => disk'.rows[ref] = disk.rows[ref]]_vars

(* A thread is taken under management only for an adapter that is          *)
(* installed: a registration that races a removal is refused.              *)
AttachedOnlyWhileInstalled ==
    \A ref \in Rows(disk) :
        disk.rows[ref].phase \in {"pending_registration", "attached"} => disk.installed

=============================================================================
