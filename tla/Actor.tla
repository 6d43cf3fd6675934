------------------------------- MODULE Actor -------------------------------
(***************************************************************************)
(* The lifecycle actor of the engine (engine.zig, actor, dispatchOwnedPeer,*)
(* startNativeInvocation, completeNativeWork) and the supervisor of native *)
(* I/O beside it (native_owner_work.zig).                                  *)
(*                                                                         *)
(* Callers block until the single actor thread has finished their          *)
(* invocation.  A call that needs native I/O becomes a task: its job runs  *)
(* on one of two worker threads, one per lane, and comes back to the actor *)
(* as a completion, which finishes the call or enqueues its next stage.    *)
(* An announcement makes the native owner call the daemon back, and        *)
(* succeeds only once that callback was answered.  The daemon may be told  *)
(* to stop at any time.                                                    *)
(***************************************************************************)
EXTENDS Naturals, Sequences, FiniteSets, Functions

CONSTANTS
    Inline,         \* calls the actor executes itself
    Discoveries,    \* integrations.discover and integrations.detach calls
    Removals,       \* integrations.remove calls
    Announcements,  \* integrations.attach calls
    Registrations,  \* adapter.owner.register calls nobody announced
    QueueCapacity,  \* length of Engine.queue
    Capacity,       \* native_owner_work.capacity
    Measurement,    \* the job of the runtime measurement
    None

VARIABLES
    call,        \* progress of each call
    queue,       \* Engine.queue
    current,     \* the call the actor dequeued and has not handled yet
    stage,       \* NativeTask.stage, "none" for a call without a task
    requested,   \* runtime_measurement_requested
    measuring,   \* runtime_measurement is set
    due,         \* maintenance_due has passed
    stopping,    \* set in the engine and the supervisor under one lock
    poisoned,    \* custody is fenced
    actor,       \* "loop" or "exited"
    waiting,     \* Supervisor.queue
    running,     \* the job of each worker
    completed,   \* Supervisor.completed, each job with its outcome
    outstanding, \* Supervisor.outstanding
    alive,       \* worker threads that have not returned
    announced,   \* announcements that reached their native owner
    registered   \* announcements whose callback the daemon acknowledged

vars == <<call, queue, current, stage, requested, measuring, due, stopping, poisoned,
          actor, waiting, running, completed, outstanding, alive, announced, registered>>

supervisor == <<waiting, running, completed, outstanding, alive, announced, registered>>

Lanes == {"announcement", "continuation"}

(* The registration the owner sends for an announcement, under the same    *)
(* operation id.                                                           *)
Callback(a) == <<a>>

Callbacks == {Callback(a) : a \in Announcements}

Natives == Discoveries \union Removals \union Announcements \union Registrations \union Callbacks

Calls == Inline \union Natives

Jobs == Natives \union {Measurement}

ASSUME ActorAssumption ==
    /\ QueueCapacity \in Nat \ {0} /\ Capacity \in Nat \ {0}
    /\ Inline \intersect Natives = {} /\ Announcements \intersect Callbacks = {}
    /\ Measurement \notin Natives
    /\ None \notin Calls \union [job : Jobs, canceled : BOOLEAN]

Pending == {"queued", "taken", "native"}

Tasks == {c \in Natives : stage[c] # "none"}

FirstStage(c) ==
    CASE c \in Registrations \union Callbacks -> "identify"
      [] c \in Announcements -> "announcement_identify"
      [] c \in Removals -> "removal"
      [] OTHER -> "detachment"

(* prepareNativeRegistration and, for a removal with another attachment to *)
(* detach, scheduleNextNativeRemoval.                                      *)
NextStage(s) ==
    CASE s = "identify" -> "registration"
      [] s = "announcement_identify" -> "announcement"
      [] s = "removal" -> "detachment"
      [] OTHER -> "none"

LaneOf(job) ==
    IF job \in Announcements /\ stage[job] = "announcement" THEN "announcement" ELSE "continuation"

-----------------------------------------------------------------------------
(* Supervisor. *)

CanEnqueue(used) == ~stopping /\ used < Capacity

(* The jobs behind index i move up by one. *)
Without(jobs, i) == [j \in 1..(Len(jobs) - 1) |-> IF j < i THEN jobs[j] ELSE jobs[j + 1]]

(* worker: the oldest job of the lane.  After a stop the job is canceled   *)
(* before any I/O.                                                         *)
Select(lane) ==
    /\ lane \in alive /\ running[lane] = None
    /\ \E i \in DOMAIN waiting :
          /\ LaneOf(waiting[i]) = lane
          /\ \A j \in 1..(i - 1) : LaneOf(waiting[j]) # lane
          /\ running' = [running EXCEPT ![lane] = [job |-> waiting[i], canceled |-> stopping]]
          /\ waiting' = Without(waiting, i)
          /\ announced' = IF lane = "announcement" /\ ~stopping
                          THEN announced \union {waiting[i]} ELSE announced
    /\ UNCHANGED <<call, queue, current, stage, requested, measuring, due, stopping, poisoned,
                   actor, completed, outstanding, alive, registered>>

(* NativeTask.run ends, at the latest at its deadline.  The owner          *)
(* acknowledges an announcement after its own registration was answered.   *)
Outcomes(entry) ==
    {ok \in BOOLEAN : ok => /\ ~entry.canceled
                            /\ LaneOf(entry.job) = "announcement"
                                  => entry.job \in registered}

Finish(lane) ==
    /\ running[lane] # None
    /\ \E ok \in Outcomes(running[lane]) :
          completed' = Append(completed, [job |-> running[lane].job, ok |-> ok])
    /\ running' = [running EXCEPT ![lane] = None]
    /\ UNCHANGED <<call, queue, current, stage, requested, measuring, due, stopping, poisoned,
                   actor, waiting, outstanding, alive, announced, registered>>

(* Mutation of Return: a worker leaves its queued jobs behind. *)
ReturnAtOnce(lane) ==
    /\ lane \in alive /\ stopping /\ running[lane] = None
    /\ alive' = alive \ {lane}
    /\ UNCHANGED <<call, queue, current, stage, requested, measuring, due, stopping, poisoned,
                   actor, waiting, running, completed, outstanding, announced, registered>>

Return(lane) ==
    /\ lane \in alive /\ stopping /\ running[lane] = None
    /\ \A i \in DOMAIN waiting : LaneOf(waiting[i]) # lane
    /\ alive' = alive \ {lane}
    /\ UNCHANGED <<call, queue, current, stage, requested, measuring, due, stopping, poisoned,
                   actor, waiting, running, completed, outstanding, announced, registered>>

-----------------------------------------------------------------------------
(* Callers. *)

(* dispatchOwnedPeer: a caller whose invocation is admitted blocks on it.  *)
(* The owner calls back once it was announced to, even if the announcing   *)
(* call has given up by then.                                              *)
Dispatch(c) ==
    /\ call[c] = "idle"
    /\ c \in Callbacks => \E a \in announced : c = Callback(a)
    /\ IF stopping \/ Len(queue) = QueueCapacity
       THEN call' = [call EXCEPT ![c] = "returned"] /\ UNCHANGED queue
       ELSE call' = [call EXCEPT ![c] = "queued"] /\ queue' = Append(queue, c)
    /\ UNCHANGED <<current, stage, requested, measuring, due, stopping, poisoned, actor, supervisor>>

(* Engine.deinit, or the cancellation of the actor's wait. *)
Stop ==
    /\ ~stopping
    /\ stopping' = TRUE
    /\ UNCHANGED <<call, queue, current, stage, requested, measuring, due, poisoned, actor, supervisor>>

MaintenanceDue ==
    /\ ~due /\ actor = "loop"
    /\ due' = TRUE
    /\ UNCHANGED <<call, queue, current, stage, requested, measuring, stopping, poisoned, actor, supervisor>>

-----------------------------------------------------------------------------
(* The actor loop: a due measurement is started first, then a completion   *)
(* is taken, then the loop ends or maintains, then a call is taken.        *)

MeasurementDue == requested /\ ~measuring /\ ~stopping /\ ~poisoned

Idle == actor = "loop" /\ current = None

(* startRuntimeMeasurement, which may also fail before it has a job. *)
StartMeasurement ==
    /\ Idle /\ MeasurementDue
    /\ requested' = FALSE
    /\ \/ /\ CanEnqueue(outstanding)
          /\ waiting' = Append(waiting, Measurement)
          /\ outstanding' = outstanding + 1
          /\ measuring' = TRUE
       \/ UNCHANGED <<waiting, outstanding, measuring>>
    /\ UNCHANGED <<call, queue, current, stage, due, stopping, poisoned, actor,
                   running, completed, alive, announced, registered>>

(* completeRuntimeMeasurement; a failed commit fences. *)
CompleteMeasurement ==
    /\ Idle /\ ~MeasurementDue
    /\ completed # <<>> /\ Head(completed).job = Measurement
    /\ completed' = Tail(completed)
    /\ outstanding' = outstanding - 1
    /\ measuring' = FALSE
    /\ poisoned' \in {poisoned, poisoned \/ (Head(completed).ok /\ ~stopping)}
    /\ UNCHANGED <<call, queue, current, stage, requested, due, stopping, actor,
                   waiting, running, alive, announced, registered>>

(* The owner learns that its callback succeeded. *)
Acknowledge(c) == registered' = registered \union {a \in Announcements : c = Callback(a)}

(* Mutation of EndTask: the slot of the task is not given back. *)
EndTaskKeepsSlot(c) ==
    /\ call' = [call EXCEPT ![c] = "returned"]
    /\ stage' = [stage EXCEPT ![c] = "none"]
    /\ UNCHANGED <<waiting, outstanding>>

(* completeNativeWork ends the task and answers its caller. *)
EndTask(c) ==
    /\ call' = [call EXCEPT ![c] = "returned"]
    /\ stage' = [stage EXCEPT ![c] = "none"]
    /\ outstanding' = outstanding - 1
    /\ UNCHANGED waiting

(* A continuation is enqueued under the slot its completion gave back. *)
ContinueTask(c) ==
    /\ CanEnqueue(outstanding - 1)
    /\ stage' = [stage EXCEPT ![c] = NextStage(stage[c])]
    /\ waiting' = Append(waiting, c)
    /\ UNCHANGED <<call, outstanding>>

(* Every task but a removal must continue after its first stage; a task    *)
(* fails when it is stopped, fenced or refused, and failing may fence.     *)
CompleteTask ==
    /\ Idle /\ ~MeasurementDue
    /\ completed # <<>> /\ Head(completed).job # Measurement
    /\ LET c == Head(completed).job
           usable == Head(completed).ok /\ ~stopping /\ ~poisoned
       IN  \/ /\ usable /\ NextStage(stage[c]) # "none"
              /\ ContinueTask(c)
              /\ UNCHANGED <<poisoned, registered>>
           \/ /\ usable /\ (NextStage(stage[c]) = "none" \/ c \in Removals)
              /\ EndTask(c) /\ Acknowledge(c)
              /\ UNCHANGED poisoned
           \/ /\ EndTask(c)
              /\ poisoned' \in {poisoned, TRUE}
              /\ UNCHANGED registered
    /\ completed' = Tail(completed)
    /\ UNCHANGED <<queue, current, requested, measuring, due, stopping, actor, running, alive, announced>>

(* pollNetwork, expireLeases and pollSources; a failure fences. *)
Maintain ==
    /\ Idle /\ ~MeasurementDue
    /\ completed = <<>> /\ ~stopping /\ due
    /\ due' = FALSE
    /\ poisoned' \in {poisoned, TRUE}
    /\ UNCHANGED <<call, queue, current, stage, requested, measuring, stopping, actor, supervisor>>

(* Mutation of Exit: the actor does not wait for the measurement. *)
ExitDuringMeasurement ==
    /\ Idle
    /\ completed = <<>> /\ queue = <<>> /\ stopping
    /\ Tasks = {}
    /\ actor' = "exited"
    /\ UNCHANGED <<call, queue, current, stage, requested, measuring, due, stopping, poisoned, supervisor>>

(* Mutation of Exit: queued calls are left behind. *)
ExitWithoutDraining ==
    /\ Idle
    /\ completed = <<>> /\ stopping
    /\ Tasks = {} /\ ~measuring
    /\ actor' = "exited"
    /\ UNCHANGED <<call, queue, current, stage, requested, measuring, due, stopping, poisoned, supervisor>>

Exit ==
    /\ Idle
    /\ completed = <<>> /\ queue = <<>> /\ stopping
    /\ Tasks = {} /\ ~measuring
    /\ actor' = "exited"
    /\ UNCHANGED <<call, queue, current, stage, requested, measuring, due, stopping, poisoned, supervisor>>

TakeCall ==
    /\ Idle /\ ~MeasurementDue
    /\ completed = <<>> /\ queue # <<>> /\ (stopping \/ ~due)
    /\ current' = Head(queue)
    /\ queue' = Tail(queue)
    /\ call' = [call EXCEPT ![current'] = "taken"]
    /\ UNCHANGED <<stage, requested, measuring, due, stopping, poisoned, actor, supervisor>>

-----------------------------------------------------------------------------
(* Handling the call that was taken. *)

(* Mutation of CallbackSlots: no slot is kept. *)
NoCallbackSlots == 0

(* Announcements whose callback holds no task yet keep a slot for it. *)
Awaiting == {a \in Announcements : /\ stage[a] \in {"announcement_identify", "announcement"}
                                   /\ stage[Callback(a)] = "none"}

CallbackSlots == Cardinality(Awaiting)

Paired(c) == \E a \in Announcements : c = Callback(a) /\ stage[a] = "announcement"

Extra(c) == IF c \in Announcements THEN 2 ELSE IF Paired(c) THEN 0 ELSE 1

HasRoom(c) ==
    /\ Cardinality(Tasks) < Capacity
    /\ Cardinality(Tasks) + CallbackSlots + Extra(c) <= Capacity

Answer(answer) ==
    /\ call' = [call EXCEPT ![current] = answer]
    /\ current' = None

(* execute, or an early refusal: the caller's deadline passed, the daemon  *)
(* stops, custody is fenced, the request is invalid or a cached result     *)
(* answers it.  An install or a verification asks for a measurement.       *)
HandleInline ==
    /\ actor = "loop" /\ current # None
    /\ \/ /\ ~stopping /\ (current \in Inline \/ ~poisoned)
          /\ Answer("returned") /\ Acknowledge(current)
          /\ requested' \in {requested, requested \/ (current \in Inline /\ ~poisoned)}
          /\ UNCHANGED poisoned
       \/ /\ Answer("returned")
          /\ poisoned' \in {poisoned, TRUE}
          /\ UNCHANGED <<requested, registered>>
    /\ UNCHANGED <<queue, stage, measuring, due, stopping, actor,
                   waiting, running, completed, outstanding, alive, announced>>

(* startNativeInvocation refuses for want of room, before it admits the    *)
(* request or after, when the supervisor has no room.                      *)
RefuseNative ==
    /\ actor = "loop" /\ current \in Natives /\ ~stopping /\ ~poisoned
    /\ ~HasRoom(current) \/ ~CanEnqueue(outstanding)
    /\ Answer("busy")
    /\ poisoned' \in {poisoned, TRUE}
    /\ UNCHANGED <<queue, stage, requested, measuring, due, stopping, actor, supervisor>>

StartNative ==
    /\ actor = "loop" /\ current \in Natives /\ ~stopping /\ ~poisoned
    /\ HasRoom(current) /\ CanEnqueue(outstanding)
    /\ call' = [call EXCEPT ![current] = "native"]
    /\ stage' = [stage EXCEPT ![current] = FirstStage(current)]
    /\ waiting' = Append(waiting, current)
    /\ outstanding' = outstanding + 1
    /\ current' = None
    /\ UNCHANGED <<queue, requested, measuring, due, stopping, poisoned, actor,
                   running, completed, alive, announced, registered>>

-----------------------------------------------------------------------------
Init ==
    /\ call = [c \in Calls |-> "idle"]
    /\ queue = <<>> /\ current = None
    /\ stage = [c \in Natives |-> "none"]
    /\ requested \in BOOLEAN /\ measuring = FALSE
    /\ due = FALSE /\ stopping = FALSE /\ poisoned = FALSE /\ actor = "loop"
    /\ waiting = <<>> /\ running = [lane \in Lanes |-> None] /\ completed = <<>>
    /\ outstanding = 0 /\ alive = Lanes /\ announced = {} /\ registered = {}

ActorStep ==
    \/ StartMeasurement \/ CompleteMeasurement \/ CompleteTask \/ Maintain \/ Exit \/ TakeCall
    \/ HandleInline \/ RefuseNative \/ StartNative

WorkerStep(lane) == Select(lane) \/ Finish(lane) \/ Return(lane)

Next ==
    \/ \E c \in Calls : Dispatch(c)
    \/ Stop \/ MaintenanceDue \/ ActorStep
    \/ \E lane \in Lanes : WorkerStep(lane)

(* The actor and the workers are threads that run whenever they can, and   *)
(* native I/O ends by its deadline.  maintenance_due is set to 100 ms from *)
(* now right before the loop looks at the queue, so maintenance does not   *)
(* keep the actor from the queue for ever.                                 *)
Fairness ==
    /\ WF_vars(ActorStep) /\ SF_vars(TakeCall)
    /\ \A lane \in Lanes : WF_vars(WorkerStep(lane))

Spec == Init /\ [][Next]_vars /\ Fairness

-----------------------------------------------------------------------------
(* Properties. *)

Stages == {"none", "identify", "registration", "announcement_identify", "announcement",
           "detachment", "removal"}

(* Every variable keeps its shape, and the supervisor's three lists hold   *)
(* at most Capacity jobs, so the ring of completions never overflows.      *)
TypeOK ==
    /\ call \in [Calls -> Pending \union {"idle", "returned", "busy"}]
    /\ queue \in Seq(Calls) /\ Len(queue) <= QueueCapacity
    /\ current \in Calls \union {None}
    /\ stage \in [Natives -> Stages]
    /\ requested \in BOOLEAN /\ measuring \in BOOLEAN /\ due \in BOOLEAN
    /\ stopping \in BOOLEAN /\ poisoned \in BOOLEAN
    /\ actor \in {"loop", "exited"}
    /\ waiting \in Seq(Jobs)
    /\ running \in [Lanes -> [job : Jobs, canceled : BOOLEAN] \union {None}]
    /\ completed \in Seq([job : Jobs, ok : BOOLEAN])
    /\ outstanding \in 0..Capacity
    /\ alive \subseteq Lanes /\ registered \subseteq announced /\ announced \subseteq Announcements

(* The jobs in the supervisor's hands. *)
Waiting == Range(waiting)

Running == {running[lane].job : lane \in {l \in Lanes : running[l] # None}}

Completed == {completed[i].job : i \in DOMAIN completed}

(* Every task has exactly one job with the supervisor and every job has    *)
(* its task: no completion is lost, no job runs twice at once, and no job  *)
(* outlives the task whose memory it points into.  The supervisor's count  *)
(* is the number of its jobs and within its capacity (TypeOK).             *)
EveryTaskOwnsOneJob ==
    /\ TypeOK
    /\ IsInjective(waiting)
    /\ \A i, j \in DOMAIN completed : completed[i].job = completed[j].job => i = j
    /\ \A l, m \in Lanes :
          running[l] # None /\ running[m] # None /\ running[l].job = running[m].job => l = m
    /\ Waiting \intersect Running = {} /\ Completed \intersect (Waiting \union Running) = {}
    /\ Waiting \union Running \union Completed =
          Tasks \union (IF measuring THEN {Measurement} ELSE {})
    /\ outstanding = Cardinality(Tasks) + (IF measuring THEN 1 ELSE 0)

(* Once the actor has returned no caller is left blocked on its stack      *)
(* reference, and the supervisor it then joins holds no job, as the        *)
(* assertion in Supervisor.deinit demands.                                 *)
ExitLeavesNothing ==
    actor = "exited" => outstanding = 0 /\ \A c \in Calls : call[c] \notin Pending

(* The callback of an announcement in progress is refused for want of room *)
(* only while a runtime measurement occupies the supervisor: the slot kept *)
(* for the callback is a slot among the tasks, not among the jobs.         *)
CallbackKeepsItsSlot ==
    [][\A a \in Announcements :
          stage[a] = "announcement" /\ call'[Callback(a)] = "busy" =>
              call[Callback(a)] = "busy" \/ measuring]_call

(* Every admitted call is finished, whatever becomes of the native I/O     *)
(* and whether or not the daemon stops meanwhile.                          *)
EveryCallFinishes == \A c \in Calls : call[c] = "queued" ~> call[c] \notin Pending

(* A daemon told to stop stops: its actor and both workers return. *)
StopTerminates == stopping ~> actor = "exited" /\ alive = {}
=============================================================================
