------------------------------- MODULE Bridge -------------------------------
(***************************************************************************)
(* The browser extension's service (extensions/shared/service.mjs and      *)
(* background.mjs) and the daemon's handler of its requests (handleBrowser *)
(* in engine.zig).                                                         *)
(*                                                                         *)
(* The service runs one operation at a time from a queue.  The browser may *)
(* end the worker at any await, which leaves extension storage as the last *)
(* write left it; the next start of the worker reconciles.  A step runs up *)
(* to and including one write to storage, or to one message to the native  *)
(* host.  Every send opens a native host of its own, every host its own    *)
(* connection, and the daemon serves several at once: a posted request may *)
(* be applied after its sender has given up or was ended, and after        *)
(* requests of the same source that were posted later.                     *)
(*                                                                         *)
(* Grant capture is left out: every production adapter has it blocked, so  *)
(* capture returns at once.  A context stands for one adapter and its one  *)
(* cookie store.                                                           *)
(***************************************************************************)
EXTENDS Naturals

CONSTANTS
    Contexts,   \* provider contexts
    Sources,    \* source ids the service may draw
    Ids,        \* request ids; one may be drawn again once it is settled
    None,
    MaxFaults   \* bound: ended workers, unanswered requests, spent budgets

Methods == {"connect", "reconcile", "disconnect"}

States == {"pending_connection", "connected", "completion_unknown", "pending_disconnect"}

Requests == [method : Methods, id : Ids]

ASSUME BridgeAssumption ==
    /\ MaxFaults \in Nat /\ Ids # {}
    /\ None \notin Sources \union States \union Requests \union {"permissions", "sources"}

VARIABLES
    meta,      \* storage: the source registered for a context
    state,     \* storage: the state shown for a source
    request,   \* storage: the request of a source that is not settled
    allowed,   \* contexts whose cookie and host permissions are granted
    revoked,   \* contexts whose permission removal is still to be handled
    queued,    \* startup passes waiting: "permissions", "sources"
    pass,      \* the startup pass that is running, or None
    todo,      \* contexts that pass has yet to visit
    task,      \* the operation in progress
    late,      \* requests on their way that nobody waits for, by source and method
    daemon,    \* the daemon's record of a source
    faults,    \* faults so far
    (* History, for the properties only. *)
    unknown,   \* requests posted and not settled
    overtaken  \* sources that were answered ahead of an earlier, opposite request

queue == <<revoked, queued, pass, todo>>

wire == <<late, overtaken>>

vars == <<meta, state, request, allowed, queue, task, wire, daemon, faults, unknown>>

Registered(s) == \E c \in Contexts : meta[c] = s

Listed == {c \in Contexts : meta[c] # None}

NoTask == [kind |-> "none", at |-> "none"]

(* An operation at the step it waits at; method is what it sends. *)
Task(kind, c, at, method) ==
    [kind |-> kind, context |-> c, source |-> meta'[c], at |-> at, method |-> method]

(* A random id is some id nobody has; which one makes no difference. *)
RandomId(unused) == CHOOSE id \in unused : TRUE

Idle == task = NoTask /\ pass = None

At(step) == task.at = step

Goto(step) == task' = [task EXCEPT !.at = step]

Done == task' = NoTask

-----------------------------------------------------------------------------
(* Writes to storage. *)

(* setState: states of sources no longer registered are dropped. *)
SetState(s, value) ==
    state' = [t \in Sources |-> IF t = s THEN value
                                ELSE IF Registered(t) THEN state[t] ELSE None]

(* The request map as send writes it, with the entry of s replaced. *)
SetRequest(s, value) ==
    request' = [t \in Sources |-> IF t = s THEN value
                                  ELSE IF Registered(t) THEN request[t] ELSE None]

-----------------------------------------------------------------------------
(* The operations of the service. *)

NewSources ==
    {s \in Sources : /\ ~Registered(s) /\ state[s] = None /\ request[s] = None
                     /\ daemon[s] = "absent" /\ \A m \in Methods : late[s][m] = 0}

(* performCommand, connect: a new source is registered before anything is  *)
(* sent.                                                                   *)
ConnectNew(c) ==
    /\ Idle /\ c \in allowed /\ meta[c] = None
    /\ NewSources # {}
    /\ meta' = [meta EXCEPT ![c] = RandomId(NewSources)]
    /\ task' = Task("connect", c, "register", "connect")
    /\ UNCHANGED <<state, request, allowed, queue, wire, daemon, faults, unknown>>

RegisterState ==
    /\ At("register")
    /\ SetState(task.source, "pending_connection")
    /\ Goto("send")
    /\ UNCHANGED <<meta, request, allowed, queue, wire, daemon, faults, unknown>>

ConnectAgain(c) ==
    /\ Idle /\ c \in allowed /\ meta[c] # None
    /\ UNCHANGED meta
    /\ task' = Task("connect", c, "send", "connect")
    /\ UNCHANGED <<state, request, allowed, queue, wire, daemon, faults, unknown>>

(* performCommand, reconcile, and cookieScopeChanged for a removed cookie. *)
Reconcile(kind, c) ==
    /\ Idle /\ c \in allowed /\ meta[c] # None
    /\ state[meta[c]] # "pending_disconnect"
    /\ UNCHANGED meta
    /\ task' = Task(kind, c, "send", "reconcile")
    /\ UNCHANGED <<state, request, allowed, queue, wire, daemon, faults, unknown>>

(* disconnectSource, up to its first write: the intent to disconnect. *)
StartDisconnect(kind, c) ==
    /\ SetState(meta[c], "pending_disconnect")
    /\ UNCHANGED meta
    /\ task' = Task(kind, c, "send", "disconnect")

(* performCommand, disconnect. *)
Disconnect(c) ==
    /\ Idle /\ meta[c] # None
    /\ StartDisconnect("disconnect", c)
    /\ UNCHANGED <<request, allowed, queue, wire, daemon, faults, unknown>>

(* removePermissions, for one context. *)
HandleRevoked(c) ==
    /\ Idle /\ c \in revoked
    /\ revoked' = revoked \ {c}
    /\ IF meta[c] = None THEN UNCHANGED <<meta, state, task>> ELSE StartDisconnect("revoke", c)
    /\ UNCHANGED <<request, allowed, queued, pass, todo, wire, daemon, faults, unknown>>

-----------------------------------------------------------------------------
(* reconcilePermissions and reconcileSources, which background.mjs queues  *)
(* one after the other.                                                    *)

StartPass(p) ==
    /\ Idle /\ p \in queued
    /\ pass' = p /\ todo' = Listed /\ queued' = queued \ {p}
    /\ UNCHANGED <<meta, state, request, allowed, revoked, task, wire, daemon, faults, unknown>>

EndPass ==
    /\ task = NoTask /\ pass # None /\ todo = {}
    /\ pass' = None
    /\ queued' = IF pass = "permissions" THEN queued \union {"sources"} ELSE queued
    /\ UNCHANGED <<meta, state, request, allowed, revoked, todo, task, wire, daemon, faults, unknown>>

(* Mutation of NeedsDisconnect: startup looks at permissions only. *)
NeedsDisconnectRevokedOnly(c) == c \notin allowed

NeedsDisconnect(c) == state[meta[c]] = "pending_disconnect" \/ c \notin allowed

NeedsReconcile(c) ==
    /\ state[meta[c]] \notin {"pending_disconnect", "completion_unknown", "pending_connection"}
    /\ c \in allowed

VisitPermissions(c) ==
    /\ task = NoTask /\ pass = "permissions" /\ c \in todo
    /\ todo' = todo \ {c}
    /\ IF NeedsDisconnect(c) THEN StartDisconnect("retry", c) ELSE UNCHANGED <<meta, state, task>>
    /\ UNCHANGED <<request, allowed, revoked, queued, pass, wire, daemon, faults, unknown>>

VisitSources(c) ==
    /\ task = NoTask /\ pass = "sources" /\ c \in todo
    /\ todo' = todo \ {c}
    /\ UNCHANGED meta
    /\ task' = IF NeedsReconcile(c) THEN Task("refresh", c, "send", "reconcile") ELSE NoTask
    /\ UNCHANGED <<state, request, allowed, revoked, queued, pass, wire, daemon, faults, unknown>>

(* The startup budget is spent: the pass visits nothing more. *)
SpendBudget ==
    /\ task = NoTask /\ todo # {} /\ faults < MaxFaults
    /\ todo' = {} /\ faults' = faults + 1
    /\ UNCHANGED <<meta, state, request, allowed, revoked, queued, pass, task, wire, daemon, unknown>>

-----------------------------------------------------------------------------
(* send. *)

Pending == request[task.source]

Stored(methods) == Pending \in [method : methods, id : Ids]

(* Mutation of Throw: a disconnect that failed still removes the source. *)
ThrowRemoving ==
    IF task.kind \in {"connect", "reconcile", "refresh"} THEN Goto("unknown") ELSE Goto("remove")

(* The error path of the operation in progress: reconcileSource records    *)
(* that the outcome is unknown, the others end.                            *)
Throw ==
    IF task.kind \in {"connect", "reconcile", "refresh"} THEN Goto("unknown") ELSE Done

(* A disconnect first settles the connect it finds; any other request that *)
(* is not settled refuses a different one.                                 *)
SendUncertain ==
    /\ At("send") /\ Stored(Methods \ {task.method})
    /\ IF Stored({"connect"}) /\ task.method = "disconnect"
       THEN task' = [task EXCEPT !.method = "connect"]
       ELSE Throw
    /\ UNCHANGED <<meta, state, request, allowed, queue, wire, daemon, faults, unknown>>

UnusedIds == {id \in Ids : \A r \in unknown[task.source] : r.id # id}

(* Mutation of RequestId: a retry draws a new id. *)
RequestIdAnew == RandomId(UnusedIds)

(* A retry keeps the id of the stored request. *)
RequestId == IF Pending # None THEN Pending.id ELSE RandomId(UnusedIds)

(* The request is stored before it is posted. *)
SendStored ==
    /\ At("send") /\ Pending \in {None} \union [method : {task.method}, id : Ids]
    /\ SetRequest(task.source, [method |-> task.method, id |-> RequestId])
    /\ Goto("post")
    /\ UNCHANGED <<meta, state, allowed, queue, wire, daemon, faults, unknown>>

(* A startup pass runs out of time before or after the request is stored. *)
SendOverBudget ==
    /\ task.kind \in {"retry", "refresh"} /\ task.at \in {"send", "post"}
    /\ faults < MaxFaults /\ faults' = faults + 1
    /\ Throw
    /\ UNCHANGED <<meta, state, request, allowed, queue, wire, daemon, unknown>>

Post ==
    /\ At("post")
    /\ unknown' = [unknown EXCEPT ![task.source] = @ \union {Pending}]
    /\ Goto("await")
    /\ UNCHANGED <<meta, state, request, allowed, queue, wire, daemon, faults>>

(* handleBrowser does not tell a request it has seen from a new one. *)
Accepts(s, method) == method = "connect" \/ daemon[s] # "absent"

Handled(s, method) ==
    [daemon EXCEPT ![s] = CASE method = "connect" -> "connected"
                            [] method = "disconnect" -> "disconnected"
                            [] method = "reconcile" -> @]

(* An earlier request to the opposite effect is still on its way. *)
Overtakes ==
    \E m \in Methods : late[task.source][m] > 0 /\ {m, task.method} = {"connect", "disconnect"}

(* The request that is waited for is handled and answered. *)
HandleBrowser ==
    /\ At("await")
    /\ IF Accepts(task.source, task.method)
       THEN /\ daemon' = Handled(task.source, task.method)
            /\ overtaken' = IF Overtakes THEN overtaken \union {task.source} ELSE overtaken
            /\ Goto("settle")
       ELSE /\ UNCHANGED <<daemon, overtaken>>
            /\ Throw
    /\ UNCHANGED <<meta, state, request, allowed, queue, late, faults, unknown>>

(* A request is handled when the port it would be answered on is closed. *)
HandleLate(s, method) ==
    /\ late[s][method] > 0
    /\ late' = [late EXCEPT ![s][method] = @ - 1]
    /\ daemon' = IF Accepts(s, method) THEN Handled(s, method) ELSE daemon
    /\ UNCHANGED <<meta, state, request, allowed, queue, task, faults, unknown, overtaken>>

(* It is lost, or the daemon cannot commit it. *)
Lose(s, method) ==
    /\ late[s][method] > 0
    /\ late' = [late EXCEPT ![s][method] = @ - 1]
    /\ UNCHANGED <<meta, state, request, allowed, queue, task, daemon, faults, unknown, overtaken>>

(* What becomes of a request when its sender stops waiting.  A reconcile   *)
(* changes nothing at the daemon, so nothing is left of it.                *)
Abandoned ==
    IF At("await") /\ task.method # "reconcile"
    THEN [late EXCEPT ![task.source][task.method] = @ + 1] ELSE late

(* The port closes, the timer fires or an error is answered. *)
GiveUp ==
    /\ At("await") /\ faults < MaxFaults
    /\ faults' = faults + 1 /\ late' = Abandoned /\ Throw
    /\ UNCHANGED <<meta, state, request, allowed, queue, daemon, unknown, overtaken>>

Disconnecting == task.kind \in {"disconnect", "revoke", "retry"}

(* The accepted request leaves storage.  A disconnect that only settled a  *)
(* connect goes on to its own request.                                     *)
Settle ==
    /\ At("settle")
    /\ SetRequest(task.source, None)
    /\ unknown' = [unknown EXCEPT ![task.source] = @ \ {Pending}]
    /\ task' = CASE task.kind = "cookie" -> NoTask
                 [] Disconnecting /\ task.method = "connect" ->
                        [task EXCEPT !.method = "disconnect", !.at = "send"]
                 [] Disconnecting /\ task.method = "disconnect" -> [task EXCEPT !.at = "remove"]
                 [] task.kind \in {"connect", "reconcile", "refresh"} ->
                        [task EXCEPT !.at = "connected"]
    /\ UNCHANGED <<meta, state, allowed, queue, wire, daemon, faults>>

-----------------------------------------------------------------------------
(* How the operations end. *)

(* reconcileSource. *)
MarkConnected ==
    /\ At("connected")
    /\ SetState(task.source, "connected")
    /\ Done
    /\ UNCHANGED <<meta, request, allowed, queue, wire, daemon, faults, unknown>>

MarkUnknown ==
    /\ At("unknown")
    /\ SetState(task.source, "completion_unknown")
    /\ Done
    /\ UNCHANGED <<meta, request, allowed, queue, wire, daemon, faults, unknown>>

(* disconnectSource. *)
RemoveSource ==
    /\ At("remove")
    /\ meta' = [meta EXCEPT ![task.context] = None]
    /\ Goto("forget")
    /\ UNCHANGED <<state, request, allowed, queue, wire, daemon, faults, unknown>>

ForgetState ==
    /\ At("forget")
    /\ state' = [state EXCEPT ![task.source] = None]
    /\ IF task.kind = "disconnect" THEN Goto("permission") ELSE Done
    /\ UNCHANGED <<meta, request, allowed, queue, wire, daemon, faults, unknown>>

(* A disconnect command gives the host permission back, and the cookie     *)
(* permission with the last source.                                        *)
RemovePermission ==
    /\ At("permission")
    /\ allowed' = IF Listed = {} THEN {} ELSE allowed \ {task.context}
    /\ revoked' = revoked \union (allowed \ allowed')
    /\ Done
    /\ UNCHANGED <<meta, state, request, queued, pass, todo, wire, daemon, faults, unknown>>

-----------------------------------------------------------------------------
(* The browser and the owner. *)

(* permissions.onAdded queues both passes. *)
Allow(c) ==
    /\ c \notin allowed
    /\ allowed' = allowed \union {c} /\ queued' = queued \union {"permissions"}
    /\ UNCHANGED <<meta, state, request, revoked, pass, todo, task, wire, daemon, faults, unknown>>

Revoke(c) ==
    /\ c \in allowed
    /\ allowed' = allowed \ {c} /\ revoked' = revoked \union {c}
    /\ UNCHANGED <<meta, state, request, queued, pass, todo, task, wire, daemon, faults, unknown>>

(* An idle worker ends and a later event starts it again. *)
Rest ==
    /\ Idle /\ queued = {} /\ revoked = {}
    /\ queued' = {"permissions"}
    /\ UNCHANGED <<meta, state, request, allowed, revoked, pass, todo, task, wire, daemon, faults, unknown>>

(* The worker is ended in the middle of its work and started again. *)
Kill ==
    /\ ~Idle \/ revoked # {}
    /\ faults < MaxFaults /\ faults' = faults + 1
    /\ task' = NoTask /\ todo' = {} /\ pass' = None /\ revoked' = {}
    /\ queued' = {"permissions"} /\ late' = Abandoned
    /\ UNCHANGED <<meta, state, request, allowed, daemon, unknown, overtaken>>

(* source.disconnect at the daemon's own control interface. *)
OwnerDisconnect(s) ==
    /\ daemon[s] = "connected"
    /\ daemon' = [daemon EXCEPT ![s] = "withdrawn"]
    /\ UNCHANGED <<meta, state, request, allowed, queue, task, wire, faults, unknown>>

Init ==
    /\ meta = [c \in Contexts |-> None]
    /\ state = [s \in Sources |-> None] /\ request = [s \in Sources |-> None]
    /\ allowed = {} /\ revoked = {} /\ queued = {"permissions"}
    /\ pass = None /\ todo = {} /\ task = NoTask
    /\ late = [s \in Sources |-> [m \in Methods |-> 0]] /\ daemon = [s \in Sources |-> "absent"]
    /\ faults = 0 /\ unknown = [s \in Sources |-> {}] /\ overtaken = {}

Command(c) ==
    \/ ConnectNew(c) \/ ConnectAgain(c) \/ Disconnect(c)
    \/ Reconcile("reconcile", c) \/ Reconcile("cookie", c)

(* What the worker does next in the operation or the pass it is in. *)
Work ==
    \/ RegisterState \/ SendUncertain \/ SendStored \/ SendOverBudget \/ Post \/ GiveUp
    \/ Settle \/ MarkConnected \/ MarkUnknown \/ RemoveSource \/ ForgetState \/ RemovePermission
    \/ EndPass \/ SpendBudget
    \/ \E c \in Contexts : VisitPermissions(c) \/ VisitSources(c)

Next ==
    \/ \E c \in Contexts : Command(c) \/ HandleRevoked(c) \/ Allow(c) \/ Revoke(c)
    \/ \E s \in Sources : OwnerDisconnect(s) \/ \E m \in Methods : HandleLate(s, m) \/ Lose(s, m)
    \/ \E p \in {"permissions", "sources"} : StartPass(p)
    \/ Work \/ HandleBrowser \/ Rest \/ Kill

(* The worker goes on while it has work and the daemon answers; what is    *)
(* queued gets its turn, since the queue is first come, first served; an   *)
(* idle worker is ended and started again sooner or later.                 *)
Fairness ==
    /\ WF_vars(Work) /\ WF_vars(HandleBrowser) /\ SF_vars(Rest)
    /\ \A p \in {"permissions", "sources"} : SF_vars(StartPass(p))
    /\ \A c \in Contexts : SF_vars(HandleRevoked(c))

Spec == Init /\ [][Next]_vars /\ Fairness

-----------------------------------------------------------------------------
(* The extension and the daemon agree as far as the extension claims.  The *)
(* daemon keeps no authority for a source the extension no longer lists    *)
(* and so could never disconnect, and a source shown as connected was not  *)
(* disconnected by the extension, wherever the worker was ended, whatever  *)
(* answer was lost, and however often and late a request is applied, as    *)
(* long as the extension is not answered while an earlier request of the   *)
(* source to the opposite effect is still on its way.  handleBrowser has   *)
(* no defence against applying that one last, and then neither half holds. *)
NeitherForgetsInOrder ==
    \A s \in Sources \ overtaken :
        /\ daemon[s] = "connected" => Registered(s)
        /\ Registered(s) /\ state[s] = "connected" => daemon[s] \in {"connected", "withdrawn"}

(* Work whose outcome is unknown stays known: the one request of a source  *)
(* that was posted and not settled is in storage with its id, so a retry   *)
(* after a lost answer or an ended worker is the same request.             *)
UnknownWorkIsStored ==
    \A s \in Sources : unknown[s] \subseteq {request[s]}

(* Retrying cannot complete the disconnect: a reconcile is not settled, or *)
(* the daemon never heard of the source and never will.                    *)
Unserviceable(s) ==
    \/ request[s] \in [method : {"reconcile"}, id : Ids]
    \/ daemon[s] = "absent" /\ request[s] \notin [method : {"connect"}, id : Ids]

(* A recorded intent to disconnect is carried out by some later start of   *)
(* the worker, as background.mjs promises, unless the user connects again  *)
(* first or the source is in one of the two situations named above.        *)
PendingDisconnectEnds ==
    \A c \in Contexts :
        (meta[c] # None /\ state[meta[c]] = "pending_disconnect" /\ ~Unserviceable(meta[c]))
            ~> (meta[c] = None \/ state[meta[c]] # "pending_disconnect")
=============================================================================
