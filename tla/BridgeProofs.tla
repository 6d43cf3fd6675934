---------------------------- MODULE BridgeProofs ----------------------------
(***************************************************************************)
(* Proofs about the browser bridge, for any number of contexts, sources    *)
(* and faults.                                                             *)
(***************************************************************************)
EXTENDS Bridge, TLAPS

Tasks ==
    [kind : {"connect", "reconcile", "cookie", "disconnect", "revoke", "retry", "refresh"},
     context : Contexts, source : Sources,
     at : {"register", "send", "post", "await", "settle", "connected", "unknown", "remove",
           "forget", "permission"},
     method : Methods]

TypeOK ==
    /\ meta \in [Contexts -> Sources \union {None}]
    /\ state \in [Sources -> States \union {None}]
    /\ request \in [Sources -> Requests \union {None}]
    /\ late \in [Sources -> [Methods -> Nat]]
    /\ daemon \in [Sources -> {"absent", "connected", "disconnected", "withdrawn"}]
    /\ unknown \in [Sources -> SUBSET Requests]
    /\ task = NoTask \/ task \in Tasks

Method(s) == request[s].method

(* A source is registered for one context; a pass has only listed contexts *)
(* left to visit, and not the one its operation is about.                  *)
ListOK ==
    /\ \A c, d \in Contexts : meta[c] # None /\ meta[c] = meta[d] => c = d
    /\ todo \subseteq Listed
    /\ pass = None => todo = {}
    /\ task # NoTask => task.context \notin todo

(* A request of this method is on its way and nobody waits for it. *)
Way(s, method) == late[s][method] > 0

(* What storage says of a source, in whatever order requests are applied. *)
SourceOK(s) ==
    /\ ~Registered(s) => request[s] = None /\ unknown[s] = {}
    /\ unknown[s] \subseteq {request[s]}
    /\ request[s] # None /\ Method(s) = "disconnect" =>
          state[s] \in {"pending_disconnect", "completion_unknown"}

(* What it says given what the daemon knows of the source or may yet be    *)
(* told, when no answer came ahead of an earlier, opposite request.        *)
OrderOK(s) ==
    /\ ~Registered(s) => ~Way(s, "connect") /\ daemon[s] # "connected"
    /\ Registered(s) /\ (daemon[s] = "disconnected" \/ Way(s, "disconnect")) =>
          IF request[s] = None THEN state[s] = "pending_disconnect"
          ELSE Method(s) \in {"connect", "disconnect"}
    /\ Registered(s) /\ state[s] = "connected" =>
          daemon[s] \in {"connected", "withdrawn"} /\ ~Way(s, "disconnect")

(* Where the operation in progress is, and what it left in storage. *)
TaskOK ==
    LET s == task.source IN
    task # NoTask =>
        /\ CASE task.kind = "connect" -> task.method = "connect"
             [] Disconnecting -> task.method \in {"connect", "disconnect"}
             [] OTHER -> task.method = "reconcile"
        /\ IF At("forget") \/ At("permission")
           THEN Disconnecting /\ ~Registered(s)
           ELSE meta[task.context] = s
        /\ Disconnecting /\ ~At("forget") /\ ~At("permission") => state[s] = "pending_disconnect"
        /\ At("register") =>
              /\ task.kind = "connect" /\ request[s] = None /\ daemon[s] = "absent"
              /\ \A m \in Methods : late[s][m] = 0
        /\ At("send") /\ task.method = "reconcile" => state[s] # "pending_disconnect"
        /\ At("post") \/ At("await") \/ At("settle") =>
              request[s] # None /\ Method(s) = task.method
        /\ At("connected") => ~Disconnecting /\ request[s] = None
        /\ At("unknown") => ~Disconnecting
        /\ At("remove") => Disconnecting /\ request[s] = None

(* What it may conclude from the answers it got: a disconnect that was     *)
(* answered leaves no connect behind it, and the other way round.          *)
AnswerOK ==
    LET s == task.source IN
    task # NoTask /\ s \notin overtaken =>
        /\ At("settle") \/ At("connected") \/ At("remove") =>
              IF task.method = "disconnect"
              THEN daemon[s] = "disconnected" /\ ~Way(s, "connect")
              ELSE daemon[s] \in {"connected", "withdrawn"} /\ ~Way(s, "disconnect")
        /\ At("unknown") /\ request[s] = None => daemon[s] # "disconnected" /\ ~Way(s, "disconnect")
        /\ At("remove") => task.method = "disconnect"

(* The inductive invariant. *)
IInv ==
    /\ TypeOK /\ ListOK /\ TaskOK /\ AnswerOK
    /\ \A s \in Sources : SourceOK(s)
    /\ \A s \in Sources \ overtaken : OrderOK(s)

-----------------------------------------------------------------------------
(* A step of an operation leaves it an operation, or ends it. *)
LEMMA GotoMoves ==
    ASSUME task \in Tasks, NEW step \in {"settle", "unknown", "forget"}, Goto(step)
    PROVE  /\ task' \in Tasks
           /\ task' = [kind |-> task.kind, context |-> task.context, source |-> task.source,
                       at |-> step, method |-> task.method]
  BY Zenon DEF Goto, Tasks

LEMMA ThrowMoves ==
    ASSUME task \in Tasks, Throw
    PROVE  \/ task' = NoTask
           \/ /\ task.kind \in {"connect", "reconcile", "refresh"} /\ task' \in Tasks
              /\ task' = [kind |-> task.kind, context |-> task.context, source |-> task.source,
                          at |-> "unknown", method |-> task.method]
  BY GotoMoves, Zenon DEF Throw, Done

(* A step within an operation leaves the list alone. *)
LEMMA ListKeeps ==
    ASSUME ListOK, task # NoTask, UNCHANGED <<meta, todo, pass>>,
           task' = NoTask \/ task'.context = task.context
    PROVE  ListOK'
  BY Zenon DEF ListOK, Listed

(* What an operation changes has its type. *)
LEMMA TypeKeeps ==
    ASSUME TypeOK, UNCHANGED <<meta, state, request, unknown>>, task' = NoTask \/ task' \in Tasks,
           late' \in [Sources -> [Methods -> Nat]],
           daemon' \in [Sources -> {"absent", "connected", "disconnected", "withdrawn"}]
    PROVE  TypeOK'
  BY Zenon DEF TypeOK

(* The parts of the invariant, and the vocabulary of the operations.       *)
USE BridgeAssumption DEF IInv, TypeOK, ListOK, SourceOK, OrderOK, TaskOK, AnswerOK, Way, Registered,
    Listed, Method, Methods, States, Requests, Tasks, NoTask, queue, wire, At, Goto, Done, Disconnecting

(* Initially nothing is registered, stored or known. *)
LEMMA InitKeeps == Init => IInv
  BY DEF Init

(* A command, a revoked permission or a startup visit starts an operation  *)
(* about a source that is listed; the intent to disconnect is recorded     *)
(* with it, and a new source is one nobody has heard of.                   *)
LEMMA StartsKeep ==
    ASSUME IInv, NEW c \in Contexts,
           \/ Command(c) \/ HandleRevoked(c) \/ VisitPermissions(c) \/ VisitSources(c)
    PROVE  IInv'
<1> USE DEF Idle, Task, StartDisconnect, SetState
<1>1. CASE ConnectNew(c)
  <2>1. RandomId(NewSources) \in NewSources
    BY <1>1, Zenon DEF ConnectNew, RandomId
  <2>2. PICK t \in NewSources : t = RandomId(NewSources)
    BY <2>1, Zenon
  <2>3. /\ t \in Sources /\ ~Registered(t)
        /\ state[t] = None /\ request[t] = None /\ daemon[t] = "absent"
        /\ \A m \in Methods : late[t][m] = 0
    BY <2>2, Zenon DEF NewSources
  <2>4. /\ task = NoTask /\ todo = {} /\ meta[c] = None /\ meta' = [meta EXCEPT ![c] = t]
        /\ UNCHANGED <<state, request, todo, pass, wire, daemon, unknown>>
    BY <1>1, <2>2, Zenon DEF ConnectNew
  <2>5. task' = [kind |-> "connect", context |-> c, source |-> t,
                 at |-> "register", method |-> "connect"]
    BY <1>1, <2>4, Zenon DEF ConnectNew
  <2>6. TypeOK' /\ ListOK' /\ TaskOK' /\ AnswerOK'
    BY <2>3, <2>4, <2>5
  <2>7. ASSUME NEW s \in Sources PROVE SourceOK(s)'
    BY <2>3, <2>4
  <2>8. ASSUME NEW s \in Sources \ overtaken' PROVE OrderOK(s)'
    BY <2>3, <2>4
  <2>. QED BY ONLY <2>6, <2>7, <2>8, Zenon DEF IInv
<1>2. CASE ConnectAgain(c)
  BY <1>2 DEF ConnectAgain
<1>3. ASSUME NEW kind \in {"reconcile", "cookie"}, Reconcile(kind, c) PROVE IInv'
  BY <1>3 DEF Reconcile
<1>4. CASE Disconnect(c)
  BY <1>4 DEF Disconnect
<1>5. CASE HandleRevoked(c)
  <2>1. TypeOK'
    BY <1>5 DEF HandleRevoked
  <2>2. ListOK'
    BY <1>5 DEF HandleRevoked
  <2>3. TaskOK'
    BY <1>5 DEF HandleRevoked
  <2>4. AnswerOK'
    BY <1>5 DEF HandleRevoked
  <2>5. ASSUME NEW t \in Sources PROVE SourceOK(t)'
    BY <1>5 DEF HandleRevoked
  <2>6. ASSUME NEW t \in Sources \ overtaken' PROVE OrderOK(t)'
    BY <1>5 DEF HandleRevoked
  <2>. QED BY ONLY <2>1, <2>2, <2>3, <2>4, <2>5, <2>6, Zenon DEF IInv
<1>6. CASE VisitPermissions(c)
  <2>1. TypeOK'
    BY <1>6 DEF VisitPermissions
  <2>2. ListOK'
    BY <1>6 DEF VisitPermissions
  <2>3. TaskOK'
    BY <1>6 DEF VisitPermissions
  <2>4. AnswerOK'
    BY <1>6 DEF VisitPermissions
  <2>5. ASSUME NEW t \in Sources PROVE SourceOK(t)'
    BY <1>6 DEF VisitPermissions
  <2>6. ASSUME NEW t \in Sources \ overtaken' PROVE OrderOK(t)'
    BY <1>6 DEF VisitPermissions
  <2>. QED BY ONLY <2>1, <2>2, <2>3, <2>4, <2>5, <2>6, Zenon DEF IInv
<1>7. CASE VisitSources(c)
  BY <1>7 DEF VisitSources, NeedsReconcile
<1>. QED BY <1>1, <1>2, <1>3, <1>4, <1>5, <1>6, <1>7, Zenon DEF Command

(* send stores a request before it posts it, and stores the same request   *)
(* again when it retries.                                                  *)
LEMMA SendKeeps ==
    ASSUME IInv, SendUncertain \/ SendStored \/ SendOverBudget \/ Post \/ GiveUp
    PROVE  IInv'
<1> USE DEF Pending, Throw
<1>1. CASE SendUncertain
  <2>7. task \in Tasks /\ task # NoTask /\ At("send")
    BY <1>1 DEF SendUncertain
  <2>8. \/ task' = NoTask
        \/ /\ task.kind \in {"connect", "reconcile", "refresh"} /\ task' \in Tasks
           /\ task' = [kind |-> task.kind, context |-> task.context, source |-> task.source,
                       at |-> "unknown", method |-> task.method]
        \/ /\ task.method = "disconnect" /\ task' \in Tasks
           /\ task' = [kind |-> task.kind, context |-> task.context, source |-> task.source,
                       at |-> "send", method |-> "connect"]
    <3>1. CASE task.method = "disconnect" /\ task' = [task EXCEPT !.method = "connect"]
      BY ONLY <2>7, <3>1, Zenon DEF Tasks, Methods, At
    <3>2. CASE Throw
      BY ONLY <2>7, <3>2, ThrowMoves, Zenon
    <3>. QED BY ONLY <1>1, <3>1, <3>2, Zenon DEF SendUncertain
  <2>9. UNCHANGED <<meta, state, request, todo, pass, late, daemon, unknown, overtaken>>
        /\ request[task.source] # None
    BY <1>1, <2>7, Zenon DEF SendUncertain, Stored
  <2>1. TypeOK'
    BY ONLY IInv, <2>8, <2>9, TypeKeeps, Zenon DEF IInv, TypeOK
  <2>2. ListOK'
    BY ONLY IInv, <2>7, <2>8, <2>9, ListKeeps DEF IInv
  <2>3. TaskOK'
    BY <2>7, <2>8, <2>9
  <2>4. AnswerOK'
    BY <2>7, <2>8, <2>9
  <2>5. ASSUME NEW t \in Sources PROVE SourceOK(t)'
    BY <2>7, <2>8, <2>9
  <2>6. ASSUME NEW t \in Sources \ overtaken' PROVE OrderOK(t)'
    BY <2>7, <2>8, <2>9
  <2>. QED BY ONLY <2>1, <2>2, <2>3, <2>4, <2>5, <2>6, Zenon DEF IInv
<1>2. CASE SendStored
  <2>1. task # NoTask /\ task \in Tasks
    BY <1>2 DEF SendStored
  <2>2. RequestId \in Ids /\ (Pending # None => RequestId = Pending.id)
    <3>1. CASE Pending # None
      BY <2>1, <3>1 DEF RequestId
    <3>2. CASE Pending = None
      <4>1. unknown[task.source] = {}
        BY <2>1, <3>2
      <4>2. UnusedIds = Ids
        BY <4>1, Zenon DEF UnusedIds
      <4>. QED BY <3>2, <4>2, Zenon DEF RequestId, RandomId
    <3>. QED BY <3>1, <3>2, Zenon
  <2>3. IInv'
    <3>1. TypeOK'
      BY <1>2, <2>1, <2>2, Zenon DEF SendStored, SetRequest
    <3>2. ListOK'
      BY <1>2, <2>1, <2>2 DEF SendStored, SetRequest
    <3>3. TaskOK'
      BY <1>2, <2>1, <2>2 DEF SendStored, SetRequest
    <3>4. AnswerOK'
      BY <1>2, <2>1, <2>2, Zenon DEF SendStored, SetRequest
    <3>5. ASSUME NEW t \in Sources PROVE SourceOK(t)'
      BY <1>2, <2>1, <2>2 DEF SendStored, SetRequest
    <3>6. ASSUME NEW t \in Sources \ overtaken' PROVE OrderOK(t)'
      BY <1>2, <2>1, <2>2 DEF SendStored, SetRequest
    <3>. QED BY ONLY <3>1, <3>2, <3>3, <3>4, <3>5, <3>6, Zenon DEF IInv
  <2>. QED BY <2>3, Zenon
<1>3. CASE SendOverBudget
  <2>7. /\ task \in Tasks /\ task # NoTask
        /\ task.kind \in {"retry", "refresh"} /\ task.at \in {"send", "post"}
    BY <1>3 DEF SendOverBudget
  <2>8. \/ task' = NoTask
        \/ /\ task.kind \in {"connect", "reconcile", "refresh"} /\ task' \in Tasks
           /\ task' = [kind |-> task.kind, context |-> task.context, source |-> task.source,
                       at |-> "unknown", method |-> task.method]
    BY ONLY <1>3, <2>7, ThrowMoves, Zenon DEF SendOverBudget
  <2>9. UNCHANGED <<meta, state, request, todo, pass, late, daemon, unknown, overtaken>>
    BY <1>3, Zenon DEF SendOverBudget
  <2>1. TypeOK'
    BY ONLY IInv, <2>8, <2>9, TypeKeeps, Zenon DEF IInv, TypeOK
  <2>2. ListOK'
    BY ONLY IInv, <2>7, <2>8, <2>9, ListKeeps DEF IInv
  <2>3. TaskOK'
    BY <2>7, <2>8, <2>9
  <2>10. task.source \in Sources /\ Registered(task.source)
    BY <2>7, Zenon
  <2>4. AnswerOK'
    <3>1. CASE task' = NoTask
      BY ONLY <3>1, Zenon DEF AnswerOK
    <3>2. CASE task' # NoTask /\ request[task.source] = None /\ task.source \notin overtaken
      <4>1. daemon[task.source] = "disconnected" \/ Way(task.source, "disconnect") =>
              state[task.source] = "pending_disconnect"
        BY ONLY IInv, <2>10, <3>2, Zenon DEF IInv, OrderOK
      <4>2. At("send") /\ state[task.source] # "pending_disconnect"
        BY <2>7, <2>8, <3>2, Zenon
      <4>. QED BY <2>7, <2>8, <2>9, <3>2, <4>1, <4>2
    <3>. QED BY <2>7, <2>8, <2>9, <3>1, <3>2
  <2>5. ASSUME NEW t \in Sources PROVE SourceOK(t)'
    BY <2>7, <2>8, <2>9
  <2>6. ASSUME NEW t \in Sources \ overtaken' PROVE OrderOK(t)'
    BY <2>7, <2>8, <2>9
  <2>. QED BY ONLY <2>1, <2>2, <2>3, <2>4, <2>5, <2>6, Zenon DEF IInv
<1>4. CASE Post
  BY <1>4 DEF Post
<1>5. CASE GiveUp
  <2>7. task \in Tasks /\ task # NoTask /\ At("await")
    BY <1>5 DEF GiveUp
  <2>8. \/ task' = NoTask
        \/ /\ task.kind \in {"connect", "reconcile", "refresh"} /\ task' \in Tasks
           /\ task' = [kind |-> task.kind, context |-> task.context, source |-> task.source,
                       at |-> "unknown", method |-> task.method]
    BY ONLY <1>5, <2>7, ThrowMoves, Zenon DEF GiveUp
  <2>9. /\ UNCHANGED <<meta, state, request, todo, pass, daemon, unknown, overtaken>>
        /\ late' = IF task.method # "reconcile"
                   THEN [late EXCEPT ![task.source][task.method] = @ + 1] ELSE late
    BY <1>5, Zenon DEF GiveUp, Abandoned
  <2>10. late' \in [Sources -> [Methods -> Nat]]
    BY <2>7, <2>9
  <2>1. TypeOK'
    BY ONLY IInv, <2>8, <2>9, <2>10, TypeKeeps, Zenon DEF IInv, TypeOK
  <2>2. ListOK'
    BY ONLY IInv, <2>7, <2>8, <2>9, ListKeeps DEF IInv
  <2>3. TaskOK'
    BY <2>7, <2>8, <2>9
  <2>4. AnswerOK'
    BY <2>7, <2>8, <2>9
  <2>5. ASSUME NEW t \in Sources PROVE SourceOK(t)'
    BY <2>7, <2>8, <2>9
  <2>6. ASSUME NEW t \in Sources \ overtaken' PROVE OrderOK(t)'
    BY <2>7, <2>8, <2>9
  <2>. QED BY ONLY <2>1, <2>2, <2>3, <2>4, <2>5, <2>6, Zenon DEF IInv
<1> HIDE DEF IInv
<1>. QED BY <1>1, <1>2, <1>3, <1>4, <1>5, Zenon

(* The daemon handles requests, answered or late, and its owner withdraws  *)
(* sources.                                                                *)
LEMMA DaemonKeeps ==
    ASSUME IInv,
           \/ HandleBrowser
           \/ \E s \in Sources : OwnerDisconnect(s) \/ \E m \in Methods : HandleLate(s, m) \/ Lose(s, m)
    PROVE  IInv'
<1>1. CASE HandleBrowser
  <2> DEFINE u == task.source
  <2>1. task \in Tasks /\ task # NoTask /\ At("await") /\ u \in Sources
    BY <1>1 DEF HandleBrowser
  <2>2. UNCHANGED <<meta, state, request, todo, pass, late, unknown>>
    BY <1>1, Zenon DEF HandleBrowser
  <2>3. CASE ~Accepts(u, task.method)
    <3>7. \/ task' = NoTask
          \/ /\ task.kind \in {"connect", "reconcile", "refresh"} /\ task' \in Tasks
             /\ task' = [kind |-> task.kind, context |-> task.context, source |-> task.source,
                         at |-> "unknown", method |-> task.method]
      BY ONLY <1>1, <2>1, <2>3, ThrowMoves, Zenon DEF HandleBrowser
    <3>8. UNCHANGED <<daemon, overtaken>>
      BY <1>1, <2>3, Zenon DEF HandleBrowser
    <3>1. TypeOK'
      BY ONLY IInv, <2>2, <3>7, <3>8, TypeKeeps, Zenon DEF IInv, TypeOK
    <3>2. ListOK'
      BY ONLY IInv, <2>1, <2>2, <3>7, ListKeeps DEF IInv
    <3>3. TaskOK'
      BY <2>1, <2>2, <3>7, <3>8
    <3>4. AnswerOK'
      BY <2>1, <2>2, <3>7, <3>8
    <3>5. ASSUME NEW t \in Sources PROVE SourceOK(t)'
      BY <2>1, <2>2, <3>7, <3>8
    <3>6. ASSUME NEW t \in Sources \ overtaken' PROVE OrderOK(t)'
      BY <2>1, <2>2, <3>7, <3>8
    <3>. QED BY ONLY <3>1, <3>2, <3>3, <3>4, <3>5, <3>6, Zenon DEF IInv
  <2>4. CASE Accepts(u, task.method)
    <3>7. /\ task' \in Tasks
          /\ task' = [kind |-> task.kind, context |-> task.context, source |-> task.source,
                      at |-> "settle", method |-> task.method]
      BY ONLY <1>1, <2>1, <2>4, GotoMoves, Zenon DEF HandleBrowser
    <3>8. /\ daemon' = Handled(u, task.method)
          /\ overtaken' = IF Overtakes THEN overtaken \union {u} ELSE overtaken
      BY ONLY <1>1, <2>4, Zenon DEF HandleBrowser
    <3>9. u \notin overtaken' =>
            /\ u \notin overtaken
            /\ task.method = "disconnect" => ~Way(u, "connect")
            /\ task.method = "connect" => ~Way(u, "disconnect")
      BY <3>8 DEF Overtakes
    <3>10. daemon' \in [Sources -> {"absent", "connected", "disconnected", "withdrawn"}]
      BY <2>1, <3>8, Zenon DEF Handled
    <3>1. TypeOK'
      BY ONLY IInv, <2>2, <3>7, <3>10, TypeKeeps, Zenon DEF IInv, TypeOK
    <3>2. ListOK'
      BY ONLY IInv, <2>1, <2>2, <3>7, ListKeeps, Zenon DEF IInv
    <3>3. TaskOK'
      BY <2>1, <2>2, <2>4, <3>7, <3>8, <3>9, Zenon DEF Accepts, Handled
    <3>4. AnswerOK'
      BY <2>1, <2>2, <2>4, <3>7, <3>8, <3>9 DEF Accepts, Handled
    <3>5. ASSUME NEW t \in Sources PROVE SourceOK(t)'
      BY <2>1, <2>2, <2>4, <3>7, <3>8, <3>9 DEF Accepts, Handled
    <3>6. ASSUME NEW t \in Sources \ overtaken' PROVE OrderOK(t)'
      BY <2>1, <2>2, <2>4, <3>7, <3>8, <3>9 DEF Accepts, Handled
    <3>. QED BY ONLY <3>1, <3>2, <3>3, <3>4, <3>5, <3>6, Zenon DEF IInv
  <2> HIDE DEF IInv
  <2>. QED BY <2>3, <2>4, Zenon
<1>2. ASSUME NEW s \in Sources, NEW m \in Methods, HandleLate(s, m) PROVE IInv'
  <2> USE <1>2 DEF HandleLate, Accepts, Handled
  <2>1. TypeOK'
    OBVIOUS
  <2>2. ListOK'
    OBVIOUS
  <2>3. TaskOK'
    OBVIOUS
  <2>4. AnswerOK'
    OBVIOUS
  <2>5. ASSUME NEW t \in Sources PROVE SourceOK(t)'
    OBVIOUS
  <2>6. ASSUME NEW t \in Sources \ overtaken' PROVE OrderOK(t)'
    OBVIOUS
  <2>. QED BY ONLY <2>1, <2>2, <2>3, <2>4, <2>5, <2>6, Zenon DEF IInv
<1>3. ASSUME NEW s \in Sources, NEW m \in Methods, Lose(s, m) PROVE IInv'
  <2>1. TypeOK'
    BY <1>3 DEF Lose
  <2>2. ListOK'
    BY <1>3 DEF Lose
  <2>3. TaskOK'
    BY <1>3 DEF Lose
  <2>4. AnswerOK'
    BY <1>3 DEF Lose
  <2>5. ASSUME NEW t \in Sources PROVE SourceOK(t)'
    BY <1>3 DEF Lose
  <2>6. ASSUME NEW t \in Sources \ overtaken' PROVE OrderOK(t)'
    BY <1>3 DEF Lose
  <2>. QED BY ONLY <2>1, <2>2, <2>3, <2>4, <2>5, <2>6, Zenon DEF IInv
<1>4. ASSUME NEW s \in Sources, OwnerDisconnect(s) PROVE IInv'
  BY <1>4 DEF OwnerDisconnect
<1> HIDE DEF IInv
<1>. QED BY <1>1, <1>2, <1>3, <1>4, Zenon

(* An accepted request leaves storage; what follows depends on the         *)
(* operation it was sent for.                                              *)
LEMMA SettleKeeps == IInv /\ Settle => IInv'
<1> SUFFICES ASSUME IInv, Settle PROVE IInv'
  BY Zenon
<1> USE DEF Settle, SetRequest, Pending
<1>1. task # NoTask /\ task \in Tasks
  OBVIOUS
<1>0. /\ meta' \in [Contexts -> Sources \union {None}]
      /\ state' \in [Sources -> States \union {None}]
      /\ request' \in [Sources -> Requests \union {None}]
      /\ late' \in [Sources -> [Methods -> Nat]]
      /\ daemon' \in [Sources -> {"absent", "connected", "disconnected", "withdrawn"}]
      /\ unknown' \in [Sources -> SUBSET Requests]
  BY <1>1, Zenon
<1>2. CASE task.kind = "cookie"
  <2>1. task' = NoTask
    BY <1>2, Zenon
  <2>. QED BY <1>1, <1>2, <2>1
<1>3. CASE Disconnecting /\ task.method = "connect"
  <2>7. task' = [task EXCEPT !.method = "disconnect", !.at = "send"]
    BY <1>3, Zenon
  <2>8. task' = [kind |-> task.kind, context |-> task.context, source |-> task.source,
                 at |-> "send", method |-> "disconnect"]
    BY ONLY <1>1, <2>7, Zenon DEF Tasks
  <2>9. task' \in Tasks
    BY ONLY <1>1, <2>8, Zenon DEF Tasks, Methods
  <2>1. TypeOK'
    BY ONLY <1>0, <2>9, Zenon DEF TypeOK
  <2>2. ListOK'
    BY <1>1, <1>3, <2>8
  <2>3. TaskOK'
    BY <1>1, <1>3, <2>8
  <2>4. AnswerOK'
    BY <1>1, <1>3, <2>8
  <2>5. ASSUME NEW t \in Sources PROVE SourceOK(t)'
    BY <1>1, <1>3, <2>8
  <2>6. ASSUME NEW t \in Sources \ overtaken' PROVE OrderOK(t)'
    BY <1>1, <1>3, <2>8
  <2>. QED BY ONLY <2>1, <2>2, <2>3, <2>4, <2>5, <2>6, Zenon DEF IInv
<1>4. CASE Disconnecting /\ task.method = "disconnect"
  <2>7. task' = [task EXCEPT !.at = "remove"]
    BY <1>4, Zenon
  <2>8. task' = [kind |-> task.kind, context |-> task.context, source |-> task.source,
                 at |-> "remove", method |-> "disconnect"]
    BY ONLY <1>1, <1>4, <2>7, Zenon DEF Tasks
  <2>9. task' \in Tasks
    BY ONLY <1>1, <2>8, Zenon DEF Tasks, Methods
  <2>1. TypeOK'
    BY ONLY <1>0, <2>9, Zenon DEF TypeOK
  <2>2. ListOK'
    BY <1>1, <1>4, <2>8
  <2>3. TaskOK'
    BY <1>1, <1>4, <2>8
  <2>4. AnswerOK'
    BY <1>1, <1>4, <2>8
  <2>5. ASSUME NEW t \in Sources PROVE SourceOK(t)'
    BY <1>1, <1>4, <2>8
  <2>6. ASSUME NEW t \in Sources \ overtaken' PROVE OrderOK(t)'
    BY <1>1, <1>4, <2>8
  <2>. QED BY ONLY <2>1, <2>2, <2>3, <2>4, <2>5, <2>6, Zenon DEF IInv
<1>5. CASE task.kind \in {"connect", "reconcile", "refresh"}
  <2>7. task' = [task EXCEPT !.at = "connected"]
    BY <1>5, Zenon
  <2>8. task' = [kind |-> task.kind, context |-> task.context, source |-> task.source,
                 at |-> "connected", method |-> task.method]
    BY ONLY <1>1, <2>7, Zenon DEF Tasks
  <2>9. task' \in Tasks
    BY ONLY <1>1, <2>8, Zenon DEF Tasks, Methods
  <2>1. TypeOK'
    BY ONLY <1>0, <2>9, Zenon DEF TypeOK
  <2>2. ListOK'
    BY <1>1, <1>5, <2>8
  <2>3. TaskOK'
    BY <1>1, <1>5, <2>8
  <2>4. AnswerOK'
    BY <1>1, <1>5, <2>8
  <2>5. ASSUME NEW t \in Sources PROVE SourceOK(t)'
    BY <1>1, <1>5, <2>8
  <2>6. ASSUME NEW t \in Sources \ overtaken' PROVE OrderOK(t)'
    BY <1>1, <1>5, <2>8
  <2>. QED BY ONLY <2>1, <2>2, <2>3, <2>4, <2>5, <2>6, Zenon DEF IInv
<1>6. \/ task.kind \in {"cookie", "connect", "reconcile", "refresh"}
      \/ Disconnecting /\ task.method \in {"connect", "disconnect"}
  BY <1>1, Zenon
<1> HIDE DEF IInv
<1>. QED BY ONLY <1>2, <1>3, <1>4, <1>5, <1>6, Zenon

(* An operation records how it ended; a source leaves the list only after  *)
(* the daemon has disconnected it.                                         *)
LEMMA EndsKeep ==
    ASSUME IInv,
           \/ RegisterState \/ MarkConnected \/ MarkUnknown
           \/ RemoveSource \/ ForgetState \/ RemovePermission
    PROVE  IInv'
<1>1. CASE RegisterState
  BY <1>1 DEF RegisterState, SetState
<1>2. CASE MarkConnected
  BY <1>2 DEF MarkConnected, SetState
<1>3. CASE MarkUnknown
  BY <1>3 DEF MarkUnknown, SetState
<1>4. CASE RemoveSource
  <2>7. task \in Tasks /\ task # NoTask /\ At("remove")
    BY <1>4 DEF RemoveSource
  <2>8. /\ task' \in Tasks
        /\ task' = [kind |-> task.kind, context |-> task.context, source |-> task.source,
                    at |-> "forget", method |-> task.method]
    BY ONLY <1>4, <2>7, GotoMoves, Zenon DEF RemoveSource
  <2>9. /\ meta' = [meta EXCEPT ![task.context] = None]
        /\ UNCHANGED <<state, request, todo, pass, late, daemon, unknown, overtaken>>
    BY <1>4, Zenon DEF RemoveSource
  <2>10. \A t \in Sources : Registered(t)' <=> Registered(t) /\ t # task.source
    BY <2>7, <2>9
  <2>1. TypeOK'
    BY <2>7, <2>8, <2>9, <2>10, Zenon
  <2>2. ListOK'
    BY <2>7, <2>8, <2>9, <2>10
  <2>3. TaskOK'
    BY <2>7, <2>8, <2>9, <2>10, Zenon
  <2>4. AnswerOK'
    BY <2>7, <2>8, <2>9, <2>10, Zenon
  <2>5. ASSUME NEW t \in Sources PROVE SourceOK(t)'
    BY <2>7, <2>8, <2>9, <2>10
  <2>6. ASSUME NEW t \in Sources \ overtaken' PROVE OrderOK(t)'
    BY <2>7, <2>8, <2>9, <2>10
  <2>. QED BY ONLY <2>1, <2>2, <2>3, <2>4, <2>5, <2>6, Zenon DEF IInv
<1>5. CASE ForgetState
  BY <1>5 DEF ForgetState
<1>6. CASE RemovePermission
  BY <1>6 DEF RemovePermission
<1> HIDE DEF IInv
<1>. QED BY <1>1, <1>2, <1>3, <1>4, <1>5, <1>6, Zenon

(* The queue, the permissions and the end of the worker touch neither      *)
(* storage nor the daemon.                                                 *)
LEMMA QueueKeeps ==
    ASSUME IInv,
           \/ \E p \in {"permissions", "sources"} : StartPass(p)
           \/ \E c \in Contexts : Allow(c) \/ Revoke(c)
           \/ EndPass \/ SpendBudget \/ Rest \/ Kill
    PROVE  IInv'
<1>1. ASSUME NEW p \in {"permissions", "sources"}, StartPass(p) PROVE IInv'
  BY <1>1 DEF StartPass, Idle
<1>2. ASSUME NEW c \in Contexts, Allow(c) \/ Revoke(c) PROVE IInv'
  BY <1>2 DEF Allow, Revoke
<1>3. CASE EndPass
  BY <1>3 DEF EndPass
<1>4. CASE SpendBudget
  BY <1>4 DEF SpendBudget
<1>5. CASE Rest
  BY <1>5 DEF Rest, Idle
<1>6. CASE Kill
  BY <1>6 DEF Kill, Abandoned
<1> HIDE DEF IInv
<1>. QED BY <1>1, <1>2, <1>3, <1>4, <1>5, <1>6, Zenon

(* Steps that change nothing. *)
LEMMA StutterKeeps == IInv /\ UNCHANGED vars => IInv'
  BY DEF vars

HIDE BridgeAssumption DEF IInv, TypeOK, ListOK, SourceOK, OrderOK, TaskOK, AnswerOK, Way, Registered,
    Listed, Method, Methods, States, Requests, Tasks, NoTask, queue, wire, At, Goto, Done, Disconnecting

-----------------------------------------------------------------------------
(* Every step of the extension, the daemon, the browser and the owner      *)
(* keeps the invariant.                                                    *)
LEMMA NextKeeps == IInv /\ [Next]_vars => IInv'
<1> SUFFICES ASSUME IInv, [Next]_vars PROVE IInv'
  BY Zenon
<1>1. CASE \E c \in Contexts : Command(c) \/ HandleRevoked(c) \/ Allow(c) \/ Revoke(c)
  BY <1>1, StartsKeep, QueueKeeps, Zenon
<1>2. CASE \/ HandleBrowser
           \/ \E s \in Sources : OwnerDisconnect(s) \/ \E m \in Methods : HandleLate(s, m) \/ Lose(s, m)
  BY <1>2, DaemonKeeps, Zenon
<1>3. CASE \/ \E p \in {"permissions", "sources"} : StartPass(p)
           \/ Rest \/ Kill
  BY <1>3, QueueKeeps, Zenon
<1>4. CASE Work
  BY <1>4, StartsKeep, SendKeeps, SettleKeeps, EndsKeep, QueueKeeps, Zenon DEF Work
<1>5. CASE UNCHANGED vars
  BY <1>5, StutterKeeps, Zenon
<1>. QED BY <1>1, <1>2, <1>3, <1>4, <1>5, Zenon DEF Next

(* The extension and the daemon never forget each other's authority: the   *)
(* daemon's connected sources are listed, the ones shown as connected are  *)
(* not disconnected, for any number of ended workers, lost answers and     *)
(* repeated or late requests, for each source that was never answered      *)
(* ahead of an earlier, opposite request (send, handleBrowser).            *)
THEOREM BridgeNeverForgets == Spec => []NeitherForgetsInOrder
<1>1. IInv => NeitherForgetsInOrder
  BY Zenon DEF IInv, OrderOK, NeitherForgetsInOrder
<1>. QED BY <1>1, InitKeeps, NextKeeps, PTL DEF Spec

(* A request that was posted and not settled is the one in storage, so     *)
(* that every retry of it is the same request.                             *)
THEOREM BridgeStoresUnknownWork == Spec => []UnknownWorkIsStored
<1>1. IInv => UnknownWorkIsStored
  BY Zenon DEF IInv, SourceOK, UnknownWorkIsStored
<1>. QED BY <1>1, InitKeeps, NextKeeps, PTL DEF Spec
=============================================================================
