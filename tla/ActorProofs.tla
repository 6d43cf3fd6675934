---------------------------- MODULE ActorProofs ----------------------------
(***************************************************************************)
(* Proofs about the lifecycle actor and its supervisor, for any sets of    *)
(* calls and any capacities: lists without repetitions, the inductive      *)
(* invariant, one lemma for each group of steps that keep it, and the      *)
(* properties that follow from it.                                         *)
(***************************************************************************)
EXTENDS Actor, FiniteSetTheorems, TLAPS

-----------------------------------------------------------------------------
(* A job put at the end of a list. *)
LEMMA AppendElems ==
    ASSUME NEW S, NEW s \in Seq(S), NEW x \in S
    PROVE  /\ Append(s, x) \in Seq(S)
           /\ Range(Append(s, x)) = Range(s) \union {x}
           /\ IsInjective(s) /\ x \notin Range(s) => IsInjective(Append(s, x))
<1>1. /\ Append(s, x) \in Seq(S) /\ Len(Append(s, x)) = Len(s) + 1
      /\ \A i \in 1..Len(s) : Append(s, x)[i] = s[i]
      /\ Append(s, x)[Len(s) + 1] = x
  OBVIOUS
<1>2. Len(s) \in Nat /\ DOMAIN s = 1..Len(s) /\ DOMAIN Append(s, x) = 1..(Len(s) + 1)
  BY <1>1
<1>3. Range(Append(s, x)) = Range(s) \union {x}
  BY <1>1, <1>2 DEF Range
<1>4. IsInjective(s) /\ x \notin Range(s) => IsInjective(Append(s, x))
  BY <1>1, <1>2 DEF Range, IsInjective
<1>. QED BY <1>1, <1>3, <1>4, Zenon

(* The first element taken from a list without repetitions. *)
LEMMA TailElems ==
    ASSUME NEW S, NEW s \in Seq(S), s # <<>>, IsInjective(s)
    PROVE  /\ Tail(s) \in Seq(S) /\ Len(Tail(s)) = Len(s) - 1
           /\ Range(Tail(s)) = Range(s) \ {Head(s)} /\ Head(s) \in Range(s)
           /\ IsInjective(Tail(s))
<1>1. /\ Tail(s) \in Seq(S) /\ Len(Tail(s)) = Len(s) - 1
      /\ \A i \in 1..Len(Tail(s)) : Tail(s)[i] = s[i + 1]
  OBVIOUS
<1>2. /\ Len(s) \in Nat \ {0} /\ DOMAIN s = 1..Len(s) /\ DOMAIN Tail(s) = 1..(Len(s) - 1)
      /\ Head(s) = s[1]
  BY <1>1
<1>3. Head(s) \in Range(s)
  BY <1>2 DEF Range
<1>4. Range(Tail(s)) \subseteq Range(s) \ {Head(s)}
  BY <1>1, <1>2 DEF Range, IsInjective
<1>5. ASSUME NEW y \in Range(s) \ {Head(s)} PROVE y \in Range(Tail(s))
  <2>1. PICK i \in 1..Len(s) : y = s[i] /\ i # 1
    BY <1>2, <1>5, Zenon DEF Range
  <2>2. i - 1 \in DOMAIN Tail(s) /\ Tail(s)[i - 1] = y
    BY <1>1, <1>2, <2>1
  <2>. QED BY <2>2, Zenon DEF Range
<1>6. IsInjective(Tail(s))
  BY <1>1, <1>2 DEF IsInjective
<1>. QED BY <1>1, <1>3, <1>4, <1>5, <1>6, Zenon

(* An element taken out of the middle of a list without repetitions. *)
LEMMA WithoutElems ==
    ASSUME NEW S, NEW s \in Seq(S), NEW k \in DOMAIN s, IsInjective(s)
    PROVE  /\ Without(s, k) \in Seq(S)
           /\ Range(Without(s, k)) = Range(s) \ {s[k]}
           /\ IsInjective(Without(s, k))
<1> DEFINE n == Len(s)
           r == Without(s, k)
<1>1. n \in Nat /\ k \in 1..n /\ DOMAIN s = 1..n
  OBVIOUS
<1>4. /\ r \in Seq(S) /\ Len(r) = n - 1 /\ DOMAIN r = 1..(n - 1)
      /\ \A i \in 1..(n - 1) : r[i] = IF i < k THEN s[i] ELSE s[i + 1]
  <2>1. r \in [1..(n - 1) -> S]
    BY <1>1 DEF Without
  <2>. QED BY <1>1, <2>1 DEF Without
<1> HIDE DEF r
<1>5. IsInjective(r)
  <2> SUFFICES ASSUME NEW i \in 1..(n - 1), NEW j \in 1..(n - 1), r[i] = r[j] PROVE i = j
    BY <1>4, Zenon DEF IsInjective
  <2> DEFINE f(m) == IF m < k THEN m ELSE m + 1
  <2>1. r[i] = s[f(i)] /\ r[j] = s[f(j)] /\ f(i) \in 1..n /\ f(j) \in 1..n
    BY <1>1, <1>4
  <2>2. f(i) = f(j)
    BY <1>1, <2>1, Zenon DEF IsInjective
  <2>. QED BY <1>1, <2>2
<1>6. ASSUME NEW y \in Range(r) PROVE y \in Range(s) \ {s[k]}
  <2>1. PICK i \in 1..(n - 1) : y = r[i]
    BY <1>4, Zenon DEF Range
  <2> DEFINE j == IF i < k THEN i ELSE i + 1
  <2>2. j \in 1..n /\ j # k
    BY <1>1
  <2>3. y = s[j]
    BY <1>4, <2>1, Zenon
  <2> HIDE DEF j
  <2>. QED BY <1>1, <2>2, <2>3, Zenon DEF Range, IsInjective
<1>7. ASSUME NEW y \in Range(s) \ {s[k]} PROVE y \in Range(r)
  <2>1. PICK i \in 1..n : y = s[i] /\ i # k
    BY <1>1, Zenon DEF Range
  <2>2. CASE i < k
    <3>1. i \in 1..(n - 1)
      BY <1>1, <2>2
    <3>. QED BY <1>4, <2>1, <2>2, <3>1, Zenon DEF Range
  <2>3. CASE i > k
    <3>1. i - 1 \in DOMAIN r /\ r[i - 1] = y
      BY <1>1, <1>4, <2>1, <2>3
    <3>. QED BY <3>1, Zenon DEF Range
  <2>. QED BY <1>1, <2>1, <2>2, <2>3
<1>. QED BY <1>4, <1>5, <1>6, <1>7, Zenon DEF r

(* No job is twice in the supervisor's hands. *)
Unrepeated ==
    /\ IsInjective(waiting)
    /\ \A i, j \in DOMAIN completed : completed[i].job = completed[j].job => i = j
    /\ \A l, m \in Lanes :
          running[l] # None /\ running[m] # None /\ running[l].job = running[m].job => l = m

Owned == Tasks \union (IF measuring THEN {Measurement} ELSE {})

(* The jobs are those of the tasks and of the measurement, each in one     *)
(* place.                                                                  *)
JobsOK ==
    /\ Waiting \intersect Running = {} /\ Completed \intersect (Waiting \union Running) = {}
    /\ Waiting \union Running \union Completed = Owned

(* The counts, and the room kept for the callbacks still to come. *)
SlotsOK ==
    /\ IsFiniteSet(Tasks) /\ IsFiniteSet(Awaiting)
    /\ outstanding = Cardinality(Tasks) + (IF measuring THEN 1 ELSE 0)
    /\ Cardinality(Tasks) + CallbackSlots <= Capacity

(* Where a call is follows from its progress. *)
CallsOK ==
    /\ IsInjective(queue)
    /\ \A c \in Calls : call[c] = "queued" <=> c \in Range(queue)
    /\ \A c \in Calls : call[c] = "taken" <=> current = c
    /\ \A c \in Calls : call[c] = "native" <=> c \in Tasks
    /\ \A a \in Announcements : call[Callback(a)] # "idle" => a \in announced

(* The actor leaves with nothing in its hands, for good. *)
ExitOK ==
    actor = "exited" => stopping /\ current = None /\ queue = <<>> /\ Tasks = {} /\ ~measuring

(* The inductive invariant. *)
IInv == TypeOK /\ Unrepeated /\ JobsOK /\ SlotsOK /\ CallsOK /\ ExitOK

-----------------------------------------------------------------------------
(* A completion put at the end of the ring. *)
LEMMA CompletedAppend ==
    ASSUME TypeOK, Unrepeated, NEW d \in [job : Jobs, ok : BOOLEAN], d.job \notin Completed,
           completed' = Append(completed, d)
    PROVE  /\ completed' \in Seq([job : Jobs, ok : BOOLEAN])
           /\ Completed' = Completed \union {d.job}
           /\ \A i, j \in DOMAIN completed' : completed'[i].job = completed'[j].job => i = j
<1> DEFINE n == Len(completed)
<1>1. completed \in Seq([job : Jobs, ok : BOOLEAN]) /\ n \in Nat /\ DOMAIN completed = 1..n
  BY DEF TypeOK
<1>2. /\ completed' \in Seq([job : Jobs, ok : BOOLEAN]) /\ DOMAIN completed' = 1..(n + 1)
      /\ \A i \in 1..n : completed'[i] = completed[i]
      /\ completed'[n + 1] = d
  BY <1>1
<1>3. Completed' = Completed \union {d.job}
  BY <1>1, <1>2 DEF Completed
<1>4. \A i, j \in DOMAIN completed' : completed'[i].job = completed'[j].job => i = j
  BY <1>1, <1>2 DEF Completed, Unrepeated
<1>. QED BY <1>2, <1>3, <1>4, Zenon

(* The oldest completion taken from the ring. *)
LEMMA CompletedTail ==
    ASSUME TypeOK, Unrepeated, completed # <<>>, completed' = Tail(completed)
    PROVE  /\ completed' \in Seq([job : Jobs, ok : BOOLEAN])
           /\ Head(completed) \in [job : Jobs, ok : BOOLEAN]
           /\ Head(completed).job \in Completed
           /\ Completed' = Completed \ {Head(completed).job}
           /\ \A i, j \in DOMAIN completed' : completed'[i].job = completed'[j].job => i = j
<1> DEFINE n == Len(completed)
           Ends == [job : Jobs, ok : BOOLEAN]
<1>0. completed \in Seq(Ends)
  BY Zenon DEF TypeOK
<1> HIDE DEF Ends
<1>1. /\ completed' \in Seq(Ends) /\ Len(completed') = n - 1 /\ Head(completed) \in Ends
      /\ \A i \in 1..Len(completed') : completed'[i] = completed[i + 1]
  BY <1>0
<1>2. /\ n \in Nat \ {0} /\ DOMAIN completed = 1..n /\ DOMAIN completed' = 1..(n - 1)
      /\ Head(completed) = completed[1]
  BY <1>0, <1>1
<1>3. Head(completed).job \in Completed
  BY <1>2 DEF Completed
<1>4. Completed' \subseteq Completed \ {Head(completed).job}
  BY <1>1, <1>2 DEF Completed, Unrepeated
<1>5. ASSUME NEW y \in Completed \ {Head(completed).job} PROVE y \in Completed'
  <2>1. PICK i \in 1..n : y = completed[i].job /\ i # 1
    BY <1>2, Zenon DEF Completed
  <2>2. i - 1 \in DOMAIN completed' /\ completed'[i - 1].job = y
    BY <1>1, <1>2, <2>1
  <2>. QED BY <2>2, Zenon DEF Completed
<1>6. \A i, j \in DOMAIN completed' : completed'[i].job = completed'[j].job => i = j
  BY <1>1, <1>2 DEF Unrepeated
<1>. QED BY <1>1, <1>3, <1>4, <1>5, <1>6, Zenon DEF Ends

(* Steps that leave the supervisor's work alone. *)
LEMMA WorkUnchanged ==
    ASSUME IInv, UNCHANGED <<waiting, running, completed, stage, measuring, outstanding>>
    PROVE  Unrepeated' /\ JobsOK' /\ SlotsOK' /\ Tasks' = Tasks
<1>1. Tasks' = Tasks /\ Awaiting' = Awaiting
  BY Zenon DEF Tasks, Awaiting
<1>2. Unrepeated' /\ Waiting' = Waiting /\ Running' = Running /\ Completed' = Completed
  BY Zenon DEF IInv, Unrepeated, Waiting, Running, Completed
<1>. QED BY <1>1, <1>2, Zenon DEF IInv, JobsOK, Owned, SlotsOK, CallbackSlots

(* Steps that leave the calls alone. *)
LEMMA CallsUnchanged ==
    ASSUME IInv, UNCHANGED <<call, queue, current, stage>>, announced \subseteq announced'
    PROVE  CallsOK'
  BY Zenon DEF IInv, CallsOK, Tasks

(* The number of tasks and of slots kept. *)
LEMMA Counts ==
    ASSUME IInv
    PROVE  Cardinality(Tasks) \in Nat /\ Cardinality(Awaiting) \in Nat
  BY FS_CardinalityType, Zenon DEF IInv, SlotsOK

(* A set with at most one new element. *)
LEMMA OneMore ==
    ASSUME NEW S, IsFiniteSet(S), NEW x, NEW T \in SUBSET (S \union {x})
    PROVE  IsFiniteSet(T) /\ Cardinality(T) \in Nat /\ Cardinality(T) <= Cardinality(S) + 1
<1>1. Cardinality(S) \in Nat
  BY FS_CardinalityType, Zenon
<1>2. /\ IsFiniteSet(S \union {x})
      /\ Cardinality(S \union {x}) = IF x \in S THEN Cardinality(S) ELSE Cardinality(S) + 1
  BY FS_AddElement, Zenon
<1>3. IsFiniteSet(T) /\ Cardinality(T) <= Cardinality(S \union {x})
  BY <1>2, FS_Subset, Zenon
<1>4. Cardinality(T) \in Nat
  BY <1>3, FS_CardinalityType, Zenon
<1>. QED BY <1>1, <1>2, <1>3, <1>4

-----------------------------------------------------------------------------
(* The workers. *)
LEMMA WorkersKeep ==
    ASSUME IInv, NEW lane \in Lanes, WorkerStep(lane) PROVE IInv'
<1> USE ActorAssumption DEF IInv
<1>1. CASE Select(lane)
  <2>1. PICK k \in DOMAIN waiting :
            /\ LaneOf(waiting[k]) = lane
            /\ running' = [running EXCEPT ![lane] = [job |-> waiting[k], canceled |-> stopping]]
            /\ waiting' = Without(waiting, k)
            /\ announced' = IF lane = "announcement" /\ ~stopping
                            THEN announced \union {waiting[k]} ELSE announced
    BY <1>1, Zenon DEF Select
  <2> DEFINE job == waiting[k]
  <2>2. /\ waiting \in Seq(Jobs) /\ job \in Jobs /\ job \in Waiting
        /\ running[lane] = None
        /\ UNCHANGED <<call, queue, current, stage, requested, measuring, due, stopping, poisoned,
                       actor, completed, outstanding, alive, registered>>
    BY <1>1 DEF Select, TypeOK, Waiting, Range
  <2>3. waiting' \in Seq(Jobs) /\ Waiting' = Waiting \ {job} /\ IsInjective(waiting')
    BY <2>1, <2>2, WithoutElems DEF Unrepeated, Waiting
  <2>4. [job |-> job, canceled |-> stopping] # None /\ [job |-> job, canceled |-> stopping].job = job
    BY <2>2 DEF TypeOK
  <2>5. Running' = Running \union {job}
    BY <2>1, <2>2, <2>4 DEF Running, TypeOK
  <2>6. Completed' = Completed /\ Tasks' = Tasks /\ Owned' = Owned
    BY <2>2, Zenon DEF Completed, Tasks, Owned
  <2>7. announced \subseteq announced' /\ announced' \subseteq Announcements
    BY <2>1, Zenon DEF LaneOf, TypeOK
  <2>8. TypeOK'
    BY <2>1, <2>2, <2>3, <2>7, Zenon DEF TypeOK
  <2>9. Unrepeated'
    <3>1. job \notin Running
      BY <2>2, Zenon DEF JobsOK
    <3>2. \A l, m \in Lanes :
              running'[l] # None /\ running'[m] # None /\ running'[l].job = running'[m].job => l = m
      BY <2>1, <2>2, <2>4, <3>1 DEF Unrepeated, Running, TypeOK
    <3>. QED BY <2>2, <2>3, <3>2, Zenon DEF Unrepeated
  <2>10. JobsOK'
    BY <2>2, <2>3, <2>5, <2>6, Zenon DEF JobsOK
  <2>11. SlotsOK' /\ ExitOK'
    BY <2>2, <2>6, Zenon DEF SlotsOK, CallbackSlots, Awaiting, ExitOK
  <2>. QED BY <2>2, <2>7, <2>8, <2>9, <2>10, <2>11, CallsUnchanged, Zenon
<1>2. CASE Finish(lane)
  <2> DEFINE job == running[lane].job
  <2>1. PICK ok \in BOOLEAN : completed' = Append(completed, [job |-> job, ok |-> ok])
    BY <1>2, Zenon DEF Finish, Outcomes
  <2>2. /\ running[lane] # None /\ job \in Jobs /\ job \in Running
        /\ running' = [running EXCEPT ![lane] = None]
        /\ UNCHANGED <<call, queue, current, stage, requested, measuring, due, stopping, poisoned,
                       actor, waiting, outstanding, alive, announced, registered>>
    BY <1>2, Zenon DEF Finish, TypeOK, Running
  <2>3. /\ completed' \in Seq([job : Jobs, ok : BOOLEAN]) /\ Completed' = Completed \union {job}
        /\ \A i, j \in DOMAIN completed' : completed'[i].job = completed'[j].job => i = j
    <3>1. job \notin Completed
      BY <2>2, Zenon DEF JobsOK
    <3>2. [job |-> job, ok |-> ok] \in [job : Jobs, ok : BOOLEAN]
      BY <2>2, Zenon
    <3>. QED BY <2>1, <3>1, <3>2, CompletedAppend, Zenon
  <2>4. Running' = Running \ {job}
    BY <2>2 DEF Running, Unrepeated, TypeOK
  <2>5. Waiting' = Waiting /\ Tasks' = Tasks /\ Owned' = Owned
    BY <2>2, Zenon DEF Waiting, Tasks, Owned
  <2>6. TypeOK'
    BY <2>2, <2>3, Zenon DEF TypeOK
  <2>7. Unrepeated'
    BY <2>2, <2>3, Zenon DEF Unrepeated, TypeOK
  <2>8. JobsOK'
    BY <2>2, <2>3, <2>4, <2>5 DEF JobsOK
  <2>9. SlotsOK' /\ ExitOK'
    BY <2>2, <2>5, Zenon DEF SlotsOK, CallbackSlots, Awaiting, ExitOK
  <2>. QED BY <2>2, <2>6, <2>7, <2>8, <2>9, CallsUnchanged, Zenon
<1>3. CASE Return(lane)
  <2>1. TypeOK' /\ ExitOK' /\ CallsOK'
    BY <1>3, WorkUnchanged, CallsUnchanged, Zenon DEF Return, TypeOK, ExitOK
  <2>. QED BY <1>3, <2>1, WorkUnchanged, Zenon DEF Return
<1>. QED BY <1>1, <1>2, <1>3, Zenon DEF WorkerStep

(* Callers, a stop and the clock. *)
LEMMA CallersKeep ==
    ASSUME IInv, (\E c \in Calls : Dispatch(c)) \/ Stop \/ MaintenanceDue PROVE IInv'
<1> USE ActorAssumption DEF IInv, supervisor
<1>1. ASSUME NEW c \in Calls, Dispatch(c) PROVE IInv'
  <2>1. Unrepeated' /\ JobsOK' /\ SlotsOK' /\ Tasks' = Tasks
    BY <1>1, WorkUnchanged, Zenon DEF Dispatch
  <2>2. CASE stopping \/ Len(queue) = QueueCapacity
    <3>1. TypeOK' /\ ExitOK'
      BY <1>1, <2>1, <2>2, Zenon DEF Dispatch, TypeOK, ExitOK
    <3>2. call' = [call EXCEPT ![c] = "returned"] /\ queue' = queue
      BY <1>1, <2>2, Zenon DEF Dispatch
    <3>3. CallsOK'
      BY <1>1, <2>1, <3>2 DEF Dispatch, CallsOK, Callback, Callbacks, TypeOK
    <3>. QED BY <2>1, <3>1, <3>3, Zenon
  <2>3. CASE ~(stopping \/ Len(queue) = QueueCapacity)
    <3>1. call' = [call EXCEPT ![c] = "queued"] /\ queue' = Append(queue, c) /\ c \notin Range(queue)
      BY <1>1, <2>3, Zenon DEF Dispatch, CallsOK
    <3>2. queue' \in Seq(Calls) /\ Range(queue') = Range(queue) \union {c} /\ IsInjective(queue')
      BY <3>1, AppendElems DEF TypeOK, CallsOK
    <3>3. TypeOK'
      BY <1>1, <2>3, <3>1, <3>2 DEF Dispatch, TypeOK, Pending
    <3>4. CallsOK'
      BY <1>1, <2>1, <3>1, <3>2 DEF Dispatch, CallsOK, Callback, Callbacks, TypeOK
    <3>5. ExitOK'
      BY <1>1, <2>3, Zenon DEF Dispatch, ExitOK, TypeOK
    <3>. QED BY <2>1, <3>3, <3>4, <3>5, Zenon
  <2>. QED BY <2>2, <2>3, Zenon
<1>2. CASE Stop \/ MaintenanceDue
  <2>1. TypeOK' /\ ExitOK' /\ CallsOK'
    BY <1>2, WorkUnchanged, CallsUnchanged, Zenon DEF Stop, MaintenanceDue, TypeOK, ExitOK
  <2>. QED BY <1>2, <2>1, WorkUnchanged, Zenon DEF Stop, MaintenanceDue
<1>. QED BY <1>1, <1>2, Zenon

(* The actor's steps that start or end no job. *)
LEMMA LoopKeeps ==
    ASSUME IInv, Maintain \/ Exit \/ TakeCall \/ HandleInline \/ RefuseNative PROVE IInv'
<1> USE ActorAssumption DEF IInv, supervisor
<1>0. Unrepeated' /\ JobsOK' /\ SlotsOK' /\ Tasks' = Tasks
  BY WorkUnchanged, Zenon DEF Maintain, Exit, TakeCall, HandleInline, RefuseNative
<1>1. CASE Maintain \/ Exit
  <2>1. TypeOK' /\ CallsOK'
    BY <1>1, CallsUnchanged, Zenon DEF Maintain, Exit, TypeOK
  <2>2. ExitOK'
    BY <1>0, <1>1, Zenon DEF Maintain, Exit, ExitOK, Idle
  <2>. QED BY <1>0, <2>1, <2>2, Zenon
<1>2. CASE TakeCall
  <2>1. /\ queue # <<>> /\ queue \in Seq(Calls) /\ IsInjective(queue)
        /\ current' = Head(queue) /\ queue' = Tail(queue) /\ current = None
        /\ call' = [call EXCEPT ![current'] = "taken"] /\ actor = "loop"
        /\ UNCHANGED <<stage, requested, measuring, due, stopping, poisoned, actor, supervisor>>
    BY <1>2, Zenon DEF TakeCall, Idle, TypeOK, CallsOK
  <2>2. /\ queue' \in Seq(Calls) /\ Len(queue') = Len(queue) - 1 /\ IsInjective(queue')
        /\ Range(queue') = Range(queue) \ {current'} /\ current' \in Range(queue) /\ current' \in Calls
    BY <2>1, TailElems
  <2>3. TypeOK'
    <3>1. Len(queue') <= QueueCapacity
      BY <2>1, <2>2 DEF TypeOK
    <3>. QED BY <2>1, <2>2, <3>1, Zenon DEF TypeOK, Pending
  <2>4. CallsOK'
    BY <1>0, <2>1, <2>2 DEF CallsOK, TypeOK
  <2>5. ExitOK'
    BY <2>1, Zenon DEF ExitOK
  <2>. QED BY <1>0, <2>3, <2>4, <2>5, Zenon
<1>3. CASE HandleInline \/ RefuseNative
  <2>1. PICK answer \in {"returned", "busy"} :
            call' = [call EXCEPT ![current] = answer] /\ current' = None
    BY <1>3, Zenon DEF HandleInline, RefuseNative, Answer
  <2>2. /\ actor = "loop" /\ current \in Calls /\ current # None
        /\ UNCHANGED <<queue, stage, measuring, due, stopping, actor,
                       waiting, running, completed, outstanding, alive, announced>>
    BY <1>3, Zenon DEF HandleInline, RefuseNative, TypeOK, Calls
  <2>3. requested' \in BOOLEAN /\ poisoned' \in BOOLEAN
    BY <1>3, Zenon DEF HandleInline, RefuseNative, TypeOK
  <2>4. registered' \subseteq announced
    BY <1>3, <2>2, Zenon DEF HandleInline, RefuseNative, Acknowledge, CallsOK, TypeOK
  <2>5. TypeOK'
    BY <2>1, <2>2, <2>3, <2>4, Zenon DEF TypeOK
  <2>6. CallsOK'
    BY <1>0, <2>1, <2>2 DEF CallsOK, TypeOK
  <2>7. ExitOK'
    BY <2>2, Zenon DEF ExitOK
  <2>. QED BY <1>0, <2>5, <2>6, <2>7, Zenon
<1>. QED BY <1>1, <1>2, <1>3, Zenon

(* The measurement starts and ends. *)
LEMMA MeasurementKeeps ==
    ASSUME IInv, StartMeasurement \/ CompleteMeasurement PROVE IInv'
<1> USE ActorAssumption DEF IInv
<1>0. /\ UNCHANGED <<call, queue, current, stage, due, stopping, actor, running, alive, announced, registered>>
      /\ actor = "loop" /\ Tasks' = Tasks /\ Awaiting' = Awaiting /\ Running' = Running
      /\ Measurement \notin Tasks /\ Measurement \in Jobs
  BY Zenon DEF StartMeasurement, CompleteMeasurement, Idle, Tasks, Awaiting, Running, Jobs
<1>1. CallsOK' /\ ExitOK'
  BY <1>0, CallsUnchanged, Zenon DEF ExitOK
<1>2. CASE StartMeasurement /\ measuring' = measuring
  <2>1. UNCHANGED <<waiting, outstanding>>
    BY <1>2, Zenon DEF StartMeasurement, MeasurementDue, TypeOK
  <2>2. Unrepeated' /\ JobsOK' /\ SlotsOK'
    BY <1>2, <2>1, WorkUnchanged, Zenon DEF StartMeasurement
  <2>3. TypeOK'
    BY <1>0, <1>2, <2>1, Zenon DEF StartMeasurement, TypeOK
  <2>. QED BY <1>1, <2>2, <2>3, Zenon
<1>3. CASE StartMeasurement /\ measuring' # measuring
  <2>1. /\ ~measuring /\ measuring' = TRUE /\ outstanding < Capacity /\ outstanding' = outstanding + 1
        /\ waiting' = Append(waiting, Measurement) /\ requested' = FALSE /\ UNCHANGED <<poisoned, completed>>
    BY <1>3, Zenon DEF StartMeasurement, MeasurementDue, CanEnqueue
  <2>2. Measurement \notin Waiting \union Running \union Completed
    BY <1>0, <2>1, Zenon DEF JobsOK, Owned
  <2>3. waiting' \in Seq(Jobs) /\ Waiting' = Waiting \union {Measurement} /\ IsInjective(waiting')
    <3>1. waiting \in Seq(Jobs) /\ IsInjective(waiting) /\ Measurement \notin Range(waiting)
      BY <2>2, Zenon DEF Waiting, Unrepeated, TypeOK
    <3>. QED BY <1>0, <2>1, <3>1, AppendElems, Zenon DEF Waiting
  <2>4. Completed' = Completed /\ Owned' = Owned \union {Measurement}
    BY <1>0, <2>1, Zenon DEF Completed, Owned
  <2>5. Unrepeated'
    BY <1>0, <2>1, <2>3, Zenon DEF Unrepeated
  <2>6. JobsOK'
    BY <1>0, <2>2, <2>3, <2>4, Zenon DEF JobsOK
  <2>7. SlotsOK'
    BY <1>0, <2>1, Counts DEF SlotsOK, CallbackSlots
  <2>8. TypeOK'
    <3>1. outstanding' \in 0..Capacity
      BY <2>1 DEF TypeOK
    <3>. QED BY <1>0, <2>1, <2>3, <3>1, Zenon DEF TypeOK
  <2>. QED BY <1>1, <2>5, <2>6, <2>7, <2>8, Zenon
<1>4. CASE CompleteMeasurement
  <2>1. /\ completed # <<>> /\ Head(completed).job = Measurement /\ completed' = Tail(completed)
        /\ outstanding' = outstanding - 1 /\ measuring' = FALSE
        /\ UNCHANGED <<requested, waiting>>
    BY <1>4, Zenon DEF CompleteMeasurement
  <2>2. poisoned' \in BOOLEAN
    BY <1>4, Zenon DEF CompleteMeasurement, TypeOK
  <2>3. /\ completed' \in Seq([job : Jobs, ok : BOOLEAN]) /\ Measurement \in Completed
        /\ Completed' = Completed \ {Measurement}
        /\ \A i, j \in DOMAIN completed' : completed'[i].job = completed'[j].job => i = j
    BY <2>1, CompletedTail, Zenon
  <2>4. measuring
    BY <1>0, <2>3, Zenon DEF JobsOK, Owned
  <2>5. Waiting' = Waiting /\ Owned' = Owned \ {Measurement}
    BY <1>0, <2>1, <2>4, Zenon DEF Waiting, Owned
  <2>6. Unrepeated'
    BY <1>0, <2>1, <2>3, Zenon DEF Unrepeated
  <2>7. JobsOK'
    BY <1>0, <2>3, <2>5, Zenon DEF JobsOK
  <2>8. SlotsOK'
    BY <1>0, <2>1, <2>4, Counts DEF SlotsOK, CallbackSlots
  <2>9. TypeOK'
    <3>1. outstanding' \in 0..Capacity
      BY <1>0, <2>1, <2>4, Counts DEF SlotsOK, TypeOK
    <3>. QED BY <1>0, <2>1, <2>2, <2>3, <3>1, Zenon DEF TypeOK
  <2>. QED BY <1>1, <2>6, <2>7, <2>8, <2>9, Zenon
<1>. QED BY <1>2, <1>3, <1>4, Zenon

(* A task ends: one task and one job fewer, at most one more slot kept. *)
LEMMA EndKeeps ==
    ASSUME IInv, CompleteTask, NEW c, c = Head(completed).job, EndTask(c),
           registered' = registered \/ Acknowledge(c)
    PROVE  IInv'
<1> USE ActorAssumption DEF IInv
<1>1. /\ actor = "loop" /\ current = None /\ completed # <<>> /\ completed' = Tail(completed)
      /\ c # Measurement
      /\ UNCHANGED <<queue, current, requested, measuring, due, stopping, actor, running, alive, announced>>
  BY Zenon DEF CompleteTask, Idle
<1>2. poisoned' \in BOOLEAN
  BY Zenon DEF CompleteTask, TypeOK
<1>3. /\ completed' \in Seq([job : Jobs, ok : BOOLEAN]) /\ c \in Completed
      /\ Completed' = Completed \ {c}
      /\ \A i, j \in DOMAIN completed' : completed'[i].job = completed'[j].job => i = j
  BY <1>1, CompletedTail, Zenon
<1>4. c \in Tasks /\ c \in Natives /\ c \in Calls
  <2>1. c \in Owned
    BY <1>1, <1>3, Zenon DEF JobsOK
  <2>. QED BY <1>1, <2>1, SMTT(60) DEF Owned, Tasks, Calls
<1>5. /\ call' = [call EXCEPT ![c] = "returned"] /\ stage' = [stage EXCEPT ![c] = "none"]
      /\ outstanding' = outstanding - 1 /\ waiting' = waiting
  BY Zenon DEF EndTask
<1>6. Tasks' = Tasks \ {c} /\ Owned' = Owned \ {c}
  BY <1>1, <1>4, <1>5, Zenon DEF Tasks, Owned, TypeOK
<1>7. Waiting' = Waiting /\ Running' = Running
  BY <1>1, <1>5, Zenon DEF Waiting, Running
<1>8. Unrepeated'
  BY <1>1, <1>3, <1>5, Zenon DEF Unrepeated
<1>9. JobsOK'
  BY <1>3, <1>6, <1>7, Zenon DEF JobsOK
<1>10. IsFiniteSet(Tasks') /\ Cardinality(Tasks') = Cardinality(Tasks) - 1
  BY <1>4, <1>6, FS_RemoveElement, Zenon DEF SlotsOK
<1>11. /\ IsFiniteSet(Awaiting') /\ Cardinality(Awaiting') \in Nat
       /\ Cardinality(Awaiting') <= Cardinality(Awaiting) + 1
  <2>1. PICK b : Awaiting' \subseteq Awaiting \union {b}
    <3>1. CASE \E a \in Announcements : c = Callback(a)
      <4>1. PICK a \in Announcements : c = Callback(a)
        BY <3>1, Zenon
      <4>2. Awaiting' \subseteq Awaiting \union {a}
        BY <1>4, <1>5, <4>1 DEF Awaiting, Callback, Callbacks, TypeOK, Natives
      <4>. QED BY <4>2, Zenon
    <3>2. CASE ~ \E a \in Announcements : c = Callback(a)
      <4>1. Awaiting' \subseteq Awaiting \union {c}
        BY <1>4, <1>5, <3>2, Zenon DEF Awaiting, Callbacks, TypeOK, Natives
      <4>. QED BY <4>1, Zenon
    <3>. QED BY <3>1, <3>2, Zenon
  <2>. QED BY <2>1, OneMore, Zenon DEF SlotsOK
<1>12. SlotsOK'
  <2>1. outstanding' = Cardinality(Tasks') + (IF measuring' THEN 1 ELSE 0)
    BY <1>1, <1>5, <1>10, Counts DEF SlotsOK
  <2>2. Cardinality(Tasks') + Cardinality(Awaiting') <= Capacity
    BY <1>10, <1>11, Counts DEF SlotsOK, CallbackSlots
  <2>. QED BY <1>10, <1>11, <2>1, <2>2, Zenon DEF SlotsOK, CallbackSlots
<1>13. CallsOK'
  <2>1. \A d \in Calls : call'[d] = IF d = c THEN "returned" ELSE call[d]
    BY <1>4, <1>5, Zenon DEF TypeOK
  <2>2. call[c] = "native"
    BY <1>4, Zenon DEF CallsOK
  <2>3. \A a \in Announcements : Callback(a) \in Calls
    BY Zenon DEF Calls, Natives, Callbacks
  <2>. QED BY <1>1, <1>4, <1>6, <2>1, <2>2, <2>3, Zenon DEF CallsOK
<1>14. registered' \subseteq announced
  BY <1>4, Zenon DEF Acknowledge, CallsOK, TypeOK
<1>15. TypeOK'
  <2>1. outstanding' \in 0..Capacity
    <3>1. Cardinality(Tasks) # 0
      BY <1>4, FS_EmptySet, Zenon DEF SlotsOK
    <3>2. outstanding \in 0..Capacity /\ outstanding # 0
      BY <3>1, Counts DEF SlotsOK, TypeOK
    <3>. QED BY <1>5, <3>2, ActorAssumption
  <2>2. call' \in [Calls -> Pending \union {"idle", "returned", "busy"}] /\ stage' \in [Natives -> Stages]
    BY <1>4, <1>5, Zenon DEF TypeOK, Stages
  <2>. QED BY <1>1, <1>2, <1>3, <1>5, <1>14, <2>1, <2>2, Zenon DEF TypeOK
<1>16. ExitOK'
  BY <1>1, Zenon DEF ExitOK
<1>. QED BY <1>8, <1>9, <1>12, <1>13, <1>15, <1>16, Zenon

(* A task goes on to its next stage under the slot it had. *)
LEMMA ContinueKeeps ==
    ASSUME IInv, CompleteTask, NEW c, c = Head(completed).job, ContinueTask(c),
           NextStage(stage[c]) # "none", UNCHANGED <<poisoned, registered>>
    PROVE  IInv'
<1> USE ActorAssumption DEF IInv
<1>1. /\ actor = "loop" /\ current = None /\ completed # <<>> /\ completed' = Tail(completed)
      /\ c # Measurement
      /\ UNCHANGED <<queue, current, requested, measuring, due, stopping, actor, running, alive, announced>>
  BY Zenon DEF CompleteTask, Idle
<1>2. /\ completed' \in Seq([job : Jobs, ok : BOOLEAN]) /\ c \in Completed
      /\ Completed' = Completed \ {c}
      /\ \A i, j \in DOMAIN completed' : completed'[i].job = completed'[j].job => i = j
  BY <1>1, CompletedTail, Zenon
<1>3. c \in Tasks /\ c \in Natives /\ c \in Jobs
  BY <1>1, <1>2 DEF JobsOK, Owned, Tasks, Jobs
<1>4. /\ stage' = [stage EXCEPT ![c] = NextStage(stage[c])] /\ waiting' = Append(waiting, c)
      /\ UNCHANGED <<call, outstanding>>
  BY Zenon DEF ContinueTask
<1>5. /\ NextStage(stage[c]) \in Stages /\ NextStage(stage[c]) # "none"
      /\ NextStage(stage[c]) \in {"announcement_identify", "announcement"}
            <=> stage[c] \in {"announcement_identify", "announcement"}
  BY <1>3, Zenon DEF NextStage, Stages, TypeOK
<1>6. Tasks' = Tasks /\ Awaiting' = Awaiting /\ Owned' = Owned
  <2>1. \A d \in Natives : stage'[d] = IF d = c THEN NextStage(stage[c]) ELSE stage[d]
    BY <1>3, <1>4, Zenon DEF TypeOK
  <2>2. \A a \in Announcements : a \in Natives /\ Callback(a) \in Natives
    BY Zenon DEF Natives, Callbacks
  <2>3. stage[c] # "none"
    BY <1>3, Zenon DEF Tasks
  <2>4. Tasks' = Tasks
    BY <1>5, <2>1, <2>3, Zenon DEF Tasks
  <2>5. Awaiting' = Awaiting
    BY <1>5, <2>1, <2>2, <2>3, Zenon DEF Awaiting
  <2>. QED BY <1>1, <2>4, <2>5, Zenon DEF Owned
<1>7. waiting' \in Seq(Jobs) /\ Waiting' = Waiting \union {c} /\ IsInjective(waiting')
  BY <1>2, <1>3, <1>4, AppendElems DEF Waiting, JobsOK, Unrepeated, TypeOK
<1>8. Running' = Running
  BY <1>1, Zenon DEF Running
<1>9. Unrepeated'
  BY <1>1, <1>2, <1>7, Zenon DEF Unrepeated
<1>10. JobsOK'
  BY <1>2, <1>6, <1>7, <1>8 DEF JobsOK
<1>11. SlotsOK' /\ ExitOK'
  BY <1>1, <1>4, <1>6, Zenon DEF SlotsOK, CallbackSlots, ExitOK
<1>12. CallsOK'
  BY <1>1, <1>4, <1>6, Zenon DEF CallsOK
<1>13. TypeOK'
  BY <1>1, <1>2, <1>3, <1>4, <1>5, <1>7, Zenon DEF TypeOK
<1>. QED BY <1>9, <1>10, <1>11, <1>12, <1>13, Zenon

(* A task starts: the room HasRoom found covers it and the slot it keeps.  *)
LEMMA StartKeeps ==
    ASSUME IInv, StartNative PROVE IInv'
<1> USE ActorAssumption DEF IInv
<1> DEFINE c == current
<1>1. /\ actor = "loop" /\ c \in Natives /\ c \in Calls /\ c \in Jobs /\ c # None /\ ~stopping
      /\ HasRoom(c) /\ outstanding < Capacity
      /\ call' = [call EXCEPT ![c] = "native"] /\ stage' = [stage EXCEPT ![c] = FirstStage(c)]
      /\ waiting' = Append(waiting, c) /\ outstanding' = outstanding + 1 /\ current' = None
      /\ UNCHANGED <<queue, requested, measuring, due, stopping, poisoned, actor,
                     running, completed, alive, announced, registered>>
  BY Zenon DEF StartNative, CanEnqueue, Calls, Jobs
<1>2. c \notin Tasks /\ call[c] = "taken"
  BY <1>1, Zenon DEF CallsOK
<1>3. FirstStage(c) \in Stages \ {"none"}
  BY Zenon DEF FirstStage, Stages
<1>4. Tasks' = Tasks \union {c} /\ Owned' = Owned \union {c}
  BY <1>1, <1>3 DEF Tasks, Owned, TypeOK
<1>5. c \notin Waiting \union Running \union Completed
  BY <1>1, <1>2, Zenon DEF JobsOK, Owned
<1>6. waiting' \in Seq(Jobs) /\ Waiting' = Waiting \union {c} /\ IsInjective(waiting')
  BY <1>1, <1>5, AppendElems DEF Waiting, Unrepeated, TypeOK
<1>7. Running' = Running /\ Completed' = Completed
  BY <1>1, Zenon DEF Running, Completed
<1>8. Unrepeated'
  BY <1>1, <1>6, Zenon DEF Unrepeated
<1>9. JobsOK'
  BY <1>4, <1>5, <1>6, <1>7, Zenon DEF JobsOK
<1>10. IsFiniteSet(Tasks') /\ Cardinality(Tasks') = Cardinality(Tasks) + 1
  BY <1>2, <1>4, FS_AddElement, Zenon DEF SlotsOK
<1>11. IsFiniteSet(Awaiting') /\ Cardinality(Tasks') + Cardinality(Awaiting') <= Capacity
  <2>1. CASE c \in Announcements
    <3>1. Awaiting' \subseteq Awaiting \union {c}
      BY <1>1, <2>1, Zenon DEF Awaiting, Callback, Callbacks, TypeOK, Natives
    <3>2. IsFiniteSet(Awaiting') /\ Cardinality(Awaiting') \in Nat
          /\ Cardinality(Awaiting') <= Cardinality(Awaiting) + 1
      BY <3>1, OneMore, Zenon DEF SlotsOK
    <3>3. Cardinality(Tasks) + Cardinality(Awaiting) + 2 <= Capacity
      BY <1>1, <2>1, Zenon DEF HasRoom, Extra, CallbackSlots
    <3>. QED BY <1>10, <3>2, <3>3, Counts
  <2>2. CASE c \notin Announcements /\ Paired(c)
    <3>1. PICK a \in Announcements : c = Callback(a) /\ stage[a] = "announcement"
      BY <2>2, Zenon DEF Paired
    <3>2. a \in Awaiting /\ Awaiting' = Awaiting \ {a}
      BY <1>1, <1>2, <1>3, <2>2, <3>1 DEF Awaiting, Callback, Callbacks, TypeOK, Natives, Tasks
    <3>3. IsFiniteSet(Awaiting') /\ Cardinality(Awaiting') = Cardinality(Awaiting) - 1
      BY <3>2, FS_RemoveElement, Zenon DEF SlotsOK
    <3>. QED BY <1>10, <3>3, Counts DEF SlotsOK, CallbackSlots
  <2>3. CASE c \notin Announcements /\ ~Paired(c)
    <3>1. Awaiting' \subseteq Awaiting
      BY <1>1, <1>3, <2>3, Zenon DEF Awaiting, Callback, Callbacks, TypeOK, Natives
    <3>2. IsFiniteSet(Awaiting') /\ Cardinality(Awaiting') <= Cardinality(Awaiting)
      BY <3>1, FS_Subset, Zenon DEF SlotsOK
    <3>3. Cardinality(Awaiting') \in Nat
      BY <3>2, FS_CardinalityType, Zenon
    <3>4. Cardinality(Tasks) + Cardinality(Awaiting) + 1 <= Capacity
      BY <1>1, <2>3, Zenon DEF HasRoom, Extra, CallbackSlots
    <3>. QED BY <1>10, <3>2, <3>3, <3>4, Counts
  <2>. QED BY <2>1, <2>2, <2>3, Zenon
<1>12. SlotsOK'
  BY <1>1, <1>10, <1>11, Counts DEF SlotsOK, CallbackSlots
<1>13. CallsOK'
  BY <1>1, <1>2, <1>4 DEF CallsOK, TypeOK, Callback
<1>14. TypeOK'
  <2>1. outstanding' \in 0..Capacity
    BY <1>1 DEF TypeOK
  <2>2. call' \in [Calls -> Pending \union {"idle", "returned", "busy"}] /\ stage' \in [Natives -> Stages]
    BY <1>1, <1>3, Zenon DEF TypeOK, Pending
  <2>. QED BY <1>1, <1>6, <2>1, <2>2, Zenon DEF TypeOK
<1>15. ExitOK'
  BY <1>1, Zenon DEF ExitOK
<1>. QED BY <1>8, <1>9, <1>12, <1>13, <1>14, <1>15, Zenon

-----------------------------------------------------------------------------
(* At first there are no calls, tasks or jobs. *)
LEMMA InitKeeps == Init => IInv
<1> SUFFICES ASSUME Init PROVE IInv
  BY Zenon
<1> USE ActorAssumption DEF Init
<1>1. Tasks = {} /\ Awaiting = {} /\ Running = {}
  BY Zenon DEF Tasks, Awaiting, Running, Natives
<1>2. Waiting = {} /\ Completed = {} /\ Range(queue) = {} /\ Owned = {}
  BY <1>1 DEF Waiting, Completed, Range, Owned
<1>3. TypeOK
  <2>1. outstanding \in 0..Capacity /\ queue \in Seq(Calls) /\ Len(queue) <= QueueCapacity
    OBVIOUS
  <2>2. waiting \in Seq(Jobs) /\ completed \in Seq([job : Jobs, ok : BOOLEAN])
    OBVIOUS
  <2>. QED BY <2>1, <2>2, Zenon DEF TypeOK, Stages
<1>4. Unrepeated /\ JobsOK
  BY <1>1, <1>2 DEF Unrepeated, JobsOK, IsInjective
<1>5. SlotsOK
  BY <1>1, FS_EmptySet DEF SlotsOK, CallbackSlots
<1>6. CallsOK /\ ExitOK
  BY <1>1, <1>2 DEF CallsOK, ExitOK, IsInjective, Callback, Calls, Natives, Callbacks
<1>. QED BY <1>3, <1>4, <1>5, <1>6, Zenon DEF IInv

(* Every step keeps the invariant. *)
LEMMA NextKeeps == IInv /\ [Next]_vars => IInv'
<1> SUFFICES ASSUME IInv, [Next]_vars PROVE IInv'
  BY Zenon
<1>1. CASE UNCHANGED vars
  <2>1. CallsOK' /\ Unrepeated' /\ JobsOK' /\ SlotsOK' /\ Tasks' = Tasks
    BY <1>1, WorkUnchanged, CallsUnchanged, Zenon DEF vars
  <2>. QED BY <1>1, <2>1, Zenon DEF IInv, vars, TypeOK, ExitOK
<1>2. CASE CompleteTask
  <2> DEFINE c == Head(completed).job
  <2>1. \/ ContinueTask(c) /\ NextStage(stage[c]) # "none" /\ UNCHANGED <<poisoned, registered>>
        \/ EndTask(c) /\ (registered' = registered \/ Acknowledge(c))
    BY <1>2, Zenon DEF CompleteTask
  <2>. QED BY <1>2, <2>1, ContinueKeeps, EndKeeps, Zenon
<1>. QED BY <1>1, <1>2, WorkersKeep, CallersKeep, LoopKeeps, MeasurementKeeps, StartKeeps, Zenon
         DEF Next, ActorStep

(* The invariant holds throughout. *)
LEMMA Invariant == Spec => []IInv
  BY InitKeeps, NextKeeps, PTL DEF Spec

(* Tasks and jobs stay paired one to one and the supervisor within its     *)
(* capacity, for any calls and any capacities.                             *)
THEOREM TasksOwnJobs == Spec => []EveryTaskOwnsOneJob
<1>1. IInv => EveryTaskOwnsOneJob
  BY Zenon DEF IInv, EveryTaskOwnsOneJob, Unrepeated, JobsOK, Owned, SlotsOK
<1>. QED BY <1>1, Invariant, PTL

(* The actor returns only when no caller waits and no job is left. *)
THEOREM ExitIsClean == Spec => []ExitLeavesNothing
<1>1. IInv => ExitLeavesNothing
  <2> SUFFICES ASSUME IInv, actor = "exited"
               PROVE  outstanding = 0 /\ \A c \in Calls : call[c] \notin Pending
    BY Zenon DEF ExitLeavesNothing
  <2>1. current = None /\ queue = <<>> /\ Tasks = {} /\ ~measuring
    BY Zenon DEF IInv, ExitOK
  <2>2. outstanding = 0
    BY <2>1, FS_EmptySet DEF IInv, SlotsOK
  <2>3. Range(queue) = {}
    BY <2>1 DEF Range
  <2>4. \A c \in Calls : call[c] \notin Pending
    BY <2>1, <2>3, ActorAssumption, Zenon DEF IInv, CallsOK, Pending
  <2>. QED BY <2>2, <2>4, Zenon
<1>. QED BY <1>1, Invariant, PTL

(* A callback of an announcement in progress finds its slot, unless a      *)
(* measurement has taken it.                                               *)
THEOREM CallbackHasRoom == Spec => CallbackKeepsItsSlot
<1>1. ASSUME IInv, [Next]_vars, NEW a \in Announcements,
             stage[a] = "announcement", call'[Callback(a)] = "busy", call[Callback(a)] # "busy"
      PROVE  measuring
  <2> DEFINE c == Callback(a)
  <2>0. c \in Natives /\ c \in Calls
    BY Zenon DEF Callbacks, Natives, Calls
  <2>1. RefuseNative /\ current = c
    BY <1>1, <2>0, Zenon DEF IInv, TypeOK, Next, vars, Dispatch, Stop, MaintenanceDue,
          ActorStep, WorkerStep, Select, Finish, Return, StartMeasurement,
          CompleteMeasurement, CompleteTask, ContinueTask, EndTask, Maintain, Exit, TakeCall, HandleInline, RefuseNative, StartNative, Answer
  <2>2. ~stopping /\ (~HasRoom(c) \/ outstanding >= Capacity)
    BY <1>1, <2>1, ActorAssumption DEF RefuseNative, CanEnqueue, IInv, TypeOK
  <2>3. c \notin Tasks
    BY <1>1, <2>0, <2>1, Zenon DEF IInv, CallsOK
  <2>4. a \in Awaiting
    BY <1>1, <2>0, <2>3, Zenon DEF Awaiting, Tasks
  <2>5. Cardinality(Awaiting) # 0 /\ Cardinality(Awaiting) \in Nat /\ Cardinality(Tasks) \in Nat
    BY <1>1, <2>4, FS_EmptySet, Counts, Zenon DEF IInv, SlotsOK
  <2>6. Cardinality(Tasks) + Cardinality(Awaiting) <= Capacity /\ Cardinality(Tasks) < Capacity
    BY <1>1, <2>5, ActorAssumption DEF IInv, SlotsOK, CallbackSlots
  <2>7. HasRoom(c)
    <3>1. Extra(c) = 0
      BY <1>1, ActorAssumption, Zenon DEF Extra, Paired, Callbacks
    <3>. QED BY <2>5, <2>6, <3>1, ActorAssumption DEF HasRoom, CallbackSlots
  <2>8. outstanding >= Capacity
    BY <2>2, <2>7, Zenon
  <2>. QED BY <1>1, <2>5, <2>6, <2>8, ActorAssumption DEF IInv, SlotsOK, TypeOK
<1>2. IInv /\ [Next]_vars =>
          [\A a \in Announcements : stage[a] = "announcement" /\ call'[Callback(a)] = "busy" =>
              call[Callback(a)] = "busy" \/ measuring]_call
  BY <1>1, Zenon
<1>. QED BY <1>2, Invariant, PTL DEF Spec, CallbackKeepsItsSlot

=============================================================================
