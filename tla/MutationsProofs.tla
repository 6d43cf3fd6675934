-------------------------- MODULE MutationsProofs --------------------------
(***************************************************************************)
(* Proofs about Mutations, for any ids, intents, results and bounds.       *)
(***************************************************************************)
EXTENDS Mutations, TLAPS

(* The modes in which the engine works on its in-memory snapshot. *)
Serving == {"booted", "recovering", "up", "fenced", "effected"}

(* Snapshot s, the effects w outside and the reported results a agree on   *)
(* id: the ledger knows of an effect before it happens, and of its result  *)
(* before it is reported.                                                  *)
Coherent(s, w, a, id) ==
    /\ id \in s.credits <=> Unresolved(s, id) /\ s.ledger[id].intent \in External
    /\ w[id] + s.applied[id] \in {0, 1}
    /\ s.ledger[id] = Absent => w[id] + s.applied[id] = 0
    /\ s.ledger[id].state = "completed" =>
          w[id] + s.applied[id] = 1 /\ s.ledger[id].result \in Results
    /\ \A result \in a[id] : s.ledger[id].state = "completed" /\ s.ledger[id].result = result

(* The running handler's record is started and its effect counted.         *)
HandlerFenced ==
    mode \in {"fenced", "effected"} =>
        /\ disk.ledger[active] \in Records
        /\ disk.ledger[active].state = "started"
        /\ disk.ledger[active].intent \in External
        /\ world[active] + disk.applied[active] = IF mode = "effected" THEN 1 ELSE 0

IInv ==
    /\ TypeOK
    /\ mode \in Serving => mem = disk
    /\ HandlerFenced
    /\ \A id \in Ids : Coherent(disk, world, answers, id)

(* A step of the daemon is a step or a stutter of the promise. *)
Refines == [Promise!Next]_(Promise!vars)

Count(id) == world[id] + disk.applied[id]

(* What is shown of every step from a state of the invariant. *)
Sound == IInv' /\ Kept(disk.ledger, disk.ledger') /\ Refines

-----------------------------------------------------------------------------
(* The four ways a step can look to the client.  Nothing is performed and  *)
(* nothing reported.                                                       *)
LEMMA Stutters ==
    ASSUME answers' = answers, \A id \in Ids : Count(id)' = Count(id)
    PROVE  Refines
  <1>1. Performed' = Performed
    BY Zenon DEF Performed, Count
  <1> QED
    BY <1>1, Zenon DEF Refines, Promise!vars

(* One effect happens. *)
LEMMA Performs ==
    ASSUME NEW id \in Ids, answers' = answers, Count(id) = 0, Count(id)' = 1,
           \A i \in Ids \ {id} : Count(i)' = Count(i)
    PROVE  Refines
  <1>1. Performed[id] = 0 /\ Performed' = [Performed EXCEPT ![id] = 1]
    BY Zenon DEF Performed, Count
  <1>2. Promise!Perform(id)
    BY <1>1, Zenon DEF Promise!Perform
  <1> QED
    BY <1>2, Zenon DEF Refines, Promise!Next

(* The result of an effect that happened is reported. *)
LEMMA Answers ==
    ASSUME NEW id \in Ids, NEW result \in Results, \A i \in Ids : Count(i)' = Count(i),
           Count(id) = 1, answers[id] \subseteq {result},
           answers' = [answers EXCEPT ![id] = {result}]
    PROVE  Refines
  <1>1. Performed[id] = 1 /\ Performed' = Performed
    BY Zenon DEF Performed, Count
  <1>2. Promise!Answer(id, result)
    BY <1>1, Zenon DEF Promise!Answer
  <1> QED
    BY <1>2, Zenon DEF Refines, Promise!Next

(* One effect happens and its result is reported. *)
LEMMA PerformsAndAnswers ==
    ASSUME NEW id \in Ids, NEW result \in Results, Count(id) = 0, Count(id)' = 1,
           \A i \in Ids \ {id} : Count(i)' = Count(i), answers[id] = {},
           answers' = [answers EXCEPT ![id] = {result}]
    PROVE  Refines
  <1>1. Performed[id] = 0 /\ Performed' = [Performed EXCEPT ![id] = 1]
    BY Zenon DEF Performed, Count
  <1>2. Promise!PerformAndAnswer(id, result)
    BY <1>1, Zenon DEF Promise!PerformAndAnswer
  <1> QED
    BY <1>2, Zenon DEF Refines, Promise!Next

-----------------------------------------------------------------------------
(* A record of the ledger is never the absent one. *)
LEMMA RecordNotAbsent ==
    ASSUME NEW r \in Records PROVE r # Absent /\ r.state # "absent"
  BY DEF Records, Absent

(* The initial state satisfies the inductive invariant. *)
LEMMA InitIInv == ASSUME Init PROVE IInv
  <1> USE DEF Init
  <1>1. TypeOK
    BY Zenon DEF TypeOK, Snapshots, Absent
  <1>2. \A id \in Ids : Coherent(disk, world, answers, id)
    BY DEF Coherent, Unresolved, Absent
  <1> QED
    BY <1>1, <1>2, Zenon DEF IInv, HandlerFenced, Serving

-----------------------------------------------------------------------------
(* A commit counts one revision and keeps the rest of the snapshot. *)
LEMMA CommittedSnapshot ==
    ASSUME NEW s \in Snapshots
    PROVE  /\ Committed(s) \in Snapshots
           /\ Committed(s).ledger = s.ledger /\ Committed(s).applied = s.applied
           /\ Committed(s).credits = s.credits /\ Committed(s).revision = s.revision + 1
  BY DEF Committed, Snapshots

(* So a commit on top of a snapshot is never that snapshot. *)
LEMMA CommitIsNew ==
    ASSUME NEW s \in Snapshots, NEW t \in Snapshots, s.revision = t.revision
    PROVE  Committed(s) # t
  <1>1. Committed(s).revision = t.revision + 1 /\ t.revision \in Nat
    BY CommittedSnapshot, Zenon DEF Snapshots
  <1> QED
    BY <1>1

(* An attempt to commit a snapshot that is coherent with what the world    *)
(* and the clients saw preserves the invariant, whether it succeeds, fails *)
(* or fails although the snapshot became durable.                          *)
LEMMA CommitIInv ==
    ASSUME IInv, NEW s \in Snapshots, NEW m, NEW n,
           Persist(s, m) \/ PersistFails(s, n), n \in {"down", "poisoned"},
           m \in Serving \union {"down"},
           active' \in Ids, world' \in [Ids -> Nat], answers' \in [Ids -> SUBSET Results],
           HandlerFenced',
           \A id \in Ids : disk' = Committed(s) => Coherent(s, world', answers', id),
           \A id \in Ids : disk' = disk => Coherent(disk, world', answers', id)
    PROVE  IInv'
  <1>1. /\ disk' \in Snapshots /\ mem' \in Snapshots /\ wedged' \in BOOLEAN
        /\ disk' = disk \/ disk' = Committed(s)
        /\ mode' \in {"down", "poisoned"} \/ (mode' = m /\ mem' = disk')
    <2>1. CASE Persist(s, m)
      BY <2>1, CommittedSnapshot, Zenon DEF Persist, TypeOK, IInv
    <2>2. CASE PersistFails(s, n)
      <3>1. wedged' \in BOOLEAN
        BY <2>2, Zenon DEF PersistFails, TypeOK, IInv
      <3>2. disk' = disk \/ disk' = Committed(s)
        BY <2>2, Zenon DEF PersistFails
      <3>3. disk' \in Snapshots /\ mem' \in Snapshots
        BY <2>2, <3>2, CommittedSnapshot, Zenon DEF PersistFails, TypeOK, IInv
      <3>4. mode' \in {"down", "poisoned"}
        BY <2>2, Zenon DEF PersistFails
      <3> QED
        BY <3>1, <3>2, <3>3, <3>4, Zenon
    <2> QED
      BY <2>1, <2>2, Zenon
  <1>2. TypeOK'
    BY <1>1, Zenon DEF TypeOK, Serving
  <1>3. \A id \in Ids : Coherent(disk', world', answers', id)
    BY <1>1, CommittedSnapshot DEF Coherent, Unresolved
  <1>4. mode' \in Serving => mem' = disk'
    BY <1>1, Zenon DEF Serving
  <1> QED
    BY <1>2, <1>3, <1>4, Zenon DEF IInv

(* A commit keeps the ledger when the snapshot it writes does. *)
LEMMA CommitKeeps ==
    ASSUME NEW s \in Snapshots, NEW m, NEW n, Persist(s, m) \/ PersistFails(s, n),
           Kept(disk.ledger, s.ledger)
    PROVE  Kept(disk.ledger, disk.ledger')
  <1>1. disk' = disk \/ disk' = Committed(s)
    BY Zenon DEF Persist, PersistFails
  <1>2. Kept(disk.ledger, disk.ledger)
    BY Zenon DEF Kept
  <1>3. CASE disk' = disk
    BY <1>2, <1>3, Zenon
  <1>4. CASE disk' = Committed(s)
    BY <1>4, CommittedSnapshot, Zenon
  <1> QED
    BY <1>1, <1>3, <1>4, Zenon

(* A commit that applies nothing and reports nothing is a stutter. *)
LEMMA CommitStutters ==
    ASSUME NEW s \in Snapshots, NEW m, NEW n, Persist(s, m) \/ PersistFails(s, n),
           s.applied = disk.applied, world' = world, answers' = answers
    PROVE  Refines
  <1>1. disk'.applied = disk.applied
    BY CommittedSnapshot, Zenon DEF Persist, PersistFails
  <1> QED
    BY <1>1, Stutters, Zenon DEF Count

(* Replay only reads the ledger. *)
LEMMA ReplaySound ==
    ASSUME IInv, NEW id \in Ids, NEW intent \in Intents, NEW revision \in 0..MaxRevision,
           Replay(id, intent, revision)
    PROVE  Sound
  <1>1. mem = disk /\ mode = "up"
    BY Zenon DEF Replay, IInv, Serving
  <1>2. disk.ledger[id].state = "completed" /\ disk.ledger[id].result \in Results
    BY <1>1, Zenon DEF Replay, IInv, Coherent
  <1>3. answers' \in [Ids -> SUBSET Results]
    BY <1>1, <1>2, Zenon DEF Replay, IInv, TypeOK
  <1>4. \A i \in Ids : Coherent(disk, world, answers', i)
    BY <1>1, <1>2, Zenon DEF Replay, IInv, TypeOK, Coherent
  <1>5. TypeOK'
    BY <1>3, Zenon DEF Replay, IInv, TypeOK
  <1>6. IInv'
    BY <1>1, <1>4, <1>5, Zenon DEF Replay, IInv, HandlerFenced, Coherent, Unresolved
  <1>7. Refines
    <2>1. Count(id) = 1 /\ answers[id] \subseteq {disk.ledger[id].result}
      BY <1>2, Zenon DEF IInv, Coherent, Count
    <2>2. answers' = [answers EXCEPT ![id] = {disk.ledger[id].result}]
      BY <1>1, <2>1, Zenon DEF Replay
    <2>3. \A i \in Ids : Count(i)' = Count(i)
      BY Zenon DEF Replay, Count
    <2> QED
      BY <1>2, <2>1, <2>2, <2>3, Answers, Zenon
  <1> QED
    BY <1>6, <1>7, Zenon DEF Sound, Replay, Kept

(* A local request commits its effect and its completed record together.   *)
LEMMA RunLocalSound ==
    ASSUME IInv, NEW id \in Ids, NEW intent \in Local, NEW revision \in 0..MaxRevision,
           NEW result \in Results, RunLocal(id, intent, revision, result)
    PROVE  Sound
  <1> DEFINE next == [mem EXCEPT !.ledger[id] = Record(intent, revision, "completed", result),
                                 !.applied[id] = @ + 1]
  <1>1. mem = disk /\ mode = "up" /\ disk.ledger[id] = Absent
    BY Zenon DEF RunLocal, Admissible, IInv, Serving
  <1>2. Record(intent, revision, "completed", result) \in Records
    BY DEF Record, Records, Intents
  <1>3. next \in Snapshots
    <2>1. [disk.ledger EXCEPT ![id] = Record(intent, revision, "completed", result)]
              \in [Ids -> Records \union {Absent}]
      BY <1>2, Zenon DEF IInv, TypeOK, Snapshots
    <2>2. [disk.applied EXCEPT ![id] = @ + 1] \in [Ids -> Nat]
      BY DEF IInv, TypeOK, Snapshots
    <2> HIDE DEF Record
    <2> QED
      BY <1>1, <2>1, <2>2, Zenon DEF IInv, TypeOK, Snapshots
  <1>4. /\ next.credits = disk.credits /\ next.revision = disk.revision
        /\ next.ledger = [disk.ledger EXCEPT ![id] = Record(intent, revision, "completed", result)]
        /\ next.applied = [disk.applied EXCEPT ![id] = @ + 1]
    BY <1>1, Zenon DEF IInv, TypeOK, Snapshots
  <1>5. \/ Persist(next, "up") /\ answers' = [answers EXCEPT ![id] = @ \union {result}]
        \/ PersistFails(next, "poisoned") /\ answers' = answers
    BY Zenon DEF RunLocal
  <1>6. world' = world /\ active' = active
    BY Zenon DEF RunLocal
  <1>7. answers[id] = {}
    BY <1>1 DEF IInv, Coherent, TypeOK, Absent
  <1>8. answers' \in [Ids -> SUBSET Results]
    BY <1>5, Zenon DEF IInv, TypeOK
  <1>9. ASSUME NEW i \in Ids PROVE Coherent(next, world', answers', i)
    BY <1>1, <1>4, <1>5, <1>6, <1>7
       DEF IInv, Coherent, TypeOK, Snapshots, Unresolved, Record, Absent
  <1>10. HandlerFenced'
    BY <1>5, Zenon DEF HandlerFenced, Persist, PersistFails
  <1>11. disk' = disk => answers' = answers
    <2> HIDE DEF next
    <2>1. Committed(next) # disk
      BY <1>3, <1>4, CommitIsNew, Zenon DEF IInv, TypeOK
    <2> QED
      BY <2>1, <1>5, Zenon DEF Persist
  <1> HIDE DEF next
  <1>12. IInv'
    BY <1>3, <1>5, <1>6, <1>8, <1>9, <1>10, <1>11, CommitIInv, Zenon DEF IInv, TypeOK, Serving
  <1>13. Kept(disk.ledger, disk.ledger')
    <2>1. Kept(disk.ledger, next.ledger)
      BY <1>1, <1>4, Zenon DEF Kept, IInv, TypeOK, Snapshots
    <2> QED
      BY <1>3, <1>5, <2>1, CommitKeeps, Zenon
  <1>14. Refines
    <2>1. Count(id) = 0
      BY <1>1, Zenon DEF IInv, Coherent, Count
    <2>2. CASE disk' = disk
      BY <1>6, <1>11, <2>2, Stutters, Zenon DEF Count
    <2>3. CASE disk' = Committed(next)
      <3>1. Count(id)' = 1 /\ \A i \in Ids \ {id} : Count(i)' = Count(i)
        BY <1>3, <1>4, <1>6, <2>1, <2>3, CommittedSnapshot DEF Count, IInv, TypeOK, Snapshots
      <3>2. answers' = answers \/ answers' = [answers EXCEPT ![id] = {result}]
        BY <1>5, <1>7, Zenon
      <3> QED
        BY <1>7, <2>1, <3>1, <3>2, Performs, PerformsAndAnswers, Zenon
    <2> QED
      BY <1>5, <2>2, <2>3, Zenon DEF Persist, PersistFails
  <1> QED
    BY <1>12, <1>13, <1>14, Zenon DEF Sound

(* An external request is durable before its handler runs. *)
LEMMA FenceExternalSound ==
    ASSUME IInv, NEW id \in Ids, NEW intent \in External, NEW revision \in 0..MaxRevision,
           FenceExternal(id, intent, revision)
    PROVE  Sound
  <1> DEFINE record == Record(intent, revision, "started", NoResult)
             next == [mem EXCEPT !.ledger[id] = record, !.credits = @ \union {id}]
  <1>1. mem = disk /\ mode = "up" /\ disk.ledger[id] = Absent
    BY Zenon DEF FenceExternal, Admissible, IInv, Serving
  <1>2. record \in Records /\ record.state = "started" /\ record.intent = intent
    BY DEF Record, Records, Intents
  <1> HIDE DEF record
  <1>3. [disk.ledger EXCEPT ![id] = record] \in [Ids -> Records \union {Absent}]
    BY <1>2, Zenon DEF IInv, TypeOK, Snapshots
  <1>4. next \in Snapshots
    BY <1>1, <1>3, Zenon DEF IInv, TypeOK, Snapshots
  <1>5. /\ next.credits = disk.credits \union {id} /\ next.applied = disk.applied
        /\ next.ledger = [disk.ledger EXCEPT ![id] = record]
    BY <1>1, Zenon DEF IInv, TypeOK, Snapshots
  <1>6. Persist(next, "fenced") \/ PersistFails(next, "poisoned")
    BY Zenon DEF FenceExternal, record
  <1>7. world' = world /\ active' = id /\ answers' = answers
    BY Zenon DEF FenceExternal
  <1>8. ASSUME NEW i \in Ids PROVE Coherent(next, world, answers, i)
    BY <1>1, <1>2, <1>5, RecordNotAbsent DEF IInv, Coherent, TypeOK, Snapshots, Unresolved, Absent
  <1> HIDE DEF next
  <1>9. HandlerFenced'
    <2>1. CASE Persist(next, "fenced")
      <3>1. disk'.ledger = next.ledger /\ disk'.applied = next.applied /\ mode' = "fenced"
        BY <1>4, <2>1, CommittedSnapshot, Zenon DEF Persist
      <3>2. world[id] + disk.applied[id] = 0
        BY <1>1, Zenon DEF IInv, Coherent
      <3>3. disk'.ledger[id] = record
        BY <3>1, <1>5, Zenon DEF IInv, TypeOK, Snapshots
      <3> QED
        BY <1>2, <1>5, <1>7, <3>1, <3>2, <3>3, Zenon DEF HandlerFenced
    <2>2. CASE PersistFails(next, "poisoned")
      BY <2>2, Zenon DEF PersistFails, HandlerFenced
    <2> QED
      BY <1>6, <2>1, <2>2, Zenon
  <1>10. IInv'
    BY <1>4, <1>6, <1>7, <1>8, <1>9, CommitIInv, Zenon DEF IInv, TypeOK, Serving
  <1>11. Kept(disk.ledger, disk.ledger')
    <2>1. Kept(disk.ledger, next.ledger)
      BY <1>1, <1>5, Zenon DEF Kept, IInv, TypeOK, Snapshots
    <2> QED
      BY <1>4, <1>6, <2>1, CommitKeeps, Zenon
  <1>12. Refines
    BY <1>4, <1>5, <1>6, <1>7, CommitStutters, Zenon
  <1> QED
    BY <1>10, <1>11, <1>12, Zenon DEF Sound

(* The handler's effect outside happens once: its record was started and   *)
(* nothing counted yet.                                                    *)
LEMMA PerformEffectSound == ASSUME IInv, PerformEffect PROVE Sound
  <1>1. /\ mem = disk /\ mode = "fenced" /\ mode' = "effected" /\ active \in Ids
        /\ disk.ledger[active] \in Records /\ disk.ledger[active].state = "started"
        /\ world[active] + disk.applied[active] = 0
    BY Zenon DEF PerformEffect, IInv, HandlerFenced, Serving, TypeOK
  <1>2. /\ world' = [world EXCEPT ![active] = @ + 1] /\ active' = active
        /\ disk' = disk /\ mem' = mem /\ answers' = answers /\ wedged' = wedged
    BY Zenon DEF PerformEffect
  <1>3. TypeOK'
    BY <1>1, <1>2 DEF IInv, TypeOK
  <1>4. world'[active] + disk.applied[active] = 1
    BY <1>1, <1>2 DEF IInv, TypeOK, Snapshots
  <1>5. ASSUME NEW i \in Ids PROVE Coherent(disk, world', answers, i)
    BY <1>1, <1>2, <1>4, RecordNotAbsent DEF IInv, Coherent, TypeOK, Snapshots
  <1>6. HandlerFenced'
    BY <1>1, <1>2, <1>4, Zenon DEF HandlerFenced, IInv
  <1>7. IInv'
    BY <1>1, <1>2, <1>3, <1>5, <1>6, Zenon DEF IInv
  <1>8. Refines
    BY <1>1, <1>2, <1>4, Performs, Zenon DEF Count, IInv, TypeOK
  <1> QED
    BY <1>2, <1>7, <1>8, Zenon DEF Sound, Kept

(* The handler's effect is a commit: it is performed when, and only when,  *)
(* that commit becomes durable.                                            *)
LEMMA PerformThroughCommitSound == ASSUME IInv, PerformThroughCommit PROVE Sound
  <1>1. /\ mem = disk /\ mode = "fenced" /\ active \in Ids /\ disk \in Snapshots
        /\ disk.ledger[active] \in Records /\ disk.ledger[active].state = "started"
        /\ disk.ledger[active].intent \in External
        /\ world[active] + disk.applied[active] = 0
    BY Zenon DEF PerformThroughCommit, IInv, HandlerFenced, Serving, TypeOK
  <1>2. Persist(disk, "effected") \/ PersistFails(disk, "poisoned")
    BY <1>1, Zenon DEF PerformThroughCommit
  <1>3. /\ active' = active /\ answers' = answers
        /\ disk' = disk => world' = world
        /\ disk' # disk => world' = [world EXCEPT ![active] = @ + 1]
    BY Zenon DEF PerformThroughCommit
  <1>4. Committed(disk) # disk
    BY <1>1, CommitIsNew, Zenon
  <1>5. world' \in [Ids -> Nat]
    BY <1>1, <1>3 DEF IInv, TypeOK
  <1>6. disk' = Committed(disk) => world'[active] + disk.applied[active] = 1
    BY <1>1, <1>3, <1>4 DEF IInv, TypeOK, Snapshots
  <1>7. ASSUME NEW i \in Ids, disk' = Committed(disk) PROVE Coherent(disk, world', answers', i)
    BY <1>1, <1>3, <1>4, <1>6, <1>7, RecordNotAbsent DEF IInv, Coherent, TypeOK, Snapshots
  <1>8. HandlerFenced'
    <2>1. CASE Persist(disk, "effected")
      <3>1. /\ disk'.ledger = disk.ledger /\ disk'.applied = disk.applied
            /\ mode' = "effected" /\ disk' = Committed(disk)
        BY <1>1, <2>1, CommittedSnapshot, Zenon DEF Persist
      <3> QED
        BY <1>1, <1>3, <1>6, <3>1, Zenon DEF HandlerFenced
    <2>2. CASE PersistFails(disk, "poisoned")
      BY <2>2, Zenon DEF PersistFails, HandlerFenced
    <2> QED
      BY <1>2, <2>1, <2>2, Zenon
  <1>9. IInv'
    BY SMTT(90), <1>1, <1>2, <1>3, <1>5, <1>7, <1>8, CommitIInv DEF IInv, TypeOK, Serving
  <1>10. Kept(disk.ledger, disk.ledger')
    BY <1>1, <1>2, CommitKeeps, Zenon DEF Kept
  <1>11. Refines
    <2>1. CASE disk' = disk
      BY <1>3, <2>1, Stutters, Zenon DEF Count
    <2>2. CASE disk' = Committed(disk)
      <3>1. disk'.applied = disk.applied /\ world' = [world EXCEPT ![active] = @ + 1]
        BY <1>1, <1>3, <1>4, <2>2, CommittedSnapshot, Zenon
      <3> QED
        BY <1>1, <1>3, <1>6, <2>2, <3>1, Performs, Zenon DEF Count, IInv, TypeOK
    <2> QED
      BY <1>2, <2>1, <2>2, Zenon DEF Persist, PersistFails
  <1> QED
    BY <1>9, <1>10, <1>11, Zenon DEF Sound

(* Success reaches the client only with the commit of its record. *)
LEMMA CompleteExternalSound ==
    ASSUME IInv, NEW result \in Results, CompleteExternal(result) PROVE Sound
  <1> DEFINE record == [disk.ledger[active] EXCEPT !.state = "completed", !.result = result]
             next == [mem EXCEPT !.ledger[active].state = "completed",
                                 !.ledger[active].result = result,
                                 !.credits = @ \ {active}]
  <1>1. /\ mem = disk /\ mode = "effected" /\ active \in Ids /\ disk \in Snapshots
        /\ disk.ledger[active] \in Records /\ disk.ledger[active].state = "started"
        /\ world[active] + disk.applied[active] = 1
    BY Zenon DEF CompleteExternal, IInv, HandlerFenced, Serving, TypeOK
  <1>2. record \in Records /\ record.state = "completed" /\ record.result = result
    BY <1>1, Zenon DEF Records
  <1>3. next = [disk EXCEPT !.ledger = [disk.ledger EXCEPT ![active] = record],
                            !.credits = @ \ {active}]
    BY ZenonT(90), <1>1 DEF Snapshots, Records
  <1>4. \/ Persist(next, "up") /\ answers' = [answers EXCEPT ![active] = @ \union {result}]
        \/ PersistFails(next, "poisoned") /\ answers' = answers
    BY Zenon DEF CompleteExternal
  <1> HIDE DEF record, next
  <1>5. [disk.ledger EXCEPT ![active] = record] \in [Ids -> Records \union {Absent}]
    BY <1>1, <1>2, Zenon DEF Snapshots
  <1>6. next \in Snapshots
    BY <1>1, <1>3, <1>5, Zenon DEF Snapshots
  <1>7. /\ next.credits = disk.credits \ {active} /\ next.applied = disk.applied
        /\ next.ledger = [disk.ledger EXCEPT ![active] = record]
        /\ next.revision = disk.revision
    BY <1>1, <1>3, Zenon DEF Snapshots
  <1>8. world' = world /\ active' = active
    BY Zenon DEF CompleteExternal
  <1>9. answers[active] = {}
    BY <1>1, Zenon DEF IInv, Coherent, TypeOK
  <1>10. answers' \in [Ids -> SUBSET Results]
    BY <1>1, <1>4, Zenon DEF IInv, TypeOK
  <1>11. ASSUME NEW i \in Ids PROVE Coherent(next, world', answers', i)
    <2>1. CASE i = active
      BY <1>1, <1>2, <1>4, <1>7, <1>8, <1>9, <2>1, RecordNotAbsent
         DEF IInv, Coherent, TypeOK, Snapshots, Unresolved
    <2>2. CASE i # active
      BY <1>1, <1>4, <1>7, <1>8, <2>2 DEF IInv, Coherent, TypeOK, Snapshots, Unresolved
    <2> QED
      BY <2>1, <2>2, Zenon
  <1>12. HandlerFenced'
    BY <1>4, Zenon DEF HandlerFenced, Persist, PersistFails
  <1>13. disk' = disk => answers' = answers
    BY <1>1, <1>4, <1>6, <1>7, CommitIsNew, Zenon DEF Persist
  <1>14. IInv'
    BY <1>4, <1>6, <1>8, <1>10, <1>11, <1>12, <1>13, CommitIInv, Zenon DEF IInv, TypeOK, Serving
  <1>15. Kept(disk.ledger, disk.ledger')
    <2>1. record.intent = disk.ledger[active].intent
      BY <1>1, Zenon DEF record, Records
    <2>2. record.expected_revision = disk.ledger[active].expected_revision
      BY <1>1, Zenon DEF record, Records
    <2>3. Kept(disk.ledger, next.ledger)
      BY <1>1, <1>2, <1>7, <2>1, <2>2, RecordNotAbsent, Zenon DEF Kept, Snapshots
    <2> QED
      BY <1>4, <1>6, <2>3, CommitKeeps, Zenon
  <1>16. Refines
    <2>1. \A i \in Ids : Count(i)' = Count(i)
      BY <1>4, <1>6, <1>7, <1>8, CommittedSnapshot, Zenon DEF Count, Persist, PersistFails
    <2>2. answers' = answers \/ answers' = [answers EXCEPT ![active] = {result}]
      BY <1>4, <1>9, Zenon
    <2>3. Count(active) = 1
      BY <1>1, Zenon DEF Count
    <2> QED
      BY <1>1, <1>9, <2>1, <2>2, <2>3, Stutters, Answers, Zenon
  <1> QED
    BY <1>14, <1>15, <1>16, Zenon DEF Sound

(* Marking a started record as indeterminate keeps a snapshot coherent. *)
LEMMA MarkedCoherent ==
    ASSUME TypeOK, NEW s \in Snapshots, NEW id \in Ids, Coherent(disk, world, answers, id),
           s.ledger[id] = [disk.ledger[id] EXCEPT !.state = "indeterminate"],
           disk.ledger[id] \in Records, disk.ledger[id].state = "started",
           s.applied = disk.applied, s.credits = disk.credits
    PROVE  Coherent(s, world, answers, id)
  <1>1. /\ s.ledger[id] \in Records
        /\ s.ledger[id].state = "indeterminate"
        /\ s.ledger[id].intent = disk.ledger[id].intent
    BY Zenon DEF Records
  <1> QED
    BY <1>1, RecordNotAbsent, Zenon DEF Coherent, Unresolved

(* A failed handler's uncertainty stays in the ledger, with its credit. *)
LEMMA FailExternalSound == ASSUME IInv, FailExternal PROVE Sound
  <1> DEFINE record == [disk.ledger[active] EXCEPT !.state = "indeterminate"]
             next == [disk EXCEPT !.ledger[active].state = "indeterminate"]
  <1>1. /\ active \in Ids /\ disk \in Snapshots
        /\ disk.ledger[active] \in Records /\ disk.ledger[active].state = "started"
    BY Zenon DEF FailExternal, IInv, HandlerFenced, TypeOK
  <1>2. record \in Records
    BY <1>1, Zenon DEF Records
  <1>3. next = [disk EXCEPT !.ledger = [disk.ledger EXCEPT ![active] = record]]
    BY <1>1, Zenon DEF Snapshots, Records
  <1>4. Persist(next, "up") \/ PersistFails(next, "poisoned")
    BY Zenon DEF FailExternal
  <1>5. next \in Snapshots
    <2>1. [disk.ledger EXCEPT ![active] = record] \in [Ids -> Records \union {Absent}]
      BY <1>1, <1>2, Zenon DEF Snapshots
    <2> HIDE DEF record, next
    <2> QED
      BY <1>1, <1>3, <2>1, Zenon DEF Snapshots
  <1>6. /\ next.credits = disk.credits /\ next.applied = disk.applied
        /\ next.ledger = [disk.ledger EXCEPT ![active] = record]
    BY <1>1, <1>3, Zenon DEF Snapshots
  <1>7. world' = world /\ active' = active /\ answers' = answers
    BY Zenon DEF FailExternal
  <1> HIDE DEF next
  <1>8. ASSUME NEW i \in Ids PROVE Coherent(next, world, answers, i)
    <2>1. CASE i = active
      BY <1>1, <1>5, <1>6, <2>1, MarkedCoherent, Zenon DEF IInv, Snapshots
    <2>2. CASE i # active
      BY <1>1, <1>6, <2>2 DEF IInv, Coherent, Snapshots, Unresolved
    <2> QED
      BY <2>1, <2>2, Zenon
  <1>9. HandlerFenced'
    BY <1>4, Zenon DEF HandlerFenced, Persist, PersistFails
  <1>10. IInv'
    BY <1>4, <1>5, <1>7, <1>8, <1>9, CommitIInv, Zenon DEF IInv, TypeOK, Serving
  <1>11. Kept(disk.ledger, disk.ledger')
    <2>1. /\ record.intent = disk.ledger[active].intent
          /\ record.expected_revision = disk.ledger[active].expected_revision
      BY <1>1, Zenon DEF Records
    <2> HIDE DEF record
    <2>2. Kept(disk.ledger, next.ledger)
      BY <1>1, <1>2, <1>6, <2>1, RecordNotAbsent, Zenon DEF Kept, Snapshots
    <2> QED
      BY <1>4, <1>5, <2>2, CommitKeeps, Zenon
  <1>12. Refines
    BY <1>4, <1>5, <1>6, <1>7, CommitStutters, Zenon
  <1> QED
    BY <1>10, <1>11, <1>12, Zenon DEF Sound

(* Recovery marks every started record indeterminate and nothing else. *)
LEMMA RecoveredSnapshot ==
    ASSUME TypeOK
    PROVE  /\ RecoverAfterRestart(disk) \in Snapshots
           /\ RecoverAfterRestart(disk).applied = disk.applied
           /\ RecoverAfterRestart(disk).credits = disk.credits
           /\ RecoverAfterRestart(disk).revision = disk.revision
           /\ \A id \in Ids : RecoverAfterRestart(disk).ledger[id] =
                 IF disk.ledger[id].state = "started"
                   THEN [disk.ledger[id] EXCEPT !.state = "indeterminate"]
                   ELSE disk.ledger[id]
  <1> DEFINE marked(id) == IF disk.ledger[id].state = "started"
                             THEN [disk.ledger[id] EXCEPT !.state = "indeterminate"]
                             ELSE disk.ledger[id]
             ledger == [id \in Ids |-> marked(id)]
  <1>1. disk \in Snapshots
    BY Zenon DEF TypeOK
  <1>2. ASSUME NEW id \in Ids PROVE marked(id) \in Records \union {Absent}
    BY <1>1 DEF Snapshots, Records, Absent
  <1>3. RecoverAfterRestart(disk) = [disk EXCEPT !.ledger = ledger]
    BY Zenon DEF RecoverAfterRestart
  <1>4. ledger \in [Ids -> Records \union {Absent}]
    BY <1>2, Zenon
  <1>5. \A id \in Ids : ledger[id] = marked(id)
    BY Zenon
  <1> HIDE DEF ledger
  <1>6. /\ RecoverAfterRestart(disk) \in Snapshots
        /\ RecoverAfterRestart(disk).applied = disk.applied
        /\ RecoverAfterRestart(disk).credits = disk.credits
        /\ RecoverAfterRestart(disk).revision = disk.revision
        /\ RecoverAfterRestart(disk).ledger = ledger
    BY <1>1, <1>3, <1>4, Zenon DEF Snapshots
  <1> QED
    BY <1>5, <1>6, Zenon

(* Starting preserves the invariant, whatever was interrupted. *)
LEMMA BootSound == ASSUME IInv, Boot PROVE Sound
  <1> DEFINE next == RecoverAfterRestart(disk)
             m == IF disk.recovering THEN "down" ELSE "booted"
  <1>1. Persist(next, m) \/ PersistFails(next, "down")
    BY Zenon DEF Boot
  <1>2. world' = world /\ active' = active /\ answers' = answers
    BY Zenon DEF Boot
  <1>3. next \in Snapshots
    BY RecoveredSnapshot, Zenon DEF IInv
  <1>4. ASSUME NEW i \in Ids PROVE Coherent(next, world, answers, i)
    <2>1. CASE disk.ledger[i].state = "started"
      <3>1. disk.ledger[i] \in Records
        BY <2>1 DEF IInv, TypeOK, Snapshots, Absent
      <3>2. next.ledger[i] = [disk.ledger[i] EXCEPT !.state = "indeterminate"]
        BY <2>1, RecoveredSnapshot, Zenon DEF IInv
      <3>3. next.applied = disk.applied /\ next.credits = disk.credits
        BY RecoveredSnapshot, Zenon DEF IInv
      <3> QED
        BY <1>3, <2>1, <3>1, <3>2, <3>3, MarkedCoherent, Zenon DEF IInv
    <2>2. CASE disk.ledger[i].state # "started"
      <3>1. /\ next.ledger[i] = disk.ledger[i]
            /\ next.applied = disk.applied /\ next.credits = disk.credits
        BY <2>2, RecoveredSnapshot, Zenon DEF IInv
      <3> QED
        BY <3>1 DEF IInv, Coherent, Unresolved
    <2> QED
      BY <2>1, <2>2, Zenon
  <1> HIDE DEF next
  <1>5. HandlerFenced'
    BY <1>1, Zenon DEF HandlerFenced, Persist, PersistFails
  <1>6. m \in Serving \union {"down"}
    BY Zenon DEF Serving
  <1> HIDE DEF m
  <1>7. IInv'
    BY <1>1, <1>2, <1>3, <1>4, <1>5, <1>6, CommitIInv, Zenon DEF IInv, TypeOK
  <1>8. next.applied = disk.applied
    BY RecoveredSnapshot, Zenon DEF IInv, next
  <1>9. Kept(disk.ledger, disk.ledger')
    <2>1. Kept(disk.ledger, next.ledger)
      <3> SUFFICES ASSUME NEW i \in Ids, disk.ledger[i] # Absent
                   PROVE  /\ next.ledger[i] # Absent
                          /\ next.ledger[i].intent = disk.ledger[i].intent
                          /\ next.ledger[i].expected_revision = disk.ledger[i].expected_revision
                          /\ disk.ledger[i].state # "started" => next.ledger[i] = disk.ledger[i]
        BY Zenon DEF Kept
      <3>1. disk.ledger[i] \in Records
        BY Zenon DEF IInv, TypeOK, Snapshots
      <3>2. next.ledger[i] = IF disk.ledger[i].state = "started"
                               THEN [disk.ledger[i] EXCEPT !.state = "indeterminate"]
                               ELSE disk.ledger[i]
        BY RecoveredSnapshot, Zenon DEF IInv, next
      <3>3. next.ledger[i] \in Records
        BY <3>1, <3>2, Zenon DEF Records
      <3> QED
        BY <3>1, <3>2, <3>3, RecordNotAbsent, Zenon DEF Records
    <2> QED
      BY <1>1, <1>3, <2>1, CommitKeeps, Zenon
  <1>10. Refines
    BY <1>1, <1>2, <1>3, <1>8, CommitStutters, Zenon
  <1> QED
    BY <1>7, <1>9, <1>10, Zenon DEF Sound

(* A commit that changes neither ledger nor credits, for the bootstrap and *)
(* for every other operation of the engine.                                *)
LEMMA PlainCommitSound ==
    ASSUME IInv, NEW s \in Snapshots, NEW m, NEW n,
           s.ledger = disk.ledger, s.applied = disk.applied, s.credits = disk.credits,
           Persist(s, m) \/ PersistFails(s, n),
           m \in {"recovering", "up"}, n \in {"down", "poisoned"},
           UNCHANGED <<active, world, answers>>
    PROVE  Sound
  <1>1. ASSUME NEW i \in Ids PROVE Coherent(s, world, answers, i)
    BY Zenon DEF IInv, Coherent, Unresolved
  <1>2. HandlerFenced'
    BY Zenon DEF HandlerFenced, Persist, PersistFails
  <1>3. IInv'
    BY <1>1, <1>2, CommitIInv, Zenon DEF IInv, TypeOK, Serving
  <1>4. Kept(disk.ledger, disk.ledger')
    BY CommitKeeps, Zenon DEF Kept
  <1>5. Refines
    BY CommitStutters, Zenon
  <1> QED
    BY <1>3, <1>4, <1>5, Zenon DEF Sound

(* The commits of the rest of the engine and of the integration recovery. *)
LEMMA OtherCommitsSound ==
    ASSUME IInv, OtherCommit \/ ReserveRecovery \/ FinishRecovery PROVE Sound
  <1>1. mem = disk /\ disk \in Snapshots
    BY Zenon DEF OtherCommit, ReserveRecovery, FinishRecovery, IInv, Serving, TypeOK
  <1>2. CASE OtherCommit
    BY <1>1, <1>2, PlainCommitSound, Zenon DEF OtherCommit
  <1>3. ASSUME NEW flag \in BOOLEAN
        PROVE  LET next == [disk EXCEPT !.recovering = flag]
               IN  /\ next \in Snapshots /\ next.ledger = disk.ledger
                   /\ next.applied = disk.applied /\ next.credits = disk.credits
    BY <1>1, Zenon DEF Snapshots
  <1>4. CASE ReserveRecovery
    <2> DEFINE next == [disk EXCEPT !.recovering = TRUE]
    <2>1. /\ Persist(next, "recovering") \/ PersistFails(next, "down")
          /\ UNCHANGED <<active, world, answers>>
      BY <1>1, <1>4, Zenon DEF ReserveRecovery
    <2>2. /\ next \in Snapshots /\ next.ledger = disk.ledger
          /\ next.applied = disk.applied /\ next.credits = disk.credits
      BY <1>3, Zenon
    <2> HIDE DEF next
    <2> QED
      BY <2>1, <2>2, PlainCommitSound, Zenon
  <1>5. CASE FinishRecovery
    <2> DEFINE next == [disk EXCEPT !.recovering = FALSE]
    <2>1. /\ Persist(next, "up") \/ PersistFails(next, "down")
          /\ UNCHANGED <<active, world, answers>>
      BY <1>1, <1>5, Zenon DEF FinishRecovery
    <2>2. /\ next \in Snapshots /\ next.ledger = disk.ledger
          /\ next.applied = disk.applied /\ next.credits = disk.credits
      BY <1>3, Zenon
    <2> HIDE DEF next
    <2> QED
      BY <2>1, <2>2, PlainCommitSound, Zenon
  <1> QED
    BY <1>2, <1>4, <1>5, Zenon

(* Stopping, however abruptly, only forgets the memory. *)
LEMMA StoppedSound == ASSUME IInv, Fence \/ Crash PROVE Sound
  <1>1. /\ mode' \in {"poisoned", "down"}
        /\ disk' = disk /\ mem' = mem /\ wedged' = wedged
        /\ active' = active /\ world' = world /\ answers' = answers
    BY Zenon DEF Fence, Crash
  <1>2. TypeOK'
    BY <1>1, Zenon DEF IInv, TypeOK
  <1>3. \A i \in Ids : Coherent(disk', world', answers', i)
    BY <1>1, Zenon DEF IInv
  <1> QED
    BY <1>1, <1>2, <1>3, Stutters, Zenon DEF Sound, Kept, Count, IInv, HandlerFenced, Serving

(* The invariant is inductive: every step of the daemon preserves it. *)
LEMMA NextSound == ASSUME IInv, [Next]_vars PROVE Sound
  <1>1. CASE UNCHANGED vars
    <2>1. TypeOK' /\ HandlerFenced' /\ (mode \in Serving => mem = disk)'
      BY <1>1, Zenon DEF vars, IInv, TypeOK, HandlerFenced
    <2>2. \A i \in Ids : Coherent(disk', world', answers', i)
      BY <1>1, Zenon DEF vars, IInv
    <2>3. Kept(disk.ledger, disk.ledger') /\ Refines
      BY <1>1, Stutters, Zenon DEF vars, Kept, Count
    <2> QED
      BY <2>1, <2>2, <2>3, Zenon DEF IInv, Sound
  <1>2. CASE Next
    BY <1>2, RunLocalSound, ReplaySound, FenceExternalSound, PerformEffectSound,
       PerformThroughCommitSound, CompleteExternalSound, FailExternalSound, BootSound,
       OtherCommitsSound, StoppedSound, Zenon
       DEF Next
  <1> QED
    BY <1>1, <1>2, Zenon

(* In every reachable state the invariant holds. *)
THEOREM Invariance == Spec => []IInv
  BY InitIInv, NextSound, PTL DEF Spec, Sound

(* Types, for any constants. *)
THEOREM TypeCorrect == Spec => []TypeOK
  <1>1. IInv => TypeOK
    BY Zenon DEF IInv
  <1> QED
    BY <1>1, Invariance, PTL

(* A success reported by authorizedRequest is the result of a durable      *)
(* completed record.                                                       *)
THEOREM Acknowledged == Spec => []AcknowledgedIsDurable
  <1>1. IInv => AcknowledgedIsDurable
    BY Zenon DEF IInv, AcknowledgedIsDurable, Coherent
  <1> QED
    BY <1>1, Invariance, PTL

(* validatePersistedAdmission accepts every snapshot that reached the disk. *)
THEOREM AlwaysRestorable == Spec => []CommittedSnapshotRestorable
  <1>1. IInv => CommittedSnapshotRestorable
    BY Zenon DEF IInv, CommittedSnapshotRestorable, Restorable, Coherent
  <1> QED
    BY <1>1, Invariance, PTL

(* Ledger records are never removed, rewritten or reopened by a commit. *)
THEOREM NeverForgets == Spec => LedgerNeverForgets
  <1>1. IInv /\ [Next]_vars => [Kept(disk.ledger, disk.ledger')]_vars
    BY NextSound, Zenon DEF Sound
  <1> QED
    BY <1>1, Invariance, PTL DEF Spec, LedgerNeverForgets

(* Mutations implements OnceOnly: no interleaving of repetitions, handler  *)
(* failures, ambiguous commits, crashes and restarts performs the effect   *)
(* of an operation id twice or reports two different results for it.       *)
THEOREM Refinement == Spec => EffectOnce
  <1>1. Init => Promise!Init
    BY DEF Init, Promise!Init, Performed
  <1>2. IInv /\ [Next]_vars => [Promise!Next]_(Promise!vars)
    BY NextSound, Zenon DEF Sound, Refines
  <1> QED
    BY <1>1, <1>2, Invariance, PTL DEF Spec, EffectOnce, Promise!Spec
=============================================================================
