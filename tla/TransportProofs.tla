-------------------------- MODULE TransportProofs --------------------------
(***************************************************************************)
(* Proofs about the transport client, for any set of requests, streaming   *)
(* or not, any limits and any chunk ring.                                  *)
(***************************************************************************)
EXTENDS Transport, TLAPS, FiniteSetTheorems

(* The counter counts, and never beyond the limit. *)
CountOK == IsFiniteSet(Held) /\ outstanding = Cardinality(Held) /\ outstanding <= Limit

(* What the owner thread may rely on at each place of its loop: the        *)
(* transfers it has yet to visit are where it left them.                   *)
OwnerOK ==
    /\ pc \in {"check", "cancel", "fill", "exited"} => todo = {}
    /\ pc = "start" => todo \subseteq In("starting") /\ \A x, y \in todo : x = y
    /\ pc \in {"tend", "perform", "abort", "stop"} => todo \subseteq In("active")
    /\ In("starting") \subseteq IF pc = "start" THEN todo ELSE {}
    /\ pc = "stop" => In("active") \subseteq todo
    /\ pc = "exited" => In("queued") = {} /\ In("active") = {}
    /\ failed \subseteq In("completed") \union In("taken") \union In("disposing")

(* How far the owner thread and deinit may be apart, and when the memory   *)
(* goes.                                                                   *)
DeinitOK ==
    /\ pc \in {"stop", "exited"} => Stopping
    /\ deinit \notin {"idle", "joining"} => pc = "exited"
    /\ gone <=> (Closed /\ outstanding = 0)
    /\ ~misused

(* The inductive invariant. *)
IInv == TypeOK /\ CountOK /\ OwnerOK /\ DeinitOK /\ ChunksHaveReader

-----------------------------------------------------------------------------
(* A transfer or completion that changes hands keeps its reservation. *)
LEMMA StaysHeld ==
    ASSUME TypeOK, CountOK, NEW id \in Ids, NEW p \in HeldPlaces, Move(id, p),
           place[id] \in HeldPlaces, outstanding' = outstanding
    PROVE  CountOK'
<1>1. Held' = Held
  BY Zenon DEF TypeOK, Move, Held
<1>. QED BY <1>1, Zenon DEF CountOK

(* A reservation below the limit adds one id. *)
LEMMA BecomesHeld ==
    ASSUME TypeOK, CountOK, NEW id \in Ids, NEW p \in HeldPlaces, Move(id, p),
           place[id] \notin HeldPlaces, outstanding # Limit, outstanding' = outstanding + 1
    PROVE  CountOK'
<1>1. Held' = Held \union {id} /\ id \notin Held
  BY Zenon DEF TypeOK, Move, Held
<1>2. IsFiniteSet(Held') /\ Cardinality(Held') = Cardinality(Held) + 1
  BY <1>1, FS_AddElement, Zenon DEF CountOK
<1>. QED BY <1>2, FS_CardinalityType, TransportAssumption DEF CountOK

(* While an id is held the counter is not zero, so the client exists. *)
LEMMA HeldCounts == ASSUME CountOK, NEW id \in Held PROVE outstanding \in Nat \ {0}
  BY FS_EmptySet, FS_CardinalityType, Zenon DEF CountOK

(* A release takes one id away. *)
LEMMA IsReleased ==
    ASSUME TypeOK, CountOK, NEW id \in Ids, Move(id, "returned"),
           place[id] \in HeldPlaces, outstanding' = outstanding - 1
    PROVE  CountOK' /\ outstanding \in Nat \ {0}
<1>1. Held' = Held \ {id} /\ id \in Held
  BY Zenon DEF TypeOK, Move, Held, HeldPlaces
<1>2. IsFiniteSet(Held') /\ Cardinality(Held') = Cardinality(Held) - 1
  BY <1>1, FS_RemoveElement, Zenon DEF CountOK
<1>3. outstanding \in Nat \ {0}
  BY <1>1, HeldCounts, Zenon
<1>. QED BY <1>2, <1>3, TransportAssumption DEF CountOK

(* Steps that move nothing. *)
LEMMA CountUnchanged ==
    ASSUME CountOK, UNCHANGED <<place, outstanding>> PROVE CountOK'
<1>1. Held' = Held
  BY Zenon DEF Held
<1>. QED BY <1>1, Zenon DEF CountOK

(* The parts of the invariant beside the count, which the lemmas above     *)
(* take care of.                                                           *)
Shape == TypeOK /\ OwnerOK /\ DeinitOK /\ ChunksHaveReader

(* For an id in the client's hands the client was not destroyed. *)
LEMMA HeldExists ==
    ASSUME IInv, NEW id \in Ids, place[id] \in HeldPlaces
    PROVE  outstanding \in Nat \ {0} /\ ~gone
  BY HeldCounts, Zenon DEF IInv, DeinitOK, Held

(* Giving a reservation back: the memory goes exactly with the last one    *)
(* after closing.                                                          *)
LEMMA ReleaseKeeps ==
    ASSUME IInv, NEW id \in Ids, place[id] \in {"refused", "disposing", "completed"},
           Move(id, "returned"), ReleaseReservation, UNCHANGED <<pc, deinit>>
    PROVE  CountOK' /\ DeinitOK'
<1>1. place[id] \in HeldPlaces /\ outstanding \in Nat \ {0} /\ ~gone
  BY HeldExists, Zenon DEF HeldPlaces
<1>2. CountOK'
  BY <1>1, IsReleased, Zenon DEF IInv, ReleaseReservation
<1>3. gone' <=> (Closed' /\ outstanding' = 0)
  <2>1. gone' <=> (Closed /\ outstanding = 1)
    BY <1>1, Zenon DEF ReleaseReservation
  <2>2. outstanding' = 0 <=> outstanding = 1
    BY <1>1 DEF ReleaseReservation
  <2>3. Closed' <=> Closed
    BY Zenon DEF Closed
  <2>. QED BY <2>1, <2>2, <2>3, Zenon
<1>4. ~misused'
  BY ZenonT(60), <1>1 DEF IInv, DeinitOK, ReleaseReservation, Touch
<1>. QED BY <1>2, <1>3, <1>4, Zenon DEF IInv, DeinitOK, Stopping

-----------------------------------------------------------------------------
(* What callers and consumers do, on any thread and as late as they like. *)
LEMMA CallersKeep ==
    ASSUME IInv, CallerStep \/ \E id \in Ids : Expire(id) PROVE IInv'
<1> USE TransportAssumption
        DEF IInv, Shape, TypeOK, OwnerOK, DeinitOK, ChunksHaveReader, In, HeldPlaces,
            Stopping, Closed, Freed, Touch, Move, owner
<1>1. ASSUME NEW id \in Ids, Reserve(id) PROVE IInv'
  <2>1. CountOK'
    BY <1>1, BecomesHeld, Zenon DEF Reserve
  <2>2. Shape'
    BY <1>1 DEF Reserve
  <2>. QED BY <2>1, <2>2, Zenon
<1>2. ASSUME NEW id \in Ids, Enqueue(id) PROVE IInv'
  <2>1. CountOK'
    BY <1>2, StaysHeld, Zenon DEF Enqueue
  <2>2. Shape'
    BY <1>2, Zenon DEF Enqueue
  <2>. QED BY <2>1, <2>2, Zenon
<1>3. ASSUME NEW id \in Ids, Refuse(id) PROVE IInv'
  <2>1. CountOK'
    BY <1>3, StaysHeld, Zenon DEF Refuse
  <2>2. Shape'
    BY <1>3, HeldExists DEF Refuse
  <2>. QED BY <2>1, <2>2, Zenon
<1>4. ASSUME NEW id \in Ids, ReleaseRefused(id) PROVE IInv'
  <2>1. CountOK' /\ DeinitOK'
    BY <1>4, ReleaseKeeps, Zenon DEF ReleaseRefused
  <2>2. TypeOK' /\ OwnerOK' /\ ChunksHaveReader'
    BY <1>4, HeldExists DEF ReleaseRefused, ReleaseReservation
  <2>. QED BY <2>1, <2>2, Zenon
<1>5. ASSUME NEW id \in Ids, Cancel(id) PROVE IInv'
  <2>1. CountOK'
    BY <1>5, CountUnchanged, Zenon DEF Cancel
  <2>2. Shape'
    BY <1>5 DEF Cancel, Known
  <2>. QED BY <2>1, <2>2, Zenon
<1>6. ASSUME NEW id \in Ids, Poll(id) PROVE IInv'
  <2>1. CountOK'
    BY <1>6, StaysHeld, Zenon DEF Poll
  <2>2. Shape'
    BY <1>6, HeldExists DEF Poll
  <2>. QED BY <2>1, <2>2, Zenon
<1>7. ASSUME NEW id \in Ids, Abandon(id) PROVE IInv'
  <2>1. CountOK'
    BY <1>7, CountUnchanged, Zenon DEF Abandon
  <2>2. Shape'
    BY <1>7, Zenon DEF Abandon, DiscardChunks, Without, Known
  <2>. QED BY <2>1, <2>2, Zenon
<1>8. ASSUME NEW id \in Ids, Dispose(id) PROVE IInv'
  <2>1. CountOK'
    BY <1>8, StaysHeld, Zenon DEF Dispose
  <2>2. Shape'
    BY <1>8, HeldExists DEF Dispose, DiscardChunks, Without
  <2>. QED BY <2>1, <2>2, Zenon
<1>9. ASSUME NEW id \in Ids, ReleaseDisposed(id) PROVE IInv'
  <2>1. CountOK' /\ DeinitOK'
    BY <1>9, ReleaseKeeps, Zenon DEF ReleaseDisposed
  <2>2. TypeOK' /\ OwnerOK' /\ ChunksHaveReader'
    BY <1>9, HeldExists DEF ReleaseDisposed, ReleaseReservation
  <2>. QED BY <2>1, <2>2, Zenon
<1>10. ASSUME NEW id \in Ids, Expire(id) PROVE IInv'
  <2>1. CountOK'
    BY <1>10, CountUnchanged, Zenon DEF Expire
  <2>2. Shape'
    BY <1>10, Zenon DEF Expire
  <2>. QED BY <2>1, <2>2, Zenon
<1>11. ASSUME NEW cell \in Cells, PollChunk(cell) PROVE IInv'
  <2>1. CountOK'
    BY <1>11, CountUnchanged, Zenon DEF PollChunk
  <2>2. Shape'
    BY <1>11 DEF PollChunk
  <2>. QED BY <2>1, <2>2, Zenon
<1>. QED BY <1>1, <1>2, <1>3, <1>4, <1>5, <1>6, <1>7, <1>8, <1>9, <1>10, <1>11, Zenon
         DEF CallerStep, SubmitStep

(* What the owner thread does: it finds the transfers of its loops where it *)
(* left them, and it is not there any more when deinit frees the handle.   *)
LEMMA OwnerKeeps ==
    ASSUME IInv, OwnerStep PROVE IInv'
<1> USE TransportAssumption
        DEF IInv, Shape, TypeOK, OwnerOK, DeinitOK, ChunksHaveReader, In, HeldPlaces,
            Stopping, Closed, Freed, Touch, Move, owner
<1>1. CASE Check
  <2>1. CountOK'
    BY <1>1, CountUnchanged, Zenon DEF Check, Step, Goto
  <2>2. Shape'
    BY <1>1 DEF Check, Step, Goto
  <2>. QED BY <2>1, <2>2, Zenon
<1>2. CASE ProcessCancel
  <2>1. PICK id \in cancels :
            \/ place[id] \in {"active", "queued"} /\ Move(id, "completed")
            \/ UNCHANGED place
    BY <1>2, Zenon DEF ProcessCancel
  <2>2. CountOK'
    BY <1>2, <2>1, StaysHeld, CountUnchanged, Zenon DEF ProcessCancel
  <2>3. Shape'
    BY <1>2 DEF ProcessCancel, Without
  <2>. QED BY <2>2, <2>3, Zenon
<1>3. CASE NoMoreCancels
  <2>1. CountOK'
    BY <1>3, CountUnchanged, Zenon DEF NoMoreCancels, Step, Goto
  <2>2. Shape'
    BY <1>3 DEF NoMoreCancels, Step, Goto
  <2>. QED BY <2>1, <2>2, Zenon
<1>4. CASE NoMoreStarts
  <2>1. CountOK'
    BY <1>4, CountUnchanged, Zenon DEF NoMoreStarts, Step, Goto
  <2>2. Shape'
    BY <1>4 DEF NoMoreStarts, Step, Goto
  <2>. QED BY <2>1, <2>2, Zenon
<1>5. CASE NoMoreToTend
  <2>1. CountOK'
    BY <1>5, CountUnchanged, Zenon DEF NoMoreToTend, Step, Goto
  <2>2. Shape'
    BY <1>5 DEF NoMoreToTend, Step, Goto
  <2>. QED BY <2>1, <2>2, Zenon
<1>6. CASE MultiFails
  <2>1. CountOK'
    BY <1>6, CountUnchanged, Zenon DEF MultiFails, Step, Goto
  <2>2. Shape'
    BY <1>6 DEF MultiFails, Step, Goto
  <2>. QED BY <2>1, <2>2, Zenon
<1>7. CASE EndOfRound
  <2>1. CountOK'
    BY <1>7, CountUnchanged, Zenon DEF EndOfRound, Step, Goto
  <2>2. Shape'
    BY <1>7 DEF EndOfRound, Step, Goto
  <2>. QED BY <2>1, <2>2, Zenon
<1>8. CASE Exit
  <2>1. CountOK'
    BY <1>8, CountUnchanged, Zenon DEF Exit, Step, Goto
  <2>2. Shape'
    BY <1>8 DEF Exit, Step, Goto
  <2>. QED BY <2>1, <2>2, Zenon
<1>9. ASSUME NEW id \in Ids, TakeStart(id) PROVE IInv'
  <2>1. CountOK'
    BY ZenonT(60), <1>9, StaysHeld DEF TakeStart, Goto
  <2>2. Shape'
    BY SMTT(60), <1>9, HeldExists DEF TakeStart, Goto
  <2>. QED BY <2>1, <2>2, Zenon
<1>10. ASSUME NEW id \in Ids, Start(id) PROVE IInv'
  <2>1. CountOK'
    BY SMTT(60), <1>10, StaysHeld DEF Start, Fail, Goto
  <2>2. Shape'
    BY SMTT(60), <1>10, HeldExists DEF Start, Fail, Goto, Without
  <2>. QED BY <2>1, <2>2, Zenon
<1>11. ASSUME NEW id \in Ids, Tend(id) PROVE IInv'
  <2>1. CountOK'
    BY SMTT(60), <1>11, StaysHeld, CountUnchanged DEF Tend, Fail, Goto
  <2>2. Shape'
    BY SMTT(90), <1>11, HeldExists DEF Tend, Fail, Goto, Without
  <2>. QED BY <2>1, <2>2, Zenon
<1>12. ASSUME NEW id \in Ids, Perform(id) PROVE IInv'
  <2>1. CountOK'
    BY SMTT(60), <1>12, StaysHeld, CountUnchanged DEF Perform, Write, Respond, Fail, Goto
  <2>2. Shape'
    <3>1. CASE Write(id)
      BY SMTT(90), <1>12, <3>1, HeldExists DEF Perform, Write, Goto, RingFull
    <3>2. CASE Respond(id)
      BY SMTT(90), <1>12, <3>2, HeldExists DEF Perform, Respond, Goto
    <3>3. CASE Fail(id)
      BY SMTT(90), <1>12, <3>3, HeldExists DEF Perform, Fail, Goto, Without
    <3>4. CASE UNCHANGED <<place, failed, chunks, paused, cancels, expired, outstanding, deinit, gone>>
               /\ Touch(TRUE)
      BY SMTT(90), <1>12, <3>4 DEF Perform, Goto
    <3>. QED BY <1>12, <3>1, <3>2, <3>3, <3>4, Zenon DEF Perform
  <2>. QED BY <2>1, <2>2, Zenon
<1>13. ASSUME NEW id \in Ids, CancelActive(id) PROVE IInv'
  <2>1. CountOK'
    BY ZenonT(60), <1>13, StaysHeld DEF CancelActive, Fail, Goto
  <2>2. Shape'
    BY SMTT(90), <1>13, HeldExists DEF CancelActive, Fail, Goto, Without
  <2>. QED BY <2>1, <2>2, Zenon
<1>14. ASSUME NEW id \in Ids, Drain(id) PROVE IInv'
  <2>1. CountOK'
    BY ZenonT(60), <1>14, StaysHeld DEF Drain, Fail
  <2>2. Shape'
    BY SMTT(60), <1>14, HeldExists DEF Drain, Fail, Without
  <2>. QED BY <2>1, <2>2, Zenon
<1>. QED BY <1>1, <1>2, <1>3, <1>4, <1>5, <1>6, <1>7, <1>8, <1>9, <1>10, <1>11,
            <1>12, <1>13, <1>14, Zenon
         DEF OwnerStep

(* What deinit does, in its order. *)
LEMMA DeinitKeeps ==
    ASSUME IInv, Stop \/ DeinitStep PROVE IInv'
<1> USE TransportAssumption
        DEF IInv, Shape, TypeOK, OwnerOK, DeinitOK, ChunksHaveReader, In, HeldPlaces,
            Stopping, Closed, Freed, Touch, Move, owner
<1>1. CASE Stop
  <2>1. CountOK'
    BY <1>1, CountUnchanged, Zenon DEF Stop
  <2>2. Shape'
    BY <1>1, Zenon DEF Stop
  <2>. QED BY <2>1, <2>2, Zenon
<1>2. CASE Join
  <2>1. CountOK'
    BY <1>2, CountUnchanged, Zenon DEF Join
  <2>2. Shape'
    BY <1>2, Zenon DEF Join
  <2>. QED BY <2>1, <2>2, Zenon
<1>3. CASE FreeMulti
  <2>1. CountOK'
    BY <1>3, CountUnchanged, Zenon DEF FreeMulti
  <2>2. Shape'
    BY SMTT(90), <1>3 DEF FreeMulti
  <2>. QED BY <2>1, <2>2, Zenon
<1>4. CASE Close
  <2>1. CountOK'
    BY <1>4, CountUnchanged, Zenon DEF Close
  <2>2. Shape'
    BY ZenonT(90), <1>4 DEF Close
  <2>. QED BY <2>1, <2>2, Zenon
<1>5. ASSUME NEW id \in Ids, DisposeResult(id) PROVE IInv'
  <2>1. CountOK' /\ DeinitOK'
    BY <1>5, ReleaseKeeps, Zenon DEF DisposeResult
  <2>2. TypeOK' /\ OwnerOK' /\ ChunksHaveReader'
    BY SMTT(90), <1>5, HeldExists DEF DisposeResult, Without, ReleaseReservation
  <2>. QED BY <2>1, <2>2, Zenon
<1>. QED BY <1>1, <1>2, <1>3, <1>4, <1>5, Zenon DEF DeinitStep

(* Every step keeps the invariant. *)
LEMMA NextKeeps == IInv /\ [Next]_vars => IInv'
<1> SUFFICES ASSUME IInv, [Next]_vars PROVE IInv'
  BY Zenon
<1>1. CASE UNCHANGED vars
  <2>1. CountOK'
    BY <1>1, CountUnchanged, Zenon DEF IInv, vars
  <2>. QED BY SMTT(90), <1>1, <2>1 DEF IInv, vars, TypeOK, OwnerOK, DeinitOK, ChunksHaveReader, In,
                             Stopping, Closed
<1>. QED BY <1>1, CallersKeep, OwnerKeeps, DeinitKeeps, Zenon DEF Next

(* At first nothing is reserved. *)
LEMMA InitKeeps == Init => IInv
<1> SUFFICES ASSUME Init PROVE IInv
  BY Zenon
<1>1. Held = {}
  BY Zenon DEF Init, Held, HeldPlaces
<1>2. CountOK
  BY <1>1, FS_EmptySet, TransportAssumption DEF CountOK, Init
<1>3. TypeOK /\ ChunksHaveReader
  <2>1. outstanding \in Nat /\ turns \in 0..Limit
    BY TransportAssumption DEF Init
  <2>. QED BY <2>1, Zenon DEF Init, TypeOK, ChunksHaveReader, HeldPlaces
<1>4. OwnerOK
  BY Zenon DEF Init, OwnerOK, In
<1>5. DeinitOK
  BY Zenon DEF Init, DeinitOK, Stopping, Closed
<1>. QED BY <1>2, <1>3, <1>4, <1>5, Zenon DEF IInv

(* The invariant holds throughout. *)
LEMMA Invariant == Spec => []IInv
  BY InitKeeps, NextKeeps, PTL DEF Spec

-----------------------------------------------------------------------------
(* The reservation counter is the number of requests between reservation   *)
(* and release, and never exceeds Limit, for any number of callers.        *)
THEOREM CounterIsExact == Spec => []CounterCoversRings
<1>1. IInv => CounterCoversRings
  BY Zenon DEF IInv, CountOK, CounterCoversRings
<1>. QED BY <1>1, Invariant, PTL

(* Nobody uses the client or its multi handle after it was freed.          *)
THEOREM MemoryIsSafe == Spec => []NeverUsedAfterFree
<1>1. IInv => NeverUsedAfterFree
  BY Zenon DEF IInv, DeinitOK, NeverUsedAfterFree
<1>. QED BY <1>1, Invariant, PTL

(* Every chunk in the shared ring has a transfer or a reader.              *)
THEOREM ChunksAreRead == Spec => []ChunksHaveReader
<1>1. IInv => ChunksHaveReader
  BY Zenon DEF IInv
<1>. QED BY <1>1, Invariant, PTL

-----------------------------------------------------------------------------
(* The refinement.  What a caller sees of an id, and of the client. *)
Seen == [id \in Ids |-> Life(place[id])]

Object == IF gone THEN "gone" ELSE IF Closed THEN "closed" ELSE "open"

(* Moving one id changes what is seen of that id alone. *)
LEMMA MoveSeen ==
    ASSUME TypeOK, NEW id \in Ids, NEW p, Move(id, p)
    PROVE  Seen' = [Seen EXCEPT ![id] = Life(p)]
  BY Zenon DEF TypeOK, Move, Seen

(* A move within one phase of a request's life is not seen. *)
LEMMA UnseenMove ==
    ASSUME TypeOK, NEW id \in Ids, NEW p, Move(id, p), Life(place[id]) = Life(p)
    PROVE  Seen' = Seen
<1>1. Seen[id] = Life(p)
  BY Zenon DEF Seen
<1>. QED BY <1>1, MoveSeen, Zenon DEF Seen

(* The reservations that are out are the ids held. *)
LEMMA OutIsHeld ==
    ASSUME TypeOK
    PROVE  R!Out = Held
  BY Zenon DEF TypeOK, R!Out, Held, HeldPlaces, Life

(* The memory is there while an id is held. *)
LEMMA ObjectExists ==
    ASSUME IInv, NEW id \in Ids, place[id] \in HeldPlaces
    PROVE  Object = IF Closed THEN "closed" ELSE "open"
  BY HeldExists, Zenon DEF Object

(* While a request is accepted the owner thread runs, so nothing is closed. *)
LEMMA AcceptedIsOpen ==
    ASSUME IInv, NEW id \in Ids, place[id] \in {"queued", "starting", "active"}
    PROVE  Object = "open" /\ ~Closed /\ deinit \in {"idle", "joining"}
<1>1. deinit \in {"idle", "joining"}
  BY Zenon DEF IInv, OwnerOK, DeinitOK, In
<1>. QED BY <1>1, ObjectExists, Zenon DEF Closed, HeldPlaces

(* What completes a transfer answers its request. *)
LEMMA CompletesIsAnswer ==
    ASSUME IInv, NEW id \in Ids, place[id] \in {"queued", "starting", "active"},
           Move(id, "completed"), UNCHANGED <<gone, deinit>>
    PROVE  R!Answer(id)
<1>1. Object = "open" /\ Object' = "open"
  BY AcceptedIsOpen, Zenon DEF Object, Closed
<1>2. Seen[id] = "accepted"
  BY Zenon DEF Seen, Life
<1>3. Seen' = [Seen EXCEPT ![id] = "answered"]
  BY MoveSeen, Zenon DEF Life, IInv
<1>. QED BY <1>1, <1>2, <1>3, Zenon DEF R!Answer, Seen, Object

(* What releases a reservation gives it back. *)
LEMMA ReleaseIsGiveBack ==
    ASSUME IInv, NEW id \in Ids, place[id] \in {"refused", "disposing", "completed"},
           Move(id, "returned"), ReleaseReservation, UNCHANGED deinit
    PROVE  R!GiveBack(id)
<1>1. place[id] \in HeldPlaces /\ id \in Held /\ ~gone /\ Object # "gone"
  BY HeldExists, Zenon DEF HeldPlaces, Held, Object
<1>2. Seen[id] \in {"asked", "answered"}
  BY Zenon DEF Seen, Life
<1>3. Seen' = [Seen EXCEPT ![id] = "returned"]
  BY MoveSeen DEF Life, IInv
<1>4. outstanding = 1 <=> R!Out = {id}
  <2>1. outstanding = 1 => \E h : Held = {h}
    BY FS_Singleton, Zenon DEF IInv, CountOK
  <2>2. Held = {id} => outstanding = 1
    BY FS_Singleton, Zenon DEF IInv, CountOK
  <2>. QED BY <1>1, <2>1, <2>2, OutIsHeld, Zenon DEF IInv
<1>5. Object' = IF Object = "closed" /\ R!Out = {id} THEN "gone" ELSE Object
  <2>1. gone' <=> (Closed /\ R!Out = {id})
    BY <1>1, <1>4, Zenon DEF ReleaseReservation
  <2>2. Closed' <=> Closed
    BY Zenon DEF Closed
  <2>. QED BY <1>1, <2>1, <2>2, Zenon DEF Object
<1>. QED BY <1>1, <1>2, <1>3, <1>5, Zenon DEF R!GiveBack, Seen, Object

(* A step that nobody sees. *)
LEMMA Unseen ==
    ASSUME Seen' = Seen, UNCHANGED <<gone, deinit>>
    PROVE  UNCHANGED R!vars
  BY Zenon DEF R!vars, Seen, Object, Closed

(* Steps of callers. *)
LEMMA CallerRefines ==
    ASSUME IInv, CallerStep \/ \E id \in Ids : Expire(id)
    PROVE  [R!Next]_(R!vars)
<1> USE DEF IInv
<1>1. ASSUME NEW id \in Ids, Reserve(id) PROVE R!Ask(id)
  <2>1. Object = "open" /\ Object' = "open"
    BY <1>1, Zenon DEF Reserve, DeinitOK, Object, Closed, Stopping
  <2>2. Seen[id] = "new" /\ Seen' = [Seen EXCEPT ![id] = "asked"]
    BY <1>1, MoveSeen, Zenon DEF Reserve, Seen, Life
  <2>3. R!Cardinality(R!Out) < Limit
    <3>1. Cardinality(R!Out) < Limit
      BY <1>1, OutIsHeld, TransportAssumption DEF Reserve, CountOK, TypeOK
    <3>2. R!Cardinality(R!Out) = Cardinality(R!Out)
      BY Zenon DEF R!Cardinality, Cardinality
    <3>. QED BY <3>1, <3>2, Zenon
  <2>. QED BY <2>1, <2>2, <2>3, Zenon DEF R!Ask, Seen, Object
<1>2. ASSUME NEW id \in Ids, Enqueue(id) PROVE R!Accept(id)
  <2>1. Object = "open" /\ Object' = "open"
    BY <1>2, ObjectExists, Zenon DEF Enqueue, HeldPlaces, Object, Closed, Stopping
  <2>2. Seen[id] = "asked" /\ Seen' = [Seen EXCEPT ![id] = "accepted"]
    BY <1>2, MoveSeen, Zenon DEF Enqueue, Seen, Life
  <2>. QED BY <2>1, <2>2, Zenon DEF R!Accept, Seen, Object
<1>3. ASSUME NEW id \in Ids, ReleaseRefused(id) \/ ReleaseDisposed(id) PROVE R!GiveBack(id)
  BY <1>3, ReleaseIsGiveBack, Zenon DEF ReleaseRefused, ReleaseDisposed
<1>4. ASSUME NEW id \in Ids, Refuse(id) \/ Poll(id) \/ Dispose(id) PROVE UNCHANGED R!vars
  BY <1>4, UnseenMove, Unseen, Zenon DEF Refuse, Poll, Dispose, Life
<1>5. ASSUME NEW id \in Ids, Cancel(id) \/ Abandon(id) \/ Expire(id) PROVE UNCHANGED R!vars
  BY <1>5, Unseen, Zenon DEF Cancel, Abandon, Expire, Seen
<1>6. ASSUME NEW cell \in Cells, PollChunk(cell) PROVE UNCHANGED R!vars
  BY <1>6, Unseen, Zenon DEF PollChunk, Seen
<1>. QED BY <1>1, <1>2, <1>3, <1>4, <1>5, <1>6, Zenon DEF CallerStep, SubmitStep, R!Next

(* Steps of the owner thread: each answers one accepted request, or is not *)
(* seen.                                                                   *)
LEMMA OwnerRefines ==
    ASSUME IInv, OwnerStep
    PROVE  [R!Next]_(R!vars)
<1> USE DEF IInv
<1>1. CASE Check \/ NoMoreCancels \/ NoMoreStarts \/ NoMoreToTend
           \/ MultiFails \/ EndOfRound \/ Exit
  BY <1>1, Unseen, Zenon DEF Check, NoMoreCancels, NoMoreStarts, NoMoreToTend, MultiFails, EndOfRound,
                      Exit, Step, Seen
<1>2. CASE ProcessCancel
  <2>1. PICK id \in cancels :
            \/ place[id] \in {"active", "queued"} /\ Move(id, "completed")
            \/ UNCHANGED place
    BY <1>2, Zenon DEF ProcessCancel
  <2>2. id \in Ids /\ UNCHANGED <<gone, deinit>>
    BY <1>2, Zenon DEF ProcessCancel, TypeOK
  <2>3. R!Answer(id) \/ UNCHANGED R!vars
    BY <2>1, <2>2, CompletesIsAnswer, Unseen, Zenon DEF Seen
  <2>. QED BY <2>2, <2>3, Zenon DEF R!Next
<1>3. ASSUME NEW id \in Ids, TakeStart(id) PROVE UNCHANGED R!vars
  BY <1>3, UnseenMove, Unseen, Zenon DEF TakeStart, Life
<1>4. ASSUME NEW id \in Ids, Start(id) PROVE R!Answer(id) \/ UNCHANGED R!vars
  <2>1. place[id] = "starting"
    BY <1>4, Zenon DEF Start, OwnerOK, In
  <2>. QED BY <1>4, <2>1, CompletesIsAnswer, UnseenMove, Unseen, Zenon DEF Start, Fail, Life
<1>5. ASSUME NEW id \in Ids, Tend(id) \/ Perform(id) \/ CancelActive(id)
      PROVE  R!Answer(id) \/ UNCHANGED R!vars
  <2>1. place[id] = "active"
    BY <1>5, Zenon DEF Tend, Perform, CancelActive, OwnerOK, In
  <2>2. UNCHANGED <<gone, deinit>> /\ (Move(id, "completed") \/ UNCHANGED place)
    BY <1>5, Zenon DEF Tend, Perform, CancelActive, Write, Respond, Fail
  <2>. QED BY <2>1, <2>2, CompletesIsAnswer, Unseen, Zenon DEF Seen
<1>6. ASSUME NEW id \in Ids, Drain(id) PROVE R!Answer(id)
  BY <1>6, CompletesIsAnswer, Zenon DEF Drain, Fail
<1>. QED BY <1>1, <1>2, <1>3, <1>4, <1>5, <1>6, Zenon DEF OwnerStep, R!Next

(* Steps of deinit: it closes when no request is accepted any more. *)
LEMMA DeinitRefines ==
    ASSUME IInv, Stop \/ DeinitStep
    PROVE  [R!Next]_(R!vars)
<1> USE DEF IInv
<1>1. CASE Stop \/ Join \/ FreeMulti
  <2>1. ~Closed /\ ~Closed' /\ UNCHANGED <<place, gone>>
    BY <1>1, Zenon DEF Stop, Join, FreeMulti, Closed
  <2>. QED BY <2>1, Zenon DEF R!vars
<1>2. ASSUME NEW id \in Ids, DisposeResult(id) PROVE R!GiveBack(id)
  BY <1>2, ReleaseIsGiveBack, Zenon DEF DisposeResult
<1>3. CASE Close
  <2>1. Object = "open" /\ UNCHANGED place
    BY <1>3, Zenon DEF Close, DeinitOK, Object, Closed
  <2>2. \A id \in Ids : Seen[id] # "accepted"
    BY <1>3, Zenon DEF Close, DeinitOK, OwnerOK, In, Seen, Life, TypeOK, HeldPlaces
  <2>3. outstanding = 0 <=> R!Out = {}
    BY OutIsHeld, FS_EmptySet, Zenon DEF CountOK
  <2>4. Object' = IF R!Out = {} THEN "gone" ELSE "closed"
    <3>1. gone' <=> R!Out = {}
      BY <1>3, <2>3, Zenon DEF Close, DeinitOK, Closed
    <3>2. Closed'
      BY <1>3, Zenon DEF Close, Closed
    <3>. QED BY <3>1, <3>2, Zenon DEF Object
  <2>5. R!Close
    BY <2>1, <2>2, <2>4, Zenon DEF R!Close, Seen, Object
  <2>. QED BY <2>5, Zenon DEF R!Next
<1>. QED BY <1>1, <1>2, <1>3, Zenon DEF DeinitStep, R!Next

(* The client implements the abstract reservations: an accepted request is *)
(* answered exactly once by whichever of cancel, deadline, network and     *)
(* shutdown gets to it, and the memory goes with the last reservation.     *)
THEOREM TransportRefines == Spec => ImplementsReservations
<1>1. Init => R!Init
  BY Zenon DEF Init, R!Init, Life, Closed
<1>2. IInv /\ [Next]_vars => [R!Next]_(R!vars)
  <2>1. UNCHANGED vars => UNCHANGED R!vars
    BY DEF vars, R!vars, Closed
  <2>. QED BY <2>1, CallerRefines, OwnerRefines, DeinitRefines, Zenon DEF Next
<1>. QED BY <1>1, <1>2, Invariant, PTL DEF Spec, ImplementsReservations, R!Spec
=============================================================================
