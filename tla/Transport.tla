----------------------------- MODULE Transport -----------------------------
(***************************************************************************)
(* The network client (transport.zig): callers on any thread, one owner    *)
(* thread that alone drives libcurl, and deinit, which may run while       *)
(* submits are in progress and while consumers still hold results.         *)
(*                                                                         *)
(* A transfer is one pointer that submit, the rings, the slots and the     *)
(* owner thread hand on, so its place is one value per id.  A step is one  *)
(* locked section, or work of the owner thread that nobody else sees.      *)
(* The order within a ring is left open: any member may come out next.     *)
(***************************************************************************)
EXTENDS Naturals, FiniteSets

CONSTANTS
    Ids,         \* request ids; each is given out once
    Streaming,   \* the requests whose response arrives in chunks
    Limit,       \* Limits.outstanding
    Concurrent,  \* Limits.concurrent
    Cells,       \* the cells of the chunk ring
    None         \* an empty cell

ASSUME TransportAssumption ==
    /\ Streaming \subseteq Ids /\ None \notin Ids
    /\ Limit \in Nat \ {0} /\ Concurrent \in Nat \ {0}

VARIABLES
    place,        \* where the transfer or the completion of an id is
    failed,       \* completions that carry a failure
    chunks,       \* whose bytes each cell of the chunk ring holds
    paused,       \* active transfers that met a full chunk ring
    cancels,      \* the ids in the cancel ring; a second entry of an id does nothing
    expired,      \* transfers whose deadline has passed
    outstanding,  \* the reservation counter
    pc,           \* where the owner thread is in its loop
    todo,         \* the transfers the owner's current loop has yet to visit
    turns,        \* how many cancels processCancels may still take this round
    deinit,       \* how far deinit has come
    gone,         \* the client's memory was given back
    misused       \* freed memory or a freed multi handle was used

vars == <<place, failed, chunks, paused, cancels, expired, outstanding,
          pc, todo, turns, deinit, gone, misused>>

In(p) == {id \in Ids : place[id] = p}

(* Between the reservation of an id and its release. *)
HeldPlaces ==
    {"reserved", "refused", "queued", "starting", "active", "completed", "taken", "disposing"}

Held == {id \in Ids : place[id] \in HeldPlaces}

Stopping == deinit # "idle"

Closed == deinit = "closed"

Freed == deinit \in {"freed", "closed"}

(* A step that reads or writes the client; wake when it also calls         *)
(* curl_multi_wakeup or, on the owner thread, another multi function.      *)
Touch(wake) == misused' = (misused \/ gone \/ (wake /\ Freed))

Move(id, p) == place' = [place EXCEPT ![id] = p]

Without(id) == [cell \in Cells |-> IF chunks[cell] = id THEN None ELSE chunks[cell]]

(* Mutation of DiscardChunks: the owner is woken even while it shuts down. *)
DiscardChunksAlwaysWaking(id) == chunks' = Without(id) /\ Touch(TRUE)

(* discardChunks *)
DiscardChunks(id) == chunks' = Without(id) /\ Touch(~Stopping)

(* Mutation of ReleaseReservation: nobody looks whether it was the last.   *)
ReleaseReservationOnly ==
    /\ outstanding' = outstanding - 1
    /\ Touch(FALSE)
    /\ UNCHANGED gone

(* releaseReservation: the last one after closing destroys the client. *)
ReleaseReservation ==
    /\ outstanding' = outstanding - 1
    /\ gone' = (gone \/ (Closed /\ outstanding = 1))
    /\ Touch(FALSE)

-----------------------------------------------------------------------------
Init ==
    /\ place = [id \in Ids |-> "unused"]
    /\ failed = {} /\ paused = {} /\ cancels = {} /\ expired = {} /\ todo = {}
    /\ chunks = [cell \in Cells |-> None]
    /\ outstanding = 0 /\ turns = 0
    /\ pc = "check" /\ deinit = "idle"
    /\ gone = FALSE /\ misused = FALSE

owner == <<pc, todo, turns>>

(* Mutation of Reserve: the limit is not looked at. *)
ReserveUnbounded(id) ==
    /\ place[id] = "unused"
    /\ ~Stopping
    /\ Move(id, "reserved")
    /\ outstanding' = outstanding + 1
    /\ Touch(FALSE)
    /\ UNCHANGED <<failed, chunks, paused, cancels, expired, owner, deinit, gone>>

(* submit, first locked section.  Stopping, Backpressure and IdExhausted   *)
(* return an error and change nothing.                                     *)
Reserve(id) ==
    /\ place[id] = "unused"
    /\ ~Stopping /\ outstanding # Limit
    /\ Move(id, "reserved")
    /\ outstanding' = outstanding + 1
    /\ Touch(FALSE)
    /\ UNCHANGED <<failed, chunks, paused, cancels, expired, owner, deinit, gone>>

(* submit copied the request and creates the transfer, second section. *)
Enqueue(id) ==
    /\ place[id] = "reserved" /\ ~Stopping
    /\ Move(id, "queued")
    /\ Touch(TRUE)
    /\ UNCHANGED <<failed, chunks, paused, cancels, expired, outstanding, owner, deinit, gone>>

(* An allocation failed, or the second section finds the client stopping:  *)
(* the error leaves the section before the reservation is released.        *)
Refuse(id) ==
    /\ place[id] = "reserved"
    /\ Move(id, "refused")
    /\ Touch(FALSE)
    /\ UNCHANGED <<failed, chunks, paused, cancels, expired, outstanding, owner, deinit, gone>>

ReleaseRefused(id) ==
    /\ place[id] = "refused"
    /\ Move(id, "returned")
    /\ ReleaseReservation
    /\ UNCHANGED <<failed, chunks, paused, cancels, expired, owner, deinit>>

(* The ids a caller has been given. *)
Known == Ids \ (In("unused") \union In("reserved") \union In("refused"))

(* cancel, also of an id that completed long ago. *)
Cancel(id) ==
    /\ id \in Known
    /\ ~Stopping /\ Cardinality(cancels) < Limit
    /\ cancels' = cancels \union {id}
    /\ Touch(TRUE)
    /\ UNCHANGED <<place, failed, chunks, paused, expired, outstanding, owner, deinit, gone>>

(* poll *)
Poll(id) ==
    /\ ~Closed /\ place[id] = "completed"
    /\ Move(id, "taken")
    /\ Touch(FALSE)
    /\ UNCHANGED <<failed, chunks, paused, cancels, expired, outstanding, owner, deinit, gone>>

(* pollChunk *)
PollChunk(cell) ==
    /\ ~Closed /\ chunks[cell] # None
    /\ chunks' = [chunks EXCEPT ![cell] = None]
    /\ Touch(~Stopping)
    /\ UNCHANGED <<place, failed, paused, cancels, expired, outstanding, owner, deinit, gone>>

(* The second half of abandon, or discardChunks called for its own sake. *)
Abandon(id) ==
    /\ id \in Known /\ ~Stopping
    /\ DiscardChunks(id)
    /\ UNCHANGED <<place, failed, paused, cancels, expired, outstanding, owner, deinit, gone>>

(* Completion.deinit: releaseCompletion drops the unread chunks first ... *)
Dispose(id) ==
    /\ place[id] = "taken"
    /\ Move(id, "disposing")
    /\ DiscardChunks(id)
    /\ UNCHANGED <<failed, paused, cancels, expired, outstanding, owner, deinit, gone>>

(* ... and then the reservation. *)
ReleaseDisposed(id) ==
    /\ place[id] = "disposing"
    /\ Move(id, "returned")
    /\ failed' = failed \ {id}
    /\ ReleaseReservation
    /\ UNCHANGED <<chunks, paused, cancels, expired, owner, deinit>>

(* The monotonic clock reaches the deadline of a transfer. *)
Expire(id) ==
    /\ place[id] \in {"queued", "starting", "active"}
    /\ id \notin expired
    /\ expired' = expired \union {id}
    /\ UNCHANGED <<place, failed, chunks, paused, cancels, outstanding, owner, deinit, gone, misused>>

-----------------------------------------------------------------------------
(* The owner thread. *)

Goto(label, visit) == pc' = label /\ todo' = visit /\ turns' = 0

(* Mutation of Fail: a failed stream keeps what it had buffered. *)
FailKeepingChunks(id) ==
    /\ Move(id, "completed")
    /\ failed' = failed \union {id}
    /\ paused' = paused \ {id} /\ expired' = expired \ {id}
    /\ Touch(TRUE)
    /\ UNCHANGED <<chunks, cancels, outstanding, deinit, gone>>

(* complete with a failure, after the slot was cleared: what the stream    *)
(* had buffered goes, and the completion enters the results.               *)
Fail(id) ==
    /\ Move(id, "completed")
    /\ failed' = failed \union {id}
    /\ paused' = paused \ {id} /\ expired' = expired \ {id}
    /\ chunks' = Without(id)
    /\ Touch(TRUE)
    /\ UNCHANGED <<cancels, outstanding, deinit, gone>>

Respond(id) ==
    /\ Move(id, "completed")
    /\ paused' = paused \ {id} /\ expired' = expired \ {id}
    /\ Touch(TRUE)
    /\ UNCHANGED <<failed, chunks, cancels, outstanding, deinit, gone>>

Step(label, visit) ==
    /\ Goto(label, visit)
    /\ Touch(TRUE)
    /\ UNCHANGED <<place, failed, chunks, paused, cancels, expired, outstanding, deinit, gone>>

(* The head of the loop: stop, or go round once more. *)
Check ==
    /\ pc = "check"
    /\ IF Stopping
       THEN Step("stop", In("active"))
       ELSE /\ pc' = "cancel" /\ turns' = Limit
            /\ Touch(FALSE)
            /\ UNCHANGED <<place, failed, chunks, paused, cancels, expired, outstanding,
                           todo, deinit, gone>>

(* Mutation of ProcessCancel: the loop runs until the ring is empty. *)
ProcessCancelUntilEmpty ==
    /\ pc = "cancel"
    /\ \E id \in cancels :
        /\ cancels' = cancels \ {id}
        /\ IF place[id] \in {"active", "queued"}
           THEN /\ Move(id, "completed")
                /\ failed' = failed \union {id}
                /\ paused' = paused \ {id} /\ expired' = expired \ {id}
                /\ chunks' = Without(id)
           ELSE UNCHANGED <<place, failed, paused, expired, chunks>>
        /\ Touch(TRUE)
        /\ UNCHANGED <<outstanding, owner, deinit, gone>>

(* processCancels takes at most as many ids as the ring has cells: one     *)
(* that is neither active nor queued is dropped.                           *)
ProcessCancel ==
    /\ pc = "cancel" /\ turns > 0
    /\ turns' = turns - 1
    /\ \E id \in cancels :
        /\ cancels' = cancels \ {id}
        /\ IF place[id] \in {"active", "queued"}
           THEN /\ Move(id, "completed")
                /\ failed' = failed \union {id}
                /\ paused' = paused \ {id} /\ expired' = expired \ {id}
                /\ chunks' = Without(id)
           ELSE UNCHANGED <<place, failed, paused, expired, chunks>>
        /\ Touch(TRUE)
        /\ UNCHANGED <<outstanding, pc, todo, deinit, gone>>

NoMoreCancels ==
    /\ pc = "cancel"
    /\ cancels = {} \/ turns = 0
    /\ Step("fill", {})

SlotFree == Cardinality(In("active")) < Concurrent

(* A free slot takes the next transfer out of the start ring. *)
TakeStart(id) ==
    /\ pc = "fill" /\ SlotFree
    /\ place[id] = "queued"
    /\ Move(id, "starting")
    /\ Goto("start", {id})
    /\ Touch(FALSE)
    /\ UNCHANGED <<failed, chunks, paused, cancels, expired, outstanding, deinit, gone>>

(* configure and curl_multi_add_handle; a transfer that cannot be started  *)
(* completes at once and leaves its slot empty until the next round.       *)
Start(id) ==
    /\ pc = "start" /\ id \in todo
    /\ \/ /\ id \notin expired
          /\ Move(id, "active")
          /\ Goto("fill", {})
          /\ Touch(TRUE)
          /\ UNCHANGED <<failed, chunks, paused, cancels, expired, outstanding, deinit, gone>>
       \/ Fail(id) /\ Goto("fill", {})
       \/ Fail(id) /\ Goto("tend", In("active"))

NoMoreStarts ==
    /\ pc = "fill"
    /\ ~SlotFree \/ In("queued") = {}
    /\ Step("tend", In("active"))

RingFull == \A cell \in Cells : chunks[cell] # None

(* The second loop over the slots: the deadline first, then a paused       *)
(* transfer goes on if the chunk ring has room, or fails to.               *)
Tend(id) ==
    /\ pc = "tend" /\ id \in todo
    /\ Goto("tend", todo \ {id})
    /\ \/ id \in expired /\ Fail(id)
       \/ id \notin expired /\ id \in paused /\ ~RingFull /\ Fail(id)
       \/ /\ id \notin expired
          /\ paused' = IF RingFull THEN paused ELSE paused \ {id}
          /\ Touch(TRUE)
          /\ UNCHANGED <<place, failed, chunks, cancels, expired, outstanding, deinit, gone>>

NoMoreToTend ==
    /\ pc = "tend" /\ todo = {}
    /\ Step("perform", In("active") \ paused)

(* writeCallback of a streaming transfer: a chunk, or a pause when the     *)
(* ring is full.                                                           *)
Write(id) ==
    /\ id \in Streaming
    /\ IF RingFull
       THEN paused' = paused \union {id} /\ UNCHANGED chunks
       ELSE /\ \E cell \in Cells :
                /\ chunks[cell] = None
                /\ chunks' = [chunks EXCEPT ![cell] = id]
            /\ UNCHANGED paused
    /\ Touch(TRUE)
    /\ UNCHANGED <<place, failed, cancels, expired, outstanding, deinit, gone>>

(* curl_multi_perform and curl_multi_info_read, one transfer at a time:    *)
(* nothing yet, more bytes, a response, or a failure.                      *)
Perform(id) ==
    /\ pc = "perform" /\ id \in todo
    /\ Goto("perform", todo \ {id})
    /\ \/ Write(id)
       \/ Respond(id)
       \/ Fail(id)
       \/ /\ Touch(TRUE)
          /\ UNCHANGED <<place, failed, chunks, paused, cancels, expired, outstanding, deinit, gone>>

(* curl_multi_perform or curl_multi_poll reports an error: cancelActive. *)
MultiFails ==
    /\ pc = "perform"
    /\ Step("abort", In("active"))

EndOfRound ==
    /\ pc \in {"perform", "abort"} /\ todo = {}
    /\ Step("check", {})

CancelActive(id) ==
    /\ pc \in {"abort", "stop"} /\ id \in todo
    /\ Goto(pc, todo \ {id})
    /\ Fail(id)

(* After the loop: the active transfers, then the queued ones, end. *)
Drain(id) ==
    /\ pc = "stop" /\ todo = {}
    /\ place[id] = "queued"
    /\ Fail(id)
    /\ UNCHANGED owner

Exit ==
    /\ pc = "stop" /\ todo = {} /\ In("queued") = {}
    /\ Step("exited", {})

OwnerStep ==
    \/ Check \/ ProcessCancel \/ NoMoreCancels \/ NoMoreStarts
    \/ NoMoreToTend \/ MultiFails \/ EndOfRound \/ Exit
    \/ \E id \in Ids :
        TakeStart(id) \/ Start(id) \/ Tend(id) \/ Perform(id) \/ CancelActive(id) \/ Drain(id)

-----------------------------------------------------------------------------
(* deinit *)

Stop ==
    /\ deinit = "idle"
    /\ deinit' = "joining"
    /\ Touch(TRUE)
    /\ UNCHANGED <<place, failed, chunks, paused, cancels, expired, outstanding, owner, gone>>

Join ==
    /\ deinit = "joining" /\ pc = "exited"
    /\ deinit' = "draining"
    /\ Touch(FALSE)
    /\ UNCHANGED <<place, failed, chunks, paused, cancels, expired, outstanding, owner, gone>>

(* The poll loop of deinit: what nobody took is disposed of here. *)
DisposeResult(id) ==
    /\ deinit = "draining" /\ place[id] = "completed"
    /\ Move(id, "returned")
    /\ chunks' = Without(id)
    /\ failed' = failed \ {id}
    /\ ReleaseReservation
    /\ UNCHANGED <<paused, cancels, expired, owner, deinit>>

(* The remaining chunks are cleared and the multi handle is freed. *)
FreeMulti ==
    /\ deinit = "draining" /\ In("completed") = {}
    /\ chunks' = [cell \in Cells |-> None]
    /\ deinit' = "freed"
    /\ Touch(TRUE)
    /\ UNCHANGED <<place, failed, paused, cancels, expired, outstanding, owner, gone>>

Close ==
    /\ deinit = "freed"
    /\ deinit' = "closed"
    /\ gone' = (gone \/ outstanding = 0)
    /\ Touch(FALSE)
    /\ UNCHANGED <<place, failed, chunks, paused, cancels, expired, outstanding, owner>>

DeinitStep == Join \/ FreeMulti \/ Close \/ \E id \in Ids : DisposeResult(id)

SubmitStep(id) == Enqueue(id) \/ Refuse(id) \/ ReleaseRefused(id)

CallerStep ==
    \/ \E id \in Ids :
        \/ Reserve(id) \/ SubmitStep(id)
        \/ Cancel(id) \/ Poll(id) \/ Abandon(id) \/ Dispose(id) \/ ReleaseDisposed(id)
    \/ \E cell \in Cells : PollChunk(cell)

Next == CallerStep \/ OwnerStep \/ Stop \/ DeinitStep \/ \E id \in Ids : Expire(id)

(* The owner thread and a deinit that has begun are scheduled, a submit    *)
(* in progress goes on, and time passes.  Nobody need cancel, poll or      *)
(* dispose, the network need not deliver, and deinit need not be called.   *)
Fairness ==
    /\ WF_vars(OwnerStep)
    /\ WF_vars(DeinitStep)
    /\ \A id \in Ids : WF_vars(SubmitStep(id)) /\ WF_vars(Expire(id))

Spec == Init /\ [][Next]_vars /\ Fairness

-----------------------------------------------------------------------------
TypeOK ==
    /\ place \in [Ids -> HeldPlaces \union {"unused", "returned"}]
    /\ chunks \in [Cells -> Ids \union {None}]
    /\ failed \subseteq Ids /\ paused \subseteq Ids /\ cancels \subseteq Ids
    /\ expired \subseteq Ids /\ todo \subseteq Ids
    /\ outstanding \in Nat /\ turns \in 0..Limit
    /\ pc \in {"check", "cancel", "fill", "start", "tend", "perform", "abort", "stop", "exited"}
    /\ deinit \in {"idle", "joining", "draining", "freed", "closed"}
    /\ gone \in BOOLEAN /\ misused \in BOOLEAN

(* The counter is exactly the number of ids between reservation and        *)
(* release and stays within the limit.  Start ring and result ring have    *)
(* Limit cells and hold only such ids, so the asserted pushes of submit,   *)
(* processCancels and complete always find a cell.                         *)
CounterCoversRings ==
    /\ TypeOK
    /\ outstanding = Cardinality(Held)
    /\ outstanding <= Limit

(* No caller, consumer or owner step uses the client after it was          *)
(* destroyed, destroys it again, or wakes a multi handle deinit has freed, *)
(* however late a submit gives up or a consumer disposes of its result.    *)
NeverUsedAfterFree == ~misused

(* A chunk in the ring belongs to a transfer under way or to a response    *)
(* somebody can still read: cancelled, failed and disposed requests leave  *)
(* no bytes behind that would take the shared ring from other streams.     *)
ChunksHaveReader ==
    \A cell \in Cells : chunks[cell] # None =>
        \/ place[chunks[cell]] = "active"
        \/ place[chunks[cell]] \in {"completed", "taken"} /\ chunks[cell] \notin failed

Life(p) ==
    CASE p \in {"reserved", "refused"} -> "asked"
      [] p \in {"queued", "starting", "active"} -> "accepted"
      [] p \in {"completed", "taken", "disposing"} -> "answered"
      [] p = "unused" -> "new"
      [] OTHER -> "returned"

R == INSTANCE Reservations WITH
        life <- [id \in Ids |-> Life(place[id])],
        owner <- IF gone THEN "gone" ELSE IF Closed THEN "closed" ELSE "open"

(* The client implements the abstract reservations: an accepted request is *)
(* answered once, whatever cancel, deadline, network and shutdown race     *)
(* for it, and the memory goes after closing, with the last reservation.   *)
ImplementsReservations == R!Spec

(* Every accepted request comes to its end although callers keep the       *)
(* cancel ring full, readers leave the chunk ring full and the network is  *)
(* silent; and a deinit that has begun gets done.                          *)
EveryTransferEnds ==
    /\ \A id \in Ids : place[id] = "queued" ~> place[id] \in {"completed", "taken", "disposing", "returned"}
    /\ Stopping ~> Closed
=============================================================================
