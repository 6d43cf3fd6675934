---------------------------- MODULE Reservations ----------------------------
(***************************************************************************)
(* What the transport client promises its callers: at most Limit           *)
(* reservations are out at a time, an accepted request is answered exactly *)
(* once and only then given back, and the client's memory goes away once,  *)
(* after it was closed and the last reservation came back.                 *)
(***************************************************************************)
EXTENDS Naturals, FiniteSets

CONSTANTS Ids, Limit

VARIABLES
    life,   \* where each request is in its life
    owner   \* the object that counts the reservations

vars == <<life, owner>>

Out == {id \in Ids : life[id] \in {"asked", "accepted", "answered"}}

Init ==
    /\ life = [id \in Ids |-> "new"]
    /\ owner = "open"

Ask(id) ==
    /\ owner = "open" /\ life[id] = "new"
    /\ Cardinality(Out) < Limit
    /\ life' = [life EXCEPT ![id] = "asked"]
    /\ UNCHANGED owner

Accept(id) ==
    /\ owner = "open" /\ life[id] = "asked"
    /\ life' = [life EXCEPT ![id] = "accepted"]
    /\ UNCHANGED owner

Answer(id) ==
    /\ owner = "open" /\ life[id] = "accepted"
    /\ life' = [life EXCEPT ![id] = "answered"]
    /\ UNCHANGED owner

(* A refused request or an answered one gives its reservation back; the    *)
(* last one to come back after closing takes the owner with it.            *)
GiveBack(id) ==
    /\ owner # "gone" /\ life[id] \in {"asked", "answered"}
    /\ life' = [life EXCEPT ![id] = "returned"]
    /\ owner' = IF owner = "closed" /\ Out = {id} THEN "gone" ELSE owner

Close ==
    /\ owner = "open"
    /\ \A id \in Ids : life[id] # "accepted"
    /\ owner' = IF Out = {} THEN "gone" ELSE "closed"
    /\ UNCHANGED life

Next ==
    \/ \E id \in Ids : Ask(id) \/ Accept(id) \/ Answer(id) \/ GiveBack(id)
    \/ Close

Spec == Init /\ [][Next]_vars
=============================================================================
