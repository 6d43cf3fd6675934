------------------------------ MODULE OnceOnly ------------------------------
(***************************************************************************)
(* What the mutation ledger promises to a client that repeats an operation *)
(* id: its effect happens at most once, success is reported only for an    *)
(* effect that happened, and every success report carries the same result. *)
(***************************************************************************)
EXTENDS Naturals

CONSTANTS Ids, Results

VARIABLES
    performed,  \* how often the effect of an operation id happened
    answers     \* the results reported as success for an operation id

vars == <<performed, answers>>

Init ==
    /\ performed = [id \in Ids |-> 0]
    /\ answers = [id \in Ids |-> {}]

Perform(id) ==
    /\ performed[id] = 0
    /\ performed' = [performed EXCEPT ![id] = 1]
    /\ UNCHANGED answers

Answer(id, result) ==
    /\ performed[id] = 1
    /\ answers[id] \subseteq {result}
    /\ answers' = [answers EXCEPT ![id] = {result}]
    /\ UNCHANGED performed

PerformAndAnswer(id, result) ==
    /\ performed[id] = 0 /\ answers[id] = {}
    /\ performed' = [performed EXCEPT ![id] = 1]
    /\ answers' = [answers EXCEPT ![id] = {result}]

Next ==
    \E id \in Ids :
        \/ Perform(id)
        \/ \E result \in Results : Answer(id, result) \/ PerformAndAnswer(id, result)

Spec == Init /\ [][Next]_vars
=============================================================================
