------------------------------ MODULE Requests ------------------------------
(***************************************************************************)
(* Native requests: the replay ledger (request_authority.zig), the         *)
(* bindings and leases of the domain state (domain.zig) and the handlers   *)
(* adapter.acquire, materialize, report and releaseBinding (engine.zig).   *)
(*                                                                         *)
(* A native application asks for a credential for one request, uses it at  *)
(* a provider and reports what happened.  Replies and reports may be lost, *)
(* deadlines pass, accounts change and the daemon restarts in between; the *)
(* provider must still never be handed a second attempt of a request it    *)
(* may already have accepted.                                              *)
(*                                                                         *)
(* An account has one grant.  Pausing or draining an account and capacity  *)
(* observations only narrow the choice of an account for a new lease; here *)
(* the choice among the accounts whose grant is ready is free.             *)
(***************************************************************************)
EXTENDS Naturals, FiniteSets, FiniteSetsExt

CONSTANTS
    Accounts,
    Keys,           \* application, session and request id of a request
    Bindings,       \* binding ids
    Demands,        \* demand fingerprints
    Capacity,       \* requests the ledger retains
    MaxHandles,     \* bound: lease handles drawn
    MaxImports,     \* bound: grants replaced
    None

Handles == 1..MaxHandles

(* The first and the alternate attempt of a request. *)
Slots == Keys \X {1, 2}

UnresolvedState == {"issued", "accepted", "unknown"}

Events == {"accepted", "completed", "rejected", "abandoned"}

Intents == [binding : Bindings, demand : Demands]

Attempts ==
    [handle : Handles, account : Accounts, sequence : Nat \ {0},
     state : UnresolvedState \union Events, accepted_report : BOOLEAN,
     terminal_report : (Events \ {"accepted"}) \union {None}]

(* A binding and its current route. *)
Routes == [account : Accounts, generation : Nat \ {0}, route : Nat \ {0}, in_flight : Nat]

Leases ==
    [handle : Handles, binding : Bindings, account : Accounts, generation : Nat \ {0}, route : Nat \ {0}]

Grants == [generation : Nat \ {0}, status : {"ready", "invalid", "absent"}]

(* None is no record and no status. *)
ASSUME RequestsAssumption ==
    /\ Capacity \in Nat /\ MaxHandles \in Nat /\ MaxImports \in Nat
    /\ None \notin Intents \union Attempts \union Routes
    /\ None \notin Events \union {"issued", "lost", "known", "exposed", "refused"}

VARIABLES
    saved,    \* the committed snapshot; between handlers the engine's own equals it
    mode,     \* "up", or "down": stopped, or poisoned until it is restarted
    native,   \* the process-local NativeLease of a handle: its status, or None
    drawn,    \* handles drawn so far
    late,     \* handles whose deadline has passed
    world     \* what the application and its provider did with a handle

vars == <<saved, mode, native, drawn, late, world>>

First(k) == <<k, 1>>
Alternate(k) == <<k, 2>>

Issued(s, x) == s.attempts[x] # None

Unresolved(s, x) == Issued(s, x) /\ s.attempts[x].state \in UnresolvedState

HandleOf(s, x) == s.attempts[x].handle

LeasesOf(s, b) == {l \in s.leases : l.binding = b}

-----------------------------------------------------------------------------
(* The parts of validatePersistedAdmission and of the two fromSnapshot     *)
(* functions that relate requests, bindings, leases and credits.           *)

ValidAttempt(a) ==
    /\ a.state = "issued" => ~a.accepted_report /\ a.terminal_report = None
    /\ a.state = "accepted" => a.accepted_report /\ a.terminal_report = None
    /\ a.state = "completed" => a.accepted_report /\ a.terminal_report = "completed"
    /\ a.state = "rejected" => ~a.accepted_report /\ a.terminal_report = "rejected"
    /\ a.state = "abandoned" => a.terminal_report = "abandoned"
    /\ a.state = "unknown" => a.terminal_report = None

ValidLedger(s) ==
    /\ \A x \in Slots : Issued(s, x) => ValidAttempt(s.attempts[x])
    /\ \A k \in Keys : Issued(s, Alternate(k)) =>
          LET a == s.attempts[First(k)]
              b == s.attempts[Alternate(k)]
          IN  /\ Issued(s, First(k)) /\ a.state = "rejected"
              /\ a.account # b.account
              /\ a.sequence < b.sequence
    /\ \A x, y \in Slots : Issued(s, x) /\ Issued(s, y) /\ x # y =>
          s.attempts[x].sequence # s.attempts[y].sequence /\ HandleOf(s, x) # HandleOf(s, y)

ValidRoutes(s) ==
    /\ \A b \in Bindings : s.bindings[b] # None =>
          LET r == s.bindings[b]
          IN  /\ s.accounts[r.account].status # "absent"
              /\ r.generation <= s.accounts[r.account].generation
              /\ r.in_flight = Cardinality(LeasesOf(s, b))
    /\ \A l \in s.leases :
          LET r == s.bindings[l.binding]
          IN  r # None /\ r.account = l.account /\ r.generation = l.generation /\ r.route = l.route

ValidCredits(s) ==
    /\ \A x \in Slots : Unresolved(s, x) =>
          <<HandleOf(s, x), s.attempts[x].sequence>> \in s.credits
    /\ \A c \in s.credits :
          /\ \E x \in Slots : Unresolved(s, x) /\ <<HandleOf(s, x), s.attempts[x].sequence>> = c
          /\ \E l \in s.leases : l.handle = c[1]

Restorable(s) == ValidLedger(s) /\ ValidRoutes(s) /\ ValidCredits(s)

-----------------------------------------------------------------------------
(* Engine.persist of snapshot s by a handler that leaves the NativeLeases  *)
(* as leases.                                                              *)

NoLeases == [h \in Handles |-> None]

Persist(s, leases) == saved' = s /\ native' = leases /\ UNCHANGED mode

(* Store.commit failed or the daemon died in it: the snapshot may or may   *)
(* not be durable.  The engine is poisoned, and a poisoned engine serves   *)
(* no adapter again before a restart, so that it is as good as down.       *)
PersistFails(s) == saved' \in {saved, s} /\ native' = NoLeases /\ mode' = "down"

(* An allocation failed on the way to the commit: execute answers an error *)
(* and restoreCommitted takes the engine back to the committed snapshot,   *)
(* but not the NativeLeases.                                               *)
PersistRefused(leases) == native' = leases /\ UNCHANGED <<saved, mode>>

PersistMay(s, leases) == Persist(s, leases) \/ PersistFails(s) \/ PersistRefused(leases)

-----------------------------------------------------------------------------
Init ==
    /\ saved = [intents |-> [k \in Keys |-> None], attempts |-> [x \in Slots |-> None],
                bindings |-> [b \in Bindings |-> None], leases |-> {}, credits |-> {},
                accounts |-> [a \in Accounts |-> [generation |-> 1, status |-> "ready"]]]
    /\ mode = "down"
    /\ native = NoLeases
    /\ drawn = 0 /\ late = {}
    /\ world = [h \in Handles |-> None]

(* Mutation of MayIssue: an abandoned attempt counts as rejected. *)
MayIssueAfterAbandonment(k, b, d) ==
    IF saved.intents[k] = None
    THEN IF Cardinality({j \in Keys : saved.intents[j] # None}) < Capacity THEN {1} ELSE {}
    ELSE IF /\ saved.intents[k] = [binding |-> b, demand |-> d]
            /\ ~Issued(saved, Alternate(k))
            /\ saved.attempts[First(k)].state \in {"rejected", "abandoned"}
         THEN {2} ELSE {}

(* Ledger.checkIssue: the number of the attempt the request may issue. *)
MayIssue(k, b, d) ==
    IF saved.intents[k] = None
    THEN IF Cardinality({j \in Keys : saved.intents[j] # None}) < Capacity THEN {1} ELSE {}
    ELSE IF /\ saved.intents[k] = [binding |-> b, demand |-> d]
            /\ ~Issued(saved, Alternate(k))
            /\ saved.attempts[First(k)].state = "rejected"
         THEN {2} ELSE {}

Eligible(a) == saved.accounts[a].status = "ready"

(* expireLeases drops the NativeLease of finished work once it is late. *)
Swept(status) ==
    [h \in Handles |-> IF h \in late /\ status[h] \in {"completed", "rejected", "abandoned"}
                       THEN None ELSE status[h]]

Invalid(s, expired) ==
    [s EXCEPT !.accounts = [a \in Accounts |->
        IF a \in expired THEN [@[a] EXCEPT !.status = "invalid"] ELSE @[a]]]

(* The rest of expireLeases, from maintenance or at the head of acquire:   *)
(* the grants whose validity has passed become invalid and leave custody.  *)
(* A failure of the maintenance step fences the daemon.                    *)
ExpireLeases(expired) ==
    /\ mode = "up"
    /\ \A a \in expired : saved.accounts[a].status = "ready"
    /\ IF expired = {} THEN native' = Swept(native) /\ UNCHANGED <<saved, mode>>
       ELSE PersistMay(Invalid(saved, expired), Swept(native))
    /\ UNCHANGED <<drawn, late, world>>

(* Mutation of Rerouted: a route with leases in flight is replaced. *)
ReroutedInFlight(b, a) ==
    LET old == saved.bindings[b]
        generation == saved.accounts[a].generation
    IN  IF old = None THEN {[account |-> a, generation |-> generation, route |-> 1, in_flight |-> 0]}
        ELSE IF old.account = a /\ old.generation = generation THEN {old}
        ELSE {[old EXCEPT !.account = a, !.generation = generation, !.route = @ + 1]}

(* State.select and State.bind: the route of the binding for account a.    *)
(* The route is kept when it names the same grant generation; otherwise it *)
(* is replaced, which bind refuses while leases are in flight.             *)
Rerouted(b, a) ==
    LET old == saved.bindings[b]
        generation == saved.accounts[a].generation
        fresh(route) == [account |-> a, generation |-> generation, route |-> route, in_flight |-> 0]
    IN  IF old = None THEN {fresh(1)}
        ELSE IF old.account = a /\ old.generation = generation THEN {old}
        ELSE IF old.in_flight = 0 THEN {fresh(old.route + 1)}
        ELSE {}

NextSequence == 1 + Max({0} \union {saved.attempts[x].sequence : x \in {y \in Slots : Issued(saved, y)}})

(* acquire: the route, the lease, the ledger's attempt and the credit for  *)
(* its report commit together.  The grants that have expired are swept     *)
(* first (ExpireLeases).  The reply that carries the handle may be lost.  A *)
(* handle that reached neither the disk nor the application does not count *)
(* as drawn.                                                               *)
Acquire(k, b, d, a) ==
    /\ mode = "up" /\ drawn < MaxHandles
    /\ \E n \in MayIssue(k, b, d), r \in Rerouted(b, a) :
          /\ Eligible(a)
          /\ n = 2 => saved.attempts[First(k)].account # a
          /\ LET h == drawn + 1
                 attempt == [handle |-> h, account |-> a, sequence |-> NextSequence, state |-> "issued",
                             accepted_report |-> FALSE, terminal_report |-> None]
                 next == [saved EXCEPT
                     !.intents[k] = [binding |-> b, demand |-> d],
                     !.attempts[<<k, n>>] = attempt,
                     !.bindings[b] = [r EXCEPT !.in_flight = r.in_flight + 1],
                     !.leases = @ \union {[handle |-> h, binding |-> b, account |-> a,
                                           generation |-> r.generation, route |-> r.route]},
                     !.credits = @ \union {<<h, NextSequence>>}]
             IN  /\ \/ /\ Persist(next, [Swept(native) EXCEPT ![h] = "issued"])
                       /\ world' \in {[world EXCEPT ![h] = "known"], [world EXCEPT ![h] = "lost"]}
                    \/ /\ PersistFails(next) \/ PersistRefused(Swept(native))
                       /\ world' = IF saved' = saved THEN world ELSE [world EXCEPT ![h] = "lost"]
                 /\ drawn' = IF saved' = saved THEN drawn ELSE h
    /\ UNCHANGED late

(* Mutation of Materialize: the generation of the grant is not compared. *)
MaterializeStale(h) ==
    /\ mode = "up"
    /\ world[h] = "known"
    /\ native[h] = "issued"
    /\ \E l \in saved.leases :
          l.handle = h /\ h \notin late /\ saved.accounts[l.account].status = "ready"
    /\ world' = [world EXCEPT ![h] = "exposed"]
    /\ UNCHANGED <<saved, mode, native, drawn, late>>

(* materialize: the credential of an issued attempt, while its lease and   *)
(* its grant generation are current.                                       *)
Materialize(h) ==
    /\ mode = "up"
    /\ world[h] = "known"
    /\ native[h] = "issued"
    /\ \E l \in saved.leases :
          /\ l.handle = h /\ h \notin late
          /\ saved.accounts[l.account].status = "ready"
          /\ saved.accounts[l.account].generation = l.generation
    /\ world' = [world EXCEPT ![h] = "exposed"]
    /\ UNCHANGED <<saved, mode, native, drawn, late>>

(* External: the provider decides on the request that used the credential. *)
ProviderDecides(h, outcome) ==
    /\ world[h] = "exposed"
    /\ world' = [world EXCEPT ![h] = outcome]
    /\ UNCHANGED <<saved, mode, native, drawn, late>>

-----------------------------------------------------------------------------
(* applyReport: the states in which an attempt takes an event.  A repeated *)
(* report is acknowledged without a transition, any other is refused.      *)
Applies(attempt, event) ==
    CASE event = "accepted"  -> attempt.state = "issued"
      [] event = "rejected"  -> attempt.state = "issued"
      [] event = "completed" -> attempt.state = "accepted"
                                \/ (attempt.state = "unknown" /\ attempt.accepted_report)
      [] event = "abandoned" -> attempt.state \in UnresolvedState

Applied(attempt, event) ==
    IF event = "accepted" THEN [attempt EXCEPT !.state = "accepted", !.accepted_report = TRUE]
    ELSE [attempt EXCEPT !.state = event, !.terminal_report = event]

(* Mutation of Released: the credit is kept. *)
ReleasedKeepsCredit(s, x) ==
    LET held == {l \in s.leases : l.handle = HandleOf(s, x)}
    IN  [s EXCEPT
           !.leases = @ \ held,
           !.bindings = [b \in Bindings |->
               IF \E l \in held : l.binding = b
               THEN [@[b] EXCEPT !.in_flight = s.bindings[b].in_flight - 1] ELSE @[b]]]

(* completeLease, if the lease is there, and releaseOutcome. *)
Released(s, x) ==
    LET h == HandleOf(s, x)
        held == {l \in s.leases : l.handle = h}
    IN  [s EXCEPT
           !.leases = @ \ held,
           !.bindings = [b \in Bindings |->
               IF \E l \in held : l.binding = b
               THEN [@[b] EXCEPT !.in_flight = s.bindings[b].in_flight - 1] ELSE @[b]],
           !.credits = @ \ {<<h, s.attempts[x].sequence>>}]

(* A 401 invalidates the grant if it is still the generation that failed. *)
Invalidated(s, l, unauthorized) ==
    IF unauthorized /\ s.accounts[l.account].generation = l.generation
    THEN [s EXCEPT !.accounts[l.account].status = "invalid"] ELSE s

(* Mutation of Reported: a rejection does not complete the lease. *)
ReportedKeepsLease(x, event) ==
    LET next == [saved EXCEPT !.attempts[x] = Applied(@, event)]
    IN  IF event \in {"accepted", "rejected"} THEN next ELSE Released(next, x)

Reported(x, event) ==
    LET next == [saved EXCEPT !.attempts[x] = Applied(@, event)]
    IN  IF event = "accepted" THEN next ELSE Released(next, x)

(* What the application truthfully knows.  Its reports may be late, out of *)
(* order, repeated or never sent.                                          *)
Truthful(h, event) ==
    CASE event \in {"accepted", "completed"} -> world[h] = "accepted"
      [] event = "rejected" -> world[h] = "refused"
      [] event = "abandoned" -> world[h] \notin {None, "lost"}

(* Work that was unfinished at a restart: no NativeLease is involved. *)
ReportUnknown(x, event) ==
    /\ mode = "up"
    /\ Issued(saved, x) /\ Truthful(HandleOf(saved, x), event)
    /\ saved.attempts[x].state = "unknown"
    /\ event \in {"abandoned", "completed"}
    /\ Applies(saved.attempts[x], event)
    /\ PersistMay(Reported(x, event), native)
    /\ UNCHANGED <<drawn, late, world>>

(* Accepted work whose NativeLease has been swept may still complete. *)
ReportSwept(x) ==
    /\ mode = "up"
    /\ Issued(saved, x) /\ Truthful(HandleOf(saved, x), "completed")
    /\ saved.attempts[x].state = "accepted"
    /\ native[HandleOf(saved, x)] = None
    /\ PersistMay(Reported(x, "completed"), native)
    /\ UNCHANGED <<drawn, late, world>>

NativeTakes(status, event) ==
    CASE event \in {"accepted", "rejected"} -> status = "issued"
      [] event = "completed" -> status = "accepted"
      [] event = "abandoned" -> status \in {"issued", "accepted"}

(* Every other report goes by the NativeLease as well as by the ledger.    *)
(* The status of the NativeLease moves before the commit, and nothing puts *)
(* it back when the commit is refused.                                     *)
Report(x, event, status) ==
    /\ mode = "up"
    /\ Issued(saved, x)
    /\ LET h == HandleOf(saved, x)
       IN  /\ Truthful(h, event)
           /\ Applies(saved.attempts[x], event)
           /\ ~(saved.attempts[x].state = "unknown" /\ event \in {"abandoned", "completed"})
           /\ native[h] # None
           /\ \E l \in saved.leases :
                 /\ l.handle = h
                 /\ event \in {"accepted", "rejected"} => h \notin late
                 /\ NativeTakes(native[h], event)
                 /\ PersistMay(Invalidated(Reported(x, event), l, status = 401),
                               [native EXCEPT ![h] = event])
    /\ UNCHANGED <<drawn, late, world>>

-----------------------------------------------------------------------------
LatestHandleForBinding(b) ==
    LET issued == {x \in Slots : Issued(saved, x) /\ saved.intents[x[1]].binding = b}
        latest == CHOOSE x \in issued : \A y \in issued : saved.attempts[y].sequence <= saved.attempts[x].sequence
    IN  IF issued = {} THEN None ELSE HandleOf(saved, latest)

(* adapter.releaseBinding: only the holder of the latest handle may clean  *)
(* up, and only when nothing is in flight.                                 *)
ReleaseBinding(b, expected) ==
    /\ mode = "up"
    /\ saved.bindings[b] # None
    /\ world[expected] \notin {None, "lost"}
    /\ expected = LatestHandleForBinding(b)
    /\ saved.bindings[b].in_flight = 0
    /\ PersistMay([saved EXCEPT !.bindings[b] = None], native)
    /\ UNCHANGED <<drawn, late, world>>

(* account.forget: refused while a lease of the account is in flight. *)
Forget(a) ==
    /\ mode = "up"
    /\ saved.accounts[a].status # "absent"
    /\ \A l \in saved.leases : l.account # a
    /\ PersistMay([saved EXCEPT
          !.accounts[a].status = "absent",
          !.bindings = [b \in Bindings |-> IF @[b] # None /\ @[b].account = a THEN None ELSE @[b]]], native)
    /\ UNCHANGED <<drawn, late, world>>

(* A finished import replaces the grant, or enrolls the account again: its *)
(* generation is the next of the grant's watermark (Store).                *)
Import(a) ==
    /\ mode = "up"
    /\ MapThenSumSet(LAMBDA c : saved.accounts[c].generation - 1, Accounts) < MaxImports
    /\ PersistMay([saved EXCEPT !.accounts[a] = [generation |-> @.generation + 1, status |-> "ready"]], native)
    /\ UNCHANGED <<drawn, late, world>>

(* source.disconnect makes the grants of the source invalid. *)
Disconnect(a) ==
    /\ mode = "up"
    /\ saved.accounts[a].status = "ready"
    /\ PersistMay(Invalid(saved, {a}), native)
    /\ UNCHANGED <<drawn, late, world>>

LeaseDeadline(h) ==
    /\ h \notin late
    /\ native[h] # None \/ \E l \in saved.leases : l.handle = h
    /\ late' = late \union {h}
    /\ UNCHANGED <<saved, mode, native, drawn, world>>

Crash ==
    /\ mode = "up"
    /\ mode' = "down"
    /\ native' = NoLeases
    /\ UNCHANGED <<saved, drawn, late, world>>

(* Mutation of Recovered: finished work becomes uncertain as well. *)
RecoveredAll(s) ==
    [s EXCEPT !.attempts = [x \in Slots |->
        IF @[x] # None THEN [@[x] EXCEPT !.state = "unknown"] ELSE @[x]]]

(* Ledger.recoverAfterRestart: an issued attempt may have been accepted    *)
(* before its report was lost, so that neither kind is certain any more.   *)
Recovered(s) ==
    [s EXCEPT !.attempts = [x \in Slots |->
        IF @[x] # None /\ @[x].state \in {"issued", "accepted"} THEN [@[x] EXCEPT !.state = "unknown"] ELSE @[x]]]

Boot ==
    /\ mode = "down"
    /\ Restorable(saved)
    /\ \/ saved' = Recovered(saved) /\ mode' = "up"
       \/ saved' = Recovered(saved) /\ mode' = "down"   \* committed, but the start failed
    /\ UNCHANGED <<native, drawn, late, world>>

(* The status of a safe rejection; 429 stands for 403 as well. *)
Statuses(event) == IF event = "rejected" THEN {401, 429} ELSE {0}

Next ==
    \/ \E k \in Keys, b \in Bindings, d \in Demands, a \in Accounts : Acquire(k, b, d, a)
    \/ \E h \in Handles :
          \/ Materialize(h)
          \/ \E outcome \in {"accepted", "refused"} : ProviderDecides(h, outcome)
          \/ \E b \in Bindings : ReleaseBinding(b, h)
          \/ LeaseDeadline(h)
    \/ \E x \in Slots :
          \/ \E event \in Events : ReportUnknown(x, event)
          \/ ReportSwept(x)
          \/ \E event \in Events : \E status \in Statuses(event) : Report(x, event, status)
    \/ \E a \in Accounts : Forget(a) \/ Import(a) \/ Disconnect(a)
    \/ \E expired \in SUBSET Accounts : ExpireLeases(expired)
    \/ Crash \/ Boot

Spec == Init /\ [][Next]_vars

-----------------------------------------------------------------------------
(* Properties. *)

Snapshots ==
    [intents : [Keys -> Intents \union {None}], attempts : [Slots -> Attempts \union {None}],
     bindings : [Bindings -> Routes \union {None}], leases : SUBSET Leases,
     credits : SUBSET (Handles \X (Nat \ {0})), accounts : [Accounts -> Grants]]

(* Every variable keeps the shape of the records of request_authority.zig, *)
(* domain.zig and NativeLease.                                             *)
TypeOK ==
    /\ saved \in Snapshots
    /\ mode \in {"down", "up"}
    /\ native \in [Handles -> Events \union {"issued", None}]
    /\ drawn \in 0..MaxHandles /\ late \subseteq Handles
    /\ world \in [Handles -> {None, "lost", "known", "exposed", "accepted", "refused"}]

(* A request that the provider accepted, or whose fate at the provider is  *)
(* still open, never has another attempt: through lost replies, lost       *)
(* reports, deadlines and restarts, the provider accepts it at most once.  *)
AcceptedOnce ==
    \A k \in Keys : Issued(saved, Alternate(k)) =>
        world[HandleOf(saved, First(k))] = "refused"

(* Every snapshot that reaches the disk passes validatePersistedAdmission, *)
(* so that neither a restart nor restoreCommitted fails on it.             *)
CommittedSnapshotRestorable == Restorable(saved)

(* The leases in flight are those of the unresolved attempts: no lease is  *)
(* leaked, which would block forget and rerouting for ever, and no         *)
(* uncertain work has lost the lease that fences its account and route.    *)
(* The snapshot and the process-local lists keep their shape (TypeOK).     *)
LeasesAreUncertainWork ==
    /\ TypeOK
    /\ {l.handle : l \in saved.leases} = {HandleOf(saved, x) : x \in {y \in Slots : Unresolved(saved, y)}}

(* While an attempt is unresolved its binding keeps account, generation    *)
(* and route, and its account is not forgotten, whatever expires, changes  *)
(* or restarts.                                                            *)
RouteFixedWhileUncertain ==
    [][\A x \in Slots : Unresolved(saved, x) /\ Unresolved(saved', x) =>
          LET b == saved.intents[x[1]].binding
          IN  /\ saved'.bindings[b] # None
              /\ saved'.bindings[b].account = saved.bindings[b].account
              /\ saved'.bindings[b].generation = saved.bindings[b].generation
              /\ saved'.bindings[b].route = saved.bindings[b].route
              /\ saved'.accounts[saved.attempts[x].account].status # "absent"]_saved

(* materialize hands out a credential only for an attempt that the disk    *)
(* holds as issued: not for one already reported, not for one from before  *)
(* a restart, and only while the generation it was issued for is current.  *)
ExposedOnlyWhenIssued ==
    [][\A h \in Handles : world[h] # "exposed" /\ world'[h] = "exposed" =>
          \E x \in Slots :
             /\ Issued(saved, x) /\ HandleOf(saved, x) = h
             /\ saved.attempts[x].state = "issued"
             /\ LET b == saved.bindings[saved.intents[x[1]].binding]
                IN  saved.accounts[b.account].generation = b.generation]_world

(* A commit never removes or reassigns an attempt, and a terminal attempt  *)
(* never changes again: expiry, cleanup and forgetting an account do not   *)
(* recycle request authority.                                              *)
AuthorityNeverRecycled ==
    [][\A x \in Slots : Issued(saved, x) =>
          LET old == saved.attempts[x]
              new == saved'.attempts[x]
          IN  /\ new # None /\ new.handle = old.handle /\ new.account = old.account
              /\ old.accepted_report => new.accepted_report
              /\ ~Unresolved(saved, x) => new = old
              /\ old.state \in {"accepted", "unknown"} => new.state # "rejected"
              /\ saved'.intents[x[1]] = saved.intents[x[1]]]_saved

(* The contract of adapter.report: "abandonment covers issued or accepted  *)
(* requests".  While the daemon serves, an issued or accepted attempt has  *)
(* a NativeLease from which report takes an abandonment.                   *)
AbandonmentCoversUnresolved ==
    mode = "up" =>
        \A x \in Slots : Issued(saved, x) /\ saved.attempts[x].state \in {"issued", "accepted"} =>
            native[HandleOf(saved, x)] \in {"issued", "accepted"}
=============================================================================
