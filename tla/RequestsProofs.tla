--------------------------- MODULE RequestsProofs ---------------------------
(***************************************************************************)
(* Proofs about Requests, for any accounts, keys, bindings and bounds.     *)
(***************************************************************************)
EXTENDS Requests, FiniteSetTheorems, TLAPS

-----------------------------------------------------------------------------
(* The inductive invariant.                                                *)

(* A lease in flight belongs to one unresolved attempt, and names the      *)
(* account of the attempt and the binding of its request.                  *)
Linked(s) ==
    /\ IsFiniteSet(s.leases)
    /\ \A k \in Keys : s.intents[k] # None <=> Issued(s, First(k))
    /\ \A l, m \in s.leases : l.handle = m.handle => l = m
    /\ \A x \in Slots : Unresolved(s, x) =>
          \E l \in s.leases : /\ l.handle = HandleOf(s, x)
                              /\ l.account = s.attempts[x].account
                              /\ l.binding = s.intents[x[1]].binding
    /\ \A l \in s.leases : \E x \in Slots : Unresolved(s, x) /\ HandleOf(s, x) = l.handle

Good(s) == s \in Snapshots /\ ValidLedger(s) /\ ValidRoutes(s) /\ ValidCredits(s) /\ Linked(s)

(* Handles and sequences are drawn in order; a rejected attempt was        *)
(* refused by the provider.                                                *)
Witnessed(s, n, w) ==
    \A x \in Slots : Issued(s, x) =>
        /\ HandleOf(s, x) <= n /\ s.attempts[x].sequence <= n
        /\ s.attempts[x].state = "rejected" => w[HandleOf(s, x)] = "refused"

(* A NativeLease is issued only while its attempt is. *)
NativeOK(s, n) ==
    \A h \in Handles : n[h] = "issued" =>
        \E x \in Slots : Issued(s, x) /\ HandleOf(s, x) = h /\ s.attempts[x].state = "issued"

IInv ==
    /\ TypeOK /\ Good(saved)
    /\ Witnessed(saved, drawn, world) /\ NativeOK(saved, native)
    /\ mode = "down" => native = NoLeases

(* What AuthorityNeverRecycled and RouteFixedWhileUncertain say of the     *)
(* step from snapshot s to snapshot t.                                     *)
Retained(s, t) ==
    \A x \in Slots : Issued(s, x) =>
        LET old == s.attempts[x]
            new == t.attempts[x]
        IN  /\ new # None /\ new.handle = old.handle /\ new.account = old.account
            /\ old.accepted_report => new.accepted_report
            /\ ~Unresolved(s, x) => new = old
            /\ old.state \in {"accepted", "unknown"} => new.state # "rejected"
            /\ t.intents[x[1]] = s.intents[x[1]]

Pinned(s, t) ==
    \A x \in Slots : Unresolved(s, x) /\ Unresolved(t, x) =>
        LET b == s.intents[x[1]].binding
        IN  /\ t.bindings[b] # None
            /\ t.bindings[b].account = s.bindings[b].account
            /\ t.bindings[b].generation = s.bindings[b].generation
            /\ t.bindings[b].route = s.bindings[b].route
            /\ t.accounts[s.attempts[x].account].status # "absent"

-----------------------------------------------------------------------------
(* Numbers. *)

(* A set of naturals that is not empty has a least element. *)
LEMMA Least ==
    ASSUME NEW S, S \subseteq Nat, S # {}
    PROVE  \E n \in S : \A m \in S : n <= m
<1>1. PICK n \in S : \A m \in S : ~(<<m, n>> \in OpToRel(<, Nat))
  BY WFMin, NatLessThanWellFounded, Zenon
<1>2. ASSUME NEW m \in S PROVE n <= m
  <2>1. <<m, n>> \in Nat \X Nat /\ <<m, n>>[1] = m /\ <<m, n>>[2] = n
    BY Zenon
  <2>2. m < n => <<m, n>> \in OpToRel(<, Nat)
    BY <2>1, Zenon DEF OpToRel
  <2>3. ~(m < n)
    BY <1>1, <2>2, Zenon
  <2>. QED BY <2>3
<1>. QED BY <1>2, Zenon

(* A set of naturals with an upper bound has a greatest element. *)
LEMMA Greatest ==
    ASSUME NEW S, S \subseteq Nat, S # {}, NEW n \in Nat, \A m \in S : m <= n
    PROVE  Max(S) \in S /\ \A m \in S : m <= Max(S)
<1> DEFINE U == {u \in Nat : \A m \in S : m <= u}
<1>1. U # {} /\ U \subseteq Nat
  BY Zenon
<1>2. PICK u \in U : \A v \in U : u <= v
  BY <1>1, Least, Zenon
<1>3. u \in S
  <2>1. SUFFICES ASSUME u \notin S PROVE FALSE
    BY Zenon
  <2>2. u \in Nat /\ \A m \in S : m < u
    BY <2>1
  <2>3. PICK k \in S : TRUE
    BY Zenon
  <2>4. u - 1 \in Nat /\ \A m \in S : m <= u - 1
    BY <2>2, <2>3
  <2>5. u - 1 \in U
    BY <2>4, Zenon
  <2>. QED BY <1>2, <2>2, <2>5
<1>4. \E x \in S : \A y \in S : x >= y
  BY <1>3, Zenon
<1>. QED BY <1>4, Zenon DEF Max

(* issued_sequence is greater than every sequence in the ledger. *)
LEMMA SequenceIsNew ==
    ASSUME saved \in Snapshots, drawn \in Nat, Witnessed(saved, drawn, world)
    PROVE  /\ NextSequence \in Nat \ {0} /\ NextSequence <= drawn + 1
           /\ \A x \in Slots : Issued(saved, x) => saved.attempts[x].sequence < NextSequence
<1> DEFINE S == {0} \union {saved.attempts[x].sequence : x \in {y \in Slots : Issued(saved, y)}}
<1>1. \A x \in Slots : Issued(saved, x) => saved.attempts[x].sequence \in Nat
  BY Zenon DEF Snapshots, Attempts, Issued
<1>2. S \subseteq Nat /\ S # {} /\ \A m \in S : m <= drawn
  BY <1>1 DEF Witnessed
<1>3. Max(S) \in S /\ \A m \in S : m <= Max(S)
  BY <1>2, Greatest, Zenon
<1>4. NextSequence = 1 + Max(S)
  BY Zenon DEF NextSequence
<1> HIDE DEF S
<1>5. Max(S) \in Nat /\ Max(S) <= drawn
  BY <1>2, <1>3, Zenon
<1>6. \A x \in Slots : Issued(saved, x) => saved.attempts[x].sequence \in S
  BY Zenon DEF S
<1>. QED BY <1>1, <1>3, <1>4, <1>5, <1>6

-----------------------------------------------------------------------------
(* What a handler does to the snapshot. *)

(* Unresolved work holds its lease, and through it its route and account. *)
LEMMA RouteOf ==
    ASSUME NEW s, Good(s), NEW x \in Slots, Unresolved(s, x)
    PROVE  LET b == s.intents[x[1]].binding
               a == s.attempts[x].account
           IN  /\ b \in Bindings /\ s.bindings[b] \in Routes /\ s.bindings[b].account = a
               /\ s.bindings[b] # None
               /\ a \in Accounts /\ s.accounts[a].status # "absent"
               /\ \E l \in s.leases : l.handle = HandleOf(s, x) /\ l.binding = b /\ l.account = a
<1>1. PICK l \in s.leases : /\ l.handle = HandleOf(s, x) /\ l.account = s.attempts[x].account
                            /\ l.binding = s.intents[x[1]].binding
  BY Zenon DEF Good, Linked
<1>2. l \in Leases
  BY Zenon DEF Good, Snapshots
<1>3. s.bindings[l.binding] # None /\ s.bindings[l.binding].account = l.account
  BY Zenon DEF Good, ValidRoutes
<1>4. l.binding \in Bindings /\ l.account \in Accounts /\ s.bindings[l.binding] \in Routes
  BY <1>2, <1>3, Zenon DEF Good, Snapshots, Leases
<1>5. s.accounts[l.account].status # "absent"
  BY <1>3, <1>4, Zenon DEF Good, ValidRoutes
<1>. QED BY <1>1, <1>3, <1>4, <1>5, Zenon

(* The binding and the account of unresolved work are there. *)
Held(s, x) ==
    LET b == s.intents[x[1]].binding
    IN  /\ b \in Bindings /\ s.bindings[b] # None
        /\ s.attempts[x].account \in Accounts /\ s.accounts[s.attempts[x].account].status # "absent"

LEMMA RouteHeld ==
    ASSUME NEW s, Good(s), NEW x \in Slots, Unresolved(s, x)
    PROVE  Held(s, x)
BY RouteOf, Zenon DEF Held

(* A step that leaves requests and leases alone may drop a binding that no *)
(* lease needs, and change an account, but not to an older grant, and not  *)
(* to absent while a binding names it.                                     *)
LEMMA RoutesKeep ==
    ASSUME NEW s, Good(s), NEW t \in Snapshots,
           t.intents = s.intents, t.attempts = s.attempts, t.leases = s.leases, t.credits = s.credits,
           \A a \in Accounts : s.accounts[a].generation <= t.accounts[a].generation,
           \A b \in Bindings : t.bindings[b] # None =>
               t.bindings[b] = s.bindings[b] /\ t.accounts[t.bindings[b].account].status # "absent",
           \A l \in s.leases : t.bindings[l.binding] # None
    PROVE  Good(t) /\ Retained(s, t) /\ Pinned(s, t)
<1>1. ValidLedger(t) /\ ValidCredits(t) /\ Linked(t)
  BY DEF Good, ValidLedger, ValidCredits, Linked, Unresolved, Issued, HandleOf
<1>2. ValidRoutes(t)
  <2>1. ASSUME NEW b \in Bindings, t.bindings[b] # None
        PROVE  LET r == t.bindings[b]
               IN  /\ t.accounts[r.account].status # "absent"
                   /\ r.generation <= t.accounts[r.account].generation
                   /\ r.in_flight = Cardinality(LeasesOf(t, b))
    <3>1. /\ t.bindings[b] \in Routes /\ t.bindings[b].account \in Accounts
          /\ t.bindings[b].generation <= s.accounts[t.bindings[b].account].generation
          /\ t.bindings[b].in_flight = Cardinality(LeasesOf(s, b))
      BY <2>1 DEF Good, ValidRoutes, Snapshots, Routes
    <3>2. LeasesOf(t, b) = LeasesOf(s, b)
      BY Zenon DEF LeasesOf
    <3>3. /\ s.accounts[t.bindings[b].account].generation \in Nat
          /\ t.accounts[t.bindings[b].account].generation \in Nat
          /\ t.bindings[b].generation \in Nat
      BY <3>1, Zenon DEF Good, Snapshots, Grants, Routes
    <3>. QED BY <2>1, <3>1, <3>2, <3>3
  <2>2. ASSUME NEW l \in t.leases
        PROVE  LET r == t.bindings[l.binding]
               IN  r # None /\ r.account = l.account /\ r.generation = l.generation /\ r.route = l.route
    <3>1. l \in Leases /\ l.binding \in Bindings
      BY Zenon DEF Snapshots, Leases
    <3>. QED BY <3>1, Zenon DEF Good, ValidRoutes
  <2>. QED BY <2>1, <2>2, Zenon DEF ValidRoutes
<1>3. Retained(s, t)
  BY Zenon DEF Retained, Unresolved, Issued
<1>4. Pinned(s, t)
  <2> SUFFICES ASSUME NEW x \in Slots, Unresolved(s, x)
               PROVE  LET b == s.intents[x[1]].binding
                      IN  /\ t.bindings[b] # None /\ t.bindings[b] = s.bindings[b]
                          /\ t.accounts[s.attempts[x].account].status # "absent"
    BY Zenon DEF Pinned
  <2>. QED BY RouteOf, SMTT(60)
<1>. QED BY <1>1, <1>2, <1>3, <1>4, Zenon DEF Good

(* Grants become invalid, or an import replaces one. *)
LEMMA AccountsKeep ==
    ASSUME NEW s, Good(s), NEW f \in [Accounts -> Grants],
           \A a \in Accounts : /\ s.accounts[a].generation <= f[a].generation
                               /\ s.accounts[a].status # "absent" => f[a].status # "absent"
    PROVE  LET t == [s EXCEPT !.accounts = f]
           IN  Good(t) /\ Retained(s, t) /\ Pinned(s, t) /\ t.attempts = s.attempts
<1> DEFINE t == [s EXCEPT !.accounts = f]
<1>1. /\ t \in Snapshots /\ t.accounts = f
      /\ t.intents = s.intents /\ t.attempts = s.attempts /\ t.bindings = s.bindings
      /\ t.leases = s.leases /\ t.credits = s.credits
  BY Zenon DEF Good, Snapshots
<1> HIDE DEF t
<1>2. \A b \in Bindings : t.bindings[b] # None =>
          t.bindings[b] = s.bindings[b] /\ t.accounts[t.bindings[b].account].status # "absent"
  BY <1>1, Zenon DEF Good, ValidRoutes, Snapshots, Routes
<1>3. \A l \in s.leases : t.bindings[l.binding] # None
  BY <1>1, Zenon DEF Good, ValidRoutes
<1>. QED BY <1>1, <1>2, <1>3, RoutesKeep, Zenon DEF t

(* adapter.releaseBinding of a binding without leases. *)
LEMMA ReleaseKeeps ==
    ASSUME NEW s, Good(s), NEW b \in Bindings, s.bindings[b] # None, s.bindings[b].in_flight = 0
    PROVE  LET t == [s EXCEPT !.bindings[b] = None]
           IN  Good(t) /\ Retained(s, t) /\ Pinned(s, t) /\ t.attempts = s.attempts
<1> DEFINE f == [s.bindings EXCEPT ![b] = None]
           t == [s EXCEPT !.bindings = f]
<1>1. f \in [Bindings -> Routes \union {None}]
  BY Zenon DEF Good, Snapshots
<1>2. \A c \in Bindings : f[c] = IF c = b THEN None ELSE s.bindings[c]
  BY Zenon DEF Good, Snapshots
<1> HIDE DEF f
<1>3. /\ t \in Snapshots /\ t.accounts = s.accounts
      /\ t.intents = s.intents /\ t.attempts = s.attempts /\ t.bindings = f
      /\ t.leases = s.leases /\ t.credits = s.credits
  BY <1>1, Zenon DEF Good, Snapshots
<1> HIDE DEF t
<1>4. LeasesOf(s, b) = {}
  <2>1. IsFiniteSet(LeasesOf(s, b))
    BY FS_Subset, Zenon DEF Good, Linked, LeasesOf
  <2>2. Cardinality(LeasesOf(s, b)) = 0
    BY Zenon DEF Good, ValidRoutes
  <2>. QED BY <2>1, <2>2, FS_EmptySet, Zenon
<1>5. \A l \in s.leases : l.binding \in Bindings /\ l.binding # b
  BY <1>4, Zenon DEF LeasesOf, Good, Snapshots, Leases
<1>6. \A l \in s.leases : t.bindings[l.binding] # None
  BY <1>2, <1>3, <1>5, Zenon DEF Good, ValidRoutes
<1>7. \A c \in Bindings : t.bindings[c] # None =>
          t.bindings[c] = s.bindings[c] /\ t.accounts[t.bindings[c].account].status # "absent"
  BY <1>2, <1>3, Zenon DEF Good, ValidRoutes
<1>8. \A a \in Accounts : s.accounts[a].generation <= t.accounts[a].generation
  BY <1>3 DEF Good, Snapshots, Grants
<1>9. t = [s EXCEPT !.bindings[b] = None]
  BY Zenon DEF t, f
<1>. QED BY <1>3, <1>6, <1>7, <1>8, <1>9, RoutesKeep, Zenon

(* account.forget of an account without leases. *)
Forgotten(s, a) ==
    [s EXCEPT !.accounts[a].status = "absent",
              !.bindings = [b \in Bindings |-> IF @[b] # None /\ @[b].account = a THEN None ELSE @[b]]]

LEMMA ForgetKeeps ==
    ASSUME NEW s, Good(s), NEW a \in Accounts, \A l \in s.leases : l.account # a
    PROVE  LET t == Forgotten(s, a)
           IN  Good(t) /\ Retained(s, t) /\ Pinned(s, t) /\ t.attempts = s.attempts
<1> DEFINE f == [s.accounts EXCEPT ![a].status = "absent"]
           g == [b \in Bindings |->
                    IF s.bindings[b] # None /\ s.bindings[b].account = a THEN None ELSE s.bindings[b]]
           t == [s EXCEPT !.accounts = f, !.bindings = g]
<1>1. f \in [Accounts -> Grants] /\ g \in [Bindings -> Routes \union {None}]
  BY Zenon DEF Good, Snapshots, Grants
<1>2. /\ \A c \in Accounts : f[c].generation = s.accounts[c].generation
      /\ \A c \in Accounts \ {a} : f[c] = s.accounts[c]
  BY Zenon DEF Good, Snapshots, Grants
<1>3. \A b \in Bindings :
          g[b] = IF s.bindings[b] # None /\ s.bindings[b].account = a THEN None ELSE s.bindings[b]
  BY Zenon
<1>4. t = Forgotten(s, a)
  BY Zenon DEF Forgotten, Good, Snapshots
<1> HIDE DEF f, g
<1>5. /\ t \in Snapshots /\ t.accounts = f
      /\ t.intents = s.intents /\ t.attempts = s.attempts /\ t.bindings = g
      /\ t.leases = s.leases /\ t.credits = s.credits
  BY <1>1, Zenon DEF Good, Snapshots
<1> HIDE DEF t
<1>6. \A l \in s.leases : t.bindings[l.binding] # None
  <2> SUFFICES ASSUME NEW l \in s.leases PROVE t.bindings[l.binding] # None
    BY Zenon
  <2>1. l.binding \in Bindings
    BY Zenon DEF Good, Snapshots, Leases
  <2>2. s.bindings[l.binding] # None /\ s.bindings[l.binding].account = l.account
    BY Zenon DEF Good, ValidRoutes
  <2>. QED BY <1>3, <1>5, <2>1, <2>2, Zenon
<1>7. ASSUME NEW b \in Bindings, t.bindings[b] # None
      PROVE  t.bindings[b] = s.bindings[b] /\ t.accounts[t.bindings[b].account].status # "absent"
  <2>1. g[b] = s.bindings[b] /\ s.bindings[b] # None /\ s.bindings[b].account # a
    BY <1>3, <1>5, <1>7, Zenon
  <2>2. s.bindings[b].account \in Accounts
    BY <2>1, Zenon DEF Good, Snapshots, Routes
  <2>. QED BY <1>2, <1>5, <2>1, <2>2 DEF Good, ValidRoutes
<1>8. \A c \in Accounts : s.accounts[c].generation <= t.accounts[c].generation
  BY <1>2, <1>5 DEF Good, Snapshots, Grants
<1>. QED BY <1>4, <1>5, <1>6, <1>7, <1>8, RoutesKeep, Zenon

-----------------------------------------------------------------------------
(* Requests. *)

(* Ledger.recoverAfterRestart: work that was unresolved stays so. *)
LEMMA RecoveredKeeps ==
    ASSUME NEW s, Good(s)
    PROVE  LET t == Recovered(s)
           IN  /\ Good(t) /\ Retained(s, t) /\ Pinned(s, t)
               /\ \A x \in Slots : Issued(t, x) =>
                     /\ Issued(s, x) /\ HandleOf(t, x) = HandleOf(s, x)
                     /\ t.attempts[x].sequence = s.attempts[x].sequence
                     /\ t.attempts[x].state = "rejected" => s.attempts[x].state = "rejected"
<1> DEFINE f == [x \in Slots |->
                    IF s.attempts[x] # None /\ s.attempts[x].state \in {"issued", "accepted"}
                    THEN [s.attempts[x] EXCEPT !.state = "unknown"] ELSE s.attempts[x]]
           t == [s EXCEPT !.attempts = f]
<1>1. t = Recovered(s)
  BY Zenon DEF Recovered
<1>2. ASSUME NEW x \in Slots, Issued(s, x)
      PROVE  /\ f[x] \in Attempts /\ f[x] # None /\ ValidAttempt(f[x])
             /\ f[x].handle = s.attempts[x].handle /\ f[x].account = s.attempts[x].account
             /\ f[x].sequence = s.attempts[x].sequence
             /\ f[x].accepted_report = s.attempts[x].accepted_report
             /\ f[x].state \in UnresolvedState <=> s.attempts[x].state \in UnresolvedState
             /\ ~(s.attempts[x].state \in UnresolvedState) => f[x] = s.attempts[x]
             /\ f[x].state = "rejected" => s.attempts[x].state = "rejected"
             /\ s.attempts[x].state = "rejected" => f[x].state = "rejected"
  <2>1. s.attempts[x] \in Attempts /\ ValidAttempt(s.attempts[x])
    BY <1>2, Zenon DEF Good, Snapshots, ValidLedger, Issued
  <2>2. f[x] \in Attempts /\ f[x] # None
    BY <2>1, RequestsAssumption, Zenon DEF Attempts, UnresolvedState
  <2>. QED BY <1>2, <2>1, <2>2, Zenon DEF Attempts, ValidAttempt, UnresolvedState, Issued
<1>3. \A x \in Slots : ~Issued(s, x) => f[x] = None
  BY Zenon DEF Issued
<1>4. f \in [Slots -> Attempts \union {None}]
  BY <1>2, <1>3, Zenon
<1> HIDE DEF f
<1>5. /\ t \in Snapshots /\ t.accounts = s.accounts
      /\ t.intents = s.intents /\ t.attempts = f /\ t.bindings = s.bindings
      /\ t.leases = s.leases /\ t.credits = s.credits
  BY <1>4, Zenon DEF Good, Snapshots
<1> HIDE DEF t
<1>6. \A x \in Slots : /\ Issued(t, x) <=> Issued(s, x)
                       /\ Unresolved(t, x) <=> Unresolved(s, x)
                       /\ Issued(s, x) => HandleOf(t, x) = HandleOf(s, x)
  BY <1>2, <1>3, <1>5, Zenon DEF Issued, Unresolved, HandleOf
<1>7. ValidLedger(t)
  <2>1. \A x \in Slots : Issued(t, x) => ValidAttempt(t.attempts[x])
    BY <1>2, <1>5, <1>6, Zenon
  <2>2. ASSUME NEW k \in Keys, Issued(t, Alternate(k))
        PROVE  LET a == t.attempts[First(k)]
                   b == t.attempts[Alternate(k)]
               IN  /\ Issued(t, First(k)) /\ a.state = "rejected"
                   /\ a.account # b.account
                   /\ a.sequence < b.sequence
    <3>1. First(k) \in Slots /\ Alternate(k) \in Slots
      BY Zenon DEF First, Alternate, Slots
    <3>. QED BY <1>2, <1>5, <1>6, <2>2, <3>1 DEF Good, ValidLedger
  <2>3. \A x, y \in Slots : Issued(t, x) /\ Issued(t, y) /\ x # y =>
            t.attempts[x].sequence # t.attempts[y].sequence /\ HandleOf(t, x) # HandleOf(t, y)
    BY <1>2, <1>5, <1>6 DEF Good, ValidLedger
  <2>. QED BY <2>1, <2>2, <2>3, Zenon DEF ValidLedger
<1>8. ValidRoutes(t)
  BY <1>5, Zenon DEF Good, ValidRoutes, LeasesOf
<1>9. ValidCredits(t)
  BY <1>2, <1>5, <1>6 DEF Good, ValidCredits, Unresolved
<1>10. Linked(t)
  <2>1. \A k \in Keys : First(k) \in Slots
    BY Zenon DEF First, Slots
  <2>. QED BY <1>2, <1>5, <1>6, <2>1 DEF Good, Linked, Unresolved
<1>11. Retained(s, t)
  BY <1>2, <1>5, <1>6, Zenon DEF Retained, Unresolved
<1>12. Pinned(s, t)
  <2> SUFFICES ASSUME NEW x \in Slots, Unresolved(s, x)
               PROVE  LET b == s.intents[x[1]].binding
                      IN  /\ t.bindings[b] # None /\ t.bindings[b] = s.bindings[b]
                          /\ t.accounts[s.attempts[x].account].status # "absent"
    BY Zenon DEF Pinned
  <2>. QED BY <1>5, RouteOf
<1>. QED BY <1>1, <1>2, <1>5, <1>6, <1>7, <1>8, <1>9, <1>10, <1>11, <1>12, Zenon DEF Good

(* applyReport takes only an unresolved attempt, and a rejection only one  *)
(* that is still issued.                                                   *)
LEMMA AppliedAttempt ==
    ASSUME NEW a \in Attempts, ValidAttempt(a), NEW e \in Events, Applies(a, e)
    PROVE  LET c == Applied(a, e)
           IN  /\ c \in Attempts /\ c # None /\ ValidAttempt(c) /\ c.state = e
               /\ c.handle = a.handle /\ c.account = a.account /\ c.sequence = a.sequence
               /\ a.accepted_report => c.accepted_report
               /\ a.state \in UnresolvedState /\ (e = "rejected" => a.state = "issued")
<1> DEFINE c == Applied(a, e)
<1>1. /\ c \in Attempts /\ c.state = e
      /\ c.handle = a.handle /\ c.account = a.account /\ c.sequence = a.sequence
      /\ c.accepted_report = (a.accepted_report \/ e = "accepted")
      /\ c.terminal_report = IF e = "accepted" THEN a.terminal_report ELSE e
  BY Zenon DEF Applied, Attempts, Events, UnresolvedState
<1> HIDE DEF c
<1>2. a.state \in UnresolvedState /\ (e = "rejected" => a.state = "issued")
  BY Zenon DEF Applies, Events, UnresolvedState
<1>3. ValidAttempt(c)
  BY <1>1, Zenon DEF ValidAttempt, Applies, Events
<1>4. c # None
  BY <1>1, RequestsAssumption, Zenon
<1>. QED BY <1>1, <1>2, <1>3, <1>4, Zenon DEF c

(* The ledger after a report. *)
LEMMA LedgerKeeps ==
    ASSUME NEW s, Good(s), NEW x \in Slots, NEW e \in Events, Issued(s, x), Applies(s.attempts[x], e),
           NEW t, t.intents = s.intents,
           t.attempts = [s.attempts EXCEPT ![x] = Applied(s.attempts[x], e)]
    PROVE  /\ t.attempts \in [Slots -> Attempts \union {None}]
           /\ ValidLedger(t) /\ Retained(s, t)
           /\ Unresolved(s, x) /\ (Unresolved(t, x) <=> e = "accepted")
           /\ HandleOf(t, x) = HandleOf(s, x) /\ t.attempts[x].sequence = s.attempts[x].sequence
           /\ t.attempts[x].account = s.attempts[x].account /\ t.attempts[x].state = e
           /\ \A y \in Slots \ {x} : t.attempts[y] = s.attempts[y]
           /\ \A y \in Slots : Issued(t, y) <=> Issued(s, y)
           /\ e = "rejected" => s.attempts[x].state = "issued"
<1> DEFINE a == s.attempts[x]
           c == Applied(a, e)
<1>1. a \in Attempts /\ ValidAttempt(a) /\ a # None
  BY Zenon DEF Good, Snapshots, ValidLedger, Issued
<1>2. /\ c \in Attempts /\ c # None /\ ValidAttempt(c) /\ c.state = e
      /\ c.handle = a.handle /\ c.account = a.account /\ c.sequence = a.sequence
      /\ a.accepted_report => c.accepted_report
      /\ a.state \in UnresolvedState /\ (e = "rejected" => a.state = "issued")
  BY <1>1, AppliedAttempt, Zenon
<1>3. s.attempts \in [Slots -> Attempts \union {None}]
  BY Zenon DEF Good, Snapshots
<1>4. t.attempts = [s.attempts EXCEPT ![x] = c]
  BY Zenon
<1> HIDE DEF c
<1>5. /\ t.attempts \in [Slots -> Attempts \union {None}] /\ t.attempts[x] = c
      /\ \A y \in Slots \ {x} : t.attempts[y] = s.attempts[y]
  BY <1>2, <1>3, <1>4
<1>6. /\ \A y \in Slots : Issued(t, y) <=> Issued(s, y)
      /\ Unresolved(s, x) /\ (Unresolved(t, x) <=> e = "accepted")
      /\ HandleOf(t, x) = HandleOf(s, x)
  BY <1>2, <1>5, Zenon DEF Issued, Unresolved, HandleOf, UnresolvedState, Events
<1>7. ValidLedger(t)
  <2>1. \A y \in Slots : Issued(t, y) => ValidAttempt(t.attempts[y])
    BY <1>2, <1>5, <1>6, Zenon DEF Good, ValidLedger
  <2>2. ASSUME NEW k \in Keys, Issued(t, Alternate(k))
        PROVE  LET p == t.attempts[First(k)]
                   q == t.attempts[Alternate(k)]
               IN  /\ Issued(t, First(k)) /\ p.state = "rejected"
                   /\ p.account # q.account
                   /\ p.sequence < q.sequence
    <3>1. First(k) \in Slots /\ Alternate(k) \in Slots
      BY Zenon DEF First, Alternate, Slots
    <3>2. /\ Issued(s, First(k)) /\ s.attempts[First(k)].state = "rejected"
          /\ s.attempts[First(k)].account # s.attempts[Alternate(k)].account
          /\ s.attempts[First(k)].sequence < s.attempts[Alternate(k)].sequence
      BY <1>6, <2>2, <3>1, Zenon DEF Good, ValidLedger
    <3>3. x # First(k)
      BY <1>2, <3>2, Zenon DEF UnresolvedState
    <3>4. t.attempts[First(k)] = s.attempts[First(k)]
      BY <1>5, <3>1, <3>3, Zenon
    <3>5. /\ t.attempts[Alternate(k)].account = s.attempts[Alternate(k)].account
          /\ t.attempts[Alternate(k)].sequence = s.attempts[Alternate(k)].sequence
      BY <1>2, <1>5, <3>1, Zenon
    <3>. QED BY <1>6, <3>1, <3>2, <3>4, <3>5, Zenon
  <2>3. \A y \in Slots : t.attempts[y].sequence = s.attempts[y].sequence /\ HandleOf(t, y) = HandleOf(s, y)
    BY <1>2, <1>5, Zenon DEF HandleOf
  <2>4. \A y, z \in Slots : Issued(t, y) /\ Issued(t, z) /\ y # z =>
            t.attempts[y].sequence # t.attempts[z].sequence /\ HandleOf(t, y) # HandleOf(t, z)
    BY <1>6, <2>3 DEF Good, ValidLedger
  <2>. QED BY <2>1, <2>2, <2>4, Zenon DEF ValidLedger
<1>8. Retained(s, t)
  <2> SUFFICES ASSUME NEW y \in Slots, Issued(s, y)
               PROVE  LET old == s.attempts[y]
                          new == t.attempts[y]
                      IN  /\ new # None /\ new.handle = old.handle /\ new.account = old.account
                          /\ old.accepted_report => new.accepted_report
                          /\ ~Unresolved(s, y) => new = old
                          /\ old.state \in {"accepted", "unknown"} => new.state # "rejected"
    BY Zenon DEF Retained
  <2>1. CASE y = x
    BY <1>2, <1>5, <1>6, <2>1, Zenon
  <2>2. CASE y # x
    BY <1>5, <2>2, Zenon DEF Issued
  <2>. QED BY <2>1, <2>2, Zenon
<1>. QED BY <1>2, <1>5, <1>6, <1>7, <1>8, Zenon

(* An accepted report only moves the attempt. *)
LEMMA AcceptedKeeps ==
    ASSUME NEW s, Good(s), NEW x \in Slots, Issued(s, x), Applies(s.attempts[x], "accepted"),
           NEW t \in Snapshots, t.intents = s.intents, t.bindings = s.bindings, t.leases = s.leases,
           t.credits = s.credits, t.accounts = s.accounts,
           t.attempts = [s.attempts EXCEPT ![x] = Applied(s.attempts[x], "accepted")]
    PROVE  Good(t) /\ Retained(s, t) /\ Pinned(s, t)
<1>1. /\ ValidLedger(t) /\ Retained(s, t)
      /\ Unresolved(s, x) /\ Unresolved(t, x)
      /\ HandleOf(t, x) = HandleOf(s, x) /\ t.attempts[x].sequence = s.attempts[x].sequence
      /\ t.attempts[x].account = s.attempts[x].account
      /\ \A y \in Slots \ {x} : t.attempts[y] = s.attempts[y]
      /\ \A y \in Slots : Issued(t, y) <=> Issued(s, y)
  <2>1. "accepted" \in Events
    BY Zenon DEF Events
  <2>. QED BY <2>1, LedgerKeeps
<1>2. \A y \in Slots : /\ Unresolved(t, y) <=> Unresolved(s, y)
                       /\ HandleOf(t, y) = HandleOf(s, y)
                       /\ t.attempts[y].sequence = s.attempts[y].sequence
                       /\ t.attempts[y].account = s.attempts[y].account
  BY <1>1, Zenon DEF Unresolved, HandleOf
<1>3. ValidRoutes(t)
  BY Zenon DEF Good, ValidRoutes, LeasesOf
<1>4. ValidCredits(t)
  BY <1>2, Zenon DEF Good, ValidCredits
<1>5. Linked(t)
  <2>1. \A k \in Keys : First(k) \in Slots
    BY Zenon DEF First, Slots
  <2>. QED BY <1>1, <1>2, <2>1 DEF Good, Linked
<1>6. Pinned(s, t)
  <2> SUFFICES ASSUME NEW y \in Slots, Unresolved(s, y)
               PROVE  LET b == s.intents[y[1]].binding
                      IN  /\ t.bindings[b] # None /\ t.bindings[b] = s.bindings[b]
                          /\ t.accounts[s.attempts[y].account].status # "absent"
    BY Zenon DEF Pinned
  <2>1. Held(s, y)
    BY RouteHeld, Zenon
  <2>. QED BY <2>1, Zenon DEF Held
<1>. QED BY <1>1, <1>3, <1>4, <1>5, <1>6, Zenon DEF Good

(* A terminal report resolves the attempt and gives back its lease, its    *)
(* place in the route and its credit.                                      *)
LEMMA ResolvedKeeps ==
    ASSUME NEW s, Good(s), NEW x \in Slots, NEW e \in Events, e # "accepted",
           Issued(s, x), Applies(s.attempts[x], e),
           NEW l \in s.leases, l.handle = HandleOf(s, x),
           NEW t \in Snapshots, t.intents = s.intents, t.accounts = s.accounts,
           t.attempts = [s.attempts EXCEPT ![x] = Applied(s.attempts[x], e)],
           t.leases = s.leases \ {l},
           t.credits = s.credits \ {<<HandleOf(s, x), s.attempts[x].sequence>>},
           NEW r, r = [s.bindings[l.binding] EXCEPT !.in_flight = @ - 1],
           t.bindings = [s.bindings EXCEPT ![l.binding] = r]
    PROVE  Good(t) /\ Retained(s, t) /\ Pinned(s, t)
<1>1. /\ ValidLedger(t) /\ Retained(s, t)
      /\ Unresolved(s, x) /\ ~Unresolved(t, x)
      /\ \A y \in Slots \ {x} : t.attempts[y] = s.attempts[y]
      /\ \A y \in Slots : Issued(t, y) <=> Issued(s, y)
  BY LedgerKeeps
<1>2. /\ l \in Leases /\ l.binding \in Bindings
      /\ s.bindings[l.binding] # None /\ s.bindings[l.binding] \in Routes
  BY Zenon DEF Good, Snapshots, Leases, ValidRoutes
<1>3. \A y \in Slots \ {x} : /\ Unresolved(t, y) <=> Unresolved(s, y)
                             /\ HandleOf(t, y) = HandleOf(s, y)
                             /\ Unresolved(s, y) => HandleOf(s, y) # HandleOf(s, x)
  BY <1>1, Zenon DEF Unresolved, HandleOf, Issued, Good, ValidLedger
<1>4. \A m \in t.leases : m \in s.leases /\ m.handle # HandleOf(s, x)
  BY Zenon DEF Good, Linked
<1>5. \A b \in Bindings \ {l.binding} : t.bindings[b] = s.bindings[b]
  BY <1>2, Zenon DEF Good, Snapshots
<1>6. LET o == s.bindings[l.binding]
      IN  /\ t.bindings[l.binding] = r /\ r # None
          /\ r.account = o.account /\ r.generation = o.generation /\ r.route = o.route
          /\ r.in_flight = o.in_flight - 1
          /\ Cardinality(LeasesOf(s, l.binding) \ {l}) = r.in_flight
  <2>1. l \in LeasesOf(s, l.binding) /\ IsFiniteSet(LeasesOf(s, l.binding))
    BY FS_Subset, Zenon DEF LeasesOf, Good, Linked
  <2>2. /\ Cardinality(LeasesOf(s, l.binding)) \in Nat
        /\ Cardinality(LeasesOf(s, l.binding) \ {l}) \in Nat
        /\ Cardinality(LeasesOf(s, l.binding) \ {l}) = Cardinality(LeasesOf(s, l.binding)) - 1
    BY <2>1, FS_RemoveElement, FS_CardinalityType, Zenon
  <2>3. s.bindings[l.binding].in_flight = Cardinality(LeasesOf(s, l.binding))
    BY <1>2, Zenon DEF Good, ValidRoutes
  <2>4. r \in Routes
    BY <1>2, <2>2, <2>3, Zenon DEF Routes
  <2>5. t.bindings[l.binding] = r
    BY <1>2, Zenon DEF Good, Snapshots
  <2>. QED BY <1>2, <2>2, <2>3, <2>4, <2>5, RequestsAssumption, Zenon DEF Routes
<1>7. ValidRoutes(t)
  <2>1. ASSUME NEW b \in Bindings, t.bindings[b] # None
        PROVE  LET q == t.bindings[b]
               IN  /\ t.accounts[q.account].status # "absent"
                   /\ q.generation <= t.accounts[q.account].generation
                   /\ q.in_flight = Cardinality(LeasesOf(t, b))
    <3>1. CASE b # l.binding
      <4>1. LeasesOf(t, b) = LeasesOf(s, b)
        BY <3>1, Zenon DEF LeasesOf
      <4>. QED BY <1>5, <2>1, <3>1, <4>1, Zenon DEF Good, ValidRoutes
    <3>2. CASE b = l.binding
      <4>1. LeasesOf(t, b) = LeasesOf(s, b) \ {l}
        BY <3>2, Zenon DEF LeasesOf
      <4>2. /\ s.accounts[s.bindings[b].account].status # "absent"
            /\ s.bindings[b].generation <= s.accounts[s.bindings[b].account].generation
        BY <1>2, <3>2, Zenon DEF Good, ValidRoutes
      <4>. QED BY <1>6, <3>2, <4>1, <4>2, Zenon
    <3>. QED BY <3>1, <3>2, Zenon
  <2>2. ASSUME NEW m \in t.leases
        PROVE  LET q == t.bindings[m.binding]
               IN  q # None /\ q.account = m.account /\ q.generation = m.generation /\ q.route = m.route
    <3>1. m \in s.leases /\ m.binding \in Bindings
      BY <1>4, Zenon DEF Good, Snapshots, Leases
    <3>2. LET q == s.bindings[m.binding]
          IN  q # None /\ q.account = m.account /\ q.generation = m.generation /\ q.route = m.route
      BY <3>1, Zenon DEF Good, ValidRoutes
    <3>. QED BY <1>5, <1>6, <3>1, <3>2, Zenon
  <2>. QED BY <2>1, <2>2, Zenon DEF ValidRoutes
<1>8. ValidCredits(t)
  <2>1. ASSUME NEW y \in Slots, Unresolved(t, y)
        PROVE  <<HandleOf(t, y), t.attempts[y].sequence>> \in t.credits
    <3>1. y # x
      BY <1>1, <2>1, Zenon
    <3>2. /\ <<HandleOf(s, y), s.attempts[y].sequence>> \in s.credits
          /\ HandleOf(s, y) # HandleOf(s, x) /\ HandleOf(t, y) = HandleOf(s, y)
          /\ t.attempts[y] = s.attempts[y]
      BY <1>1, <1>3, <2>1, <3>1, Zenon DEF Good, ValidCredits
    <3>. QED BY <3>2, Zenon
  <2>2. ASSUME NEW c \in t.credits
        PROVE  /\ \E y \in Slots : Unresolved(t, y) /\ <<HandleOf(t, y), t.attempts[y].sequence>> = c
               /\ \E m \in t.leases : m.handle = c[1]
    <3>1. c \in s.credits /\ c # <<HandleOf(s, x), s.attempts[x].sequence>>
      BY Zenon
    <3>2. PICK y \in Slots : Unresolved(s, y) /\ <<HandleOf(s, y), s.attempts[y].sequence>> = c
      BY <3>1, Zenon DEF Good, ValidCredits
    <3>3. y # x
      BY <3>1, <3>2, Zenon
    <3>4. PICK m \in s.leases : m.handle = c[1]
      BY <3>1, Zenon DEF Good, ValidCredits
    <3>5. m # l
      BY <1>3, <3>2, <3>3, <3>4, Zenon
    <3>6. Unresolved(t, y) /\ <<HandleOf(t, y), t.attempts[y].sequence>> = c
      BY <1>1, <1>3, <3>2, <3>3, Zenon
    <3>. QED BY <3>4, <3>5, <3>6, Zenon
  <2>. QED BY <2>1, <2>2, Zenon DEF ValidCredits
<1>9. Linked(t)
  <2>1. IsFiniteSet(t.leases)
    BY FS_RemoveElement DEF Good, Linked
  <2>2. \A k \in Keys : t.intents[k] # None <=> Issued(t, First(k))
    <3>1. \A k \in Keys : First(k) \in Slots
      BY Zenon DEF First, Slots
    <3>. QED BY <1>1, <3>1, Zenon DEF Good, Linked
  <2>3. \A m, n \in t.leases : m.handle = n.handle => m = n
    BY Zenon DEF Good, Linked
  <2>4. ASSUME NEW y \in Slots, Unresolved(t, y)
        PROVE  \E m \in t.leases : /\ m.handle = HandleOf(t, y)
                                   /\ m.account = t.attempts[y].account
                                   /\ m.binding = t.intents[y[1]].binding
    <3>1. y # x
      BY <1>1, <2>4, Zenon
    <3>2. PICK m \in s.leases : /\ m.handle = HandleOf(s, y)
                                /\ m.account = s.attempts[y].account
                                /\ m.binding = s.intents[y[1]].binding
      BY <1>3, <2>4, <3>1, Zenon DEF Good, Linked
    <3>3. m \in t.leases
      BY <1>3, <2>4, <3>1, <3>2, Zenon
    <3>. QED BY <1>1, <1>3, <3>1, <3>2, <3>3
  <2>5. ASSUME NEW m \in t.leases
        PROVE  \E y \in Slots : Unresolved(t, y) /\ HandleOf(t, y) = m.handle
    <3>1. PICK y \in Slots : Unresolved(s, y) /\ HandleOf(s, y) = m.handle
      BY Zenon DEF Good, Linked
    <3>2. y # x
      BY <1>4, <3>1, Zenon
    <3>. QED BY <1>3, <3>1, <3>2, Zenon
  <2>. QED BY <2>1, <2>2, <2>3, <2>4, <2>5, Zenon DEF Linked
<1>10. Pinned(s, t)
  <2> SUFFICES ASSUME NEW y \in Slots, Unresolved(s, y)
               PROVE  LET b == s.intents[y[1]].binding
                      IN  /\ t.bindings[b] # None
                          /\ t.bindings[b].account = s.bindings[b].account
                          /\ t.bindings[b].generation = s.bindings[b].generation
                          /\ t.bindings[b].route = s.bindings[b].route
                          /\ t.accounts[s.attempts[y].account].status # "absent"
    BY Zenon DEF Pinned
  <2>1. Held(s, y)
    BY RouteHeld, Zenon
  <2>. QED BY <1>5, <1>6, <2>1, Zenon DEF Held
<1>. QED BY <1>1, <1>7, <1>8, <1>9, <1>10, Zenon DEF Good

(* Engine.report of an event that the ledger takes. *)
LEMMA ReportedKeeps ==
    ASSUME Good(saved), NEW x \in Slots, NEW e \in Events, Issued(saved, x), Applies(saved.attempts[x], e)
    PROVE  LET t == Reported(x, e)
           IN  /\ Good(t) /\ Retained(saved, t) /\ Pinned(saved, t) /\ t.accounts = saved.accounts
               /\ t.attempts = [saved.attempts EXCEPT ![x] = Applied(saved.attempts[x], e)]
<1> DEFINE f == [saved.attempts EXCEPT ![x] = Applied(saved.attempts[x], e)]
           next == [saved EXCEPT !.attempts = f]
<1>1. f \in [Slots -> Attempts \union {None}] /\ Unresolved(saved, x) /\ f[x].handle = HandleOf(saved, x)
      /\ f[x].sequence = saved.attempts[x].sequence
  <2> DEFINE c == Applied(saved.attempts[x], e)
  <2>1. saved.attempts[x] \in Attempts /\ ValidAttempt(saved.attempts[x])
    BY Zenon DEF Good, Snapshots, ValidLedger, Issued
  <2>2. /\ c \in Attempts /\ saved.attempts[x].state \in UnresolvedState
        /\ c.handle = saved.attempts[x].handle /\ c.sequence = saved.attempts[x].sequence
    BY <2>1, AppliedAttempt, Zenon
  <2>3. saved.attempts \in [Slots -> Attempts \union {None}]
    BY Zenon DEF Good, Snapshots
  <2>4. f = [saved.attempts EXCEPT ![x] = c]
    BY Zenon
  <2> HIDE DEF c, f
  <2>5. f \in [Slots -> Attempts \union {None}] /\ f[x] = c
    BY <2>2, <2>3, <2>4, Zenon
  <2>. QED BY <2>2, <2>5, Zenon DEF Unresolved, HandleOf
<1>2. Reported(x, e) = IF e = "accepted" THEN next ELSE Released(next, x)
  BY Zenon DEF Reported
<1>3. CASE e = "accepted"
  <2> HIDE DEF f
  <2>1. /\ next \in Snapshots /\ next.attempts = f /\ next.intents = saved.intents
        /\ next.bindings = saved.bindings /\ next.leases = saved.leases
        /\ next.credits = saved.credits /\ next.accounts = saved.accounts
    BY <1>1, Zenon DEF Good, Snapshots
  <2> HIDE DEF next
  <2>2. Good(next) /\ Retained(saved, next) /\ Pinned(saved, next)
    BY <1>3, <2>1, AcceptedKeeps, Zenon DEF f
  <2>. QED BY <1>2, <1>3, <2>1, <2>2, Zenon DEF f
<1>4. CASE e # "accepted"
  <2>1. PICK l \in saved.leases : l.handle = HandleOf(saved, x)
    BY <1>1, Zenon DEF Good, Linked
  <2>2. /\ l \in Leases /\ l.binding \in Bindings
        /\ saved.bindings[l.binding] # None /\ saved.bindings[l.binding] \in Routes
    BY Zenon DEF Good, Snapshots, Leases, ValidRoutes
  <2> DEFINE r == [saved.bindings[l.binding] EXCEPT !.in_flight = @ - 1]
             g == [saved.bindings EXCEPT ![l.binding] = r]
             kept == saved.leases \ {l}
             credits == saved.credits \ {<<HandleOf(saved, x), saved.attempts[x].sequence>>}
             t == [saved EXCEPT !.attempts = f, !.leases = kept, !.bindings = g, !.credits = credits]
  <2>3. {m \in saved.leases : m.handle = HandleOf(saved, x)} = {l}
    BY <2>1, Zenon DEF Good, Linked
  <2>4. g = [b \in Bindings |-> IF \E m \in {l} : m.binding = b
                                THEN [saved.bindings[b] EXCEPT !.in_flight = @ - 1] ELSE saved.bindings[b]]
    BY <2>2, Zenon DEF Good, Snapshots
  <2>5. r \in Routes
    <3>1. l \in LeasesOf(saved, l.binding) /\ IsFiniteSet(LeasesOf(saved, l.binding))
      BY FS_Subset, Zenon DEF LeasesOf, Good, Linked
    <3>2. Cardinality(LeasesOf(saved, l.binding)) \in Nat \ {0}
      BY <3>1, FS_EmptySet, FS_CardinalityType, Zenon
    <3>3. saved.bindings[l.binding].in_flight = Cardinality(LeasesOf(saved, l.binding))
      BY <2>2, Zenon DEF Good, ValidRoutes
    <3>. QED BY <2>2, <3>2, <3>3 DEF Routes
  <2>6. /\ g \in [Bindings -> Routes \union {None}] /\ kept \subseteq Leases
        /\ credits \subseteq Handles \X (Nat \ {0})
    BY <2>2, <2>5, Zenon DEF Good, Snapshots
  <2>7. Released(next, x) = t
    <3> HIDE DEF f
    <3>1. /\ next.attempts = f /\ next.leases = saved.leases /\ next.bindings = saved.bindings
          /\ next.credits = saved.credits
      BY Zenon DEF Good, Snapshots
    <3>2. HandleOf(next, x) = HandleOf(saved, x) /\ next.attempts[x].sequence = saved.attempts[x].sequence
      BY <1>1, <3>1, Zenon DEF HandleOf
    <3> DEFINE held == {m \in next.leases : m.handle = HandleOf(next, x)}
    <3>3. held = {l}
      BY <2>3, <3>1, <3>2, Zenon
    <3>4. Released(next, x) =
              [next EXCEPT
                 !.leases = next.leases \ held,
                 !.bindings = [b \in Bindings |->
                     IF \E m \in held : m.binding = b
                     THEN [next.bindings[b] EXCEPT !.in_flight = @ - 1] ELSE next.bindings[b]],
                 !.credits = next.credits \ {<<HandleOf(next, x), next.attempts[x].sequence>>}]
      <4> HIDE DEF next
      <4>. QED BY Zenon DEF Released
    <3> HIDE DEF held, next, g
    <3>5. Released(next, x) = [next EXCEPT !.leases = kept, !.bindings = g, !.credits = credits]
      BY <2>4, <3>1, <3>2, <3>3, <3>4, Zenon
    <3> HIDE DEF kept, credits
    <3>. QED BY <3>5, Zenon DEF next, Good, Snapshots
  <2> HIDE DEF f, g, kept, credits
  <2>8. /\ t \in Snapshots /\ t.attempts = f /\ t.intents = saved.intents
        /\ t.bindings = g /\ t.leases = kept /\ t.credits = credits /\ t.accounts = saved.accounts
    BY <1>1, <2>6, Zenon DEF Good, Snapshots
  <2> HIDE DEF t
  <2>9. Good(t) /\ Retained(saved, t) /\ Pinned(saved, t)
    BY <1>4, <2>1, <2>8, ResolvedKeeps DEF f, g, kept, credits
  <2>. QED BY <1>2, <1>4, <2>7, <2>8, <2>9, Zenon DEF f
<1>. QED BY <1>3, <1>4, Zenon

-----------------------------------------------------------------------------
(* Engine.acquire. *)

(* State.bind: the route agrees with the grant and with every lease that   *)
(* is in flight on the binding.                                            *)
LEMMA RouteAgrees ==
    ASSUME Good(saved), NEW b \in Bindings, NEW a \in Accounts, NEW r \in Rerouted(b, a)
    PROVE  /\ r \in Routes /\ r.account = a /\ r.generation = saved.accounts[a].generation
           /\ IsFiniteSet(LeasesOf(saved, b)) /\ r.in_flight = Cardinality(LeasesOf(saved, b))
           /\ \A l \in LeasesOf(saved, b) : r = saved.bindings[b]
<1> DEFINE old == saved.bindings[b]
           generation == saved.accounts[a].generation
           fresh(route) == [account |-> a, generation |-> generation, route |-> route, in_flight |-> 0]
<1>1. IsFiniteSet(LeasesOf(saved, b))
  BY FS_Subset, Zenon DEF LeasesOf, Good, Linked
<1>2. generation \in Nat \ {0} /\ (old # None => old \in Routes)
  BY Zenon DEF Good, Snapshots, Grants
<1>3. old # None => old.in_flight = Cardinality(LeasesOf(saved, b))
  BY Zenon DEF Good, ValidRoutes
<1>4. old = None => LeasesOf(saved, b) = {}
  BY Zenon DEF Good, ValidRoutes, LeasesOf
<1>5. \/ old = None /\ r = fresh(1)
      \/ old # None /\ old.account = a /\ old.generation = generation /\ r = old
      \/ old # None /\ old.in_flight = 0 /\ r = fresh(old.route + 1)
  BY Zenon DEF Rerouted
<1> HIDE DEF old, generation
<1>6. CASE old = None /\ r = fresh(1)
  <2>1. LeasesOf(saved, b) = {} /\ Cardinality(LeasesOf(saved, b)) = 0
    BY <1>4, <1>6, FS_EmptySet, Zenon
  <2>2. r \in Routes /\ r.account = a /\ r.generation = generation /\ r.in_flight = 0
    BY <1>2, <1>6 DEF Routes
  <2>. QED BY <1>1, <2>1, <2>2, Zenon DEF generation
<1>7. CASE old # None /\ old.account = a /\ old.generation = generation /\ r = old
  BY <1>1, <1>2, <1>3, <1>7, Zenon DEF old, generation
<1>8. CASE old # None /\ old.in_flight = 0 /\ r = fresh(old.route + 1)
  <2>1. LeasesOf(saved, b) = {} /\ Cardinality(LeasesOf(saved, b)) = 0
    BY <1>1, <1>3, <1>8, FS_EmptySet, Zenon
  <2>2. r \in Routes /\ r.account = a /\ r.generation = generation /\ r.in_flight = 0
    BY <1>2, <1>8 DEF Routes
  <2>. QED BY <1>1, <2>1, <2>2, Zenon DEF generation
<1>. QED BY <1>5, <1>6, <1>7, <1>8, Zenon

(* Ledger.checkIssue: the attempt is new and, if it is the alternate, the  *)
(* first was rejected.                                                     *)
LEMMA MayIssueNew ==
    ASSUME Good(saved), NEW k \in Keys, NEW b \in Bindings, NEW d \in Demands, NEW n \in MayIssue(k, b, d)
    PROVE  /\ n \in {1, 2} /\ <<k, n>> \in Slots /\ ~Issued(saved, <<k, n>>)
           /\ n = 1 => ~Issued(saved, First(k)) /\ ~Issued(saved, Alternate(k)) /\ saved.intents[k] = None
           /\ n = 2 => /\ Issued(saved, First(k)) /\ saved.attempts[First(k)].state = "rejected"
                       /\ saved.intents[k] = [binding |-> b, demand |-> d]
<1>1. First(k) = <<k, 1>> /\ Alternate(k) = <<k, 2>> /\ <<k, 1>> \in Slots /\ <<k, 2>> \in Slots
  BY Zenon DEF First, Alternate, Slots
<1>2. \/ n = 1 /\ saved.intents[k] = None
      \/ /\ n = 2 /\ saved.intents[k] # None /\ saved.intents[k] = [binding |-> b, demand |-> d]
         /\ ~Issued(saved, Alternate(k)) /\ saved.attempts[First(k)].state = "rejected"
  BY Zenon DEF MayIssue
<1>3. saved.intents[k] # None <=> Issued(saved, First(k))
  BY Zenon DEF Good, Linked
<1>4. Issued(saved, Alternate(k)) => Issued(saved, First(k))
  BY Zenon DEF Good, ValidLedger
<1>. QED BY <1>1, <1>2, <1>3, <1>4

NewAttempt(h, a, q) ==
    [handle |-> h, account |-> a, sequence |-> q, state |-> "issued",
     accepted_report |-> FALSE, terminal_report |-> None]

NewLease(h, b, a, r) ==
    [handle |-> h, binding |-> b, account |-> a, generation |-> r.generation, route |-> r.route]

(* One more element. *)
LEMMA Added ==
    ASSUME NEW S, NEW x, IsFiniteSet(S), NEW T, T = S \union {x}
    PROVE  IsFiniteSet(T) /\ (x \notin S => Cardinality(T) = Cardinality(S) + 1)
BY FS_AddElement, Zenon

(* Snapshot t is s with attempt n of request k, under handle h and         *)
(* sequence q, on route r of binding b.                                    *)
Issues(s, t, k, n, b, d, a, h, q, r, u, l) ==
    /\ k \in Keys /\ n \in {1, 2} /\ b \in Bindings /\ d \in Demands /\ a \in Accounts
    /\ h \in Handles /\ q \in Nat \ {0} /\ r \in Routes /\ t \in Snapshots
    /\ <<k, n>> \in Slots /\ ~Issued(s, <<k, n>>)
    /\ n = 1 => ~Issued(s, First(k)) /\ ~Issued(s, Alternate(k)) /\ s.intents[k] = None
    /\ n = 2 => /\ Issued(s, First(k)) /\ s.attempts[First(k)].state = "rejected"
                /\ s.intents[k] = [binding |-> b, demand |-> d]
                /\ s.attempts[First(k)].account # a
    /\ \A x \in Slots : Issued(s, x) => HandleOf(s, x) # h /\ s.attempts[x].sequence < q
    /\ s.accounts[a].status = "ready" /\ r.account = a /\ r.generation = s.accounts[a].generation
    /\ IsFiniteSet(LeasesOf(s, b)) /\ r.in_flight = Cardinality(LeasesOf(s, b))
    /\ \A m \in LeasesOf(s, b) : r = s.bindings[b]
    /\ t.accounts = s.accounts
    /\ t.intents = [s.intents EXCEPT ![k] = [binding |-> b, demand |-> d]]
    /\ t.attempts = [s.attempts EXCEPT ![<<k, n>>] = NewAttempt(h, a, q)]
    /\ u = [r EXCEPT !.in_flight = r.in_flight + 1] /\ t.bindings = [s.bindings EXCEPT ![b] = u]
    /\ l = NewLease(h, b, a, r) /\ t.leases = s.leases \union {l}
    /\ t.credits = s.credits \union {<<h, q>>}

(* A new attempt, with its lease, its place in the route and its credit. *)
LEMMA IssuedKeeps ==
    ASSUME NEW s, NEW t, NEW k, NEW n, NEW b, NEW d, NEW a, NEW h, NEW q, NEW r, NEW u, NEW l,
           Good(s), Issues(s, t, k, n, b, d, a, h, q, r, u, l)
    PROVE  Good(t) /\ Retained(s, t) /\ Pinned(s, t)
<1> USE DEF Issues
<1> DEFINE x == <<k, n>>
           new == NewAttempt(h, a, q)
<1>1. /\ new # None /\ ValidAttempt(new) /\ new.handle = h /\ new.account = a /\ new.sequence = q
      /\ new.state = "issued"
  <2>1. new \in Attempts
    BY Zenon DEF NewAttempt, Attempts, UnresolvedState
  <2>2. new # None
    BY <2>1, RequestsAssumption, Zenon
  <2>. QED BY <2>2, Zenon DEF NewAttempt, ValidAttempt
<1>2. /\ u \in Routes /\ u # None /\ u.account = a /\ u.generation = r.generation /\ u.route = r.route
      /\ u.in_flight = r.in_flight + 1
  <2>1. /\ u \in Routes /\ u.account = a /\ u.generation = r.generation /\ u.route = r.route
        /\ u.in_flight = r.in_flight + 1
    BY DEF Routes
  <2>. QED BY <2>1, RequestsAssumption, Zenon
<1>3. /\ l.handle = h /\ l.binding = b /\ l.account = a /\ l.generation = r.generation /\ l.route = r.route
  BY Zenon DEF NewLease
<1>4. /\ t.attempts[x] = new /\ \A y \in Slots \ {x} : t.attempts[y] = s.attempts[y]
      /\ t.intents[k] = [binding |-> b, demand |-> d]
      /\ \A j \in Keys \ {k} : t.intents[j] = s.intents[j]
      /\ t.bindings[b] = u /\ \A c \in Bindings \ {b} : t.bindings[c] = s.bindings[c]
  <2>1. /\ s.attempts \in [Slots -> Attempts \union {None}]
        /\ s.intents \in [Keys -> Intents \union {None}]
        /\ s.bindings \in [Bindings -> Routes \union {None}]
    BY Zenon DEF Good, Snapshots
  <2> HIDE DEF new
  <2>. QED BY <2>1, Zenon DEF new
<1> HIDE DEF new, x
<1>5. /\ x \in Slots /\ ~Issued(s, x) /\ Issued(t, x) /\ Unresolved(t, x) /\ HandleOf(t, x) = h
      /\ t.attempts[x].sequence = q
  BY <1>1, <1>4, Zenon DEF x, Issued, Unresolved, UnresolvedState, HandleOf
<1>6. \A y \in Slots \ {x} : /\ Issued(t, y) <=> Issued(s, y)
                             /\ Unresolved(t, y) <=> Unresolved(s, y)
                             /\ HandleOf(t, y) = HandleOf(s, y)
  BY <1>4, Zenon DEF Issued, Unresolved, HandleOf
<1>7. \A m \in s.leases : m.handle # h
  BY DEF Good, Linked, Unresolved
<1>8. \A j \in Keys : /\ First(j) \in Slots /\ Alternate(j) \in Slots
                      /\ First(j) = x <=> j = k /\ n = 1
                      /\ Alternate(j) = x <=> j = k /\ n = 2
  BY Zenon DEF First, Alternate, Slots, x
<1>9. ValidLedger(t)
  <2>1. \A y \in Slots : Issued(t, y) => ValidAttempt(t.attempts[y])
    BY <1>1, <1>4, <1>6, Zenon DEF Good, ValidLedger
  <2>2. ASSUME NEW j \in Keys, Issued(t, Alternate(j))
        PROVE  LET p == t.attempts[First(j)]
                   v == t.attempts[Alternate(j)]
               IN  /\ Issued(t, First(j)) /\ p.state = "rejected"
                   /\ p.account # v.account
                   /\ p.sequence < v.sequence
    <3>1. CASE j = k /\ n = 2
      <4>1. Alternate(j) = x /\ First(j) # x
        BY <1>8, <3>1, Zenon
      <4>2. t.attempts[First(j)] = s.attempts[First(j)] /\ Issued(t, First(j))
        BY <1>4, <1>6, <1>8, <3>1, <4>1, Zenon
      <4>. QED BY <1>1, <1>4, <1>8, <3>1, <4>1, <4>2, Zenon
    <3>2. CASE j = k /\ n = 1
      BY <1>6, <1>8, <2>2, <3>2, Zenon
    <3>3. CASE j # k
      <4>1. First(j) \in Slots \ {x} /\ Alternate(j) \in Slots \ {x}
        BY <1>8, <3>3, Zenon
      <4>2. Issued(s, Alternate(j))
        BY <1>6, <2>2, <4>1, Zenon
      <4>. QED BY <1>4, <1>6, <4>1, <4>2 DEF Good, ValidLedger
    <3>. QED BY <3>1, <3>2, <3>3, Zenon
  <2>3. ASSUME NEW y \in Slots, NEW z \in Slots, Issued(t, y), Issued(t, z), y # z
        PROVE  t.attempts[y].sequence # t.attempts[z].sequence /\ HandleOf(t, y) # HandleOf(t, z)
    <3>1. \A w \in Slots \ {x} : Issued(t, w) =>
              t.attempts[w].sequence \in Nat /\ t.attempts[w].sequence < q /\ HandleOf(t, w) # h
      BY <1>4, <1>6 DEF Good, Snapshots, Attempts, Issued
    <3>2. CASE y = x \/ z = x
      BY <1>5, <2>3, <3>1, <3>2
    <3>3. CASE y # x /\ z # x
      BY <1>4, <1>6, <2>3, <3>3 DEF Good, ValidLedger
    <3>. QED BY <3>2, <3>3, Zenon
  <2>. QED BY <2>1, <2>2, <2>3 DEF ValidLedger
<1>10. ValidRoutes(t)
  <2>1. ASSUME NEW c \in Bindings, t.bindings[c] # None
        PROVE  LET o == t.bindings[c]
               IN  /\ t.accounts[o.account].status # "absent"
                   /\ o.generation <= t.accounts[o.account].generation
                   /\ o.in_flight = Cardinality(LeasesOf(t, c))
    <3>1. CASE c = b
      <4>1. LeasesOf(t, c) = LeasesOf(s, c) \union {l} /\ l \notin LeasesOf(s, c)
        BY <1>3, <1>7, <3>1 DEF LeasesOf
      <4>2. IsFiniteSet(LeasesOf(s, c)) /\ r.in_flight = Cardinality(LeasesOf(s, c))
        BY <3>1, Zenon
      <4>3. Cardinality(LeasesOf(t, c)) = Cardinality(LeasesOf(s, c)) + 1
        BY <4>1, <4>2, Added
      <4>4. s.accounts[a].generation \in Nat
        BY Zenon DEF Good, Snapshots, Grants
      <4>5. t.bindings[c] = u /\ t.accounts[u.account] = s.accounts[a]
        BY <1>2, <1>4, <3>1, Zenon
      <4>6. u.in_flight = Cardinality(LeasesOf(t, c))
        BY <1>2, <4>2, <4>3, Zenon
      <4>7. u.generation <= s.accounts[a].generation
        BY <1>2, <4>4
      <4>. QED BY <4>5, <4>6, <4>7, Zenon
    <3>2. CASE c # b
      <4>1. LeasesOf(t, c) = LeasesOf(s, c)
        BY <1>3, <3>2, Zenon DEF LeasesOf
      <4>. QED BY <1>4, <2>1, <3>2, <4>1 DEF Good, ValidRoutes
    <3>. QED BY <3>1, <3>2, Zenon
  <2>2. ASSUME NEW m \in t.leases
        PROVE  LET o == t.bindings[m.binding]
               IN  o # None /\ o.account = m.account /\ o.generation = m.generation /\ o.route = m.route
    <3>1. CASE m = l
      <4>1. t.bindings[m.binding] = u
        BY <1>3, <1>4, <3>1, Zenon
      <4>2. /\ u # None /\ u.account = l.account /\ u.generation = l.generation
            /\ u.route = l.route
        BY <1>2, <1>3, Zenon
      <4>. QED BY <3>1, <4>1, <4>2, Zenon
    <3>2. CASE m \in s.leases
      <4>1. m.binding \in Bindings
        BY <3>2, Zenon DEF Good, Snapshots, Leases
      <4>2. LET o == s.bindings[m.binding]
            IN  o # None /\ o.account = m.account /\ o.generation = m.generation /\ o.route = m.route
        BY <3>2, Zenon DEF Good, ValidRoutes
      <4>3. m.binding = b => r = s.bindings[b]
        BY <3>2, Zenon DEF LeasesOf
      <4>. QED BY <1>2, <1>4, <4>1, <4>2, <4>3
    <3>. QED BY <3>1, <3>2, Zenon
  <2>. QED BY <2>1, <2>2, Zenon DEF ValidRoutes
<1>11. ValidCredits(t)
  <2>1. \A y \in Slots : Unresolved(t, y) => <<HandleOf(t, y), t.attempts[y].sequence>> \in t.credits
    BY <1>4, <1>5, <1>6, Zenon DEF Good, ValidCredits
  <2>2. ASSUME NEW c \in t.credits
        PROVE  /\ \E y \in Slots : Unresolved(t, y) /\ <<HandleOf(t, y), t.attempts[y].sequence>> = c
               /\ \E m \in t.leases : m.handle = c[1]
    <3>1. CASE c = <<h, q>>
      BY <1>3, <1>5, <3>1, Zenon
    <3>2. CASE c \in s.credits
      <4>1. PICK y \in Slots : Unresolved(s, y) /\ <<HandleOf(s, y), s.attempts[y].sequence>> = c
        BY <3>2, Zenon DEF Good, ValidCredits
      <4>2. y # x
        BY <1>5, <4>1, Zenon DEF Unresolved
      <4>3. Unresolved(t, y) /\ <<HandleOf(t, y), t.attempts[y].sequence>> = c
        BY <1>4, <1>6, <4>1, <4>2, Zenon
      <4>4. \E m \in s.leases : m.handle = c[1]
        BY <3>2, Zenon DEF Good, ValidCredits
      <4>. QED BY <4>3, <4>4, Zenon
    <3>. QED BY <3>1, <3>2, Zenon
  <2>. QED BY <2>1, <2>2, Zenon DEF ValidCredits
<1>12. ASSUME NEW y \in Slots, Unresolved(s, y)
       PROVE  t.intents[y[1]] = s.intents[y[1]]
  <2>1. y[1] \in Keys /\ (y = First(y[1]) \/ y = Alternate(y[1]))
    BY DEF Slots, First, Alternate
  <2>2. CASE y[1] # k
    BY <1>4, <2>1, <2>2, Zenon
  <2>3. CASE y[1] = k
    BY <1>4, <1>12, <2>1, <2>3, Zenon DEF Unresolved
  <2>. QED BY <2>2, <2>3, Zenon
<1>13. Linked(t)
  <2>1. IsFiniteSet(t.leases)
    <3> DEFINE S == s.leases
    <3>1. IsFiniteSet(S) /\ t.leases = S \union {l}
      BY Zenon DEF Good, Linked
    <3> HIDE DEF S
    <3>2. IsFiniteSet(S \union {l})
      BY <3>1, Added, Zenon
    <3>. QED BY <3>1, <3>2, Zenon
  <2>2. ASSUME NEW j \in Keys PROVE t.intents[j] # None <=> Issued(t, First(j))
    <3>1. CASE j = k
      <4>1. t.intents[k] \in Intents
        BY <1>4 DEF Intents
      <4>2. t.intents[k] # None
        BY <4>1, RequestsAssumption, Zenon
      <4>3. Issued(t, First(k))
        BY <1>5, <1>6, <1>8, Zenon
      <4>. QED BY <3>1, <4>2, <4>3, Zenon
    <3>2. CASE j # k
      BY <1>4, <1>6, <1>8, <3>2 DEF Good, Linked
    <3>. QED BY <3>1, <3>2, Zenon
  <2>3. \A m, o \in t.leases : m.handle = o.handle => m = o
    BY <1>3, <1>7 DEF Good, Linked
  <2>4. ASSUME NEW y \in Slots, Unresolved(t, y)
        PROVE  \E m \in t.leases : /\ m.handle = HandleOf(t, y)
                                   /\ m.account = t.attempts[y].account
                                   /\ m.binding = t.intents[y[1]].binding
    <3>1. CASE y = x
      <4>1. y[1] = k
        BY <3>1, Zenon DEF x
      <4>. QED BY <1>1, <1>3, <1>4, <1>5, <3>1, <4>1
    <3>2. CASE y # x
      <4>1. Unresolved(s, y)
        BY <1>6, <2>4, <3>2, Zenon
      <4>2. PICK m \in s.leases : /\ m.handle = HandleOf(s, y)
                                  /\ m.account = s.attempts[y].account
                                  /\ m.binding = s.intents[y[1]].binding
        BY <4>1, Zenon DEF Good, Linked
      <4>. QED BY <1>4, <1>6, <1>12, <3>2, <4>1, <4>2
    <3>. QED BY <3>1, <3>2, Zenon
  <2>5. ASSUME NEW m \in t.leases
        PROVE  \E y \in Slots : Unresolved(t, y) /\ HandleOf(t, y) = m.handle
    <3>1. CASE m = l
      BY <1>3, <1>5, <3>1, Zenon
    <3>2. CASE m \in s.leases
      <4>1. PICK y \in Slots : Unresolved(s, y) /\ HandleOf(s, y) = m.handle
        BY <3>2, Zenon DEF Good, Linked
      <4>2. y # x
        BY <1>5, <4>1, Zenon DEF Unresolved
      <4>. QED BY <1>6, <4>1, <4>2, Zenon
    <3>. QED BY <3>1, <3>2, Zenon
  <2>. QED BY <2>1, <2>2, <2>3, <2>4, <2>5, Zenon DEF Linked
<1>14. Retained(s, t)
  <2> SUFFICES ASSUME NEW y \in Slots, Issued(s, y)
               PROVE  t.attempts[y] = s.attempts[y] /\ t.intents[y[1]] = s.intents[y[1]]
    BY Zenon DEF Retained, Issued
  <2>1. y # x
    BY <1>5, Zenon
  <2>2. y[1] \in Keys /\ (y = First(y[1]) \/ y = Alternate(y[1]))
    BY DEF Slots, First, Alternate
  <2>3. t.intents[y[1]] = s.intents[y[1]]
    BY <1>4, <2>2
  <2>. QED BY <1>4, <2>1, <2>3, Zenon
<1>15. Pinned(s, t)
  <2> SUFFICES ASSUME NEW y \in Slots, Unresolved(s, y)
               PROVE  LET c == s.intents[y[1]].binding
                      IN  /\ t.bindings[c] # None
                          /\ t.bindings[c].account = s.bindings[c].account
                          /\ t.bindings[c].generation = s.bindings[c].generation
                          /\ t.bindings[c].route = s.bindings[c].route
                          /\ t.accounts[s.attempts[y].account].status # "absent"
    BY Zenon DEF Pinned
  <2> DEFINE c == s.intents[y[1]].binding
  <2> HIDE DEF Issues
  <2>1. /\ c \in Bindings /\ s.bindings[c] # None
        /\ s.accounts[s.attempts[y].account].status # "absent"
        /\ \E m \in s.leases : m.binding = c
    BY RouteOf, Zenon
  <2> HIDE DEF c
  <2> USE DEF Issues
  <2>2. c = b => r = s.bindings[b]
    BY <2>1, Zenon DEF LeasesOf
  <2>3. /\ t.bindings[c] # None
        /\ t.bindings[c].account = s.bindings[c].account
        /\ t.bindings[c].generation = s.bindings[c].generation
        /\ t.bindings[c].route = s.bindings[c].route
    BY <1>2, <1>4, <2>1, <2>2
  <2>. QED BY <2>1, <2>3, Zenon DEF c
<1>. QED BY <1>9, <1>10, <1>11, <1>13, <1>14, <1>15, Zenon DEF Good

-----------------------------------------------------------------------------
(* Steps. *)

(* A snapshot that the disk may hold after saved. *)
Follows(t) == Good(t) /\ Retained(saved, t) /\ Pinned(saved, t)

LEMMA SavedFollows ==
    ASSUME IInv
    PROVE  Follows(saved)
<1>1. Good(saved) /\ \A x \in Slots : Issued(saved, x) => ValidAttempt(saved.attempts[x])
  BY Zenon DEF IInv, Good, ValidLedger
<1>2. Retained(saved, saved)
  BY Zenon DEF Retained, Issued
<1>3. Pinned(saved, saved)
  BY <1>1, RouteOf, Zenon DEF Pinned
<1>. QED BY <1>1, <1>2, <1>3, Zenon DEF Follows

(* A handler that commits t and leaves the NativeLeases as leases, whether *)
(* the commit succeeds, fails or is refused.                               *)
LEMMA CommitKeeps ==
    ASSUME IInv, mode = "up", NEW t, Follows(t), Witnessed(t, drawn, world),
           NEW leases \in [Handles -> Events \union {"issued", None}],
           NativeOK(t, leases), NativeOK(saved, leases),
           PersistMay(t, leases), UNCHANGED <<drawn, late, world>>
    PROVE  IInv' /\ Follows(saved')
<1>1. NoLeases \in [Handles -> Events \union {"issued", None}] /\ \A h \in Handles : NoLeases[h] = None
  BY Zenon DEF NoLeases
<1>2. \A s : NativeOK(s, NoLeases)
  BY <1>1, RequestsAssumption, Zenon DEF NativeOK
<1>3. Good(saved) /\ Follows(saved) /\ Witnessed(saved, drawn, world)
  BY SavedFollows, Zenon DEF IInv
<1>4. (saved' = saved \/ saved' = t) /\ Good(saved') /\ saved' \in Snapshots
  BY <1>3, Zenon DEF PersistMay, Persist, PersistFails, PersistRefused, Follows, Good
<1>5. /\ mode' \in {"down", "up"} /\ (mode' = "down" => native' = NoLeases)
      /\ native' \in [Handles -> Events \union {"issued", None}]
      /\ native' \in {leases, NoLeases}
  BY <1>1, Zenon DEF PersistMay, Persist, PersistFails, PersistRefused
<1>6. NativeOK(saved', native')
  BY <1>2, <1>4, <1>5, Zenon
<1>7. Witnessed(saved', drawn', world')
  BY <1>3, <1>4, Zenon
<1>8. TypeOK'
  BY <1>4, <1>5, Zenon DEF IInv, TypeOK
<1>. QED BY <1>3, <1>4, <1>5, <1>6, <1>7, <1>8, Zenon DEF IInv

(* Witnessed and NativeOK only look at the attempts. *)
LEMMA SameAttempts ==
    ASSUME NEW s, NEW t, t.attempts = s.attempts
    PROVE  /\ \A n, w : Witnessed(s, n, w) => Witnessed(t, n, w)
           /\ \A n : NativeOK(s, n) => NativeOK(t, n)
BY DEF Witnessed, NativeOK, Issued, HandleOf

(* expireLeases takes NativeLeases away, never one that is issued. *)
LEMMA SweptKeeps ==
    ASSUME IInv
    PROVE  /\ Swept(native) \in [Handles -> Events \union {"issued", None}]
           /\ NativeOK(saved, Swept(native))
<1>1. native \in [Handles -> Events \union {"issued", None}] /\ NativeOK(saved, native)
  BY Zenon DEF IInv, TypeOK
<1>2. /\ Swept(native) \in [Handles -> Events \union {"issued", None}]
      /\ \A h \in Handles : Swept(native)[h] \in {native[h], None}
  BY <1>1, Zenon DEF Swept
<1>3. \A h \in Handles : Swept(native)[h] = "issued" => native[h] = "issued"
  BY <1>2, RequestsAssumption, Zenon
<1>. QED BY <1>1, <1>2, <1>3, Zenon DEF NativeOK

(* A commit that leaves the attempts alone. *)
LEMMA PlainCommit ==
    ASSUME IInv, mode = "up", NEW t, Follows(t), t.attempts = saved.attempts,
           PersistMay(t, native), UNCHANGED <<drawn, late, world>>
    PROVE  IInv' /\ Follows(saved')
<1>1. /\ native \in [Handles -> Events \union {"issued", None}]
      /\ NativeOK(saved, native) /\ Witnessed(saved, drawn, world)
  BY Zenon DEF IInv, TypeOK
<1>2. NativeOK(t, native) /\ Witnessed(t, drawn, world)
  BY <1>1, SameAttempts, Zenon
<1>. QED BY <1>1, <1>2, CommitKeeps, Zenon

LEMMA InvalidFollows ==
    ASSUME IInv, NEW expired \in SUBSET Accounts,
           \A a \in expired : saved.accounts[a].status = "ready"
    PROVE  Follows(Invalid(saved, expired)) /\ Invalid(saved, expired).attempts = saved.attempts
<1> DEFINE f == [a \in Accounts |-> IF a \in expired THEN [saved.accounts[a] EXCEPT !.status = "invalid"]
                                    ELSE saved.accounts[a]]
<1>1. Good(saved) /\ saved.accounts \in [Accounts -> Grants]
  BY Zenon DEF IInv, Good, Snapshots
<1>2. /\ f \in [Accounts -> Grants]
      /\ \A a \in Accounts : /\ saved.accounts[a].generation <= f[a].generation
                             /\ saved.accounts[a].status # "absent" => f[a].status # "absent"
  BY <1>1 DEF Grants
<1>3. Invalid(saved, expired) = [saved EXCEPT !.accounts = f]
  BY <1>1, Zenon DEF Invalid
<1> HIDE DEF f
<1>. QED BY <1>1, <1>2, <1>3, AccountsKeep DEF Follows

LEMMA ImportFollows ==
    ASSUME IInv, NEW a \in Accounts
    PROVE  LET t == [saved EXCEPT !.accounts[a] = [generation |-> @.generation + 1, status |-> "ready"]]
           IN  Follows(t) /\ t.attempts = saved.attempts
<1> DEFINE f == [saved.accounts EXCEPT ![a] =
                    [generation |-> saved.accounts[a].generation + 1, status |-> "ready"]]
           t == [saved EXCEPT !.accounts[a] = [generation |-> @.generation + 1, status |-> "ready"]]
<1>1. Good(saved) /\ saved.accounts \in [Accounts -> Grants]
  BY Zenon DEF IInv, Good, Snapshots
<1>2. /\ f \in [Accounts -> Grants]
      /\ \A c \in Accounts : /\ saved.accounts[c].generation <= f[c].generation
                             /\ saved.accounts[c].status # "absent" => f[c].status # "absent"
  BY <1>1 DEF Grants
<1>3. t = [saved EXCEPT !.accounts = f]
  BY <1>1, Zenon
<1> HIDE DEF f
<1>4. Follows(t) /\ t.attempts = saved.attempts
  <2> HIDE DEF t
  <2>. QED BY <1>1, <1>2, <1>3, AccountsKeep, Zenon DEF Follows
<1>. QED BY <1>4, Zenon

(* A 401 only invalidates the grant. *)
LEMMA InvalidatedFollows ==
    ASSUME IInv, NEW t, Follows(t), t.accounts = saved.accounts, NEW l \in saved.leases, NEW u \in BOOLEAN
    PROVE  Follows(Invalidated(t, l, u)) /\ Invalidated(t, l, u).attempts = t.attempts
<1>1. CASE u /\ t.accounts[l.account].generation = l.generation
  <2> DEFINE a == l.account
             f == [t.accounts EXCEPT ![a] = [t.accounts[a] EXCEPT !.status = "invalid"]]
             v == [t EXCEPT !.accounts[a].status = "invalid"]
  <2>1. /\ Good(t) /\ t \in Snapshots /\ t.accounts \in [Accounts -> Grants] /\ a \in Accounts
        /\ Good(saved)
    <3>1. Good(t) /\ t \in Snapshots /\ Good(saved) /\ saved \in Snapshots
      BY Zenon DEF IInv, Follows, Good
    <3>2. l \in Leases
      BY <3>1, Zenon DEF Snapshots
    <3>3. t.accounts \in [Accounts -> Grants]
      BY <3>1, Zenon DEF Snapshots
    <3>. QED BY <3>1, <3>2, <3>3, Zenon DEF Leases
  <2>2. /\ f \in [Accounts -> Grants]
        /\ \A c \in Accounts : /\ t.accounts[c].generation <= f[c].generation
                               /\ t.accounts[c].status # "absent" => f[c].status # "absent"
    BY <2>1 DEF Grants
  <2>3. v = [t EXCEPT !.accounts = f]
    BY <2>1, Zenon
  <2>4. Invalidated(t, l, u) = v
    BY <1>1, Zenon DEF Invalidated
  <2>5. v.attempts = t.attempts /\ v.intents = t.intents /\ v.bindings = t.bindings /\ v.accounts = f
    BY <2>1, <2>3, Zenon DEF Snapshots
  <2> HIDE DEF f, v
  <2>6. Good(v)
    BY <2>1, <2>2, <2>3, AccountsKeep, Zenon
  <2>7. Retained(saved, v)
    BY <2>5 DEF Follows, Retained
  <2>8. Pinned(saved, v)
    <3> SUFFICES ASSUME NEW x \in Slots, Unresolved(saved, x), Unresolved(v, x)
                 PROVE  LET b == saved.intents[x[1]].binding
                        IN  /\ v.bindings[b] # None
                            /\ v.bindings[b].account = saved.bindings[b].account
                            /\ v.bindings[b].generation = saved.bindings[b].generation
                            /\ v.bindings[b].route = saved.bindings[b].route
                            /\ v.accounts[saved.attempts[x].account].status # "absent"
      BY Zenon DEF Pinned
    <3>1. Unresolved(t, x)
      BY <2>5, Zenon DEF Unresolved, Issued
    <3>2. saved.attempts[x].account \in Accounts /\ saved.accounts[saved.attempts[x].account].status # "absent"
      <4>1. Held(saved, x)
        BY <2>1, RouteHeld, Zenon
      <4>. QED BY <4>1, Zenon DEF Held
    <3>3. v.accounts[saved.attempts[x].account].status # "absent"
      BY <2>2, <2>5, <3>2, Zenon
    <3>. QED BY <2>5, <3>1, <3>3, Zenon DEF Follows, Pinned
  <2>. QED BY <2>4, <2>5, <2>6, <2>7, <2>8, Zenon DEF Follows
<1>2. CASE ~(u /\ t.accounts[l.account].generation = l.generation)
  BY <1>2, Zenon DEF Invalidated
<1>. QED BY <1>1, <1>2, Zenon

(* A truthful report leaves rejections to what the provider refused. *)
LEMMA ReportWitnessed ==
    ASSUME IInv, NEW x \in Slots, NEW e \in Events, Issued(saved, x), Applies(saved.attempts[x], e),
           Truthful(HandleOf(saved, x), e),
           NEW t, t.attempts = [saved.attempts EXCEPT ![x] = Applied(saved.attempts[x], e)]
    PROVE  Witnessed(t, drawn, world)
<1>1. /\ saved.attempts \in [Slots -> Attempts \union {None}] /\ saved.attempts[x] \in Attempts
      /\ ValidAttempt(saved.attempts[x]) /\ Witnessed(saved, drawn, world)
  BY Zenon DEF IInv, Good, Snapshots, Issued, ValidLedger
<1>2. LET c == t.attempts[x]
      IN  c.handle = HandleOf(saved, x) /\ c.sequence = saved.attempts[x].sequence /\ c.state = e
  BY <1>1, AppliedAttempt DEF HandleOf
<1>3. \A y \in Slots \ {x} : t.attempts[y] = saved.attempts[y]
  BY <1>1, Zenon
<1>4. e = "rejected" => world[HandleOf(saved, x)] = "refused"
  BY Zenon DEF Truthful
<1>5. ASSUME NEW y \in Slots, Issued(t, y)
      PROVE  /\ HandleOf(t, y) <= drawn /\ t.attempts[y].sequence <= drawn
             /\ t.attempts[y].state = "rejected" => world[HandleOf(t, y)] = "refused"
  <2>1. CASE y = x
    BY <1>1, <1>2, <1>4, <2>1, Zenon DEF Witnessed, HandleOf
  <2>2. CASE y # x
    BY <1>1, <1>3, <1>5, <2>2, Zenon DEF Witnessed, HandleOf, Issued
  <2>. QED BY <2>1, <2>2, Zenon
<1>. QED BY <1>5, Zenon DEF Witnessed

(* The NativeLeases that are issued are not those of the attempt. *)
LEMMA ReportNative ==
    ASSUME IInv, NEW x \in Slots, NEW e \in Events, Issued(saved, x),
           NEW t, t.attempts = [saved.attempts EXCEPT ![x] = Applied(saved.attempts[x], e)],
           NEW n, NativeOK(saved, n), n[HandleOf(saved, x)] # "issued"
    PROVE  NativeOK(t, n)
<1>1. saved.attempts \in [Slots -> Attempts \union {None}]
  BY Zenon DEF IInv, Good, Snapshots
<1>2. ASSUME NEW h \in Handles, n[h] = "issued"
      PROVE  \E y \in Slots : Issued(t, y) /\ HandleOf(t, y) = h /\ t.attempts[y].state = "issued"
  <2>1. PICK y \in Slots : Issued(saved, y) /\ HandleOf(saved, y) = h /\ saved.attempts[y].state = "issued"
    BY <1>2, Zenon DEF NativeOK
  <2>2. t.attempts[y] = saved.attempts[y]
    BY <1>1, <1>2, <2>1, Zenon
  <2>. QED BY <2>1, <2>2, Zenon DEF Issued, HandleOf
<1>. QED BY <1>2, Zenon DEF NativeOK

(* An attempt that is not issued has no NativeLease that is. *)
LEMMA NotIssuedNative ==
    ASSUME IInv, NEW x \in Slots, Issued(saved, x), saved.attempts[x].state # "issued"
    PROVE  native[HandleOf(saved, x)] # "issued"
<1>1. HandleOf(saved, x) \in Handles
  BY Zenon DEF IInv, Good, Snapshots, Issued, Attempts, HandleOf
<1>2. SUFFICES ASSUME native[HandleOf(saved, x)] = "issued" PROVE FALSE
  BY Zenon
<1>3. PICK y \in Slots : /\ Issued(saved, y) /\ HandleOf(saved, y) = HandleOf(saved, x)
                         /\ saved.attempts[y].state = "issued"
  BY <1>1, <1>2, Zenon DEF IInv, NativeOK
<1>. QED BY <1>3, Zenon DEF IInv, Good, ValidLedger

LEMMA ReportUnknownKeeps ==
    ASSUME IInv, NEW x \in Slots, NEW e \in Events, ReportUnknown(x, e)
    PROVE  IInv' /\ Follows(saved')
<1> DEFINE t == Reported(x, e)
<1>1. /\ mode = "up" /\ Issued(saved, x) /\ Truthful(HandleOf(saved, x), e)
      /\ saved.attempts[x].state = "unknown" /\ Applies(saved.attempts[x], e)
      /\ PersistMay(t, native) /\ UNCHANGED <<drawn, late, world>>
  BY Zenon DEF ReportUnknown
<1>2. Follows(t) /\ t.attempts = [saved.attempts EXCEPT ![x] = Applied(saved.attempts[x], e)]
  BY <1>1, ReportedKeeps, Zenon DEF IInv, Follows
<1> HIDE DEF t
<1>3. native \in [Handles -> Events \union {"issued", None}] /\ NativeOK(saved, native)
  BY Zenon DEF IInv, TypeOK
<1>4. native[HandleOf(saved, x)] # "issued"
  BY <1>1, NotIssuedNative, Zenon
<1>5. Witnessed(t, drawn, world) /\ NativeOK(t, native)
  BY <1>1, <1>2, <1>3, <1>4, ReportWitnessed, ReportNative, Zenon
<1>. QED BY <1>1, <1>2, <1>3, <1>5, CommitKeeps, Zenon

LEMMA ReportSweptKeeps ==
    ASSUME IInv, NEW x \in Slots, ReportSwept(x)
    PROVE  IInv' /\ Follows(saved')
<1> DEFINE e == "completed"
           t == Reported(x, e)
<1>1. /\ mode = "up" /\ Issued(saved, x) /\ Truthful(HandleOf(saved, x), e) /\ e \in Events
      /\ saved.attempts[x].state = "accepted" /\ Applies(saved.attempts[x], e)
      /\ PersistMay(t, native) /\ UNCHANGED <<drawn, late, world>>
  BY Zenon DEF ReportSwept, Applies, Events
<1>2. Follows(t) /\ t.attempts = [saved.attempts EXCEPT ![x] = Applied(saved.attempts[x], e)]
  BY <1>1, ReportedKeeps, Zenon DEF IInv, Follows
<1> HIDE DEF t, e
<1>3. native \in [Handles -> Events \union {"issued", None}] /\ NativeOK(saved, native)
  BY Zenon DEF IInv, TypeOK
<1>4. native[HandleOf(saved, x)] # "issued"
  BY <1>1, NotIssuedNative, Zenon
<1>5. Witnessed(t, drawn, world) /\ NativeOK(t, native)
  BY <1>1, <1>2, <1>3, <1>4, ReportWitnessed, ReportNative, Zenon
<1>. QED BY <1>1, <1>2, <1>3, <1>5, CommitKeeps, Zenon

LEMMA ReportKeeps ==
    ASSUME IInv, NEW x \in Slots, NEW e \in Events, NEW status \in Statuses(e), Report(x, e, status)
    PROVE  IInv' /\ Follows(saved')
<1> DEFINE h == HandleOf(saved, x)
           r == Reported(x, e)
           n == [native EXCEPT ![h] = e]
<1>1. /\ mode = "up" /\ Issued(saved, x) /\ Truthful(h, e) /\ Applies(saved.attempts[x], e)
      /\ UNCHANGED <<drawn, late, world>>
  BY Zenon DEF Report
<1>2. PICK l \in saved.leases : PersistMay(Invalidated(r, l, status = 401), n)
  BY Zenon DEF Report
<1>3. /\ Follows(r) /\ r.accounts = saved.accounts
      /\ r.attempts = [saved.attempts EXCEPT ![x] = Applied(saved.attempts[x], e)]
  BY <1>1, ReportedKeeps, Zenon DEF IInv, Follows
<1> HIDE DEF r
<1> DEFINE u == (status = 401)
           t == Invalidated(r, l, u)
<1>4. u \in BOOLEAN
  BY Zenon
<1> HIDE DEF u
<1>5. Follows(t) /\ t.attempts = [saved.attempts EXCEPT ![x] = Applied(saved.attempts[x], e)]
  BY <1>3, <1>4, InvalidatedFollows, Zenon
<1>6. PersistMay(t, n)
  BY <1>2, Zenon DEF u
<1> HIDE DEF t
<1>7. h \in Handles
  BY <1>1, Zenon DEF IInv, Good, Snapshots, Issued, Attempts, HandleOf
<1>8. native \in [Handles -> Events \union {"issued", None}] /\ NativeOK(saved, native)
  BY Zenon DEF IInv, TypeOK
<1>9. /\ n \in [Handles -> Events \union {"issued", None}] /\ n[h] = e /\ e # "issued"
      /\ \A g \in Handles : n[g] = "issued" => native[g] = "issued"
  BY <1>7, <1>8, Zenon DEF Events
<1> HIDE DEF n
<1>10. NativeOK(saved, n)
  BY <1>8, <1>9, Zenon DEF NativeOK
<1>11. Witnessed(t, drawn, world) /\ NativeOK(t, n)
  BY <1>1, <1>5, <1>9, <1>10, ReportWitnessed, ReportNative, Zenon
<1>. QED BY <1>1, <1>5, <1>6, <1>9, <1>10, <1>11, CommitKeeps, Zenon

(* acquire: the handle and the sequence of the new attempt are new. *)
LEMMA AcquireKeeps ==
    ASSUME IInv, NEW k \in Keys, NEW b \in Bindings, NEW d \in Demands, NEW a \in Accounts,
           Acquire(k, b, d, a)
    PROVE  IInv' /\ Follows(saved')
<1> DEFINE h == drawn + 1
           q == NextSequence
           intent == [binding |-> b, demand |-> d]
           new == NewAttempt(h, a, q)
<1>1. PICK n \in MayIssue(k, b, d), r \in Rerouted(b, a) :
          /\ Eligible(a)
          /\ n = 2 => saved.attempts[First(k)].account # a
          /\ LET attempt == [handle |-> drawn + 1, account |-> a, sequence |-> NextSequence, state |-> "issued",
                             accepted_report |-> FALSE, terminal_report |-> None]
                 next == [saved EXCEPT
                     !.intents[k] = [binding |-> b, demand |-> d],
                     !.attempts[<<k, n>>] = attempt,
                     !.bindings[b] = [r EXCEPT !.in_flight = r.in_flight + 1],
                     !.leases = @ \union {[handle |-> drawn + 1, binding |-> b, account |-> a,
                                           generation |-> r.generation, route |-> r.route]},
                     !.credits = @ \union {<<drawn + 1, NextSequence>>}]
             IN  /\ \/ /\ Persist(next, [Swept(native) EXCEPT ![h] = "issued"])
                       /\ world' \in {[world EXCEPT ![h] = "known"], [world EXCEPT ![h] = "lost"]}
                    \/ /\ PersistFails(next) \/ PersistRefused(Swept(native))
                       /\ world' = IF saved' = saved THEN world ELSE [world EXCEPT ![h] = "lost"]
                 /\ drawn' = IF saved' = saved THEN drawn ELSE h
  BY Zenon DEF Acquire
<1>2. /\ mode = "up" /\ drawn \in Nat /\ MaxHandles \in Nat /\ h \in Handles /\ h \in 1..MaxHandles
      /\ late' = late /\ Good(saved) /\ saved \in Snapshots /\ Follows(saved)
      /\ Witnessed(saved, drawn, world)
  BY SavedFollows, RequestsAssumption DEF Acquire, IInv, TypeOK, Handles, Good
<1>3. /\ q \in Nat \ {0} /\ q <= drawn + 1
      /\ \A x \in Slots : Issued(saved, x) => saved.attempts[x].sequence < q
  BY <1>2, SequenceIsNew, Zenon
<1>4. \A x \in Slots : Issued(saved, x) => HandleOf(saved, x) # h /\ HandleOf(saved, x) \in Handles
  BY <1>2 DEF Witnessed, Snapshots, Attempts, Issued, HandleOf, Handles
<1>5. /\ r \in Routes /\ r.account = a /\ r.generation = saved.accounts[a].generation
      /\ IsFiniteSet(LeasesOf(saved, b)) /\ r.in_flight = Cardinality(LeasesOf(saved, b))
      /\ \A l \in LeasesOf(saved, b) : r = saved.bindings[b]
  BY <1>2, RouteAgrees
<1>6. /\ n \in {1, 2} /\ <<k, n>> \in Slots /\ ~Issued(saved, <<k, n>>)
      /\ n = 1 => ~Issued(saved, First(k)) /\ ~Issued(saved, Alternate(k)) /\ saved.intents[k] = None
      /\ n = 2 => /\ Issued(saved, First(k)) /\ saved.attempts[First(k)].state = "rejected"
                  /\ saved.intents[k] = intent
                  /\ saved.attempts[First(k)].account # a
  BY <1>1, <1>2, MayIssueNew
<1>7. saved.accounts[a].status = "ready"
  BY <1>1, Zenon DEF Eligible
<1> DEFINE u == [r EXCEPT !.in_flight = r.in_flight + 1]
           l == NewLease(h, b, a, r)
           t == [saved EXCEPT !.intents[k] = intent,
                              !.attempts[<<k, n>>] = new,
                              !.bindings[b] = u,
                              !.leases = @ \union {l},
                              !.credits = @ \union {<<h, q>>}]
<1>8. /\ \/ /\ Persist(t, [Swept(native) EXCEPT ![h] = "issued"])
            /\ world' \in {[world EXCEPT ![h] = "known"], [world EXCEPT ![h] = "lost"]}
         \/ /\ PersistFails(t) \/ PersistRefused(Swept(native))
            /\ world' = IF saved' = saved THEN world ELSE [world EXCEPT ![h] = "lost"]
      /\ drawn' = IF saved' = saved THEN drawn ELSE h
  BY <1>1, Zenon DEF NewAttempt, NewLease
<1>9. /\ intent \in Intents /\ new \in Attempts /\ u \in Routes /\ l \in Leases
  <2>1. intent \in Intents
    BY Zenon DEF Intents
  <2>2. new \in Attempts
    BY <1>2, <1>3, Zenon DEF NewAttempt, Attempts, UnresolvedState
  <2>3. u \in Routes
    BY <1>5 DEF Routes
  <2>4. l \in Leases
    BY <1>2, <1>5, Zenon DEF NewLease, Leases, Routes
  <2>. QED BY <2>1, <2>2, <2>3, <2>4, Zenon
<1>10. u = [r EXCEPT !.in_flight = r.in_flight + 1] /\ l = NewLease(h, b, a, r) /\ new = NewAttempt(h, a, q)
       /\ new.handle = h /\ new.sequence = q /\ new.state = "issued"
  BY Zenon DEF NewAttempt
<1> HIDE DEF u, l, new, q, intent
<1>11. /\ t \in Snapshots /\ t.accounts = saved.accounts
       /\ t.intents = [saved.intents EXCEPT ![k] = intent]
       /\ t.attempts = [saved.attempts EXCEPT ![<<k, n>>] = new]
       /\ t.bindings = [saved.bindings EXCEPT ![b] = u]
       /\ t.leases = saved.leases \union {l}
       /\ t.credits = saved.credits \union {<<h, q>>}
  <2> DEFINE I == [saved.intents EXCEPT ![k] = intent]
             A == [saved.attempts EXCEPT ![<<k, n>>] = new]
             B == [saved.bindings EXCEPT ![b] = u]
             L == saved.leases \union {l}
             C == saved.credits \union {<<h, q>>}
  <2>1. /\ I \in [Keys -> Intents \union {None}]
        /\ A \in [Slots -> Attempts \union {None}]
        /\ B \in [Bindings -> Routes \union {None}]
        /\ L \in SUBSET Leases
        /\ C \in SUBSET (Handles \X (Nat \ {0}))
    BY <1>2, <1>3, <1>6, <1>9 DEF Snapshots
  <2>2. t = [saved EXCEPT !.intents = I, !.attempts = A, !.bindings = B, !.leases = L, !.credits = C]
    BY <1>2, Zenon DEF Snapshots
  <2> HIDE DEF I, A, B, L, C
  <2>3. /\ t \in Snapshots /\ t.accounts = saved.accounts
        /\ t.intents = I /\ t.attempts = A /\ t.bindings = B /\ t.leases = L /\ t.credits = C
    BY <1>2, <2>1, <2>2, ZenonT(60) DEF Snapshots
  <2>. QED BY <2>3, Zenon DEF I, A, B, L, C
<1> HIDE DEF t
<1>12. Good(t) /\ Retained(saved, t) /\ Pinned(saved, t)
  <2>1. /\ t.intents = [saved.intents EXCEPT ![k] = [binding |-> b, demand |-> d]]
        /\ t.attempts = [saved.attempts EXCEPT ![<<k, n>>] = NewAttempt(h, a, q)]
    BY <1>10, <1>11, Zenon DEF intent
  <2>2. n = 2 => /\ Issued(saved, First(k)) /\ saved.attempts[First(k)].state = "rejected"
                 /\ saved.intents[k] = [binding |-> b, demand |-> d]
                 /\ saved.attempts[First(k)].account # a
    BY <1>6, Zenon DEF intent
  <2>3. Issues(saved, t, k, n, b, d, a, h, q, r, u, l)
    BY <1>2, <1>3, <1>4, <1>5, <1>6, <1>7, <1>10, <1>11, <2>1, <2>2, Zenon DEF Issues
  <2>. QED BY <1>2, <2>3, IssuedKeeps, Zenon
<1>13. Follows(t)
  BY <1>12, Zenon DEF Follows
<1>14. /\ t.attempts[<<k, n>>] = new /\ new # None
       /\ \A y \in Slots \ {<<k, n>>} : t.attempts[y] = saved.attempts[y]
  <2>1. saved.attempts \in [Slots -> Attempts \union {None}]
    BY <1>2, Zenon DEF Snapshots
  <2>2. new # None
    BY <1>9, RequestsAssumption, Zenon
  <2>. QED BY <1>6, <1>11, <2>1, <2>2, Zenon
<1>15. t # saved
  BY <1>6, <1>14, Zenon DEF Issued
<1>16. /\ native \in [Handles -> Events \union {"issued", None}]
       /\ world \in [Handles -> {None, "lost", "known", "exposed", "accepted", "refused"}]
       /\ drawn \in 0..MaxHandles /\ late \subseteq Handles
       /\ Swept(native) \in [Handles -> Events \union {"issued", None}]
       /\ NativeOK(saved, Swept(native))
  BY SweptKeeps, Zenon DEF IInv, TypeOK
<1>17. ASSUME NEW w \in [Handles -> {None, "lost", "known", "exposed", "accepted", "refused"}],
              \A g \in Handles \ {h} : w[g] = world[g]
       PROVE  Witnessed(t, h, w)
  <2> SUFFICES ASSUME NEW x \in Slots, Issued(t, x)
               PROVE  /\ HandleOf(t, x) <= h /\ t.attempts[x].sequence <= h
                      /\ t.attempts[x].state = "rejected" => w[HandleOf(t, x)] = "refused"
    BY Zenon DEF Witnessed
  <2>1. CASE x = <<k, n>>
    BY <1>2, <1>3, <1>10, <1>14, <2>1 DEF HandleOf, Handles
  <2>2. CASE x # <<k, n>>
    <3>1. t.attempts[x] = saved.attempts[x] /\ Issued(saved, x) /\ saved.attempts[x] \in Attempts
      BY <1>2, <1>14, <2>2, Zenon DEF Issued, Snapshots
    <3>2. HandleOf(saved, x) \in Handles /\ saved.attempts[x].sequence \in Nat
      BY <3>1, Zenon DEF Attempts, HandleOf
    <3>3. HandleOf(saved, x) # h
      BY <1>4, <3>1, Zenon
    <3>4. HandleOf(saved, x) \in Nat
      BY <3>2 DEF Handles
    <3>5. HandleOf(t, x) = HandleOf(saved, x)
      BY <3>1, Zenon DEF HandleOf
    <3>6. /\ HandleOf(saved, x) <= drawn /\ saved.attempts[x].sequence <= drawn
          /\ saved.attempts[x].state = "rejected" => world[HandleOf(saved, x)] = "refused"
      BY <1>2, <3>1, Zenon DEF Witnessed
    <3>7. HandleOf(t, x) <= h /\ t.attempts[x].sequence <= h
      BY <1>2, <3>1, <3>2, <3>4, <3>5, <3>6
    <3>8. w[HandleOf(saved, x)] = world[HandleOf(saved, x)]
      BY <1>17, <3>2, <3>3, Zenon
    <3>. QED BY <3>1, <3>5, <3>6, <3>7, <3>8, Zenon
  <2>. QED BY <2>1, <2>2, Zenon
<1>18. NativeOK(t, [Swept(native) EXCEPT ![h] = "issued"])
  <2> DEFINE N == [Swept(native) EXCEPT ![h] = "issued"]
  <2> SUFFICES ASSUME NEW g \in Handles, N[g] = "issued"
               PROVE  \E y \in Slots : Issued(t, y) /\ HandleOf(t, y) = g /\ t.attempts[y].state = "issued"
    BY Zenon DEF NativeOK
  <2>1. CASE g = h
    BY <1>6, <1>10, <1>14, <2>1, Zenon DEF Issued, HandleOf
  <2>2. CASE g # h
    <3>1. Swept(native)[g] = "issued"
      BY <1>16, <2>2, Zenon
    <3>2. PICK y \in Slots : Issued(saved, y) /\ HandleOf(saved, y) = g /\ saved.attempts[y].state = "issued"
      BY <1>16, <3>1, Zenon DEF NativeOK
    <3>3. t.attempts[y] = saved.attempts[y]
      BY <1>6, <1>14, <3>2, Zenon
    <3>. QED BY <3>2, <3>3, Zenon DEF Issued, HandleOf
  <2>. QED BY <2>1, <2>2, Zenon
<1>19. NoLeases \in [Handles -> Events \union {"issued", None}] /\ \A s : NativeOK(s, NoLeases)
  BY RequestsAssumption, Zenon DEF NoLeases, NativeOK
<1>20. [Swept(native) EXCEPT ![h] = "issued"] \in [Handles -> Events \union {"issued", None}]
  BY <1>2, <1>16, Zenon
<1>21. /\ \A w \in {[world EXCEPT ![h] = "known"], [world EXCEPT ![h] = "lost"]} :
             /\ w \in [Handles -> {None, "lost", "known", "exposed", "accepted", "refused"}]
             /\ \A g \in Handles \ {h} : w[g] = world[g]
  BY <1>2, <1>16, Zenon
<1>22. CASE saved' = t
  <2>1. drawn' = h /\ drawn' \in 0..MaxHandles
    BY <1>2, <1>8, <1>15, <1>22
  <2>2. world' \in {[world EXCEPT ![h] = "known"], [world EXCEPT ![h] = "lost"]}
    BY <1>8, <1>15, <1>22, Zenon
  <2>3. \/ native' = [Swept(native) EXCEPT ![h] = "issued"] /\ mode' = mode
        \/ native' = NoLeases /\ mode' = "down"
    BY <1>8, <1>15, <1>22, Zenon DEF Persist, PersistFails, PersistRefused
  <2>4. Witnessed(t, h, world')
    BY <1>17, <1>21, <2>2, Zenon
  <2>5. NativeOK(t, native') /\ native' \in [Handles -> Events \union {"issued", None}]
    BY <1>18, <1>19, <1>20, <2>3, Zenon
  <2>6. TypeOK'
    BY <1>2, <1>11, <1>16, <1>21, <1>22, <2>1, <2>2, <2>3, <2>5, Zenon DEF TypeOK
  <2>7. mode' = "down" => native' = NoLeases
    BY <1>2, <2>3, Zenon
  <2>. QED BY <1>12, <1>13, <1>22, <2>1, <2>4, <2>5, <2>6, <2>7, Zenon DEF IInv
<1>23. CASE saved' = saved
  <2>1. drawn' = drawn /\ world' = world
    BY <1>8, <1>15, <1>23, Zenon DEF Persist
  <2>2. \/ native' = Swept(native) /\ mode' = mode
        \/ native' = NoLeases /\ mode' = "down"
    BY <1>8, <1>15, <1>23, Zenon DEF Persist, PersistFails, PersistRefused
  <2>3. NativeOK(saved, native') /\ native' \in [Handles -> Events \union {"issued", None}]
    BY <1>16, <1>19, <2>2, Zenon
  <2>4. TypeOK'
    BY <1>2, <1>16, <1>23, <2>1, <2>2, <2>3, Zenon DEF TypeOK
  <2>5. mode' = "down" => native' = NoLeases
    BY <1>2, <2>2, Zenon
  <2>. QED BY <1>2, <1>23, <2>1, <2>3, <2>4, <2>5, Zenon DEF IInv
<1>24. saved' = t \/ saved' = saved
  BY <1>8, Zenon DEF Persist, PersistFails, PersistRefused
<1>. QED BY <1>22, <1>23, <1>24, Zenon

LEMMA AccountStepsKeep ==
    ASSUME IInv, NEW a \in Accounts, Forget(a) \/ Import(a) \/ Disconnect(a)
    PROVE  IInv' /\ Follows(saved')
<1>1. CASE Forget(a)
  <2> DEFINE t == Forgotten(saved, a)
  <2>1. /\ mode = "up" /\ (\A l \in saved.leases : l.account # a) /\ UNCHANGED <<drawn, late, world>>
    BY <1>1, Zenon DEF Forget
  <2>2. PersistMay(t, native)
    BY <1>1, Zenon DEF Forget, Forgotten
  <2>3. Follows(t) /\ t.attempts = saved.attempts
    BY <2>1, ForgetKeeps, Zenon DEF IInv, Follows
  <2> HIDE DEF t
  <2>. QED BY <2>1, <2>2, <2>3, PlainCommit, Zenon
<1>2. CASE Import(a)
  <2> DEFINE t == [saved EXCEPT !.accounts[a] = [generation |-> @.generation + 1, status |-> "ready"]]
  <2>1. mode = "up" /\ PersistMay(t, native) /\ UNCHANGED <<drawn, late, world>>
    BY <1>2, Zenon DEF Import
  <2>2. Follows(t) /\ t.attempts = saved.attempts
    BY ImportFollows, Zenon
  <2> HIDE DEF t
  <2>. QED BY <2>1, <2>2, PlainCommit, Zenon
<1>3. CASE Disconnect(a)
  <2> DEFINE t == Invalid(saved, {a})
  <2>1. /\ mode = "up" /\ PersistMay(t, native) /\ UNCHANGED <<drawn, late, world>>
        /\ saved.accounts[a].status = "ready"
    BY <1>3, Zenon DEF Disconnect
  <2>2. {a} \in SUBSET Accounts /\ \A c \in {a} : saved.accounts[c].status = "ready"
    BY <2>1, Zenon
  <2>3. Follows(t) /\ t.attempts = saved.attempts
    BY <2>2, InvalidFollows, Zenon
  <2> HIDE DEF t
  <2>. QED BY <2>1, <2>3, PlainCommit, Zenon
<1>. QED BY <1>1, <1>2, <1>3, Zenon

LEMMA ReleaseBindingKeeps ==
    ASSUME IInv, NEW b \in Bindings, NEW h \in Handles, ReleaseBinding(b, h)
    PROVE  IInv' /\ Follows(saved')
<1> DEFINE t == [saved EXCEPT !.bindings[b] = None]
<1>1. /\ mode = "up" /\ PersistMay(t, native) /\ UNCHANGED <<drawn, late, world>>
      /\ saved.bindings[b] # None /\ saved.bindings[b].in_flight = 0
  BY Zenon DEF ReleaseBinding
<1>2. Follows(t) /\ t.attempts = saved.attempts
  BY <1>1, ReleaseKeeps, Zenon DEF IInv, Follows
<1> HIDE DEF t
<1>. QED BY <1>1, <1>2, PlainCommit, Zenon

LEMMA ExpireKeeps ==
    ASSUME IInv, NEW expired \in SUBSET Accounts, ExpireLeases(expired)
    PROVE  IInv' /\ Follows(saved')
<1>1. /\ mode = "up" /\ (\A a \in expired : saved.accounts[a].status = "ready")
      /\ UNCHANGED <<drawn, late, world>>
  BY Zenon DEF ExpireLeases
<1>2. /\ Swept(native) \in [Handles -> Events \union {"issued", None}]
      /\ NativeOK(saved, Swept(native)) /\ Witnessed(saved, drawn, world)
  BY SweptKeeps, Zenon DEF IInv
<1>3. \E t : Follows(t) /\ t.attempts = saved.attempts /\ PersistMay(t, Swept(native))
  <2>1. CASE expired = {}
    <3>1. PersistMay(saved, Swept(native))
      BY <2>1, Zenon DEF ExpireLeases, PersistMay, PersistRefused
    <3>. QED BY <3>1, SavedFollows, Zenon
  <2>2. CASE expired # {}
    <3>1. PersistMay(Invalid(saved, expired), Swept(native))
      BY <2>2, Zenon DEF ExpireLeases
    <3>. QED BY <1>1, <3>1, InvalidFollows, Zenon
  <2>. QED BY <2>1, <2>2, Zenon
<1>4. PICK t : Follows(t) /\ t.attempts = saved.attempts /\ PersistMay(t, Swept(native))
  BY <1>3, Zenon
<1>5. NativeOK(t, Swept(native)) /\ Witnessed(t, drawn, world)
  BY <1>2, <1>4, SameAttempts, Zenon
<1>. QED BY <1>1, <1>2, <1>4, <1>5, CommitKeeps, Zenon

(* The steps that do not commit: what was refused stays refused. *)
LEMMA OtherStepsKeep ==
    ASSUME IInv, NEW h \in Handles,
           \/ Materialize(h) \/ LeaseDeadline(h)
           \/ \E outcome \in {"accepted", "refused"} : ProviderDecides(h, outcome)
    PROVE  IInv' /\ Follows(saved')
<1>1. saved' = saved /\ mode' = mode /\ native' = native /\ drawn' = drawn
  BY Zenon DEF Materialize, LeaseDeadline, ProviderDecides
<1>2. late' \subseteq Handles
  BY Zenon DEF Materialize, LeaseDeadline, ProviderDecides, IInv, TypeOK
<1>3. /\ world \in [Handles -> {None, "lost", "known", "exposed", "accepted", "refused"}]
      /\ Witnessed(saved, drawn, world)
      /\ \A x \in Slots : Issued(saved, x) => HandleOf(saved, x) \in Handles
  BY Zenon DEF IInv, TypeOK, Good, Snapshots, Issued, Attempts, HandleOf
<1>4. /\ world' \in [Handles -> {None, "lost", "known", "exposed", "accepted", "refused"}]
      /\ \A g \in Handles : world[g] = "refused" => world'[g] = "refused"
  BY <1>3, Zenon DEF Materialize, LeaseDeadline, ProviderDecides
<1>5. Witnessed(saved, drawn, world')
  BY <1>3, <1>4, Zenon DEF Witnessed
<1>6. TypeOK'
  BY <1>1, <1>2, <1>4, Zenon DEF IInv, TypeOK
<1>. QED BY <1>1, <1>5, <1>6, SavedFollows, Zenon DEF IInv

LEMMA RestartKeeps ==
    ASSUME IInv, Crash \/ Boot
    PROVE  IInv' /\ Follows(saved')
<1>1. CASE Crash
  <2>1. /\ NoLeases \in [Handles -> Events \union {"issued", None}] /\ NativeOK(saved, NoLeases)
    BY RequestsAssumption, Zenon DEF NoLeases, NativeOK
  <2>2. /\ saved' = saved /\ mode' = "down" /\ native' = NoLeases /\ UNCHANGED <<drawn, late, world>>
    BY <1>1, Zenon DEF Crash
  <2>3. TypeOK'
    BY <2>1, <2>2, Zenon DEF IInv, TypeOK
  <2>. QED BY <2>1, <2>2, <2>3, SavedFollows, Zenon DEF IInv
<1>2. CASE Boot
  <2> DEFINE t == Recovered(saved)
  <2>1. /\ saved' = t /\ mode' \in {"up", "down"} /\ native = NoLeases
        /\ UNCHANGED <<native, drawn, late, world>>
    BY <1>2, Zenon DEF Boot, IInv
  <2>2. /\ Good(t) /\ Retained(saved, t) /\ Pinned(saved, t)
        /\ \A x \in Slots : Issued(t, x) =>
              /\ Issued(saved, x) /\ HandleOf(t, x) = HandleOf(saved, x)
              /\ t.attempts[x].sequence = saved.attempts[x].sequence
              /\ t.attempts[x].state = "rejected" => saved.attempts[x].state = "rejected"
    BY RecoveredKeeps, Zenon DEF IInv
  <2> HIDE DEF t
  <2>3. Witnessed(t, drawn, world)
    BY <2>2, Zenon DEF IInv, Witnessed
  <2>4. NativeOK(t, native)
    BY <2>1, RequestsAssumption, Zenon DEF NativeOK, NoLeases
  <2>5. TypeOK'
    BY <2>1, <2>2, Zenon DEF IInv, TypeOK, Good
  <2>. QED BY <2>1, <2>2, <2>3, <2>4, <2>5, Zenon DEF IInv, Follows
<1>. QED BY <1>1, <1>2, Zenon

-----------------------------------------------------------------------------
LEMMA InitHolds ==
    ASSUME Init
    PROVE  IInv
<1>1. /\ saved.intents = [k \in Keys |-> None] /\ saved.attempts = [x \in Slots |-> None]
      /\ saved.bindings = [b \in Bindings |-> None] /\ saved.leases = {} /\ saved.credits = {}
      /\ saved.accounts = [a \in Accounts |-> [generation |-> 1, status |-> "ready"]]
      /\ saved \in Snapshots
  <2> DEFINE I == [k \in Keys |-> None]
             A == [x \in Slots |-> None]
             B == [b \in Bindings |-> None]
             G == [a \in Accounts |-> [generation |-> 1, status |-> "ready"]]
  <2>1. saved = [intents |-> I, attempts |-> A, bindings |-> B, leases |-> {}, credits |-> {}, accounts |-> G]
    BY Zenon DEF Init
  <2>2. /\ I \in [Keys -> Intents \union {None}] /\ A \in [Slots -> Attempts \union {None}]
        /\ B \in [Bindings -> Routes \union {None}]
    BY Zenon
  <2>3. G \in [Accounts -> Grants]
    BY DEF Grants
  <2> HIDE DEF I, A, B, G
  <2>4. /\ saved.intents = I /\ saved.attempts = A /\ saved.bindings = B /\ saved.leases = {}
        /\ saved.credits = {} /\ saved.accounts = G /\ saved \in Snapshots
    BY <2>1, <2>2, <2>3, Zenon DEF Snapshots
  <2>. QED BY <2>4, Zenon DEF I, A, B, G
<1>2. /\ \A x \in Slots : ~Issued(saved, x) /\ ~Unresolved(saved, x)
      /\ \A k \in Keys : saved.intents[k] = None /\ First(k) \in Slots /\ Alternate(k) \in Slots
      /\ \A b \in Bindings : saved.bindings[b] = None
  BY <1>1, Zenon DEF Issued, Unresolved, First, Alternate, Slots
<1>3. ValidLedger(saved)
  BY <1>2, Zenon DEF ValidLedger
<1>4. ValidRoutes(saved) /\ ValidCredits(saved)
  BY <1>1, <1>2, Zenon DEF ValidRoutes, ValidCredits
<1>5. Linked(saved)
  BY <1>1, <1>2, FS_EmptySet, Zenon DEF Linked
<1>6. Witnessed(saved, drawn, world) /\ NativeOK(saved, native) /\ native = NoLeases
  BY <1>2, RequestsAssumption, Zenon DEF Init, Witnessed, NativeOK, NoLeases
<1>7. TypeOK
  BY <1>1, RequestsAssumption DEF Init, TypeOK, NoLeases
<1>. QED BY <1>1, <1>3, <1>4, <1>5, <1>6, <1>7, Zenon DEF IInv, Good

LEMMA NextKeeps ==
    ASSUME IInv, [Next]_vars
    PROVE  IInv' /\ Follows(saved')
<1>1. ASSUME NEW k \in Keys, NEW b \in Bindings, NEW d \in Demands, NEW a \in Accounts, Acquire(k, b, d, a)
      PROVE  IInv' /\ Follows(saved')
  BY <1>1, AcquireKeeps, Zenon
<1>2. ASSUME NEW h \in Handles,
             \/ Materialize(h) \/ LeaseDeadline(h)
             \/ \E outcome \in {"accepted", "refused"} : ProviderDecides(h, outcome)
      PROVE  IInv' /\ Follows(saved')
  BY <1>2, OtherStepsKeep, Zenon
<1>3. ASSUME NEW h \in Handles, NEW b \in Bindings, ReleaseBinding(b, h)
      PROVE  IInv' /\ Follows(saved')
  BY <1>3, ReleaseBindingKeeps, Zenon
<1>4. ASSUME NEW x \in Slots, NEW e \in Events, ReportUnknown(x, e)
      PROVE  IInv' /\ Follows(saved')
  BY <1>4, ReportUnknownKeeps, Zenon
<1>5. ASSUME NEW x \in Slots, ReportSwept(x)
      PROVE  IInv' /\ Follows(saved')
  BY <1>5, ReportSweptKeeps, Zenon
<1>6. ASSUME NEW x \in Slots, NEW e \in Events, NEW status \in Statuses(e), Report(x, e, status)
      PROVE  IInv' /\ Follows(saved')
  BY <1>6, ReportKeeps, Zenon
<1>7. ASSUME NEW a \in Accounts, Forget(a) \/ Import(a) \/ Disconnect(a)
      PROVE  IInv' /\ Follows(saved')
  BY <1>7, AccountStepsKeep, Zenon
<1>8. ASSUME NEW expired \in SUBSET Accounts, ExpireLeases(expired)
      PROVE  IInv' /\ Follows(saved')
  BY <1>8, ExpireKeeps, Zenon
<1>9. CASE Crash \/ Boot
  BY <1>9, RestartKeeps, Zenon
<1>10. CASE UNCHANGED vars
  <2>1. TypeOK'
    BY <1>10, Zenon DEF vars, IInv, TypeOK
  <2>. QED BY <1>10, <2>1, SavedFollows, Zenon DEF vars, IInv
<1>. QED BY <1>1, <1>2, <1>3, <1>4, <1>5, <1>6, <1>7, <1>8, <1>9, <1>10, Zenon DEF Next

(* The inductive invariant holds in every reachable state. *)
THEOREM Invariance == Spec => []IInv
<1>1. Init => IInv
  BY InitHolds, Zenon
<1>2. IInv /\ [Next]_vars => IInv'
  BY NextKeeps, Zenon
<1>. QED BY <1>1, <1>2, PTL DEF Spec

(* A request that the provider accepted, or may have accepted, never has a *)
(* second attempt (Ledger.checkIssue, applyReport, recoverAfterRestart).   *)
THEOREM AcceptsOnce == Spec => []AcceptedOnce
<1>1. IInv => AcceptedOnce
  <2> SUFFICES ASSUME IInv, NEW k \in Keys, Issued(saved, Alternate(k))
               PROVE  world[HandleOf(saved, First(k))] = "refused"
    BY Zenon DEF AcceptedOnce
  <2>1. First(k) \in Slots
    BY Zenon DEF First, Slots
  <2>2. Issued(saved, First(k)) /\ saved.attempts[First(k)].state = "rejected"
    BY Zenon DEF IInv, Good, ValidLedger
  <2>. QED BY <2>1, <2>2, Zenon DEF IInv, Witnessed
<1>. QED BY <1>1, Invariance, PTL

(* Whatever the handlers commit, the next start and restoreCommitted       *)
(* accept (validatePersistedAdmission and the fromSnapshot functions).     *)
THEOREM SnapshotsRestorable == Spec => []CommittedSnapshotRestorable
<1>1. IInv => CommittedSnapshotRestorable
  BY Zenon DEF IInv, Good, CommittedSnapshotRestorable, Restorable
<1>. QED BY <1>1, Invariance, PTL

(* The leases in flight are exactly those of the unresolved attempts       *)
(* (acquire, report, completeLease, releaseOutcome).                       *)
THEOREM LeasesUncertain == Spec => []LeasesAreUncertainWork
<1>1. IInv => LeasesAreUncertainWork
  <2> SUFFICES ASSUME IInv
               PROVE  {l.handle : l \in saved.leases} =
                          {HandleOf(saved, x) : x \in {y \in Slots : Unresolved(saved, y)}}
    BY Zenon DEF LeasesAreUncertainWork, IInv
  <2>1. \A l \in saved.leases : \E x \in Slots : Unresolved(saved, x) /\ HandleOf(saved, x) = l.handle
    BY Zenon DEF IInv, Good, Linked
  <2>2. \A x \in Slots : Unresolved(saved, x) => \E l \in saved.leases : l.handle = HandleOf(saved, x)
    BY Zenon DEF IInv, Good, Linked
  <2>. QED BY <2>1, <2>2, Zenon
<1>. QED BY <1>1, Invariance, PTL

(* No commit moves the route of an unresolved attempt, or forgets its      *)
(* account (State.bind, completeLease, account.forget, expireLeases).      *)
THEOREM RoutesFixed == Spec => RouteFixedWhileUncertain
<1>1. ASSUME IInv, [Next]_vars
      PROVE  \A x \in Slots : Unresolved(saved, x) /\ Unresolved(saved', x) =>
          LET b == saved.intents[x[1]].binding
          IN  /\ saved'.bindings[b] # None
              /\ saved'.bindings[b].account = saved.bindings[b].account
              /\ saved'.bindings[b].generation = saved.bindings[b].generation
              /\ saved'.bindings[b].route = saved.bindings[b].route
              /\ saved'.accounts[saved.attempts[x].account].status # "absent"
  BY <1>1, NextKeeps, Zenon DEF Follows, Pinned
<1>. QED BY <1>1, Invariance, PTL DEF Spec, RouteFixedWhileUncertain

(* No commit removes, reassigns or reopens an attempt of the ledger. *)
THEOREM AuthorityKept == Spec => AuthorityNeverRecycled
<1>1. ASSUME IInv, [Next]_vars
      PROVE  \A x \in Slots : Issued(saved, x) =>
          LET old == saved.attempts[x]
              new == saved'.attempts[x]
          IN  /\ new # None /\ new.handle = old.handle /\ new.account = old.account
              /\ old.accepted_report => new.accepted_report
              /\ ~Unresolved(saved, x) => new = old
              /\ old.state \in {"accepted", "unknown"} => new.state # "rejected"
              /\ saved'.intents[x[1]] = saved.intents[x[1]]
  BY <1>1, NextKeeps, Zenon DEF Follows, Retained
<1>. QED BY <1>1, Invariance, PTL DEF Spec, AuthorityNeverRecycled

(* Only materialize exposes a credential. *)
LEMMA OnlyMaterialize ==
    ASSUME IInv, [Next]_vars, NEW h \in Handles, world[h] # "exposed", world'[h] = "exposed"
    PROVE  Materialize(h)
<1>1. world \in [Handles -> {None, "lost", "known", "exposed", "accepted", "refused"}]
  BY Zenon DEF IInv, TypeOK
<1>2. ASSUME NEW k \in Keys, NEW b \in Bindings, NEW d \in Demands, NEW a \in Accounts, Acquire(k, b, d, a)
      PROVE  FALSE
  <2>1. world' \in {world, [world EXCEPT ![drawn + 1] = "known"], [world EXCEPT ![drawn + 1] = "lost"]}
    BY <1>2, Zenon DEF Acquire
  <2>. QED BY <1>1, <2>1, Zenon
<1>3. ASSUME NEW g \in Handles, NEW o \in {"accepted", "refused"}, ProviderDecides(g, o)
      PROVE  FALSE
  BY <1>1, <1>3, Zenon DEF ProviderDecides
<1>4. ASSUME NEW g \in Handles, Materialize(g) PROVE g = h
  BY <1>1, <1>4, Zenon DEF Materialize
<1>5. ASSUME NEW g \in Handles, NEW b \in Bindings, ReleaseBinding(b, g) PROVE FALSE
  BY <1>5, Zenon DEF ReleaseBinding
<1>6. ASSUME NEW g \in Handles, LeaseDeadline(g) PROVE FALSE
  BY <1>6, Zenon DEF LeaseDeadline
<1>7. ASSUME NEW x \in Slots, NEW e \in Events, ReportUnknown(x, e) PROVE FALSE
  BY <1>7, Zenon DEF ReportUnknown
<1>8. ASSUME NEW x \in Slots, ReportSwept(x) PROVE FALSE
  BY <1>8, Zenon DEF ReportSwept
<1>9. ASSUME NEW x \in Slots, NEW e \in Events, NEW status \in Statuses(e), Report(x, e, status) PROVE FALSE
  BY <1>9, Zenon DEF Report
<1>10. ASSUME NEW a \in Accounts, Forget(a) \/ Import(a) \/ Disconnect(a) PROVE FALSE
  BY <1>10, Zenon DEF Forget, Import, Disconnect
<1>11. ASSUME NEW expired \in SUBSET Accounts, ExpireLeases(expired) PROVE FALSE
  BY <1>11, Zenon DEF ExpireLeases
<1>12. ~Crash /\ ~Boot /\ ~UNCHANGED vars
  BY Zenon DEF Crash, Boot, vars
<1>. QED BY <1>2, <1>3, <1>4, <1>5, <1>6, <1>7, <1>8, <1>9, <1>10, <1>11, <1>12, Zenon DEF Next

(* materialize hands out the credential of an attempt that the disk holds  *)
(* as issued, and whose route names the current generation of its grant.   *)
THEOREM ExposedIssued == Spec => ExposedOnlyWhenIssued
<1>1. ASSUME IInv, [Next]_vars
      PROVE  \A h \in Handles : world[h] # "exposed" /\ world'[h] = "exposed" =>
          \E x \in Slots :
             /\ Issued(saved, x) /\ HandleOf(saved, x) = h
             /\ saved.attempts[x].state = "issued"
             /\ LET b == saved.bindings[saved.intents[x[1]].binding]
                IN  saved.accounts[b.account].generation = b.generation
  <2> SUFFICES ASSUME NEW h \in Handles, world[h] # "exposed", world'[h] = "exposed"
               PROVE  \E x \in Slots :
                         /\ Issued(saved, x) /\ HandleOf(saved, x) = h
                         /\ saved.attempts[x].state = "issued"
                         /\ LET b == saved.bindings[saved.intents[x[1]].binding]
                            IN  saved.accounts[b.account].generation = b.generation
    BY Zenon
  <2>1. Materialize(h)
    BY <1>1, OnlyMaterialize, Zenon
  <2>2. PICK l \in saved.leases : l.handle = h /\ saved.accounts[l.account].generation = l.generation
    BY <2>1, Zenon DEF Materialize
  <2>3. PICK x \in Slots : Issued(saved, x) /\ HandleOf(saved, x) = h /\ saved.attempts[x].state = "issued"
    BY <1>1, <2>1, Zenon DEF Materialize, IInv, NativeOK
  <2>4. Unresolved(saved, x) /\ Good(saved)
    BY <1>1, <2>3, Zenon DEF Unresolved, UnresolvedState, IInv
  <2>5. PICK m \in saved.leases : m.handle = h /\ m.binding = saved.intents[x[1]].binding
    BY <2>3, <2>4, RouteOf, Zenon
  <2>6. m = l
    BY <2>2, <2>4, <2>5, Zenon DEF Good, Linked
  <2> DEFINE r == saved.bindings[m.binding]
  <2>7. r.account = m.account /\ r.generation = m.generation
    BY <2>4, Zenon DEF Good, ValidRoutes
  <2>8. saved.accounts[r.account].generation = r.generation
    BY <2>2, <2>6, <2>7, Zenon
  <2>. QED BY <2>3, <2>5, <2>8, Zenon
<1>. QED BY <1>1, Invariance, PTL DEF Spec, ExposedOnlyWhenIssued

=============================================================================
