------------------------- MODULE NativeOwnersProofs -------------------------
(***************************************************************************)
(* Proofs about NativeOwners, for any owners, threads, operations, epochs  *)
(* and generations.                                                        *)
(***************************************************************************)
EXTENDS NativeOwners, TLAPS

-----------------------------------------------------------------------------
(* The inductive invariant.                                                *)

DetachOperations == Detaches \union Children

Unfinished == {"started", "indeterminate"}

(* Phase, origin, records and owner of a row fit together. *)
RowOK(s, ref) ==
    LET row == s.rows[ref]
    IN  /\ row.phase = "absent" => row.detach = None /\ row.from = "registration"
        /\ row.phase # "absent" =>
              /\ row.registration \in Enrolments
              /\ row.phase = "pending_registration" => row.from = "registration"
              /\ row.phase = "attached" => row.from = "attachment"
              /\ row.phase \in {"pending_detach", "retired"} => row.from = "detachment"
              /\ row.detach # None <=> row.from = "detachment"
              /\ s.owners[ref.owner][ref.epoch] # "absent"
              /\ s.owners[ref.owner][ref.epoch] = "retired" => row.phase = "retired"
              /\ s.inner[row.registration] # "absent"
              /\ row.from = "registration" <=> s.inner[row.registration] # "completed"
              /\ row.detach \in Detaches => s.control[row.detach] # "absent"
              /\ row.detach \in Children => row.detach = ChildOf(s.removals[ref.epoch].operation)

RowsOK(s) == \A ref \in Refs : RowOK(s, ref)

(* A registration has one row, and a thread one row that is not retired. *)
PairsOK(s) ==
    \A ref, other \in Rows(s) : ref # other =>
        /\ s.rows[ref].registration # s.rows[other].registration
        /\ /\ other.owner = ref.owner /\ other.epoch = ref.epoch
           /\ Names[other.instance] = Names[ref.instance]
           => s.rows[ref].phase = "retired" \/ s.rows[other].phase = "retired"

(* There is a credit for each outcome that is open, and no other. *)
CreditsOK(s) ==
    /\ \A op \in Controls : MutationCredit(op) \in s.credits <=> s.control[op] \in Unfinished
    /\ \A op \in Enrolments : RegistrationCredit(op) \in s.credits <=> s.inner[op] \in Unfinished
    /\ \A op \in DetachOperations, ref \in Refs :
           DetachCredit(op, ref) \in s.credits <=> s.rows[ref].detach = op /\ s.rows[ref].phase # "retired"

OwnersOK(s) ==
    /\ \A o \in Owners : \A e, f \in Epochs :
           e # f => s.owners[o][e] \in {"absent", "retired"} \/ s.owners[o][f] \in {"absent", "retired"}
    /\ \A o \in Owners : \A e \in Epochs :
           /\ s.removals[e].phase # "none" => s.owners[o][e] # "open"
           /\ s.removals[e].phase = "retired" => s.owners[o][e] # "closing"
    /\ \A e \in Epochs : s.removals[e].phase = "none" <=> s.removals[e].operation = None

InnerOK(s) ==
    \A op \in Enrolments : s.inner[op] # "absent" => \E ref \in Rows(s) : s.rows[ref].registration = op

WorkOK(s) ==
    /\ \A ref \in s.bindings : s.rows[ref].phase \notin {"absent", "retired"}
    /\ \A ref \in s.leases : \/ s.rows[ref].phase = "attached"
                             \/ s.rows[ref].phase = "unresolved" /\ s.rows[ref].from = "attachment"

Good(s) ==
    s \in Snapshots /\ RowsOK(s) /\ PairsOK(s) /\ CreditsOK(s) /\ OwnersOK(s) /\ InnerOK(s) /\ WorkOK(s)

(* The task of call t: its row is the one of its operation, a registration *)
(* is under way only for a row that comes from it, and likewise a detach;  *)
(* an admitted operation has its record.                                   *)
TaskOK(s, k, m, t) ==
    /\ k.stage = "identify" => t \in Registers \union Callbacks /\ (k.ref = None <=> t \in Registers)
    /\ k.stage = "announcement_identify" => t \in Attaches /\ k.ref = None
    /\ k.stage \in {"identify", "announcement_identify"} /\ k.ref = None =>
           k.owner \in Owners /\ k.instance \in DOMAIN Names
    /\ k.stage = "registration" =>
           /\ t \in Registers \union Callbacks /\ k.ref \in Refs
           /\ s.rows[k.ref].from = "registration"
           /\ k.result = "acknowledged" => k.ref \in m
    /\ k.stage = "announcement" => t \in Attaches /\ k.ref \in Refs
    /\ k.stage = "detachment" =>
           /\ t \in Detaches \union Removals /\ k.ref \in Refs
           /\ s.rows[k.ref].from = "detachment"
           /\ k.result = "acknowledged" => k.ref \notin m
    /\ k.stage \in {"identify", "registration", "announcement"} /\ k.ref # None =>
           k.ref \in Rows(s) /\ s.rows[k.ref].registration = Operation(t)
    /\ k.stage \in {"registration", "announcement", "detachment"} => k.admitted
    /\ k.admitted /\ t \in Controls => s.control[t] # "absent"
    /\ k.admitted /\ t \notin Controls => s.inner[Operation(t)] # "absent"

(* What the owners manage and may come to manage, beside the rows. *)
WorldOK(s, tasks, m, w) ==
    /\ \A t \in Calls : TaskOK(s, tasks[t], m, t)
    /\ \A ref \in m : s.rows[ref].phase \notin {"absent", "retired"}
    /\ \A ref \in Refs : s.rows[ref].phase = "attached" => ref \in m
    /\ \A ref \in Refs : <<"detachment", ref>> \in w => s.rows[ref].from = "detachment"
    /\ \A ref \in Refs : <<"registration", ref>> \in w =>
           /\ s.rows[ref].phase # "absent" /\ s.rows[ref].from = "registration"
           /\ \A t \in Calls : tasks[t].stage = "registration" /\ tasks[t].ref = ref
                                  => tasks[t].result = "failed"

(* While the engine serves, a row whose registration may still arrive is   *)
(* not pending, unless the task that failed has yet to be completed.       *)
LateOK(s, tasks, w) ==
    \A ref \in Refs : <<"registration", ref>> \in w /\ s.rows[ref].phase = "pending_registration" =>
        \E t \in Calls : tasks[t].stage = "registration" /\ tasks[t].ref = ref

(* The configuration is touched only for an epoch that has ended. *)
ConfigOK(s, c) ==
    \A e \in Epochs : c \in {<<"pending_remove", e>>, <<"removed", e>>} =>
        /\ s.removals[e].phase # "none"
        /\ \A o \in Owners : s.owners[o][e] \in {"absent", "retired"}

IInv ==
    /\ TypeOK /\ Good(disk) /\ WorldOK(disk, task, managed, wire)
    /\ mode = "up" => LateOK(disk, task, wire)
    /\ ConfigOK(disk, config)

(* What a step from snapshot s to snapshot t keeps, as the two action      *)
(* properties say it and a little more.                                    *)
Keeps(s, t) ==
    /\ \A e \in Epochs : s.removals[e].phase # "none" =>
           /\ t.removals[e].phase # "none"
           /\ \A o \in Owners : s.owners[o][e] \in {"absent", "retired"} => t.owners[o][e] = s.owners[o][e]
           /\ \A ref \in Refs : ref.epoch = e =>
                  /\ s.rows[ref].phase = "absent" => t.rows[ref].phase = "absent"
                  /\ ref \in t.leases => ref \in s.leases
    /\ \A ref \in Rows(s) :
           /\ t.rows[ref].registration = s.rows[ref].registration
           /\ t.rows[ref].phase # "absent"
           /\ s.rows[ref].phase = "retired" => t.rows[ref] = s.rows[ref]
           /\ s.rows[ref].from = "detachment" => t.rows[ref].from = "detachment"
    /\ \A op \in Controls : s.control[op] # "absent" => t.control[op] # "absent"
    /\ \A op \in Enrolments : s.inner[op] # "absent" => t.inner[op] # "absent"

(* No row is made, attached or retired from s to t. *)
Calm(s, t) ==
    \A ref \in Refs :
        /\ t.rows[ref].phase \in {"absent", "pending_registration", "attached", "retired"}
              => s.rows[ref].phase = t.rows[ref].phase
        /\ s.rows[ref].phase = "absent" => t.rows[ref].phase = "absent"
        /\ s.rows[ref].from = "registration" => t.rows[ref].from = "registration"

Follows(s, t) == Good(t) /\ Keeps(s, t)

Quiet(s, t) == Good(t) /\ Keeps(s, t) /\ Calm(s, t)

(* A row as it was, or with its work in doubt. *)
Doubted(row, new) ==
    \/ new = row
    \/ /\ row.phase \in {"pending_registration", "attached", "pending_detach"} /\ new.phase = "unresolved"
       /\ new.registration = row.registration /\ new.detach = row.detach /\ new.from = row.from

(* What an owner's state may become. *)
OwnerMoves(s, t, o, e) ==
    \/ t.owners[o][e] = s.owners[o][e]
    \/ s.owners[o][e] = "open" /\ t.owners[o][e] = "closing"
    \/ /\ s.owners[o][e] = "closing" /\ t.owners[o][e] = "retired"
       /\ \A ref \in Rows(s) : ref.owner = o /\ ref.epoch = e => s.rows[ref].phase = "retired"

(* Of the credits, only those of control records move. *)
Credible(s, t) ==
    /\ \A op \in Controls : MutationCredit(op) \in t.credits <=> t.control[op] \in Unfinished
    /\ \A op \in Enrolments : RegistrationCredit(op) \in t.credits <=> RegistrationCredit(op) \in s.credits
    /\ \A op \in DetachOperations, ref \in Refs :
           DetachCredit(op, ref) \in t.credits <=> DetachCredit(op, ref) \in s.credits

(* A fence stays with the removal it belongs to, and owners behind it close. *)
Behind(s, t) ==
    \A e \in Epochs :
        /\ t.removals[e].phase = "none" <=> t.removals[e].operation = None
        /\ s.removals[e].phase # "none" => /\ t.removals[e].phase # "none"
                                           /\ t.removals[e].operation = s.removals[e].operation
        /\ t.removals[e].phase # "none" => \A o \in Owners : t.owners[o][e] # "open"
        /\ t.removals[e].phase = "retired" => \A o \in Owners : t.owners[o][e] # "closing"

(* A change of the ledgers that makes, attaches and detaches nothing: rows *)
(* and records come into doubt, control records and their credits move,    *)
(* a fence appears and owners close and retire behind it, work ends.       *)
Settles(s, t) ==
    /\ \A ref \in Refs : Doubted(s.rows[ref], t.rows[ref])
    /\ \A op \in Enrolments : t.inner[op] = s.inner[op] \/ {s.inner[op], t.inner[op]} \subseteq Unfinished
    /\ \A op \in Controls : s.control[op] # "absent" => t.control[op] # "absent"
    /\ \A o \in Owners : \A e \in Epochs : OwnerMoves(s, t, o, e)
    /\ Credible(s, t) /\ Behind(s, t)
    /\ t.bindings \subseteq s.bindings /\ t.leases \subseteq s.leases

-----------------------------------------------------------------------------
(* Snapshots. *)

(* Credits of different kinds, operations or rows are different. *)
LEMMA CreditKinds ==
    ASSUME NEW a, NEW b, NEW r, NEW q
    PROVE  /\ MutationCredit(a) # RegistrationCredit(b) /\ MutationCredit(a) # DetachCredit(b, r)
           /\ RegistrationCredit(a) # DetachCredit(b, r)
           /\ MutationCredit(a) = MutationCredit(b) <=> a = b
           /\ RegistrationCredit(a) = RegistrationCredit(b) <=> a = b
           /\ DetachCredit(a, r) = DetachCredit(b, q) <=> a = b /\ r = q
BY Zenon DEF MutationCredit, RegistrationCredit, DetachCredit

LEMMA CreditTypes ==
    /\ \A op \in Controls : MutationCredit(op) \in Credits
    /\ \A op \in Enrolments : RegistrationCredit(op) \in Credits
    /\ \A op \in DetachOperations, ref \in Refs : DetachCredit(op, ref) \in Credits
<1>1. \A op \in Controls : MutationCredit(op) \in Credits
  BY DEF Credits
<1>2. \A op \in Enrolments : RegistrationCredit(op) \in Credits
  BY DEF Credits
<1>3. \A op \in DetachOperations, ref \in Refs : DetachCredit(op, ref) \in Credits
  BY DEF Credits, DetachOperations
<1>. QED BY <1>1, <1>2, <1>3, Zenon

(* What reserving and releasing a credit does. *)
LEMMA MutationCredits ==
    ASSUME NEW C, NEW op
    PROVE  /\ \A p : MutationCredit(p) \in C \union {MutationCredit(op)} <=> MutationCredit(p) \in C \/ p = op
           /\ \A p : MutationCredit(p) \in C \ {MutationCredit(op)} <=> MutationCredit(p) \in C /\ p # op
           /\ \A p : RegistrationCredit(p) \in C \union {MutationCredit(op)} <=> RegistrationCredit(p) \in C
           /\ \A p : RegistrationCredit(p) \in C \ {MutationCredit(op)} <=> RegistrationCredit(p) \in C
           /\ \A p, r : DetachCredit(p, r) \in C \union {MutationCredit(op)} <=> DetachCredit(p, r) \in C
           /\ \A p, r : DetachCredit(p, r) \in C \ {MutationCredit(op)} <=> DetachCredit(p, r) \in C
BY CreditKinds

LEMMA RegistrationCredits ==
    ASSUME NEW C, NEW op
    PROVE  /\ \A p : RegistrationCredit(p) \in C \union {RegistrationCredit(op)} <=> RegistrationCredit(p) \in C \/ p = op
           /\ \A p : RegistrationCredit(p) \in C \ {RegistrationCredit(op)} <=> RegistrationCredit(p) \in C /\ p # op
           /\ \A p : MutationCredit(p) \in C \union {RegistrationCredit(op)} <=> MutationCredit(p) \in C
           /\ \A p : MutationCredit(p) \in C \ {RegistrationCredit(op)} <=> MutationCredit(p) \in C
           /\ \A p, r : DetachCredit(p, r) \in C \union {RegistrationCredit(op)} <=> DetachCredit(p, r) \in C
           /\ \A p, r : DetachCredit(p, r) \in C \ {RegistrationCredit(op)} <=> DetachCredit(p, r) \in C
BY CreditKinds

LEMMA DetachCredits ==
    ASSUME NEW C, NEW op, NEW ref
    PROVE  LET d == DetachCredit(op, ref)
           IN  /\ \A p, r : DetachCredit(p, r) \in C \union {d} <=> DetachCredit(p, r) \in C \/ (p = op /\ r = ref)
               /\ \A p, r : DetachCredit(p, r) \in C \ {d} <=> DetachCredit(p, r) \in C /\ ~(p = op /\ r = ref)
               /\ \A p : MutationCredit(p) \in C \union {d} <=> MutationCredit(p) \in C
               /\ \A p : MutationCredit(p) \in C \ {d} <=> MutationCredit(p) \in C
               /\ \A p : RegistrationCredit(p) \in C \union {d} <=> RegistrationCredit(p) \in C
               /\ \A p : RegistrationCredit(p) \in C \ {d} <=> RegistrationCredit(p) \in C
BY CreditKinds

(* What a snapshot may be read from: its fields have their types. *)
LEMMA FieldTypes ==
    ASSUME NEW s \in Snapshots
    PROVE  /\ s.epoch \in Epochs
           /\ \A o \in Owners : \A e \in Epochs : s.owners[o][e] \in {"absent", "open", "closing", "retired"}
           /\ \A ref \in Refs : /\ s.rows[ref] \in Attachments /\ s.rows[ref].phase \in Phases
                                /\ s.rows[ref].registration \in Enrolments \union {None}
                                /\ s.rows[ref].detach \in DetachOperations \union {None}
                                /\ s.rows[ref].from \in {"registration", "attachment", "detachment"}
           /\ \A e \in Epochs : /\ s.removals[e].phase \in {"none", "pending", "retired"}
                                /\ s.removals[e].operation \in Removals \union {None}
           /\ \A op \in Controls : s.control[op] \in RecordStates
           /\ \A op \in Enrolments : s.inner[op] \in RecordStates
           /\ s.credits \subseteq Credits /\ s.bindings \subseteq Refs /\ s.leases \subseteq Refs
           /\ \A ref \in Refs : ref.owner \in Owners /\ ref.epoch \in Epochs
<1>1. /\ s.epoch \in Epochs /\ s.credits \subseteq Credits /\ s.bindings \subseteq Refs /\ s.leases \subseteq Refs
      /\ s.owners \in [Owners -> [Epochs -> {"absent", "open", "closing", "retired"}]]
      /\ s.rows \in [Refs -> Attachments]
      /\ s.removals \in [Epochs -> [phase : {"none", "pending", "retired"}, operation : Removals \union {None}]]
      /\ s.control \in [Controls -> RecordStates] /\ s.inner \in [Enrolments -> RecordStates]
  BY Zenon DEF Snapshots
<1>2. \A ref \in Refs : ref.owner \in Owners /\ ref.epoch \in Epochs
  BY Zenon DEF Refs
<1>3. \A row \in Attachments : /\ row.phase \in Phases /\ row.registration \in Enrolments \union {None}
                               /\ row.detach \in DetachOperations \union {None}
                               /\ row.from \in {"registration", "attachment", "detachment"}
  BY Zenon DEF Attachments, DetachOperations
<1>. QED BY <1>1, <1>2, <1>3

LEMMA QuietSelf == ASSUME NEW s, Good(s) PROVE Quiet(s, s)
BY Zenon DEF Quiet, Keeps, Calm, Rows

LEMMA KeepsTransitive ==
    ASSUME NEW s, NEW t, NEW u, Keeps(s, t), Keeps(t, u)
    PROVE  Keeps(s, u)
<1>1. \A ref \in Rows(s) : ref \in Rows(t)
  BY Zenon DEF Keeps, Rows
<1>2. ASSUME NEW e \in Epochs, s.removals[e].phase # "none"
      PROVE  /\ u.removals[e].phase # "none"
             /\ \A o \in Owners : s.owners[o][e] \in {"absent", "retired"} => u.owners[o][e] = s.owners[o][e]
             /\ \A ref \in Refs : ref.epoch = e =>
                    /\ s.rows[ref].phase = "absent" => u.rows[ref].phase = "absent"
                    /\ ref \in u.leases => ref \in s.leases
  <2>1. t.removals[e].phase # "none"
    BY <1>2, Zenon DEF Keeps
  <2>. QED BY <1>2, <2>1 DEF Keeps
<1>3. ASSUME NEW ref \in Rows(s)
      PROVE  /\ u.rows[ref].registration = s.rows[ref].registration
             /\ u.rows[ref].phase # "absent"
             /\ s.rows[ref].phase = "retired" => u.rows[ref] = s.rows[ref]
             /\ s.rows[ref].from = "detachment" => u.rows[ref].from = "detachment"
  BY <1>1 DEF Keeps
<1>4. /\ \A op \in Controls : s.control[op] # "absent" => u.control[op] # "absent"
      /\ \A op \in Enrolments : s.inner[op] # "absent" => u.inner[op] # "absent"
  BY Zenon DEF Keeps
<1>. QED BY <1>2, <1>3, <1>4, Zenon DEF Keeps

LEMMA QuietTransitive ==
    ASSUME NEW s, NEW t, NEW u, Quiet(s, t), Quiet(t, u)
    PROVE  Quiet(s, u)
<1>1. Keeps(s, u)
  BY KeepsTransitive, Zenon DEF Quiet
<1>2. Calm(s, u)
  BY Zenon DEF Quiet, Calm
<1>. QED BY <1>1, <1>2, Zenon DEF Quiet

LEMMA SettlesQuiet ==
    ASSUME NEW s, Good(s), NEW t \in Snapshots, Settles(s, t)
    PROVE  Quiet(s, t)
<1>1. s \in Snapshots /\ Rows(t) = Rows(s)
  <2>1. \A ref \in Refs : s.rows[ref].phase = "absent" <=> t.rows[ref].phase = "absent"
    BY Zenon DEF Settles, Doubted
  <2>. QED BY <2>1, Zenon DEF Good, Rows
<1>2. \A ref \in Refs : /\ t.rows[ref].registration = s.rows[ref].registration
                        /\ t.rows[ref].detach = s.rows[ref].detach /\ t.rows[ref].from = s.rows[ref].from
                        /\ t.rows[ref].phase \in {s.rows[ref].phase, "unresolved"}
                        /\ s.rows[ref].phase \in {"absent", "retired"} => t.rows[ref] = s.rows[ref]
                        /\ t.rows[ref].phase \in {"absent", "retired"} => t.rows[ref] = s.rows[ref]
  BY Zenon DEF Settles, Doubted
<1>3. \A op \in Enrolments : /\ s.inner[op] = "absent" <=> t.inner[op] = "absent"
                             /\ s.inner[op] = "completed" <=> t.inner[op] = "completed"
                             /\ s.inner[op] \in Unfinished <=> t.inner[op] \in Unfinished
  BY Zenon DEF Settles, Unfinished
<1>4. \A o \in Owners : \A e \in Epochs :
          /\ s.owners[o][e] = "absent" <=> t.owners[o][e] = "absent"
          /\ s.owners[o][e] \in {"absent", "retired"} => t.owners[o][e] = s.owners[o][e]
  BY Zenon DEF Settles, OwnerMoves
<1>5. RowsOK(t)
  <2> SUFFICES ASSUME NEW ref \in Refs PROVE RowOK(t, ref)
    BY Zenon DEF RowsOK
  <2>1. RowOK(s, ref) /\ ref.owner \in Owners /\ ref.epoch \in Epochs
    BY FieldTypes, Zenon DEF Good, RowsOK
  <2>2. CASE s.rows[ref].phase = "absent"
    BY <1>2, <2>1, <2>2, Zenon DEF RowOK
  <2>3. CASE s.rows[ref].phase # "absent"
    <3>1. /\ t.rows[ref].phase # "absent" /\ t.rows[ref].registration \in Enrolments
          /\ t.rows[ref].phase = "pending_registration" => t.rows[ref].from = "registration"
          /\ t.rows[ref].phase = "attached" => t.rows[ref].from = "attachment"
          /\ t.rows[ref].phase \in {"pending_detach", "retired"} => t.rows[ref].from = "detachment"
          /\ t.rows[ref].detach # None <=> t.rows[ref].from = "detachment"
      BY <1>2, <2>1, <2>3, Zenon DEF RowOK
    <3>2. /\ t.inner[t.rows[ref].registration] # "absent"
          /\ t.rows[ref].from = "registration" <=> t.inner[t.rows[ref].registration] # "completed"
      BY <1>2, <1>3, <2>1, <2>3 DEF RowOK
    <3>3. t.owners[ref.owner][ref.epoch] # "absent"
      BY <1>4, <2>1, <2>3, Zenon DEF RowOK
    <3>4. t.owners[ref.owner][ref.epoch] = "retired" => t.rows[ref].phase = "retired"
      <4>1. ref \in Rows(s)
        BY <2>3, Zenon DEF Rows
      <4>2. t.owners[ref.owner][ref.epoch] = "retired" => s.rows[ref].phase = "retired"
        BY <2>1, <2>3, <4>1 DEF Settles, OwnerMoves, RowOK
      <4>. QED BY <1>2, <4>2, Zenon
    <3>5. t.rows[ref].detach \in Detaches => t.control[t.rows[ref].detach] # "absent"
      BY <1>2, <2>1, <2>3 DEF RowOK, Settles, Controls
    <3>6. t.rows[ref].detach \in Children => t.rows[ref].detach = ChildOf(t.removals[ref.epoch].operation)
      <4>1. SUFFICES ASSUME t.rows[ref].detach \in Children
                     PROVE  t.removals[ref.epoch].operation = s.removals[ref.epoch].operation
        BY <1>2, <2>1, <2>3, Zenon DEF RowOK
      <4>2. s.removals[ref.epoch].phase # "none"
        <5>1. PICK m \in Removals : s.rows[ref].detach = ChildOf(m)
          BY <1>2, <4>1, Zenon DEF Children
        <5>2. ChildOf(m) = ChildOf(s.removals[ref.epoch].operation)
          BY <1>2, <2>1, <2>3, <4>1, <5>1, Zenon DEF RowOK
        <5>3. m = s.removals[ref.epoch].operation
          BY <5>2, Zenon DEF ChildOf
        <5>. QED BY <2>1, <5>3, NativeOwnersAssumption, Zenon DEF Good, OwnersOK
      <4>. QED BY <2>1, <4>2, Zenon DEF Settles, Behind
    <3>. QED BY <2>3, <3>1, <3>2, <3>3, <3>4, <3>5, <3>6, Zenon DEF RowOK
  <2>. QED BY <2>2, <2>3, Zenon
<1>6. PairsOK(t)
  <2> SUFFICES ASSUME NEW ref \in Rows(t), NEW other \in Rows(t), ref # other
               PROVE  /\ t.rows[ref].registration # t.rows[other].registration
                      /\ /\ other.owner = ref.owner /\ other.epoch = ref.epoch
                         /\ Names[other.instance] = Names[ref.instance]
                         => t.rows[ref].phase = "retired" \/ t.rows[other].phase = "retired"
    BY Zenon DEF PairsOK
  <2>1. ref \in Refs /\ other \in Refs /\ ref \in Rows(s) /\ other \in Rows(s)
    BY <1>1, Zenon DEF Rows
  <2>. QED BY <1>2, <2>1 DEF Good, PairsOK
<1>7. CreditsOK(t)
  <2>1. \A op \in Enrolments : RegistrationCredit(op) \in t.credits <=> t.inner[op] \in Unfinished
    BY <1>3, Zenon DEF Good, CreditsOK, Settles, Credible
  <2>2. ASSUME NEW op \in DetachOperations, NEW ref \in Refs
        PROVE  DetachCredit(op, ref) \in t.credits <=> t.rows[ref].detach = op /\ t.rows[ref].phase # "retired"
    <3>1. DetachCredit(op, ref) \in t.credits <=> s.rows[ref].detach = op /\ s.rows[ref].phase # "retired"
      BY Zenon DEF Good, CreditsOK, Settles, Credible
    <3>2. t.rows[ref].phase # "retired" <=> s.rows[ref].phase # "retired"
      BY <1>2, Zenon
    <3>. QED BY <1>2, <3>1, <3>2, Zenon
  <2>. QED BY <2>1, <2>2, Zenon DEF CreditsOK, Settles, Credible
<1>8. OwnersOK(t)
  <2>1. ASSUME NEW o \in Owners, NEW e \in Epochs, NEW f \in Epochs, e # f
        PROVE  t.owners[o][e] \in {"absent", "retired"} \/ t.owners[o][f] \in {"absent", "retired"}
    BY <1>4, <2>1, Zenon DEF Good, OwnersOK
  <2>. QED BY <2>1, Zenon DEF OwnersOK, Settles, Behind
<1>9. InnerOK(t)
  <2> SUFFICES ASSUME NEW op \in Enrolments, t.inner[op] # "absent"
               PROVE  \E ref \in Rows(t) : t.rows[ref].registration = op
    BY Zenon DEF InnerOK
  <2>1. PICK ref \in Rows(s) : s.rows[ref].registration = op
    BY <1>3, Zenon DEF Good, InnerOK
  <2>2. ref \in Refs
    BY Zenon DEF Rows
  <2>. QED BY <1>1, <1>2, <2>1, <2>2, Zenon
<1>10. WorkOK(t)
  <2>1. \A ref \in t.bindings : ref \in Refs /\ ref \in s.bindings
    BY Zenon DEF Settles, Snapshots
  <2>2. \A ref \in t.leases : ref \in Refs /\ ref \in s.leases
    BY Zenon DEF Settles, Snapshots
  <2>3. \A ref \in t.bindings : t.rows[ref].phase \notin {"absent", "retired"}
    BY <1>2, <2>1, Zenon DEF Good, WorkOK
  <2>4. ASSUME NEW ref \in t.leases
        PROVE  \/ t.rows[ref].phase = "attached"
               \/ t.rows[ref].phase = "unresolved" /\ t.rows[ref].from = "attachment"
    <3>1. RowOK(s, ref)
      BY <2>2, Zenon DEF Good, RowsOK
    <3>2. s.rows[ref].from = "attachment" /\ s.rows[ref].phase \in {"attached", "unresolved"}
      BY <2>2, <3>1, Zenon DEF Good, WorkOK, RowOK
    <3>. QED BY <1>2, <2>2, <3>2, Zenon
  <2>. QED BY <2>3, <2>4, Zenon DEF WorkOK
<1>11. Keeps(s, t)
  <2>1. \A ref \in Rows(s) : ref \in Refs /\ s.rows[ref].phase # "absent"
    BY Zenon DEF Rows
  <2>2. \A ref \in Rows(s) : /\ t.rows[ref].registration = s.rows[ref].registration
                             /\ t.rows[ref].phase # "absent"
                             /\ s.rows[ref].phase = "retired" => t.rows[ref] = s.rows[ref]
                             /\ s.rows[ref].from = "detachment" => t.rows[ref].from = "detachment"
    BY <1>2, <2>1, Zenon
  <2>3. \A e \in Epochs : s.removals[e].phase # "none" => t.removals[e].phase # "none"
    BY Zenon DEF Settles, Behind
  <2>4. \A ref \in Refs : /\ s.rows[ref].phase = "absent" => t.rows[ref].phase = "absent"
                          /\ ref \in t.leases => ref \in s.leases
    BY <1>2, Zenon DEF Settles
  <2>5. /\ \A op \in Controls : s.control[op] # "absent" => t.control[op] # "absent"
        /\ \A op \in Enrolments : s.inner[op] # "absent" => t.inner[op] # "absent"
    BY <1>3, Zenon DEF Settles
  <2>. QED BY <1>4, <2>2, <2>3, <2>4, <2>5, Zenon DEF Keeps
<1>12. Calm(s, t)
  BY <1>2, Zenon DEF Calm
<1>. QED BY <1>5, <1>6, <1>7, <1>8, <1>9, <1>10, <1>11, <1>12, Zenon DEF Quiet, Good

(* admitNativeControl. *)
LEMMA AdmitQuiet ==
    ASSUME NEW s, Good(s), NEW op \in Controls
    PROVE  LET t == Admit(s, op)
           IN  /\ Quiet(s, t) /\ t.control[op] = "started"
               /\ t.epoch = s.epoch /\ t.owners = s.owners /\ t.rows = s.rows /\ t.removals = s.removals
               /\ t.inner = s.inner /\ t.leases = s.leases
<1> DEFINE f == [s.control EXCEPT ![op] = "started"]
           c == s.credits \union {MutationCredit(op)}
           t == [s EXCEPT !.control = f, !.credits = c]
<1>1. s \in Snapshots
  BY Zenon DEF Good
<1>2. f \in [Controls -> RecordStates] /\ \A p \in Controls : f[p] = IF p = op THEN "started" ELSE s.control[p]
  BY <1>1, Zenon DEF Snapshots, RecordStates
<1>3. c \subseteq Credits
  BY <1>1, CreditTypes, Zenon DEF Snapshots
<1>4. /\ \A p : MutationCredit(p) \in c <=> MutationCredit(p) \in s.credits \/ p = op
      /\ \A p : RegistrationCredit(p) \in c <=> RegistrationCredit(p) \in s.credits
      /\ \A p, ref : DetachCredit(p, ref) \in c <=> DetachCredit(p, ref) \in s.credits
  BY MutationCredits, Zenon
<1>5. t = Admit(s, op)
  BY Zenon DEF Admit
<1> HIDE DEF f, c
<1>6. /\ t \in Snapshots /\ t.control = f /\ t.credits = c
      /\ t.epoch = s.epoch /\ t.owners = s.owners /\ t.rows = s.rows /\ t.removals = s.removals
      /\ t.inner = s.inner /\ t.leases = s.leases /\ t.bindings = s.bindings
  BY <1>1, <1>2, <1>3, Zenon DEF Snapshots
<1> HIDE DEF t
<1>7. \A p \in Controls : MutationCredit(p) \in t.credits <=> t.control[p] \in Unfinished
  BY <1>2, <1>4, <1>6, Zenon DEF Good, CreditsOK, Unfinished
<1>8. Settles(s, t)
  <2>1. \A ref \in Refs : Doubted(s.rows[ref], t.rows[ref])
    BY <1>6, Zenon DEF Doubted
  <2>2. \A p \in Controls : s.control[p] # "absent" => t.control[p] # "absent"
    BY <1>2, <1>6, Zenon
  <2>3. \A o \in Owners : \A e \in Epochs : OwnerMoves(s, t, o, e)
    BY <1>6, Zenon DEF OwnerMoves
  <2>4. Credible(s, t)
    BY <1>4, <1>6, <1>7, Zenon DEF Credible
  <2>5. Behind(s, t)
    BY <1>6 DEF Behind, Good, OwnersOK
  <2>. QED BY <1>6, <2>1, <2>2, <2>3, <2>4, <2>5, Zenon DEF Settles
<1>9. Quiet(s, t)
  BY <1>6, <1>8, SettlesQuiet, Zenon
<1>. QED BY <1>2, <1>5, <1>6, <1>9, Zenon

(* The parts of Settles for what a change leaves alone. *)
LEMMA Stays ==
    ASSUME NEW s, Good(s), NEW t
    PROVE  /\ t.rows = s.rows => \A ref \in Refs : Doubted(s.rows[ref], t.rows[ref])
           /\ t.owners = s.owners => \A o \in Owners : \A e \in Epochs : OwnerMoves(s, t, o, e)
           /\ t.owners = s.owners /\ t.removals = s.removals => Behind(s, t)
           /\ t.control = s.control /\ t.credits = s.credits => Credible(s, t)
<1>1. t.rows = s.rows => \A ref \in Refs : Doubted(s.rows[ref], t.rows[ref])
  BY Zenon DEF Doubted
<1>2. t.owners = s.owners => \A o \in Owners : \A e \in Epochs : OwnerMoves(s, t, o, e)
  BY Zenon DEF OwnerMoves
<1>3. t.owners = s.owners /\ t.removals = s.removals => Behind(s, t)
  BY DEF Behind, Good, OwnersOK
<1>4. t.control = s.control /\ t.credits = s.credits => Credible(s, t)
  BY Zenon DEF Credible, Good, CreditsOK
<1>. QED BY <1>1, <1>2, <1>3, <1>4, Zenon

(* Mutations.complete and the release of its credit. *)
LEMMA CompleteControlQuiet ==
    ASSUME NEW s, Good(s), NEW op \in Controls
    PROVE  LET t == CompleteControl(s, op)
           IN  /\ Quiet(s, t) /\ t.epoch = s.epoch /\ t.owners = s.owners /\ t.rows = s.rows
               /\ t.removals = s.removals /\ t.installed = s.installed /\ t.registry = s.registry
<1> DEFINE f == [s.control EXCEPT ![op] = "completed"]
           c == s.credits \ {MutationCredit(op)}
           t == [s EXCEPT !.control = f, !.credits = c]
<1>1. s \in Snapshots
  BY Zenon DEF Good
<1>2. f \in [Controls -> RecordStates] /\ \A p \in Controls : f[p] = IF p = op THEN "completed" ELSE s.control[p]
  BY <1>1, Zenon DEF Snapshots, RecordStates
<1>3. c \subseteq Credits
  BY <1>1, Zenon DEF Snapshots
<1>4. /\ \A p : MutationCredit(p) \in c <=> MutationCredit(p) \in s.credits /\ p # op
      /\ \A p : RegistrationCredit(p) \in c <=> RegistrationCredit(p) \in s.credits
      /\ \A p, ref : DetachCredit(p, ref) \in c <=> DetachCredit(p, ref) \in s.credits
  BY MutationCredits, Zenon
<1>5. t = CompleteControl(s, op)
  BY Zenon DEF CompleteControl
<1> HIDE DEF f, c
<1>6. /\ t \in Snapshots /\ t.control = f /\ t.credits = c
      /\ t.epoch = s.epoch /\ t.owners = s.owners /\ t.rows = s.rows /\ t.removals = s.removals
      /\ t.inner = s.inner /\ t.leases = s.leases /\ t.bindings = s.bindings
      /\ t.installed = s.installed /\ t.registry = s.registry
  BY <1>1, <1>2, <1>3, Zenon DEF Snapshots
<1> HIDE DEF t
<1>7. \A p \in Controls : MutationCredit(p) \in t.credits <=> t.control[p] \in Unfinished
  BY <1>2, <1>4, <1>6, Zenon DEF Good, CreditsOK, Unfinished
<1>8. Settles(s, t)
  <2>1. \A p \in Controls : s.control[p] # "absent" => t.control[p] # "absent"
    BY <1>2, <1>6, Zenon
  <2>2. Credible(s, t)
    BY <1>4, <1>6, <1>7, Zenon DEF Credible
  <2>. QED BY <1>6, <2>1, <2>2, Stays, Zenon DEF Settles
<1>9. Quiet(s, t)
  BY <1>6, <1>8, SettlesQuiet, Zenon
<1>. QED BY <1>5, <1>6, <1>9, Zenon

(* The child operation of a removal that holds a fence. *)
LEMMA ChildTyped ==
    ASSUME NEW s, Good(s), Fenced(s)
    PROVE  Child(s) \in Children /\ Child(s) \in DetachOperations /\ Child(s) # None
<1>1. s.epoch \in Epochs /\ s.removals[s.epoch].operation \in Removals \union {None}
  BY FieldTypes, Zenon DEF Good
<1>2. s.removals[s.epoch].operation \in Removals
  BY <1>1, Zenon DEF Good, OwnersOK, Fenced
<1>3. Child(s) \in Children
  BY <1>2, Zenon DEF Child, Children
<1>. QED BY <1>3, NativeOwnersAssumption, Zenon DEF DetachOperations

(* beginApplicationRemoval. *)
LEMMA FenceQuiet ==
    ASSUME NEW s, Good(s), NEW m \in Removals
    PROVE  LET t == BeginApplicationRemoval(s, m)
           IN  /\ Quiet(s, t) /\ Fenced(t) /\ t.epoch = s.epoch /\ t.rows = s.rows
               /\ t.control = s.control /\ t.leases = s.leases
<1>1. CASE Fenced(s)
  <2>1. BeginApplicationRemoval(s, m) = s
    BY <1>1, Zenon DEF BeginApplicationRemoval
  <2>. QED BY <1>1, <2>1, QuietSelf, Zenon
<1>2. CASE ~Fenced(s)
  <2> DEFINE g == [phase |-> "pending", operation |-> m]
             f == [s.removals EXCEPT ![s.epoch] = g]
             h == [o \in Owners |-> [e \in Epochs |->
                      IF e = s.epoch /\ s.owners[o][e] = "open" THEN "closing" ELSE s.owners[o][e]]]
             t == [s EXCEPT !.removals = f, !.owners = h]
  <2>1. /\ s \in Snapshots /\ s.epoch \in Epochs
        /\ s.removals \in [Epochs -> [phase : {"none", "pending", "retired"}, operation : Removals \union {None}]]
        /\ \A o \in Owners : \A e \in Epochs : s.owners[o][e] \in {"absent", "open", "closing", "retired"}
    BY FieldTypes, Zenon DEF Good, Snapshots
  <2>2. /\ g \in [phase : {"none", "pending", "retired"}, operation : Removals \union {None}]
        /\ g.phase = "pending" /\ g.operation = m
    BY Zenon
  <2>3. t = BeginApplicationRemoval(s, m)
    BY <1>2, Zenon DEF BeginApplicationRemoval
  <2> HIDE DEF g
  <2>4. /\ f \in [Epochs -> [phase : {"none", "pending", "retired"}, operation : Removals \union {None}]]
        /\ \A e \in Epochs : f[e] = IF e = s.epoch THEN g ELSE s.removals[e]
    BY <2>1, <2>2, Zenon
  <2>5. \A o \in Owners : \A e \in Epochs :
            h[o][e] = IF e = s.epoch /\ s.owners[o][e] = "open" THEN "closing" ELSE s.owners[o][e]
    BY Zenon
  <2>6. h \in [Owners -> [Epochs -> {"absent", "open", "closing", "retired"}]]
    BY <2>1, Zenon
  <2> HIDE DEF f, h
  <2>7. /\ t \in Snapshots /\ t.removals = f /\ t.owners = h
        /\ t.control = s.control /\ t.credits = s.credits /\ t.epoch = s.epoch /\ t.rows = s.rows
        /\ t.inner = s.inner /\ t.leases = s.leases /\ t.bindings = s.bindings
    BY <2>1, <2>4, <2>6, Zenon DEF Snapshots
  <2> HIDE DEF t
  <2>8. \A o \in Owners : \A e \in Epochs : OwnerMoves(s, t, o, e)
    BY <2>5, <2>7, Zenon DEF OwnerMoves
  <2>9. m # None
    BY NativeOwnersAssumption, Zenon
  <2>10. Behind(s, t)
    <3> SUFFICES ASSUME NEW e \in Epochs
                 PROVE  /\ t.removals[e].phase = "none" <=> t.removals[e].operation = None
                        /\ s.removals[e].phase # "none" => /\ t.removals[e].phase # "none"
                                                           /\ t.removals[e].operation = s.removals[e].operation
                        /\ t.removals[e].phase # "none" => \A o \in Owners : t.owners[o][e] # "open"
                        /\ t.removals[e].phase = "retired" => \A o \in Owners : t.owners[o][e] # "closing"
      BY Zenon DEF Behind
    <3>1. CASE e = s.epoch
      <4>1. s.removals[e].phase = "none" /\ t.removals[e] = g
        BY <1>2, <2>4, <2>7, <3>1, Zenon DEF Fenced
      <4>2. ASSUME NEW o \in Owners PROVE t.owners[o][e] # "open"
        <5>1. t.owners[o][e] = IF s.owners[o][e] = "open" THEN "closing" ELSE s.owners[o][e]
          BY <2>5, <2>7, <3>1, Zenon
        <5>. QED BY <5>1, Zenon
      <4>. QED BY <2>2, <2>9, <4>1, <4>2, Zenon
    <3>2. CASE e # s.epoch
      <4>1. t.removals[e] = s.removals[e] /\ \A o \in Owners : t.owners[o][e] = s.owners[o][e]
        BY <2>4, <2>5, <2>7, <3>2, Zenon
      <4>. QED BY <4>1 DEF Good, OwnersOK
    <3>. QED BY <3>1, <3>2, Zenon
  <2>11. Settles(s, t)
    BY <2>7, <2>8, <2>10, Stays, Zenon DEF Settles
  <2>12. Fenced(t)
    BY <2>1, <2>2, <2>4, <2>7, Zenon DEF Fenced
  <2>. QED BY <2>3, <2>7, <2>11, <2>12, SettlesQuiet, Zenon
<1>. QED BY <1>1, <1>2, Zenon

(* retireOwnerForOwner of each owner. *)
LEMMA RetireQuiet ==
    ASSUME NEW s, Good(s)
    PROVE  LET t == RetireOwners(s)
           IN  /\ Quiet(s, t) /\ t.epoch = s.epoch /\ t.rows = s.rows /\ t.removals = s.removals
               /\ t.control = s.control /\ t.leases = s.leases
<1> DEFINE h == [o \in Owners |-> [e \in Epochs |->
                    IF /\ e = s.epoch /\ s.owners[o][e] = "closing"
                       /\ \A ref \in Siblings(s, o) : s.rows[ref].phase = "retired"
                    THEN "retired" ELSE s.owners[o][e]]]
           t == [s EXCEPT !.owners = h]
<1>1. /\ s \in Snapshots /\ s.epoch \in Epochs
      /\ \A o \in Owners : \A e \in Epochs : s.owners[o][e] \in {"absent", "open", "closing", "retired"}
  BY FieldTypes, Zenon DEF Good
<1>2. t = RetireOwners(s)
  BY Zenon DEF RetireOwners
<1>3. \A o \in Owners : \A e \in Epochs :
          \/ h[o][e] = s.owners[o][e]
          \/ /\ h[o][e] = "retired" /\ s.owners[o][e] = "closing"
             /\ \A ref \in Rows(s) : ref.owner = o /\ ref.epoch = e => s.rows[ref].phase = "retired"
  BY Zenon DEF Siblings
<1>4. h \in [Owners -> [Epochs -> {"absent", "open", "closing", "retired"}]]
  BY <1>1, Zenon
<1> HIDE DEF h
<1>5. /\ t \in Snapshots /\ t.owners = h /\ t.removals = s.removals
      /\ t.control = s.control /\ t.credits = s.credits /\ t.epoch = s.epoch /\ t.rows = s.rows
      /\ t.inner = s.inner /\ t.leases = s.leases /\ t.bindings = s.bindings
  BY <1>1, <1>4, Zenon DEF Snapshots
<1> HIDE DEF t
<1>6. \A o \in Owners : \A e \in Epochs : OwnerMoves(s, t, o, e)
  BY <1>3, <1>5, Zenon DEF OwnerMoves
<1>7. Behind(s, t)
  <2>1. \A o \in Owners : \A e \in Epochs : t.owners[o][e] \in {s.owners[o][e], "retired"}
    BY <1>3, <1>5, Zenon
  <2>. QED BY <1>5, <2>1 DEF Good, OwnersOK, Behind
<1>8. Settles(s, t)
  BY <1>5, <1>6, <1>7, Stays, Zenon DEF Settles
<1>. QED BY <1>2, <1>5, <1>8, SettlesQuiet, Zenon

(* The end of finishNativeRemoval. *)
LEMMA RemovedQuiet ==
    ASSUME NEW s, Good(s), NEW m \in Removals, RemovalReady(s), s.epoch < MaxEpoch
    PROVE  Quiet(s, Removed(s, m))
<1> DEFINE u == CompleteControl(s, m)
           g == [s.removals[s.epoch] EXCEPT !.phase = "retired"]
           f == [u.removals EXCEPT ![s.epoch] = g]
           r == <<"removed", s.epoch>>
           n == s.epoch + 1
           t == [u EXCEPT !.removals = f, !.installed = FALSE, !.registry = r, !.epoch = n]
<1>1. /\ Quiet(s, u) /\ Good(u) /\ u \in Snapshots
      /\ u.epoch = s.epoch /\ u.owners = s.owners /\ u.rows = s.rows /\ u.removals = s.removals
  BY CompleteControlQuiet, Zenon DEF Controls, Quiet, Good
<1>2. t = Removed(s, m)
  BY Zenon DEF Removed
<1> HIDE DEF u
<1>3. /\ s.epoch \in Epochs /\ s.removals[s.epoch].operation # None
      /\ s.removals \in [Epochs -> [phase : {"none", "pending", "retired"}, operation : Removals \union {None}]]
      /\ u.removals \in [Epochs -> [phase : {"none", "pending", "retired"}, operation : Removals \union {None}]]
  <2>1. s \in Snapshots /\ s.epoch \in Epochs
    BY FieldTypes, Zenon DEF Good
  <2>2. s.removals[s.epoch].operation # None
    BY <2>1, Zenon DEF RemovalReady, Fenced, Good, OwnersOK
  <2>. QED BY <1>1, <2>1, <2>2, Zenon DEF Snapshots
<1>4. /\ g \in [phase : {"none", "pending", "retired"}, operation : Removals \union {None}]
      /\ g.phase = "retired" /\ g.operation = s.removals[s.epoch].operation
  <2>1. s.removals[s.epoch] \in [phase : {"none", "pending", "retired"}, operation : Removals \union {None}]
    BY <1>3, Zenon
  <2>. QED BY <2>1, Zenon
<1> HIDE DEF g
<1>5. /\ f \in [Epochs -> [phase : {"none", "pending", "retired"}, operation : Removals \union {None}]]
      /\ \A e \in Epochs : f[e] = IF e = s.epoch THEN g ELSE s.removals[e]
  BY <1>1, <1>3, <1>4, Zenon
<1>6. n \in Epochs
  BY <1>3, NativeOwnersAssumption DEF Epochs
<1>7. r \in Registries
  BY <1>3, Zenon DEF Registries, RegistryRecords
<1> HIDE DEF f, n, r
<1>8. /\ t \in Snapshots /\ t.removals = f /\ t.owners = u.owners
      /\ t.control = u.control /\ t.credits = u.credits /\ t.rows = u.rows
      /\ t.inner = u.inner /\ t.leases = u.leases /\ t.bindings = u.bindings
  BY <1>1, <1>5, <1>6, <1>7, Zenon DEF Snapshots
<1> HIDE DEF t
<1>9. Behind(u, t)
  <2> SUFFICES ASSUME NEW e \in Epochs
               PROVE  /\ t.removals[e].phase = "none" <=> t.removals[e].operation = None
                      /\ u.removals[e].phase # "none" => /\ t.removals[e].phase # "none"
                                                         /\ t.removals[e].operation = u.removals[e].operation
                      /\ t.removals[e].phase # "none" => \A o \in Owners : t.owners[o][e] # "open"
                      /\ t.removals[e].phase = "retired" => \A o \in Owners : t.owners[o][e] # "closing"
    BY Zenon DEF Behind
  <2>1. CASE e = s.epoch
    <3>1. \A o \in Owners : t.owners[o][e] \in {"absent", "retired"}
      BY <1>1, <1>8, <2>1, Zenon DEF RemovalReady
    <3>2. t.removals[e] = g
      BY <1>5, <1>8, <2>1, Zenon
    <3>. QED BY <1>1, <1>3, <1>4, <2>1, <3>1, <3>2, Zenon
  <2>2. CASE e # s.epoch
    <3>1. t.removals[e] = u.removals[e] /\ \A o \in Owners : t.owners[o][e] = u.owners[o][e]
      BY <1>1, <1>5, <1>8, <2>2, Zenon
    <3>. QED BY <1>1, <3>1 DEF Good, OwnersOK
  <2>. QED BY <2>1, <2>2, Zenon
<1>10. Settles(u, t)
  BY <1>1, <1>8, <1>9, Stays, Zenon DEF Settles
<1>11. Quiet(u, t)
  BY <1>1, <1>8, <1>10, SettlesQuiet, Zenon
<1>. QED BY <1>1, <1>2, <1>11, QuietTransitive, Zenon

(* markUnresolved keeps the origin of a row. *)
LEMMA MarkedDoubted ==
    ASSUME NEW s, Good(s), NEW ref \in Refs
    PROVE  LET new == MarkUnresolved(s.rows[ref])
           IN  /\ Doubted(s.rows[ref], new) /\ new \in Attachments
               /\ new.phase # "pending_registration"
<1> DEFINE row == s.rows[ref]
<1>1. row \in Attachments /\ row.phase \in Phases /\ RowOK(s, ref)
  BY FieldTypes, Zenon DEF Good, RowsOK
<1>2. CASE row.phase \in {"absent", "unresolved", "retired"}
  <2>1. MarkUnresolved(row) = row
    BY <1>2, Zenon DEF MarkUnresolved
  <2>. QED BY <1>1, <1>2, <2>1, Zenon DEF Doubted
<1>3. CASE row.phase \notin {"absent", "unresolved", "retired"}
  <2>1. row.phase \in {"pending_registration", "attached", "pending_detach"}
    BY <1>1, <1>3, Zenon DEF Phases
  <2>2. (CASE row.phase = "pending_registration" -> "registration"
           [] row.phase = "attached" -> "attachment"
           [] row.phase = "pending_detach" -> "detachment") = row.from
    BY <1>1, <2>1, Zenon DEF RowOK
  <2>3. MarkUnresolved(row) = [row EXCEPT !.phase = "unresolved", !.from = row.from]
    BY <1>3, <2>2, Zenon DEF MarkUnresolved
  <2>4. [row EXCEPT !.phase = "unresolved", !.from = row.from] \in Attachments
    BY <1>1, Zenon DEF Attachments, Phases
  <2>5. LET new == [row EXCEPT !.phase = "unresolved", !.from = row.from]
        IN  /\ new.phase = "unresolved" /\ new.registration = row.registration
            /\ new.detach = row.detach /\ new.from = row.from
    BY <1>1, Zenon DEF Attachments
  <2>. QED BY <2>1, <2>3, <2>4, <2>5, Zenon DEF Doubted
<1>. QED BY <1>2, <1>3, Zenon

(* The operation of a call is a record of the ledgers. *)
LEMMA OperationOf ==
    ASSUME NEW t \in Calls
    PROVE  /\ t \in Controls => Operation(t) = t
           /\ t \notin Controls => Operation(t) \in Enrolments
           /\ t \in Registers => Operation(t) = t
           /\ \A a \in Attaches : t = Callback(a) => Operation(t) = a
<1>1. t \in Controls \/ t \in Registers => t \notin Callbacks
  BY NativeOwnersAssumption, Zenon
<1>2. \A a \in Attaches : Callback(a)[1] = a /\ Callback(a) \in Callbacks
  BY Zenon DEF Callback, Callbacks
<1>3. t \notin Controls => t \in Registers \/ \E a \in Attaches : t = Callback(a)
  BY Zenon DEF Calls, Callbacks
<1>. QED BY <1>1, <1>2, <1>3, Zenon DEF Operation, Enrolments

(* failNativeTask. *)
LEMMA UncertainQuiet ==
    ASSUME NEW s, Good(s), NEW t \in Calls, NEW ref \in Refs \union {None},
           t \in Controls => s.control[t] # "absent",
           t \notin Controls => s.inner[Operation(t)] # "absent"
    PROVE  /\ Quiet(s, Uncertain(s, t, ref))
           /\ Uncertain(s, t, ref).owners = s.owners /\ Uncertain(s, t, ref).removals = s.removals
           /\ /\ ref \in Refs /\ t \notin Controls /\ s.inner[Operation(t)] # "completed"
              => Uncertain(s, t, ref).rows[ref].phase # "pending_registration"
<1> DEFINE op == Operation(t)
           f == IF ref = None THEN s.rows ELSE [s.rows EXCEPT ![ref] = MarkUnresolved(s.rows[ref])]
           d == [s EXCEPT !.rows = f]
<1>1. /\ s \in Snapshots /\ s.rows \in [Refs -> Attachments]
      /\ s.control \in [Controls -> RecordStates] /\ s.inner \in [Enrolments -> RecordStates]
  BY Zenon DEF Good, Snapshots
<1>2. None \notin Refs
  BY NativeOwnersAssumption, Zenon
<1>3. /\ f \in [Refs -> Attachments]
      /\ \A r \in Refs : f[r] = IF r = ref THEN MarkUnresolved(s.rows[r]) ELSE s.rows[r]
  BY <1>1, <1>2, MarkedDoubted, Zenon
<1>4. ASSUME NEW r \in Refs PROVE Doubted(s.rows[r], f[r])
  <2>1. f[r] = s.rows[r] \/ f[r] = MarkUnresolved(s.rows[r])
    BY <1>3, Zenon
  <2>2. Doubted(s.rows[r], s.rows[r])
    BY Zenon DEF Doubted
  <2>. QED BY <2>1, <2>2, MarkedDoubted, Zenon
<1>5. d = IF ref = None THEN s ELSE [s EXCEPT !.rows[ref] = MarkUnresolved(s.rows[ref])]
  <2>1. CASE ref = None
    <3>1. f = s.rows
      BY <2>1, Zenon
    <3>2. [s EXCEPT !.rows = s.rows] = s
      BY <1>1, Zenon DEF Snapshots
    <3>. QED BY <2>1, <3>1, <3>2, Zenon
  <2>2. CASE ref # None
    BY <2>2, Zenon
  <2>. QED BY <2>1, <2>2, Zenon
<1>6. ref \in Refs => f[ref].phase # "pending_registration"
  BY <1>3, MarkedDoubted, Zenon
<1> HIDE DEF f
<1>7. /\ d \in Snapshots /\ d.rows = f /\ d.removals = s.removals /\ d.owners = s.owners
      /\ d.control = s.control /\ d.credits = s.credits /\ d.epoch = s.epoch
      /\ d.inner = s.inner /\ d.leases = s.leases /\ d.bindings = s.bindings
  BY <1>1, <1>3, Zenon DEF Snapshots
<1> HIDE DEF d
<1>8. CASE (IF t \in Controls THEN s.control[op] ELSE s.inner[op]) = "completed"
  <2>1. Uncertain(s, t, ref) = s
    BY <1>8, Zenon DEF Uncertain
  <2>. QED BY <1>8, <2>1, QuietSelf, Zenon
<1>9. CASE (IF t \in Controls THEN s.control[op] ELSE s.inner[op]) # "completed" /\ t \in Controls
  <2> DEFINE g == [d.control EXCEPT ![op] = "indeterminate"]
             u == [d EXCEPT !.control = g]
  <2>1. Uncertain(s, t, ref) = u
    BY <1>5, <1>9, Zenon DEF Uncertain
  <2>2. op = t /\ op \in Controls /\ s.control[op] \in Unfinished
    <3>1. op = t
      BY <1>9, OperationOf, Zenon
    <3>. QED BY <1>1, <1>9, <3>1, Zenon DEF RecordStates, Unfinished
  <2>3. /\ g \in [Controls -> RecordStates]
        /\ \A p \in Controls : g[p] = IF p = op THEN "indeterminate" ELSE s.control[p]
    BY <1>1, <1>7, <2>2, Zenon DEF RecordStates
  <2> HIDE DEF g
  <2>4. /\ u \in Snapshots /\ u.rows = f /\ u.removals = s.removals /\ u.owners = s.owners
        /\ u.control = g /\ u.credits = s.credits /\ u.epoch = s.epoch
        /\ u.inner = s.inner /\ u.leases = s.leases /\ u.bindings = s.bindings
    BY <1>7, <2>3, Zenon DEF Snapshots
  <2> HIDE DEF u
  <2>5. Credible(s, u)
    BY <2>2, <2>3, <2>4, Zenon DEF Credible, Good, CreditsOK, Unfinished
  <2>6. Settles(s, u)
    BY <1>4, <2>3, <2>4, <2>5, Stays, Zenon DEF Settles
  <2>. QED BY <1>9, <2>1, <2>4, <2>6, SettlesQuiet, Zenon
<1>10. CASE (IF t \in Controls THEN s.control[op] ELSE s.inner[op]) # "completed" /\ t \notin Controls
  <2> DEFINE g == [d.inner EXCEPT ![op] = "indeterminate"]
             u == [d EXCEPT !.inner = g]
  <2>1. Uncertain(s, t, ref) = u
    BY <1>5, <1>10, Zenon DEF Uncertain
  <2>2. op \in Enrolments /\ s.inner[op] \in Unfinished
    BY <1>1, <1>10, OperationOf, Zenon DEF RecordStates, Unfinished
  <2>3. /\ g \in [Enrolments -> RecordStates]
        /\ \A p \in Enrolments : g[p] = IF p = op THEN "indeterminate" ELSE s.inner[p]
    BY <1>1, <1>7, <2>2, Zenon DEF RecordStates
  <2> HIDE DEF g
  <2>4. /\ u \in Snapshots /\ u.rows = f /\ u.removals = s.removals /\ u.owners = s.owners
        /\ u.control = s.control /\ u.credits = s.credits /\ u.epoch = s.epoch
        /\ u.inner = g /\ u.leases = s.leases /\ u.bindings = s.bindings
    BY <1>7, <2>3, Zenon DEF Snapshots
  <2> HIDE DEF u
  <2>5. \A p \in Enrolments : u.inner[p] = s.inner[p] \/ {s.inner[p], u.inner[p]} \subseteq Unfinished
    BY <2>2, <2>3, <2>4, Zenon DEF Unfinished
  <2>6. Settles(s, u)
    BY <1>4, <2>4, <2>5, Stays, Zenon DEF Settles
  <2>. QED BY <1>6, <2>1, <2>4, <2>6, SettlesQuiet, Zenon
<1>. QED BY <1>8, <1>9, <1>10, Zenon

(* recoverAfterRestart of the three ledgers. *)
LEMMA RecoveredQuiet ==
    ASSUME NEW s, Good(s)
    PROVE  /\ Quiet(s, Recovered(s))
           /\ \A ref \in Refs : Recovered(s).rows[ref].phase # "pending_registration"
<1> DEFINE f == [ref \in Refs |-> MarkUnresolved(s.rows[ref])]
           g == [op \in Controls |-> IF s.control[op] = "started" THEN "indeterminate" ELSE s.control[op]]
           h == [op \in Enrolments |-> IF s.inner[op] = "started" THEN "indeterminate" ELSE s.inner[op]]
           t == [s EXCEPT !.rows = f, !.control = g, !.inner = h]
<1>1. /\ s \in Snapshots
      /\ s.control \in [Controls -> RecordStates] /\ s.inner \in [Enrolments -> RecordStates]
  BY Zenon DEF Good, Snapshots
<1>2. t = Recovered(s)
  BY Zenon DEF Recovered
<1>3. /\ f \in [Refs -> Attachments]
      /\ \A ref \in Refs : Doubted(s.rows[ref], f[ref]) /\ f[ref].phase # "pending_registration"
  BY MarkedDoubted, Zenon
<1>4. /\ g \in [Controls -> RecordStates]
      /\ \A op \in Controls : g[op] = s.control[op] \/ {s.control[op], g[op]} \subseteq Unfinished
  BY <1>1, Zenon DEF RecordStates, Unfinished
<1>5. /\ h \in [Enrolments -> RecordStates]
      /\ \A op \in Enrolments : h[op] = s.inner[op] \/ {s.inner[op], h[op]} \subseteq Unfinished
  BY <1>1, Zenon DEF RecordStates, Unfinished
<1> HIDE DEF f, g, h
<1>6. /\ t \in Snapshots /\ t.rows = f /\ t.removals = s.removals /\ t.owners = s.owners
      /\ t.control = g /\ t.credits = s.credits /\ t.epoch = s.epoch
      /\ t.inner = h /\ t.leases = s.leases /\ t.bindings = s.bindings
  BY <1>1, <1>3, <1>4, <1>5, Zenon DEF Snapshots
<1> HIDE DEF t
<1>7. \A op \in Controls : s.control[op] # "absent" => t.control[op] # "absent"
  BY <1>4, <1>6, Zenon DEF Unfinished
<1>8. Credible(s, t)
  BY <1>4, <1>6, Zenon DEF Credible, Good, CreditsOK
<1>9. Settles(s, t)
  BY <1>3, <1>5, <1>6, <1>7, <1>8, Stays, Zenon DEF Settles
<1>. QED BY <1>2, <1>3, <1>6, <1>9, SettlesQuiet, Zenon

(* adapter.report and adapter.releaseBinding end work. *)
LEMMA WorkEndsQuiet ==
    ASSUME NEW s, Good(s), NEW B, B \subseteq s.bindings, NEW L, L \subseteq s.leases
    PROVE  Quiet(s, [s EXCEPT !.bindings = B]) /\ Quiet(s, [s EXCEPT !.leases = L])
<1>1. s \in Snapshots /\ B \subseteq Refs /\ L \subseteq Refs
  BY FieldTypes, Zenon DEF Good
<1>2. ASSUME NEW t \in Snapshots, t.rows = s.rows, t.removals = s.removals, t.owners = s.owners,
             t.control = s.control, t.credits = s.credits, t.inner = s.inner,
             t.leases \subseteq s.leases, t.bindings \subseteq s.bindings
      PROVE  Quiet(s, t)
  <2>1. Settles(s, t)
    BY <1>2, Stays, Zenon DEF Settles
  <2>. QED BY <2>1, SettlesQuiet, Zenon
<1>3. Quiet(s, [s EXCEPT !.bindings = B])
  <2> DEFINE t == [s EXCEPT !.bindings = B]
  <2>1. /\ t \in Snapshots /\ t.rows = s.rows /\ t.removals = s.removals /\ t.owners = s.owners
        /\ t.control = s.control /\ t.credits = s.credits /\ t.inner = s.inner
        /\ t.leases = s.leases /\ t.bindings = B
    BY <1>1, Zenon DEF Snapshots
  <2> HIDE DEF t
  <2>2. Quiet(s, t)
    BY <1>2, <2>1, Zenon
  <2>. QED BY <2>2, Zenon DEF t
<1>4. Quiet(s, [s EXCEPT !.leases = L])
  <2> DEFINE t == [s EXCEPT !.leases = L]
  <2>1. /\ t \in Snapshots /\ t.rows = s.rows /\ t.removals = s.removals /\ t.owners = s.owners
        /\ t.control = s.control /\ t.credits = s.credits /\ t.inner = s.inner
        /\ t.leases = L /\ t.bindings = s.bindings
    BY <1>1, Zenon DEF Snapshots
  <2> HIDE DEF t
  <2>2. Quiet(s, t)
    BY <1>2, <2>1, Zenon
  <2>. QED BY <2>2, Zenon DEF t
<1>. QED BY <1>3, <1>4, Zenon

(* The commit of install. *)
LEMMA InstallQuiet ==
    ASSUME NEW s, Good(s), NEW r \in Registries
    PROVE  Quiet(s, [s EXCEPT !.installed = TRUE, !.registry = r])
<1> DEFINE t == [s EXCEPT !.installed = TRUE, !.registry = r]
<1>1. /\ t \in Snapshots /\ t.rows = s.rows /\ t.removals = s.removals /\ t.owners = s.owners
      /\ t.control = s.control /\ t.credits = s.credits /\ t.inner = s.inner
      /\ t.leases = s.leases /\ t.bindings = s.bindings
  BY Zenon DEF Good, Snapshots
<1> HIDE DEF t
<1>2. Settles(s, t)
  BY <1>1, Stays, Zenon DEF Settles
<1>3. Quiet(s, t)
  BY <1>1, <1>2, SettlesQuiet, Zenon
<1>. QED BY <1>3, Zenon DEF t

(* adapter.acquire on an attachment of an epoch without a fence. *)
LEMMA AcquireQuiet ==
    ASSUME NEW s, Good(s), NEW ref \in Refs, s.rows[ref].phase = "attached",
           ref.epoch = s.epoch, ~Fenced(s)
    PROVE  Quiet(s, [s EXCEPT !.bindings = s.bindings \union {ref}, !.leases = s.leases \union {ref}])
<1> DEFINE B == s.bindings \union {ref}
           L == s.leases \union {ref}
           t == [s EXCEPT !.bindings = B, !.leases = L]
<1>1. s \in Snapshots /\ B \subseteq Refs /\ L \subseteq Refs
  BY FieldTypes, Zenon DEF Good
<1>2. /\ t \in Snapshots /\ t.rows = s.rows /\ t.removals = s.removals /\ t.owners = s.owners
      /\ t.control = s.control /\ t.credits = s.credits /\ t.inner = s.inner
      /\ t.leases = L /\ t.bindings = B
  BY <1>1, Zenon DEF Snapshots
<1> HIDE DEF t
<1>3. Rows(t) = Rows(s)
  BY <1>2, Zenon DEF Rows
<1>4. RowsOK(t)
  <2>1. \A q \in Refs : RowOK(s, q) <=> RowOK(t, q)
    BY <1>2 DEF RowOK
  <2>. QED BY <2>1, Zenon DEF Good, RowsOK
<1>5. PairsOK(t) /\ CreditsOK(t) /\ OwnersOK(t) /\ InnerOK(t)
  <2>1. PairsOK(t) /\ InnerOK(t)
    BY <1>2, <1>3 DEF Good, PairsOK, InnerOK
  <2>2. CreditsOK(t)
    BY <1>2 DEF Good, CreditsOK
  <2>3. OwnersOK(t)
    BY <1>2 DEF Good, OwnersOK
  <2>. QED BY <2>1, <2>2, <2>3, Zenon
<1>6. WorkOK(t)
  BY <1>2, Zenon DEF Good, WorkOK
<1>7. Keeps(s, t)
  <2>1. ASSUME NEW e \in Epochs, s.removals[e].phase # "none", NEW q \in Refs, q.epoch = e, q \in t.leases
        PROVE  q \in s.leases
    BY <1>2, <2>1, Zenon DEF Fenced
  <2>. QED BY <1>2, <2>1 DEF Keeps, Rows
<1>8. Calm(s, t)
  BY <1>2, Zenon DEF Calm
<1>9. Quiet(s, t)
  BY <1>2, <1>4, <1>5, <1>6, <1>7, <1>8, Zenon DEF Quiet, Good
<1>. QED BY <1>9, Zenon DEF t

-----------------------------------------------------------------------------
(* Changes of one row. *)

(* One live row moves on, and its registration record with it. *)
OneRow(s, t, ref) ==
    /\ \A r \in Refs \ {ref} : t.rows[r] = s.rows[r]
    /\ s.rows[ref].phase \notin {"absent", "retired"} /\ t.rows[ref].phase # "absent"
    /\ t.rows[ref].registration = s.rows[ref].registration
    /\ s.rows[ref].from = "detachment" => t.rows[ref].from = "detachment"
    /\ \A op \in Enrolments : op # s.rows[ref].registration => t.inner[op] = s.inner[op]
    /\ t.owners = s.owners /\ t.removals = s.removals /\ t.control = s.control /\ t.leases = s.leases
    /\ RowOK(t, ref) /\ CreditsOK(t) /\ WorkOK(t)

LEMMA OneRowFollows ==
    ASSUME NEW s, Good(s), NEW t \in Snapshots, NEW ref \in Refs, OneRow(s, t, ref)
    PROVE  Follows(s, t)
<1>1. /\ \A r \in Refs : r # ref => t.rows[r] = s.rows[r]
      /\ s.rows[ref].phase # "absent" /\ s.rows[ref].phase # "retired" /\ t.rows[ref].phase # "absent"
      /\ t.rows[ref].registration = s.rows[ref].registration
      /\ t.owners = s.owners /\ t.removals = s.removals /\ t.control = s.control /\ t.leases = s.leases
      /\ \A op \in Enrolments : op # s.rows[ref].registration => t.inner[op] = s.inner[op]
  BY Zenon DEF OneRow
<1>2. Rows(t) = Rows(s) /\ ref \in Rows(s) /\ Rows(s) \subseteq Refs
  BY <1>1, Zenon DEF Rows
<1>3. \A r \in Rows(s) : t.rows[r].registration = s.rows[r].registration
  BY <1>1, <1>2, Zenon
<1>4. s.rows[ref].registration \in Enrolments /\ t.inner[s.rows[ref].registration] # "absent"
  BY <1>1, Zenon DEF OneRow, RowOK
<1>5. RowsOK(t)
  <2> SUFFICES ASSUME NEW r \in Refs, r # ref PROVE RowOK(t, r)
    BY Zenon DEF RowsOK, OneRow
  <2>1. RowOK(s, r) /\ t.rows[r] = s.rows[r]
    BY <1>1, Zenon DEF Good, RowsOK
  <2>2. CASE s.rows[r].phase = "absent"
    BY <2>1, <2>2, Zenon DEF RowOK
  <2>3. CASE s.rows[r].phase # "absent"
    <3>1. r \in Rows(s)
      BY <2>3, Zenon DEF Rows
    <3>2. s.rows[r].registration # s.rows[ref].registration /\ s.rows[r].registration \in Enrolments
      BY <1>2, <2>1, <2>3, <3>1, Zenon DEF Good, PairsOK, RowOK
    <3>3. t.inner[s.rows[r].registration] = s.inner[s.rows[r].registration]
      BY <1>1, <3>2, Zenon
    <3>. QED BY <1>1, <2>1, <2>3, <3>3, Zenon DEF RowOK
  <2>. QED BY <2>2, <2>3, Zenon
<1>6. PairsOK(t)
  <2> SUFFICES ASSUME NEW r \in Rows(s), NEW other \in Rows(s), r # other
               PROVE  /\ t.rows[r].registration # t.rows[other].registration
                      /\ /\ other.owner = r.owner /\ other.epoch = r.epoch
                         /\ Names[other.instance] = Names[r.instance]
                         => t.rows[r].phase = "retired" \/ t.rows[other].phase = "retired"
    BY <1>2, Zenon DEF PairsOK
  <2>1. t.rows[r].registration # t.rows[other].registration
    BY <1>3, Zenon DEF Good, PairsOK
  <2>2. ASSUME other.owner = r.owner, other.epoch = r.epoch, Names[other.instance] = Names[r.instance]
        PROVE  t.rows[r].phase = "retired" \/ t.rows[other].phase = "retired"
    <3>1. s.rows[r].phase = "retired" \/ s.rows[other].phase = "retired"
      BY <2>2, Zenon DEF Good, PairsOK
    <3>2. \A q \in Rows(s) : s.rows[q].phase = "retired" => t.rows[q].phase = "retired"
      BY <1>1, <1>2, Zenon
    <3>. QED BY <3>1, <3>2, Zenon
  <2>. QED BY <2>1, <2>2, Zenon
<1>7. OwnersOK(t)
  BY <1>1 DEF Good, OwnersOK
<1>8. InnerOK(t)
  <2> SUFFICES ASSUME NEW op \in Enrolments, t.inner[op] # "absent"
               PROVE  \E r \in Rows(s) : t.rows[r].registration = op
    BY <1>2, Zenon DEF InnerOK
  <2>1. CASE op = s.rows[ref].registration
    BY <1>2, <1>3, <2>1, Zenon
  <2>2. CASE op # s.rows[ref].registration
    <3>1. PICK r \in Rows(s) : s.rows[r].registration = op
      BY <1>1, <2>2, Zenon DEF Good, InnerOK
    <3>. QED BY <1>3, <3>1, Zenon
  <2>. QED BY <2>1, <2>2, Zenon
<1>9. Keeps(s, t)
  <2>1. \A r \in Rows(s) : /\ t.rows[r].registration = s.rows[r].registration
                           /\ t.rows[r].phase # "absent"
                           /\ s.rows[r].phase = "retired" => t.rows[r] = s.rows[r]
                           /\ s.rows[r].from = "detachment" => t.rows[r].from = "detachment"
    <3> SUFFICES ASSUME NEW r \in Rows(s)
                 PROVE  /\ t.rows[r].registration = s.rows[r].registration
                        /\ t.rows[r].phase # "absent"
                        /\ s.rows[r].phase = "retired" => t.rows[r] = s.rows[r]
                        /\ s.rows[r].from = "detachment" => t.rows[r].from = "detachment"
      BY Zenon
    <3>1. CASE r = ref
      BY <1>1, <3>1, Zenon DEF OneRow
    <3>2. CASE r # ref
      <4>1. t.rows[r] = s.rows[r] /\ s.rows[r].phase # "absent"
        BY <1>1, <1>2, <3>2, Zenon DEF Rows
      <4>. QED BY <4>1, Zenon
    <3>. QED BY <3>1, <3>2, Zenon
  <2>2. \A r \in Refs : s.rows[r].phase = "absent" => t.rows[r].phase = "absent"
    BY <1>1, Zenon
  <2>3. \A op \in Enrolments : s.inner[op] # "absent" => t.inner[op] # "absent"
    BY <1>1, <1>4, Zenon
  <2>. QED BY <1>1, <2>1, <2>2, <2>3, Zenon DEF Keeps
<1>. QED BY <1>5, <1>6, <1>7, <1>8, <1>9, Zenon DEF Follows, Good, OneRow

(* beginDetach, of a row without work. *)
LEMMA BeginDetachQuiet ==
    ASSUME NEW s, Good(s), NEW ref \in Refs, NEW op \in DetachOperations,
           DetachAdmissible(s.rows[ref]), ~NativeRequestsPending(s, ref),
           op \in Detaches => s.control[op] # "absent",
           op \in Children => op = ChildOf(s.removals[ref.epoch].operation)
    PROVE  LET t == BeginDetach(s, ref, op)
           IN  /\ Quiet(s, t) /\ t.rows[ref].from = "detachment"
               /\ t.owners = s.owners /\ t.removals = s.removals /\ t.control = s.control
<1> DEFINE row == s.rows[ref]
           new == [row EXCEPT !.detach = op, !.phase = "pending_detach", !.from = "detachment"]
           f == [s.rows EXCEPT ![ref] = new]
           c == s.credits \union {DetachCredit(op, ref)}
           t == [s EXCEPT !.rows = f, !.credits = c]
<1>1. /\ s \in Snapshots /\ s.rows \in [Refs -> Attachments] /\ row \in Attachments /\ s.credits \subseteq Credits
  BY Zenon DEF Good, Snapshots
<1>2. RowOK(s, ref) /\ row.detach = None /\ row.from = "attachment" /\ row.phase \in {"attached", "unresolved"}
  <2>1. RowOK(s, ref)
    BY Zenon DEF Good, RowsOK
  <2>. QED BY <2>1, Zenon DEF RowOK, DetachAdmissible
<1>3. op # None
  BY NativeOwnersAssumption, Zenon DEF DetachOperations
<1>4. /\ new \in Attachments /\ new.phase = "pending_detach" /\ new.detach = op /\ new.from = "detachment"
      /\ new.registration = row.registration
  BY <1>1, Zenon DEF Attachments, Phases, DetachOperations
<1>5. t = BeginDetach(s, ref, op)
  BY Zenon DEF BeginDetach
<1> HIDE DEF new
<1>6. f \in [Refs -> Attachments] /\ \A r \in Refs : f[r] = IF r = ref THEN new ELSE s.rows[r]
  BY <1>1, <1>4, Zenon
<1>7. c \subseteq Credits
  BY <1>1, CreditTypes, Zenon
<1>8. /\ \A p : MutationCredit(p) \in c <=> MutationCredit(p) \in s.credits
      /\ \A p : RegistrationCredit(p) \in c <=> RegistrationCredit(p) \in s.credits
      /\ \A p, r : DetachCredit(p, r) \in c <=> DetachCredit(p, r) \in s.credits \/ (p = op /\ r = ref)
  BY DetachCredits, Zenon
<1> HIDE DEF f, c
<1>9. /\ t \in Snapshots /\ t.rows = f /\ t.credits = c /\ t.removals = s.removals /\ t.owners = s.owners
      /\ t.control = s.control /\ t.inner = s.inner /\ t.leases = s.leases /\ t.bindings = s.bindings
  BY <1>1, <1>6, <1>7, Zenon DEF Snapshots
<1> HIDE DEF t
<1>10. t.rows[ref] = new /\ \A r \in Refs : r # ref => t.rows[r] = s.rows[r]
  BY <1>6, <1>9, Zenon
<1>11. RowOK(t, ref)
  BY <1>2, <1>3, <1>4, <1>9, <1>10, Zenon DEF RowOK
<1>12. CreditsOK(t)
  <2>1. /\ \A p \in Controls : MutationCredit(p) \in t.credits <=> t.control[p] \in Unfinished
        /\ \A p \in Enrolments : RegistrationCredit(p) \in t.credits <=> t.inner[p] \in Unfinished
    BY <1>8, <1>9, Zenon DEF Good, CreditsOK
  <2>2. ASSUME NEW p \in DetachOperations, NEW r \in Refs
        PROVE  DetachCredit(p, r) \in t.credits <=> t.rows[r].detach = p /\ t.rows[r].phase # "retired"
    <3>1. DetachCredit(p, r) \in s.credits <=> s.rows[r].detach = p /\ s.rows[r].phase # "retired"
      BY Zenon DEF Good, CreditsOK
    <3>2. DetachCredit(p, r) \in t.credits <=> DetachCredit(p, r) \in s.credits \/ (p = op /\ r = ref)
      BY <1>8, <1>9, Zenon
    <3>3. p # None
      BY NativeOwnersAssumption, Zenon DEF DetachOperations
    <3>4. CASE r = ref
      <4>1. DetachCredit(p, r) \notin s.credits
        BY <1>2, <3>1, <3>3, <3>4, Zenon
      <4>2. t.rows[r].detach = op /\ t.rows[r].phase # "retired"
        BY <1>4, <1>10, <3>4, Zenon
      <4>. QED BY <3>2, <3>4, <4>1, <4>2, Zenon
    <3>5. CASE r # ref
      BY <1>10, <3>1, <3>2, <3>5, Zenon
    <3>. QED BY <3>4, <3>5, Zenon
  <2>. QED BY <2>1, <2>2, Zenon DEF CreditsOK
<1>13. WorkOK(t)
  <2>1. ref \notin s.leases
    BY Zenon DEF NativeRequestsPending
  <2>2. \A r \in t.bindings : r \in Refs /\ s.rows[r].phase \notin {"absent", "retired"}
    BY <1>1, <1>9, FieldTypes, Zenon DEF Good, WorkOK
  <2>3. \A r \in t.bindings : t.rows[r].phase \notin {"absent", "retired"}
    BY <1>4, <1>10, <2>2, Zenon
  <2>4. \A r \in t.leases : t.rows[r] = s.rows[r] /\ r \in s.leases
    BY <1>1, <1>9, <1>10, <2>1, FieldTypes, Zenon
  <2>. QED BY <2>3, <2>4, Zenon DEF Good, WorkOK
<1>14. OneRow(s, t, ref)
  BY <1>2, <1>4, <1>9, <1>10, <1>11, <1>12, <1>13, Zenon DEF OneRow
<1>15. Follows(s, t)
  BY <1>9, <1>14, OneRowFollows, Zenon
<1>16. Calm(s, t)
  BY <1>2, <1>4, <1>10, Zenon DEF Calm
<1>. QED BY <1>4, <1>5, <1>9, <1>10, <1>15, <1>16, Zenon DEF Quiet, Follows

(* completeDetach: the row of an acknowledged detach is retired. *)
LEMMA CompleteDetachFollows ==
    ASSUME NEW s, Good(s), NEW ref \in Refs, NEW op \in DetachOperations, DetachCompletable(s, ref, op)
    PROVE  LET t == CompleteDetach(s, ref, op)
           IN  /\ Follows(s, t) /\ t.rows[ref].phase = "retired" /\ t.rows[ref].from = "detachment"
               /\ \A r \in Refs : r # ref => t.rows[r] = s.rows[r]
               /\ t.owners = s.owners /\ t.removals = s.removals /\ t.control = s.control
               /\ t.epoch = s.epoch /\ t.leases = s.leases
<1> DEFINE row == s.rows[ref]
           new == [row EXCEPT !.phase = "retired"]
           f == [s.rows EXCEPT ![ref] = new]
           c == s.credits \ {DetachCredit(op, ref)}
           b == s.bindings \ {ref}
           t == [s EXCEPT !.rows = f, !.bindings = b, !.credits = c]
<1>1. /\ s \in Snapshots /\ s.rows \in [Refs -> Attachments] /\ row \in Attachments
      /\ s.credits \subseteq Credits /\ s.bindings \subseteq Refs
  BY Zenon DEF Good, Snapshots
<1>2. RowOK(s, ref)
  BY Zenon DEF Good, RowsOK
<1>3. row.detach = op /\ row.phase \in {"pending_detach", "unresolved"} /\ ref \notin s.leases
  BY Zenon DEF DetachCompletable, NativeRequestsPending
<1>4. row.from = "detachment"
  BY <1>2, Zenon DEF DetachCompletable, RowOK
<1>5. /\ new \in Attachments /\ new.phase = "retired" /\ new.detach = op /\ new.from = "detachment"
      /\ new.registration = row.registration
  BY <1>1, <1>3, <1>4, Zenon DEF Attachments, Phases
<1>6. t = CompleteDetach(s, ref, op)
  BY Zenon DEF CompleteDetach
<1> HIDE DEF new
<1>7. f \in [Refs -> Attachments] /\ \A r \in Refs : f[r] = IF r = ref THEN new ELSE s.rows[r]
  BY <1>1, <1>5, Zenon
<1>8. c \subseteq Credits /\ b \subseteq Refs /\ \A r : r \in b <=> r \in s.bindings /\ r # ref
  BY <1>1, Zenon
<1>9. /\ \A p : MutationCredit(p) \in c <=> MutationCredit(p) \in s.credits
      /\ \A p : RegistrationCredit(p) \in c <=> RegistrationCredit(p) \in s.credits
      /\ \A p, r : DetachCredit(p, r) \in c <=> DetachCredit(p, r) \in s.credits /\ ~(p = op /\ r = ref)
  BY DetachCredits, Zenon
<1> HIDE DEF f, c, b
<1>10. /\ t \in Snapshots /\ t.rows = f /\ t.credits = c /\ t.removals = s.removals /\ t.owners = s.owners
       /\ t.control = s.control /\ t.inner = s.inner /\ t.leases = s.leases /\ t.bindings = b
       /\ t.epoch = s.epoch
  BY <1>1, <1>7, <1>8, Zenon DEF Snapshots
<1> HIDE DEF t
<1>11. t.rows[ref] = new /\ \A r \in Refs : r # ref => t.rows[r] = s.rows[r]
  BY <1>7, <1>10, Zenon
<1>12. RowOK(t, ref)
  BY <1>2, <1>3, <1>4, <1>5, <1>10, <1>11, Zenon DEF RowOK
<1>13. CreditsOK(t)
  <2>1. /\ \A p \in Controls : MutationCredit(p) \in t.credits <=> t.control[p] \in Unfinished
        /\ \A p \in Enrolments : RegistrationCredit(p) \in t.credits <=> t.inner[p] \in Unfinished
    BY <1>9, <1>10, Zenon DEF Good, CreditsOK
  <2>2. ASSUME NEW p \in DetachOperations, NEW r \in Refs
        PROVE  DetachCredit(p, r) \in t.credits <=> t.rows[r].detach = p /\ t.rows[r].phase # "retired"
    <3>1. DetachCredit(p, r) \in s.credits <=> s.rows[r].detach = p /\ s.rows[r].phase # "retired"
      BY Zenon DEF Good, CreditsOK
    <3>2. DetachCredit(p, r) \in t.credits <=> DetachCredit(p, r) \in s.credits /\ ~(p = op /\ r = ref)
      BY <1>9, <1>10, Zenon
    <3>4. CASE r = ref
      <4>1. DetachCredit(p, r) \notin t.credits
        BY <1>3, <3>1, <3>2, <3>4, Zenon
      <4>2. t.rows[r].phase = "retired"
        BY <1>5, <1>11, <3>4, Zenon
      <4>. QED BY <4>1, <4>2, Zenon
    <3>5. CASE r # ref
      BY <1>11, <3>1, <3>2, <3>5, Zenon
    <3>. QED BY <3>4, <3>5, Zenon
  <2>. QED BY <2>1, <2>2, Zenon DEF CreditsOK
<1>14. WorkOK(t)
  <2>1. \A r \in t.bindings : t.rows[r].phase \notin {"absent", "retired"}
    <3> SUFFICES ASSUME NEW r \in t.bindings PROVE t.rows[r].phase \notin {"absent", "retired"}
      BY Zenon
    <3>1. r \in s.bindings /\ r # ref /\ r \in Refs
      BY <1>1, <1>8, <1>10, Zenon
    <3>2. t.rows[r] = s.rows[r] /\ s.rows[r].phase \notin {"absent", "retired"}
      BY <1>11, <3>1, Zenon DEF Good, WorkOK
    <3>. QED BY <3>2, Zenon
  <2>2. \A r \in t.leases : t.rows[r] = s.rows[r] /\ r \in s.leases
    BY <1>1, <1>3, <1>10, <1>11, FieldTypes, Zenon
  <2>. QED BY <2>1, <2>2, Zenon DEF Good, WorkOK
<1>15. row.phase \notin {"absent", "retired"} /\ t.rows[ref].phase # "absent"
  BY <1>3, <1>5, <1>11, Zenon
<1>16. OneRow(s, t, ref)
  BY <1>5, <1>10, <1>11, <1>12, <1>13, <1>14, <1>15, Zenon DEF OneRow
<1>17. Follows(s, t)
  BY <1>10, <1>16, OneRowFollows, Zenon
<1>. QED BY <1>5, <1>6, <1>10, <1>11, <1>17, Zenon

(* completeRegistration: the row of an acknowledged registration is attached. *)
LEMMA CompleteRegistrationFollows ==
    ASSUME NEW s, Good(s), NEW ref \in Refs, NEW op \in Enrolments,
           s.rows[ref].phase = "pending_registration", s.rows[ref].registration = op
    PROVE  LET t == CompleteRegistration(s, ref, op)
           IN  /\ Follows(s, t) /\ t.rows[ref].phase = "attached" /\ t.rows[ref].from = "attachment"
               /\ \A r \in Refs : r # ref => t.rows[r] = s.rows[r]
<1> DEFINE row == s.rows[ref]
           new == [row EXCEPT !.phase = "attached", !.from = "attachment"]
           f == [s.rows EXCEPT ![ref] = new]
           i == [s.inner EXCEPT ![op] = "completed"]
           c == s.credits \ {RegistrationCredit(op)}
           t == [s EXCEPT !.rows = f, !.inner = i, !.credits = c]
<1>1. /\ s \in Snapshots /\ s.rows \in [Refs -> Attachments] /\ row \in Attachments
      /\ s.credits \subseteq Credits /\ s.inner \in [Enrolments -> RecordStates]
  BY Zenon DEF Good, Snapshots
<1>2. RowOK(s, ref)
  BY Zenon DEF Good, RowsOK
<1>3. row.from = "registration" /\ row.detach = None
  BY <1>2, Zenon DEF RowOK
<1>5. /\ new \in Attachments /\ new.phase = "attached" /\ new.detach = None /\ new.from = "attachment"
      /\ new.registration = op
  BY <1>1, <1>3, Zenon DEF Attachments, Phases
<1>6. t = CompleteRegistration(s, ref, op)
  BY Zenon DEF CompleteRegistration
<1> HIDE DEF new
<1>7. f \in [Refs -> Attachments] /\ \A r \in Refs : f[r] = IF r = ref THEN new ELSE s.rows[r]
  BY <1>1, <1>5, Zenon
<1>8. i \in [Enrolments -> RecordStates] /\ \A p \in Enrolments : i[p] = IF p = op THEN "completed" ELSE s.inner[p]
  BY <1>1, Zenon DEF RecordStates
<1>9. /\ \A p : MutationCredit(p) \in c <=> MutationCredit(p) \in s.credits
      /\ \A p : RegistrationCredit(p) \in c <=> RegistrationCredit(p) \in s.credits /\ p # op
      /\ \A p, r : DetachCredit(p, r) \in c <=> DetachCredit(p, r) \in s.credits
  BY RegistrationCredits
<1>. c \subseteq Credits
  BY <1>1, Zenon
<1> HIDE DEF f, c, i
<1>10. /\ t \in Snapshots /\ t.rows = f /\ t.credits = c /\ t.removals = s.removals /\ t.owners = s.owners
       /\ t.control = s.control /\ t.inner = i /\ t.leases = s.leases /\ t.bindings = s.bindings
  BY <1>1, <1>7, <1>8, <1>9, Zenon DEF Snapshots
<1> HIDE DEF t
<1>11. t.rows[ref] = new /\ \A r \in Refs : r # ref => t.rows[r] = s.rows[r]
  BY <1>7, <1>10, Zenon
<1>12. t.inner[op] = "completed" /\ \A p \in Enrolments : p # op => t.inner[p] = s.inner[p]
  BY <1>8, <1>10, Zenon
<1>13. RowOK(t, ref)
  BY <1>2, <1>3, <1>5, <1>10, <1>11, <1>12, NativeOwnersAssumption, Zenon DEF RowOK
<1>14. CreditsOK(t)
  <2>1. \A p \in Controls : MutationCredit(p) \in t.credits <=> t.control[p] \in Unfinished
    BY <1>9, <1>10, Zenon DEF Good, CreditsOK
  <2>2. ASSUME NEW p \in Enrolments
        PROVE  RegistrationCredit(p) \in t.credits <=> t.inner[p] \in Unfinished
    <3>1. CASE p = op
      BY <1>9, <1>10, <1>12, <3>1, Zenon DEF Unfinished
    <3>2. CASE p # op
      BY <1>9, <1>10, <1>12, <3>2, Zenon DEF Good, CreditsOK
    <3>. QED BY <3>1, <3>2, Zenon
  <2>3. ASSUME NEW p \in DetachOperations, NEW r \in Refs
        PROVE  DetachCredit(p, r) \in t.credits <=> t.rows[r].detach = p /\ t.rows[r].phase # "retired"
    <3>1. DetachCredit(p, r) \in s.credits <=> s.rows[r].detach = p /\ s.rows[r].phase # "retired"
      BY Zenon DEF Good, CreditsOK
    <3>2. DetachCredit(p, r) \in t.credits <=> DetachCredit(p, r) \in s.credits
      BY <1>9, <1>10, Zenon
    <3>3. p # None
      BY NativeOwnersAssumption, Zenon DEF DetachOperations
    <3>4. CASE r = ref
      BY <1>3, <1>5, <1>11, <3>1, <3>2, <3>3, <3>4, Zenon
    <3>5. CASE r # ref
      BY <1>11, <3>1, <3>2, <3>5, Zenon
    <3>. QED BY <3>4, <3>5, Zenon
  <2>. QED BY <2>1, <2>2, <2>3, Zenon DEF CreditsOK
<1>15. WorkOK(t)
  <2>1. t.rows[ref].phase = "attached"
    BY <1>5, <1>11, Zenon
  <2>2. \A r \in s.bindings : t.rows[r].phase \notin {"absent", "retired"}
    <3> SUFFICES ASSUME NEW r \in s.bindings PROVE t.rows[r].phase \notin {"absent", "retired"}
      BY Zenon
    <3>1. r \in Refs /\ s.rows[r].phase \notin {"absent", "retired"}
      BY <1>1, FieldTypes, Zenon DEF Good, WorkOK
    <3>. QED BY <1>11, <2>1, <3>1, Zenon
  <2>3. \A r \in s.leases : \/ t.rows[r].phase = "attached"
                            \/ t.rows[r].phase = "unresolved" /\ t.rows[r].from = "attachment"
    <3> SUFFICES ASSUME NEW r \in s.leases
                 PROVE  \/ t.rows[r].phase = "attached"
                        \/ t.rows[r].phase = "unresolved" /\ t.rows[r].from = "attachment"
      BY Zenon
    <3>1. r \in Refs
      BY <1>1, FieldTypes, Zenon
    <3>. QED BY <1>11, <2>1, <3>1, Zenon DEF Good, WorkOK
  <2>. QED BY <1>10, <2>2, <2>3, Zenon DEF WorkOK
<1>16. row.phase \notin {"absent", "retired"} /\ t.rows[ref].phase # "absent"
  BY <1>5, <1>11, Zenon
<1>17. OneRow(s, t, ref)
  BY <1>3, <1>5, <1>10, <1>11, <1>12, <1>13, <1>14, <1>15, <1>16, Zenon DEF OneRow
<1>18. Follows(s, t)
  BY <1>10, <1>17, OneRowFollows, Zenon
<1>. QED BY <1>5, <1>6, <1>11, <1>18, Zenon

(* The generation prepareNativeRegistration chooses is one no row of the   *)
(* thread instance has, retired rows included.                             *)
LEMMA GenerationIsNew ==
    ASSUME NEW s, NEW o, NEW i, NEW g \in NextGeneration(s, o, i)
    PROVE  /\ g \in 1..MaxGeneration
           /\ \A ref \in Rows(s) : ref.owner = o /\ ref.epoch = s.epoch /\ ref.instance = i
                                     => ref.generation # g
<1> DEFINE used == {ref.generation : ref \in {r \in Siblings(s, o) : r.instance = i}}
<1>1. g \in 1..MaxGeneration /\ \A h \in used : h < g
  BY Zenon DEF NextGeneration
<1>2. ~(g < g)
  BY <1>1
<1>3. ASSUME NEW ref \in Rows(s), ref.owner = o, ref.epoch = s.epoch, ref.instance = i, ref.generation = g
      PROVE  FALSE
  <2>1. ref.generation \in used
    BY <1>3, Zenon DEF Siblings
  <2>. QED BY <1>1, <1>2, <1>3, <2>1, Zenon
<1>. QED BY <1>1, <1>3, Zenon

(* prepareNativeRegistration makes a row that was not there. *)
LEMMA EnrolFollows ==
    ASSUME NEW s, Good(s), NEW call, NEW ref \in Refs, Operation(call) \in Enrolments,
           ref.epoch = s.epoch, ref.generation \in NextGeneration(s, ref.owner, ref.instance),
           ~Fenced(s), s.inner[Operation(call)] = "absent",
           OwnerAdmissible(s, ref.owner), AttachmentAdmissible(s, ref.owner, ref.instance)
    PROVE  LET t == Enrol(s, call, ref)
           IN  /\ Follows(s, t) /\ s.rows[ref].phase = "absent"
               /\ t.rows[ref].phase = "pending_registration" /\ t.rows[ref].from = "registration"
               /\ t.rows[ref].registration = Operation(call) /\ t.inner[Operation(call)] = "started"
               /\ \A r \in Refs : r # ref => t.rows[r] = s.rows[r]
               /\ t.control = s.control /\ t.removals = s.removals
<1> DEFINE op == Operation(call)
           new == [NoRow EXCEPT !.phase = "pending_registration", !.registration = op]
           f == [s.rows EXCEPT ![ref] = new]
           g == [s.owners[ref.owner] EXCEPT ![ref.epoch] = "open"]
           h == [s.owners EXCEPT ![ref.owner] = g]
           i == [s.inner EXCEPT ![op] = "started"]
           c == s.credits \union {RegistrationCredit(op)}
           t == [s EXCEPT !.owners = h, !.rows = f, !.inner = i, !.credits = c]
           States == {"absent", "open", "closing", "retired"}
<1>1. /\ s \in Snapshots /\ s.rows \in [Refs -> Attachments] /\ s.owners \in [Owners -> [Epochs -> States]]
      /\ s.credits \subseteq Credits /\ s.inner \in [Enrolments -> RecordStates]
      /\ ref.owner \in Owners /\ ref.epoch \in Epochs
  BY Zenon DEF Good, Snapshots, Refs
<1>2. t = Enrol(s, call, ref)
  BY Zenon DEF Enrol
<1>3. /\ new \in Attachments /\ new.phase = "pending_registration" /\ new.detach = None
      /\ new.from = "registration" /\ new.registration = op
  BY Zenon DEF Attachments, Phases, NoRow
<1>4. op \in Enrolments /\ s.inner[op] = "absent"
  BY Zenon
<1> HIDE DEF new, op
<1>5. f \in [Refs -> Attachments] /\ f[ref] = new /\ \A r \in Refs : r # ref => f[r] = s.rows[r]
  BY <1>1, <1>3, Zenon
<1>6. g \in [Epochs -> States] /\ g[ref.epoch] = "open" /\ \A e \in Epochs : e # ref.epoch => g[e] = s.owners[ref.owner][e]
  BY <1>1, Zenon
<1> HIDE DEF g
<1>7. h \in [Owners -> [Epochs -> States]] /\ h[ref.owner] = g /\ \A o \in Owners : o # ref.owner => h[o] = s.owners[o]
  BY <1>1, <1>6, Zenon
<1>8. i \in [Enrolments -> RecordStates] /\ i[op] = "started" /\ \A p \in Enrolments : p # op => i[p] = s.inner[p]
  BY <1>1, <1>4, Zenon DEF RecordStates
<1>9. /\ \A p : MutationCredit(p) \in c <=> MutationCredit(p) \in s.credits
      /\ \A p : RegistrationCredit(p) \in c <=> RegistrationCredit(p) \in s.credits \/ p = op
      /\ \A p, r : DetachCredit(p, r) \in c <=> DetachCredit(p, r) \in s.credits
  BY RegistrationCredits, Zenon
<1>10. c \subseteq Credits
  BY <1>1, <1>4, CreditTypes, Zenon
<1> HIDE DEF f, h, i, c
<1>11. /\ t \in Snapshots /\ t.rows = f /\ t.credits = c /\ t.removals = s.removals /\ t.owners = h
       /\ t.control = s.control /\ t.inner = i /\ t.leases = s.leases /\ t.bindings = s.bindings
  BY <1>1, <1>5, <1>7, <1>8, <1>10, Zenon DEF Snapshots
<1> HIDE DEF t, States
<1>12. t.rows[ref] = new /\ \A r \in Refs : r # ref => t.rows[r] = s.rows[r]
  BY <1>5, <1>11, Zenon
<1>13. t.inner[op] = "started" /\ \A p \in Enrolments : p # op => t.inner[p] = s.inner[p]
  BY <1>8, <1>11, Zenon
<1>14. /\ t.owners[ref.owner][s.epoch] = "open"
       /\ \A o \in Owners : \A e \in Epochs :
              o # ref.owner \/ e # s.epoch => t.owners[o][e] = s.owners[o][e]
  BY <1>6, <1>7, <1>11, Zenon
<1>15. ref \notin Rows(s) /\ s.rows[ref].phase = "absent"
  BY GenerationIsNew, Zenon DEF Rows
<1>16. /\ ref \in Rows(t) /\ Rows(s) \subseteq Refs /\ Rows(t) \subseteq Rows(s) \union {ref}
       /\ \A r \in Rows(s) : r # ref /\ t.rows[r] = s.rows[r]
  BY <1>3, <1>12, <1>15, Zenon DEF Rows
<1>17. \A r \in Rows(s) : s.rows[r].registration \in Enrolments /\ s.rows[r].registration # op
  <2>1. \A r \in Rows(s) : RowOK(s, r) /\ s.rows[r].phase # "absent"
    BY Zenon DEF Good, RowsOK, Rows
  <2>. QED BY <1>4, <2>1, Zenon DEF RowOK
<1>18. op # None
  BY <1>4, NativeOwnersAssumption, Zenon
<1>19. RowsOK(t)
  <2> SUFFICES ASSUME NEW r \in Refs PROVE RowOK(t, r)
    BY Zenon DEF RowsOK
  <2>1. CASE r = ref
    BY <1>3, <1>4, <1>12, <1>13, <1>14, <2>1, NativeOwnersAssumption, Zenon DEF RowOK, DetachOperations
  <2>2. CASE r # ref
    <3>1. RowOK(s, r) /\ t.rows[r] = s.rows[r]
      BY <1>12, <2>2, Zenon DEF Good, RowsOK
    <3>2. CASE s.rows[r].phase = "absent"
      BY <3>1, <3>2, Zenon DEF RowOK
    <3>3. CASE s.rows[r].phase # "absent"
      <4>1. r \in Rows(s)
        BY <3>3, Zenon DEF Rows
      <4>2. t.inner[s.rows[r].registration] = s.inner[s.rows[r].registration]
        BY <1>13, <1>17, <4>1, Zenon
      <4>3. r.owner \in Owners /\ r.epoch \in Epochs
        BY <1>1, FieldTypes, Zenon
      <4>4. t.owners[r.owner][r.epoch] \in {s.owners[r.owner][r.epoch], "open"}
        BY <1>14, <4>3, Zenon
      <4>. QED BY <1>11, <3>1, <3>3, <4>2, <4>4, Zenon DEF RowOK
    <3>. QED BY <3>2, <3>3, Zenon
  <2>. QED BY <2>1, <2>2, Zenon
<1>20. PairsOK(t)
  <2>1. ASSUME NEW r \in Rows(s)
        PROVE  /\ t.rows[r].registration # t.rows[ref].registration
               /\ /\ r.owner = ref.owner /\ r.epoch = ref.epoch /\ Names[r.instance] = Names[ref.instance]
                  => t.rows[r].phase = "retired"
    <3>1. t.rows[r].registration # t.rows[ref].registration
      BY <1>3, <1>12, <1>16, <1>17, Zenon
    <3>2. ASSUME r.owner = ref.owner, r.epoch = ref.epoch, Names[r.instance] = Names[ref.instance]
          PROVE  t.rows[r].phase = "retired"
      <4>1. r \in Siblings(s, ref.owner)
        BY <3>2, Zenon DEF Siblings
      <4>2. s.rows[r].phase = "retired"
        BY <3>2, <4>1, Zenon DEF AttachmentAdmissible
      <4>. QED BY <1>16, <4>2, Zenon
    <3>. QED BY <3>1, <3>2, Zenon
  <2> SUFFICES ASSUME NEW r \in Rows(t), NEW other \in Rows(t), r # other
               PROVE  /\ t.rows[r].registration # t.rows[other].registration
                      /\ /\ other.owner = r.owner /\ other.epoch = r.epoch
                         /\ Names[other.instance] = Names[r.instance]
                         => t.rows[r].phase = "retired" \/ t.rows[other].phase = "retired"
    BY Zenon DEF PairsOK
  <2>2. CASE r = ref
    <3>1. other \in Rows(s)
      BY <1>16, <2>2, Zenon
    <3>. QED BY <2>1, <2>2, <3>1, Zenon
  <2>3. CASE other = ref
    <3>1. r \in Rows(s)
      BY <1>16, <2>3, Zenon
    <3>. QED BY <2>1, <2>3, <3>1, Zenon
  <2>4. CASE r # ref /\ other # ref
    <3>1. r \in Rows(s) /\ other \in Rows(s) /\ t.rows[r] = s.rows[r] /\ t.rows[other] = s.rows[other]
      BY <1>16, <2>4, Zenon
    <3>. QED BY <3>1, Zenon DEF Good, PairsOK
  <2>. QED BY <2>2, <2>3, <2>4, Zenon
<1>21. CreditsOK(t)
  <2>1. \A p \in Controls : MutationCredit(p) \in t.credits <=> t.control[p] \in Unfinished
    BY <1>9, <1>11, Zenon DEF Good, CreditsOK
  <2>2. ASSUME NEW p \in Enrolments
        PROVE  RegistrationCredit(p) \in t.credits <=> t.inner[p] \in Unfinished
    <3>1. CASE p = op
      BY <1>9, <1>11, <1>13, <3>1, Zenon DEF Unfinished
    <3>2. CASE p # op
      BY <1>9, <1>11, <1>13, <3>2, Zenon DEF Good, CreditsOK
    <3>. QED BY <3>1, <3>2, Zenon
  <2>3. ASSUME NEW p \in DetachOperations, NEW r \in Refs
        PROVE  DetachCredit(p, r) \in t.credits <=> t.rows[r].detach = p /\ t.rows[r].phase # "retired"
    <3>1. DetachCredit(p, r) \in s.credits <=> s.rows[r].detach = p /\ s.rows[r].phase # "retired"
      BY Zenon DEF Good, CreditsOK
    <3>2. DetachCredit(p, r) \in t.credits <=> DetachCredit(p, r) \in s.credits
      BY <1>9, <1>11, Zenon
    <3>3. p # None
      BY NativeOwnersAssumption, Zenon DEF DetachOperations
    <3>4. CASE r = ref
      <4>1. s.rows[ref].detach = None
        BY <1>15, Zenon DEF Good, RowsOK, RowOK
      <4>. QED BY <1>3, <1>12, <3>1, <3>2, <3>3, <3>4, <4>1, Zenon
    <3>5. CASE r # ref
      BY <1>12, <3>1, <3>2, <3>5, Zenon
    <3>. QED BY <3>4, <3>5, Zenon
  <2>. QED BY <2>1, <2>2, <2>3, Zenon DEF CreditsOK
<1>22. OwnersOK(t)
  <2>1. ASSUME NEW o \in Owners, NEW e \in Epochs, NEW k \in Epochs, e # k
        PROVE  t.owners[o][e] \in {"absent", "retired"} \/ t.owners[o][k] \in {"absent", "retired"}
    <3>1. s.owners[o][e] \in {"absent", "retired"} \/ s.owners[o][k] \in {"absent", "retired"}
      BY <2>1, Zenon DEF Good, OwnersOK
    <3>2. CASE o # ref.owner
      BY <1>14, <3>1, <3>2, Zenon
    <3>3. CASE o = ref.owner
      <4>1. ASSUME NEW x \in Epochs, x # s.epoch PROVE s.owners[o][x] \in {"absent", "retired"}
        <5>1. CASE s.owners[o][s.epoch] = "open"
          <6>1. s.epoch \in Epochs
            BY <1>1, Zenon
          <6>2. s.owners[o][s.epoch] \notin {"absent", "retired"}
            BY <5>1, Zenon
          <6>. QED BY <4>1, <6>1, <6>2, Zenon DEF Good, OwnersOK
        <5>2. CASE \A y \in Epochs : s.owners[o][y] \in {"absent", "retired"}
          BY <5>2, Zenon
        <5>. QED BY <3>3, <5>1, <5>2, Zenon DEF OwnerAdmissible
      <4>2. e # s.epoch \/ k # s.epoch
        BY <2>1, Zenon
      <4>. QED BY <1>14, <4>1, <4>2, Zenon
    <3>. QED BY <3>2, <3>3, Zenon
  <2>2. ASSUME NEW o \in Owners, NEW e \in Epochs
        PROVE  /\ t.removals[e].phase # "none" => t.owners[o][e] # "open"
               /\ t.removals[e].phase = "retired" => t.owners[o][e] # "closing"
    <3>1. CASE o # ref.owner \/ e # s.epoch
      BY <1>11, <1>14, <3>1 DEF Good, OwnersOK
    <3>2. CASE o = ref.owner /\ e = s.epoch
      BY <1>11, <1>14, <3>2, Zenon DEF Fenced
    <3>. QED BY <3>1, <3>2, Zenon
  <2>3. \A e \in Epochs : t.removals[e].phase = "none" <=> t.removals[e].operation = None
    BY <1>11, Zenon DEF Good, OwnersOK
  <2>. QED BY <2>1, <2>2, <2>3, Zenon DEF OwnersOK
<1>23. InnerOK(t)
  <2> SUFFICES ASSUME NEW p \in Enrolments, t.inner[p] # "absent"
               PROVE  \E r \in Rows(t) : t.rows[r].registration = p
    BY Zenon DEF InnerOK
  <2>1. CASE p = op
    BY <1>3, <1>12, <1>16, <2>1, Zenon
  <2>2. CASE p # op
    <3>1. PICK r \in Rows(s) : s.rows[r].registration = p
      BY <1>13, <2>2, Zenon DEF Good, InnerOK
    <3>2. r \in Rows(t) /\ t.rows[r] = s.rows[r]
      BY <1>16, Zenon DEF Rows
    <3>. QED BY <3>1, <3>2, Zenon
  <2>. QED BY <2>1, <2>2, Zenon
<1>24. WorkOK(t)
  <2>1. \A r \in s.bindings \union s.leases : r \in Refs /\ s.rows[r].phase # "absent"
    <3>1. s.bindings \subseteq Refs /\ s.leases \subseteq Refs
      BY <1>1, FieldTypes, Zenon
    <3>. QED BY <3>1, Zenon DEF Good, WorkOK
  <2>2. \A r \in s.bindings \union s.leases : t.rows[r] = s.rows[r]
    BY <1>12, <1>15, <2>1, Zenon
  <2>. QED BY <1>11, <2>2, Zenon DEF Good, WorkOK
<1>25. Keeps(s, t)
  <2>1. ASSUME NEW e \in Epochs, s.removals[e].phase # "none"
        PROVE  /\ t.removals[e].phase # "none"
               /\ \A o \in Owners : s.owners[o][e] \in {"absent", "retired"} => t.owners[o][e] = s.owners[o][e]
               /\ \A r \in Refs : r.epoch = e =>
                      /\ s.rows[r].phase = "absent" => t.rows[r].phase = "absent"
                      /\ r \in t.leases => r \in s.leases
    <3>1. e # s.epoch
      BY <2>1, Zenon DEF Fenced
    <3>2. t.removals[e].phase # "none" /\ \A o \in Owners : t.owners[o][e] = s.owners[o][e]
      BY <1>11, <1>14, <2>1, <3>1, Zenon
    <3>3. \A r \in Refs : r.epoch = e => r # ref
      BY <3>1, Zenon
    <3>4. \A r \in Refs : r.epoch = e => /\ s.rows[r].phase = "absent" => t.rows[r].phase = "absent"
                                         /\ r \in t.leases => r \in s.leases
      BY <1>11, <1>12, <3>3, Zenon
    <3>. QED BY <3>2, <3>4, Zenon
  <2>2. \A r \in Rows(s) : /\ t.rows[r].registration = s.rows[r].registration
                           /\ t.rows[r].phase # "absent"
                           /\ s.rows[r].phase = "retired" => t.rows[r] = s.rows[r]
                           /\ s.rows[r].from = "detachment" => t.rows[r].from = "detachment"
    BY <1>16, Zenon DEF Rows
  <2>3. \A p \in Enrolments : s.inner[p] # "absent" => t.inner[p] # "absent"
    BY <1>13, Zenon
  <2>4. \A p \in Controls : s.control[p] # "absent" => t.control[p] # "absent"
    BY <1>11, Zenon
  <2>. QED BY <2>1, <2>2, <2>3, <2>4, Zenon DEF Keeps
<1>26. Follows(s, t)
  BY <1>11, <1>19, <1>20, <1>21, <1>22, <1>23, <1>24, <1>25, Zenon DEF Follows, Good
<1>27. op = Operation(call)
  BY Zenon DEF op
<1>. QED BY <1>2, <1>3, <1>11, <1>12, <1>13, <1>15, <1>26, <1>27, Zenon

(* A good snapshot passes validatePersistedAdmission. *)
LEMMA GoodRestorable ==
    ASSUME NEW s, Good(s)
    PROVE  Restorable(s)
<1>1. s \in Snapshots
  BY Zenon DEF Good
<1>2. ASSUME NEW ref \in Rows(s) PROVE ValidRow(s, ref)
  <2> DEFINE row == s.rows[ref]
             inner == s.inner[row.registration]
  <2>1. ref \in Refs /\ row.phase # "absent" /\ RowOK(s, ref)
    BY Zenon DEF Good, RowsOK, Rows
  <2>2. /\ row.phase \in Phases /\ row.detach \in DetachOperations \union {None}
        /\ row.from \in {"registration", "attachment", "detachment"}
        /\ \A op \in Enrolments : s.inner[op] \in RecordStates
    BY <1>1, <2>1, FieldTypes, Zenon
  <2>3. /\ row.registration \in Enrolments
        /\ row.phase = "pending_registration" => row.from = "registration"
        /\ row.phase = "attached" => row.from = "attachment"
        /\ row.phase \in {"pending_detach", "retired"} => row.from = "detachment"
        /\ row.detach # None <=> row.from = "detachment"
        /\ s.owners[ref.owner][ref.epoch] # "absent"
        /\ s.owners[ref.owner][ref.epoch] = "retired" => row.phase = "retired"
        /\ inner # "absent" /\ (row.from = "registration" <=> inner # "completed")
    BY <2>1, Zenon DEF RowOK
  <2>4. RegistrationCredit(row.registration) \in s.credits <=> inner \in Unfinished
    BY <2>3, Zenon DEF Good, CreditsOK
  <2>5. inner \in Unfinished <=> row.from = "registration"
    BY <2>2, <2>3, Zenon DEF RecordStates, Unfinished
  <2>6. DetachCredit(row.detach, ref) \in s.credits <=> row.detach # None /\ row.phase # "retired"
    <3>1. CASE row.detach \in DetachOperations
      <4>1. row.detach # None
        BY <3>1, NativeOwnersAssumption, Zenon DEF DetachOperations
      <4>. QED BY <2>1, <3>1, <4>1, Zenon DEF Good, CreditsOK
    <3>2. CASE row.detach = None
      <4>1. None \notin DetachOperations
        BY NativeOwnersAssumption, Zenon DEF DetachOperations
      <4>2. DetachCredit(None, ref) \notin Credits
        BY <4>1, CreditKinds DEF Credits, DetachOperations
      <4>3. s.credits \subseteq Credits
        BY <1>1, FieldTypes, Zenon
      <4>. QED BY <3>2, <4>2, <4>3, Zenon
    <3>. QED BY <2>2, <3>1, <3>2, Zenon
  <2>7. /\ row.phase = "pending_registration" \/ (row.phase = "unresolved" /\ row.from = "registration")
           <=> row.from = "registration"
        /\ row.phase = "pending_detach" \/ (row.phase = "unresolved" /\ row.from = "detachment")
           <=> row.from = "detachment" /\ row.phase # "retired"
    BY <2>1, <2>2, <2>3, Zenon DEF Phases
  <2>8. \A other \in Rows(s) \ {ref} :
            /\ other.owner = ref.owner /\ other.epoch = ref.epoch
            /\ Names[other.instance] = Names[ref.instance]
            => row.phase = "retired" \/ s.rows[other].phase = "retired"
    BY Zenon DEF Good, PairsOK
  <2>9. row.from # "registration" => inner = "completed"
    BY <2>3, Zenon
  <2>. QED BY <2>3, <2>4, <2>5, <2>6, <2>7, <2>8, <2>9, Zenon DEF ValidRow
<1>3. ASSUME NEW credit \in s.credits PROVE ValidCredit(s, credit)
  <2>1. credit \in Credits
    BY <1>1, FieldTypes, Zenon
  <2>2. CASE \E op \in Controls : credit = MutationCredit(op)
    <3>1. PICK op \in Controls : credit = MutationCredit(op)
      BY <2>2, Zenon
    <3>2. s.control[op] \in {"started", "indeterminate"}
      BY <3>1, Zenon DEF Good, CreditsOK, Unfinished
    <3>. QED BY <3>1, <3>2, Zenon DEF ValidCredit, MutationCredit
  <2>3. CASE \E op \in Enrolments : credit = RegistrationCredit(op)
    <3>1. PICK op \in Enrolments : credit = RegistrationCredit(op)
      BY <2>3, Zenon
    <3>2. s.inner[op] \in {"started", "indeterminate"}
      BY <3>1, Zenon DEF Good, CreditsOK, Unfinished
    <3>3. s.inner[op] # "absent"
      BY <3>2, Zenon
    <3>4. \E ref \in Rows(s) : s.rows[ref].registration = op
      BY <3>3, Zenon DEF Good, InnerOK
    <3>. QED BY <3>1, <3>2, <3>4, Zenon DEF ValidCredit, RegistrationCredit
  <2>4. CASE \E op \in DetachOperations, ref \in Refs : credit = DetachCredit(op, ref)
    <3>1. PICK op \in DetachOperations, ref \in Refs : credit = DetachCredit(op, ref)
      BY <2>4, Zenon
    <3>2. s.rows[ref].detach = op
      BY <3>1, Zenon DEF Good, CreditsOK
    <3>3. op # None
      BY NativeOwnersAssumption, Zenon DEF DetachOperations
    <3>4. RowOK(s, ref)
      BY Zenon DEF Good, RowsOK
    <3>5. /\ op \in Detaches => s.control[op] # "absent"
          /\ op \in Children => op = ChildOf(s.removals[ref.epoch].operation)
      BY <3>2, <3>3, <3>4, Zenon DEF RowOK
    <3>6. \/ op \in Detaches /\ s.control[op] # "absent"
          \/ op = ChildOf(s.removals[ref.epoch].operation)
      BY <3>5, Zenon DEF DetachOperations
    <3>. QED BY <3>1, <3>2, <3>6, Zenon DEF ValidCredit, DetachCredit
  <2>. QED BY <2>1, <2>2, <2>3, <2>4 DEF Credits, DetachOperations
<1>4. /\ \A o \in Owners : \A e, f \in Epochs :
             e # f => s.owners[o][e] \in {"absent", "retired"} \/ s.owners[o][f] \in {"absent", "retired"}
      /\ \A o \in Owners : \A e \in Epochs :
             /\ s.removals[e].phase # "none" => s.owners[o][e] # "open"
             /\ s.removals[e].phase = "retired" => s.owners[o][e] # "closing"
  BY Zenon DEF Good, OwnersOK
<1>5. \A ref \in s.bindings \union s.leases : s.rows[ref].phase \notin {"absent", "retired"}
  BY Zenon DEF Good, WorkOK
<1>6. \A op \in Controls :
          s.control[op] \in {"started", "indeterminate"} => MutationCredit(op) \in s.credits
  BY Zenon DEF Good, CreditsOK, Unfinished
<1>7. \A op \in Enrolments :
          s.inner[op] # "absent" => \E ref \in Rows(s) : s.rows[ref].registration = op
  BY Zenon DEF Good, InnerOK
<1>. QED BY <1>2, <1>3, <1>4, <1>5, <1>6, <1>7, Zenon DEF Restorable

-----------------------------------------------------------------------------
(* Tasks, owners and the configuration beside a snapshot. *)

(* The configuration stays right while the ledger keeps its fences. *)
LEMMA KeepsConfig ==
    ASSUME NEW s, NEW t, Keeps(s, t), NEW c, ConfigOK(s, c)
    PROVE  ConfigOK(t, c)
<1> SUFFICES ASSUME NEW e \in Epochs, c \in {<<"pending_remove", e>>, <<"removed", e>>}
             PROVE  /\ t.removals[e].phase # "none"
                    /\ \A o \in Owners : t.owners[o][e] \in {"absent", "retired"}
  BY Zenon DEF ConfigOK
<1>1. s.removals[e].phase # "none" /\ \A o \in Owners : s.owners[o][e] \in {"absent", "retired"}
  BY Zenon DEF ConfigOK
<1>2. t.removals[e].phase # "none" /\ \A o \in Owners : t.owners[o][e] = s.owners[o][e]
  BY <1>1, Zenon DEF Keeps
<1>. QED BY <1>1, <1>2, Zenon

(* A row that comes from a detach is there. *)
LEMMA FromDetachment ==
    ASSUME NEW s, Good(s), NEW ref \in Refs, s.rows[ref].from = "detachment"
    PROVE  ref \in Rows(s)
<1>1. RowOK(s, ref)
  BY Zenon DEF Good, RowsOK
<1>. QED BY <1>1, Zenon DEF RowOK, Rows

(* Tasks stay right when their rows keep their origin and their records    *)
(* stay.                                                                   *)
LEMMA TaskKept ==
    ASSUME NEW s, Good(s), NEW t, Keeps(s, t), NEW m, NEW c \in Calls, NEW k, TaskOK(s, k, m, c),
           k.stage = "registration" => t.rows[k.ref].from = "registration"
    PROVE  TaskOK(t, k, m, c)
<1>1. k.stage = "detachment" => t.rows[k.ref].from = "detachment"
  <2> SUFFICES ASSUME k.stage = "detachment" PROVE t.rows[k.ref].from = "detachment"
    BY Zenon
  <2>1. k.ref \in Refs /\ s.rows[k.ref].from = "detachment"
    BY Zenon DEF TaskOK
  <2>2. k.ref \in Rows(s)
    BY <2>1, FromDetachment, Zenon
  <2>. QED BY <2>1, <2>2, Zenon DEF Keeps
<1>2. k.stage \in {"identify", "registration", "announcement"} /\ k.ref # None =>
          k.ref \in Rows(t) /\ t.rows[k.ref].registration = Operation(c)
  <2> SUFFICES ASSUME k.stage \in {"identify", "registration", "announcement"}, k.ref # None
               PROVE  k.ref \in Rows(t) /\ t.rows[k.ref].registration = Operation(c)
    BY Zenon
  <2>1. k.ref \in Rows(s) /\ s.rows[k.ref].registration = Operation(c)
    BY Zenon DEF TaskOK
  <2>. QED BY <2>1, Zenon DEF Keeps, Rows
<1>3. /\ k.admitted /\ c \in Controls => t.control[c] # "absent"
      /\ k.admitted /\ c \notin Controls => t.inner[Operation(c)] # "absent"
  <2>1. c \notin Controls => Operation(c) \in Enrolments
    BY OperationOf, Zenon
  <2>. QED BY <2>1, Zenon DEF TaskOK, Keeps
<1>4. k.stage = "registration" =>
          /\ c \in Registers \union Callbacks /\ k.ref \in Refs
          /\ k.result = "acknowledged" => k.ref \in m
  BY Zenon DEF TaskOK
<1>5. k.stage = "detachment" =>
          /\ c \in Detaches \union Removals /\ k.ref \in Refs
          /\ k.result = "acknowledged" => k.ref \notin m
  BY Zenon DEF TaskOK
<1>6. /\ k.stage = "identify" => c \in Registers \union Callbacks /\ (k.ref = None <=> c \in Registers)
      /\ k.stage = "announcement_identify" => c \in Attaches /\ k.ref = None
      /\ k.stage \in {"identify", "announcement_identify"} /\ k.ref = None =>
             k.owner \in Owners /\ k.instance \in DOMAIN Names
      /\ k.stage = "announcement" => c \in Attaches /\ k.ref \in Refs
      /\ k.stage \in {"registration", "announcement", "detachment"} => k.admitted
  BY Zenon DEF TaskOK
<1>. QED BY <1>1, <1>2, <1>3, <1>4, <1>5, <1>6, Zenon DEF TaskOK

(* A change that makes, attaches and retires no row leaves the world right. *)
LEMMA QuietWorld ==
    ASSUME NEW s, Good(s), NEW t, Quiet(s, t), NEW k, NEW m, NEW w, m \subseteq Refs, WorldOK(s, k, m, w)
    PROVE  WorldOK(t, k, m, w) /\ (LateOK(s, k, w) => LateOK(t, k, w))
<1>1. Keeps(s, t) /\ Calm(s, t)
  BY Zenon DEF Quiet
<1>2. ASSUME NEW c \in Calls PROVE TaskOK(t, k[c], m, c)
  <2>1. TaskOK(s, k[c], m, c)
    BY Zenon DEF WorldOK
  <2>2. k[c].stage = "registration" => k[c].ref \in Refs /\ s.rows[k[c].ref].from = "registration"
    BY <2>1, Zenon DEF TaskOK
  <2>3. k[c].stage = "registration" => t.rows[k[c].ref].from = "registration"
    BY <1>1, <2>2, Zenon DEF Calm
  <2>. QED BY <1>1, <2>1, <2>3, TaskKept, Zenon
<1>3. ASSUME NEW ref \in m PROVE t.rows[ref].phase \notin {"absent", "retired"}
  <2>1. ref \in Refs /\ s.rows[ref].phase \notin {"absent", "retired"}
    BY Zenon DEF WorldOK
  <2>. QED BY <1>1, <2>1, Zenon DEF Calm
<1>4. ASSUME NEW ref \in Refs, t.rows[ref].phase = "attached" PROVE ref \in m
  BY <1>1, <1>4, Zenon DEF WorldOK, Calm
<1>5. ASSUME NEW ref \in Refs, <<"detachment", ref>> \in w PROVE t.rows[ref].from = "detachment"
  <2>1. s.rows[ref].from = "detachment"
    BY <1>5, Zenon DEF WorldOK
  <2>2. ref \in Rows(s)
    BY <2>1, FromDetachment, Zenon
  <2>. QED BY <1>1, <2>1, <2>2, Zenon DEF Keeps
<1>6. ASSUME NEW ref \in Refs, <<"registration", ref>> \in w
      PROVE  /\ t.rows[ref].phase # "absent" /\ t.rows[ref].from = "registration"
             /\ \A c \in Calls : k[c].stage = "registration" /\ k[c].ref = ref => k[c].result = "failed"
  <2>1. /\ s.rows[ref].phase # "absent" /\ s.rows[ref].from = "registration"
        /\ \A c \in Calls : k[c].stage = "registration" /\ k[c].ref = ref => k[c].result = "failed"
    BY <1>6, Zenon DEF WorldOK
  <2>2. ref \in Rows(s)
    BY <2>1, Zenon DEF Rows
  <2>3. t.rows[ref].phase # "absent" /\ t.rows[ref].from = "registration"
    BY <1>1, <2>1, <2>2, Zenon DEF Keeps, Calm
  <2>. QED BY <2>1, <2>3, Zenon
<1>7. WorldOK(t, k, m, w)
  BY <1>2, <1>3, <1>4, <1>5, <1>6, Zenon DEF WorldOK
<1>8. LateOK(s, k, w) => LateOK(t, k, w)
  <2>1. \A ref \in Refs : t.rows[ref].phase = "pending_registration" => s.rows[ref].phase = "pending_registration"
    BY <1>1, Zenon DEF Calm
  <2>. QED BY <2>1, Zenon DEF LateOK
<1>. QED BY <1>7, <1>8, Zenon

(* A snapshot a handler may commit, with the tasks and owners as they are. *)
Fits(u) ==
    /\ Good(u) /\ Keeps(disk, u) /\ WorldOK(u, task, managed, wire)
    /\ mode = "up" => LateOK(u, task, wire)

LEMMA FitsSelf == IInv => Fits(disk)
<1> SUFFICES ASSUME IInv PROVE Fits(disk)
  BY Zenon
<1>1. Keeps(disk, disk)
  BY QuietSelf, Zenon DEF IInv, Quiet
<1>. QED BY <1>1, Zenon DEF IInv, Fits

LEMMA FitsQuiet ==
    ASSUME TypeOK, NEW u, Fits(u), NEW v, Quiet(u, v)
    PROVE  Fits(v)
<1>1. managed \subseteq Refs
  BY Zenon DEF TypeOK
<1>2. Good(u) /\ WorldOK(u, task, managed, wire) /\ Keeps(disk, u) /\ Good(v) /\ Keeps(u, v)
  BY Zenon DEF Fits, Quiet
<1>3. WorldOK(v, task, managed, wire) /\ (LateOK(u, task, wire) => LateOK(v, task, wire))
  BY <1>1, <1>2, QuietWorld, Zenon
<1>4. Keeps(disk, v)
  BY <1>2, KeepsTransitive, Zenon
<1>. QED BY <1>2, <1>3, <1>4, Zenon DEF Fits

LEMMA FitsConfig ==
    ASSUME IInv, NEW u, Fits(u)
    PROVE  ConfigOK(u, config)
BY KeepsConfig, Zenon DEF IInv, Fits

(* A task is started, carried on or ended. *)
LEMMA ReplaceTask ==
    ASSUME NEW s, NEW k, NEW m, NEW w, k \in [Calls -> Tasks], WorldOK(s, k, m, w),
           NEW c \in Calls, NEW x, TaskOK(s, x, m, c),
           x.stage = "registration" /\ <<"registration", x.ref>> \in w => x.result = "failed"
    PROVE  LET l == [k EXCEPT ![c] = x]
           IN  /\ WorldOK(s, l, m, w)
               /\ /\ k[c].stage = "registration" => \/ s.rows[k[c].ref].phase # "pending_registration"
                                                    \/ x.stage = "registration" /\ x.ref = k[c].ref
                  /\ LateOK(s, k, w)
                  => LateOK(s, l, w)
<1> DEFINE l == [k EXCEPT ![c] = x]
<1>1. l[c] = x /\ \A d \in Calls : d # c => l[d] = k[d]
  BY Zenon
<1> HIDE DEF l
<1>2. \A d \in Calls : TaskOK(s, l[d], m, d)
  BY <1>1, Zenon DEF WorldOK
<1>3. ASSUME NEW ref \in Refs, <<"registration", ref>> \in w
      PROVE  /\ s.rows[ref].phase # "absent" /\ s.rows[ref].from = "registration"
             /\ \A d \in Calls : l[d].stage = "registration" /\ l[d].ref = ref => l[d].result = "failed"
  <2>1. /\ s.rows[ref].phase # "absent" /\ s.rows[ref].from = "registration"
        /\ \A d \in Calls : k[d].stage = "registration" /\ k[d].ref = ref => k[d].result = "failed"
    BY <1>3, Zenon DEF WorldOK
  <2>2. x.stage = "registration" /\ x.ref = ref => x.result = "failed"
    BY <1>3, Zenon
  <2>. QED BY <1>1, <2>1, <2>2, Zenon
<1>4. WorldOK(s, l, m, w)
  BY <1>2, <1>3, Zenon DEF WorldOK
<1>5. ASSUME k[c].stage = "registration" => \/ s.rows[k[c].ref].phase # "pending_registration"
                                            \/ x.stage = "registration" /\ x.ref = k[c].ref,
             LateOK(s, k, w)
      PROVE  LateOK(s, l, w)
  <2> SUFFICES ASSUME NEW ref \in Refs, <<"registration", ref>> \in w, s.rows[ref].phase = "pending_registration"
               PROVE  \E d \in Calls : l[d].stage = "registration" /\ l[d].ref = ref
    BY Zenon DEF LateOK
  <2>1. PICK d \in Calls : k[d].stage = "registration" /\ k[d].ref = ref
    BY <1>5, Zenon DEF LateOK
  <2>2. d # c \/ (x.stage = "registration" /\ x.ref = ref)
    BY <1>5, <2>1, Zenon
  <2>. QED BY <1>1, <2>1, <2>2, Zenon
<1>. QED BY <1>4, <1>5, Zenon DEF l

LEMMA NoTaskTyped == NoTask \in Tasks /\ NoTask.stage = "none" /\ ~NoTask.admitted
BY Zenon DEF NoTask, Tasks, Registries, RegistryRecords

LEMMA NoTaskOK ==
    ASSUME NEW s, NEW m, NEW c
    PROVE  TaskOK(s, NoTask, m, c)
<1>1. NoTask.stage = "none" /\ ~NoTask.admitted
  BY NoTaskTyped, Zenon
<1>. QED BY <1>1, Zenon DEF TaskOK

(* A handler that leaves the tasks alone. *)
LEMMA StepHere ==
    ASSUME IInv, Fits(disk'), mode' \in {"up", "poisoned", "down"}, mode' = "up" => mode = "up",
           config' \in Registries, ConfigOK(disk', config'), UNCHANGED <<task, managed, wire>>
    PROVE  IInv' /\ Keeps(disk, disk')
<1>1. task' = task /\ managed' = managed /\ wire' = wire
  BY Zenon
<1>2. /\ Good(disk') /\ Keeps(disk, disk') /\ WorldOK(disk', task', managed', wire')
      /\ mode' = "up" => LateOK(disk', task', wire')
  BY <1>1, Zenon DEF Fits
<1>3. TypeOK'
  BY <1>1, <1>2, Zenon DEF IInv, TypeOK, Good
<1>. QED BY <1>2, <1>3, Zenon DEF IInv

(* A handler that changes the task of one call. *)
LEMMA StepTask ==
    ASSUME IInv, Fits(disk'), mode' \in {"up", "poisoned", "down"},
           config' \in Registries, ConfigOK(disk', config'), managed' = managed, wire' = wire,
           NEW c \in Calls, NEW x \in Tasks, task' = [task EXCEPT ![c] = x], TaskOK(disk', x, managed, c),
           x.stage = "registration" => <<"registration", x.ref>> \notin wire,
           mode' = "up" => /\ mode = "up"
                           /\ task[c].stage = "registration"
                                => disk'.rows[task[c].ref].phase # "pending_registration"
    PROVE  IInv' /\ Keeps(disk, disk')
<1>1. task \in [Calls -> Tasks] /\ task' \in [Calls -> Tasks]
  BY Zenon DEF IInv, TypeOK
<1>2. /\ Good(disk') /\ Keeps(disk, disk') /\ WorldOK(disk', task, managed, wire)
      /\ mode = "up" => LateOK(disk', task, wire)
  BY Zenon DEF Fits
<1>3. /\ WorldOK(disk', task', managed, wire)
      /\ /\ task[c].stage = "registration" => disk'.rows[task[c].ref].phase # "pending_registration"
         /\ LateOK(disk', task, wire)
         => LateOK(disk', task', wire)
  BY <1>1, <1>2, ReplaceTask, Zenon
<1>4. TypeOK'
  BY <1>1, <1>2, Zenon DEF IInv, TypeOK, Good
<1>. QED BY <1>2, <1>3, <1>4, Zenon DEF IInv

(* A handler that ends a task. *)
LEMMA StepEnd ==
    ASSUME IInv, Fits(disk'), mode' \in {"up", "poisoned", "down"},
           config' \in Registries, ConfigOK(disk', config'), managed' = managed, wire' = wire,
           NEW c \in Calls, End(c),
           mode' = "up" => /\ mode = "up"
                           /\ task[c].stage = "registration"
                                => disk'.rows[task[c].ref].phase # "pending_registration"
    PROVE  IInv' /\ Keeps(disk, disk')
<1>1. NoTask \in Tasks /\ NoTask.stage # "registration" /\ TaskOK(disk', NoTask, managed, c)
  BY NoTaskTyped, NoTaskOK, Zenon
<1>2. task' = [task EXCEPT ![c] = NoTask]
  BY Zenon DEF End
<1>. QED BY <1>1, <1>2, StepTask, Zenon

(* An owner takes a thread whose row comes from a registration, or lets go *)
(* one whose row comes from a detach.                                      *)
LEMMA EffectWorld ==
    ASSUME IInv, NEW ref \in Refs, NEW stage,
           stage = "registration" => disk.rows[ref].phase # "absent" /\ disk.rows[ref].from = "registration",
           stage = "detachment" => disk.rows[ref].from = "detachment"
    PROVE  WorldOK(disk, task, Effect(stage, ref), wire) /\ Effect(stage, ref) \subseteq Refs
<1>1. /\ managed \subseteq Refs /\ WorldOK(disk, task, managed, wire) /\ RowOK(disk, ref)
  BY Zenon DEF IInv, TypeOK, Good, RowsOK
<1>2. CASE stage = "registration"
  <2>1. Effect(stage, ref) = managed \union {ref}
    BY <1>2, Zenon DEF Effect
  <2>2. disk.rows[ref].phase \notin {"absent", "retired"} /\ disk.rows[ref].from = "registration"
    BY <1>1, <1>2, Zenon DEF RowOK
  <2>3. ASSUME NEW c \in Calls PROVE TaskOK(disk, task[c], managed \union {ref}, c)
    <3>1. TaskOK(disk, task[c], managed, c)
      BY <1>1, Zenon DEF WorldOK
    <3>2. task[c].stage = "detachment" => task[c].ref # ref
      BY <2>2, <3>1, Zenon DEF TaskOK
    <3>. QED BY <3>1, <3>2, Zenon DEF TaskOK
  <2>4. WorldOK(disk, task, managed \union {ref}, wire)
    BY <1>1, <2>2, <2>3, Zenon DEF WorldOK
  <2>. QED BY <1>1, <2>1, <2>4, Zenon
<1>3. CASE stage = "detachment"
  <2>1. Effect(stage, ref) = managed \ {ref}
    BY <1>3, Zenon DEF Effect
  <2>2. disk.rows[ref].phase # "attached" /\ disk.rows[ref].from = "detachment"
    BY <1>1, <1>3, Zenon DEF RowOK
  <2>3. ASSUME NEW c \in Calls PROVE TaskOK(disk, task[c], managed \ {ref}, c)
    <3>1. TaskOK(disk, task[c], managed, c)
      BY <1>1, Zenon DEF WorldOK
    <3>2. task[c].stage = "registration" => task[c].ref # ref
      BY <2>2, <3>1, Zenon DEF TaskOK
    <3>. QED BY <3>1, <3>2, Zenon DEF TaskOK
  <2>4. WorldOK(disk, task, managed \ {ref}, wire)
    BY <1>1, <2>2, <2>3, Zenon DEF WorldOK
  <2>. QED BY <1>1, <2>1, <2>4, Zenon
<1>4. CASE stage \notin {"registration", "detachment"}
  <2>1. Effect(stage, ref) = managed
    BY <1>4, Zenon DEF Effect
  <2>. QED BY <1>1, <2>1, Zenon
<1>. QED BY <1>2, <1>3, <1>4, Zenon

(* Requests the daemon no longer waits for are on their way. *)
LEMMA SentWorld ==
    ASSUME NEW s, NEW k, NEW m, NEW w, WorldOK(s, k, m, w), NEW S,
           \A ref \in Refs : <<"detachment", ref>> \in S => s.rows[ref].from = "detachment",
           \A ref \in Refs : <<"registration", ref>> \in S =>
               /\ s.rows[ref].phase # "absent" /\ s.rows[ref].from = "registration"
               /\ \A c \in Calls : k[c].stage = "registration" /\ k[c].ref = ref => k[c].result = "failed"
    PROVE  WorldOK(s, k, m, w \union S)
BY Zenon DEF WorldOK

(* An operation registers by one call. *)
LEMMA OneCall ==
    ASSUME NEW c \in Registers \union Callbacks, NEW d \in Registers \union Callbacks, Operation(c) = Operation(d)
    PROVE  c = d
<1>1. \A t \in Registers : Operation(t) = t /\ t \notin Attaches
  <2>1. \A t \in Registers : t \in Calls /\ t \notin Attaches
    BY NativeOwnersAssumption, Zenon DEF Calls, Controls
  <2>. QED BY <2>1, OperationOf, Zenon
<1>2. \A t \in Callbacks : Operation(t) \in Attaches /\ t = Callback(Operation(t))
  <2>1. \A a \in Attaches : Callback(a) \in Calls
    BY Zenon DEF Calls, Callbacks
  <2>2. \A a \in Attaches : Operation(Callback(a)) = a
    BY <2>1, OperationOf, Zenon
  <2>. QED BY <2>2, Zenon DEF Callbacks
<1>3. CASE c \in Registers
  BY <1>1, <1>2, <1>3, Zenon
<1>4. CASE c \in Callbacks
  BY <1>1, <1>2, <1>4, Zenon
<1>. QED BY <1>3, <1>4, Zenon

(* A registration has one task. *)
LEMMA OneTask ==
    ASSUME IInv, NEW c \in Calls, NEW d \in Calls, task[c].stage = "registration", task[d].stage = "registration",
           task[c].ref = task[d].ref
    PROVE  c = d
<1>1. \A t \in Calls : task[t].stage = "registration" =>
          /\ t \in Registers \union Callbacks /\ task[t].ref \in Refs
          /\ disk.rows[task[t].ref].registration = Operation(t)
  <2> SUFFICES ASSUME NEW t \in Calls, task[t].stage = "registration"
               PROVE  /\ t \in Registers \union Callbacks /\ task[t].ref \in Refs
                      /\ disk.rows[task[t].ref].registration = Operation(t)
    BY Zenon
  <2>1. TaskOK(disk, task[t], managed, t)
    BY Zenon DEF IInv, WorldOK
  <2>2. task[t].ref # None
    BY <2>1, NativeOwnersAssumption, Zenon DEF TaskOK
  <2>. QED BY <2>1, <2>2, Zenon DEF TaskOK
<1>2. Operation(c) = Operation(d)
  BY <1>1, Zenon
<1>. QED BY <1>1, <1>2, OneCall, Zenon

LEMMA AcknowledgeStep ==
    ASSUME IInv, NEW t \in Calls, Acknowledge(t)
    PROVE  IInv' /\ Keeps(disk, disk')
<1> DEFINE x == [task[t] EXCEPT !.result = "acknowledged"]
<1>1. /\ task[t].stage # "none" /\ task[t].result = "running"
      /\ managed' = Effect(task[t].stage, task[t].ref) /\ task' = [task EXCEPT ![t] = x]
      /\ UNCHANGED <<disk, mode, wire, config>>
  BY Zenon DEF Acknowledge
<1>2. /\ task \in [Calls -> Tasks] /\ task[t] \in Tasks /\ TaskOK(disk, task[t], managed, t)
      /\ Good(disk) /\ WorldOK(disk, task, managed, wire)
  BY Zenon DEF IInv, TypeOK, WorldOK
<1>3. /\ x \in Tasks /\ x.stage = task[t].stage /\ x.owner = task[t].owner /\ x.instance = task[t].instance
      /\ x.ref = task[t].ref /\ x.admitted = task[t].admitted /\ x.result = "acknowledged"
  BY <1>2, Zenon DEF Tasks
<1> HIDE DEF x
<1>4. WorldOK(disk, task, managed', wire) /\ managed' \subseteq Refs
  <2>1. CASE task[t].stage \in {"registration", "detachment"}
    <3>1. /\ task[t].ref \in Refs
          /\ task[t].stage = "registration" => disk.rows[task[t].ref].from = "registration"
          /\ task[t].stage = "detachment" => disk.rows[task[t].ref].from = "detachment"
      BY <1>2, <2>1, Zenon DEF TaskOK
    <3>2. task[t].stage = "registration" => disk.rows[task[t].ref].phase # "absent"
      <4>1. task[t].ref # None
        BY <3>1, NativeOwnersAssumption, Zenon
      <4>. QED BY <1>2, <4>1, Zenon DEF TaskOK, Rows
    <3>. QED BY <1>1, <3>1, <3>2, EffectWorld, Zenon
  <2>2. CASE task[t].stage \notin {"registration", "detachment"}
    <3>1. managed' = managed
      BY <1>1, <2>2, Zenon DEF Effect
    <3>. QED BY <1>2, <3>1, Zenon DEF IInv, TypeOK
  <2>. QED BY <2>1, <2>2, Zenon
<1>5. TaskOK(disk, x, managed', t)
  <2>1. TaskOK(disk, task[t], managed', t)
    BY <1>4, Zenon DEF WorldOK
  <2>2. x.stage = "registration" => x.ref \in managed'
    BY <1>1, <1>3, Zenon DEF Effect
  <2>3. x.stage = "detachment" => x.ref \notin managed'
    BY <1>1, <1>3, Zenon DEF Effect
  <2>. QED BY <1>3, <2>1, <2>2, <2>3, Zenon DEF TaskOK
<1>6. x.stage = "registration" => <<"registration", x.ref>> \notin wire
  <2> SUFFICES ASSUME x.stage = "registration", <<"registration", x.ref>> \in wire PROVE FALSE
    BY Zenon
  <2>1. x.ref \in Refs
    BY <1>5, Zenon DEF TaskOK
  <2>2. task[t].result = "failed"
    BY <1>2, <1>3, <2>1, Zenon DEF WorldOK
  <2>. QED BY <1>1, <2>2, Zenon
<1>7. /\ WorldOK(disk, task', managed', wire) 
      /\ LateOK(disk, task, wire) => LateOK(disk, task', wire)
  BY <1>1, <1>2, <1>3, <1>4, <1>5, <1>6, ReplaceTask, Zenon
<1>8. TypeOK'
  <2>1. task' \in [Calls -> Tasks]
    BY <1>1, <1>2, <1>3, Zenon
  <2>. QED BY <1>1, <1>4, <2>1, Zenon DEF IInv, TypeOK
<1>9. Keeps(disk, disk')
  BY <1>1, <1>2, QuietSelf, Zenon DEF Quiet
<1>. QED BY <1>1, <1>7, <1>8, <1>9, Zenon DEF IInv

(* What Timeout and Crash leave on the wire. *)
LEMMA SentOK ==
    ASSUME IInv, NEW C, C \subseteq Calls, NEW request \in Sent(C)
    PROVE  \E t \in C : /\ request = <<task[t].stage, task[t].ref>> /\ task[t].ref \in Refs
                        /\ \/ /\ task[t].stage = "registration" /\ disk.rows[task[t].ref].phase # "absent"
                              /\ disk.rows[task[t].ref].from = "registration"
                           \/ task[t].stage = "detachment" /\ disk.rows[task[t].ref].from = "detachment"
<1>1. PICK t \in C : task[t].stage \in {"registration", "detachment"} /\ request = <<task[t].stage, task[t].ref>>
  BY Zenon DEF Sent
<1>2. TaskOK(disk, task[t], managed, t)
  BY Zenon DEF IInv, WorldOK
<1>3. CASE task[t].stage = "registration"
  <2>1. task[t].ref \in Refs /\ disk.rows[task[t].ref].from = "registration"
    BY <1>2, <1>3, Zenon DEF TaskOK
  <2>2. task[t].ref # None
    BY <2>1, NativeOwnersAssumption, Zenon
  <2>3. disk.rows[task[t].ref].phase # "absent"
    BY <1>2, <1>3, <2>2, Zenon DEF TaskOK, Rows
  <2>. QED BY <1>1, <1>3, <2>1, <2>3, Zenon
<1>4. CASE task[t].stage = "detachment"
  BY <1>1, <1>2, <1>4, Zenon DEF TaskOK
<1>. QED BY <1>1, <1>3, <1>4, Zenon

(* A request tells its kind and its row. *)
LEMMA RequestIs ==
    ASSUME NEW a, NEW b, NEW c, NEW d, <<a, b>> = <<c, d>>
    PROVE  a = c /\ b = d
BY Zenon

LEMMA TimeoutStep ==
    ASSUME IInv, NEW t \in Calls, Timeout(t)
    PROVE  IInv' /\ Keeps(disk, disk')
<1> DEFINE x == [task[t] EXCEPT !.result = "failed"]
<1>1. /\ task[t].stage # "none" /\ task' = [task EXCEPT ![t] = x] /\ wire' = wire \union Sent({t})
      /\ UNCHANGED <<disk, mode, managed, config>>
  BY Zenon DEF Timeout
<1>2. /\ task \in [Calls -> Tasks] /\ task[t] \in Tasks /\ TaskOK(disk, task[t], managed, t)
      /\ Good(disk) /\ WorldOK(disk, task, managed, wire)
  BY Zenon DEF IInv, TypeOK, WorldOK
<1>3. /\ x \in Tasks /\ x.stage = task[t].stage /\ x.owner = task[t].owner /\ x.instance = task[t].instance
      /\ x.ref = task[t].ref /\ x.admitted = task[t].admitted /\ x.result = "failed"
  BY <1>2, Zenon DEF Tasks
<1> HIDE DEF x
<1>4. TaskOK(disk, x, managed, t)
  BY <1>2, <1>3, Zenon DEF TaskOK
<1>5. WorldOK(disk, task', managed, wire) /\ (LateOK(disk, task, wire) => LateOK(disk, task', wire))
  BY <1>1, <1>2, <1>3, <1>4, ReplaceTask, Zenon
<1>6. task' \in [Calls -> Tasks] /\ task'[t] = x /\ \A c \in Calls : c # t => task'[c] = task[c]
  BY <1>1, <1>2, <1>3, Zenon
<1>7. ASSUME NEW request \in Sent({t})
      PROVE  /\ request = <<task[t].stage, task[t].ref>> /\ task[t].ref \in Refs
             /\ \/ /\ task[t].stage = "registration" /\ disk.rows[task[t].ref].phase # "absent"
                   /\ disk.rows[task[t].ref].from = "registration"
                \/ task[t].stage = "detachment" /\ disk.rows[task[t].ref].from = "detachment"
  <2>1. PICK c \in {t} : /\ request = <<task[c].stage, task[c].ref>> /\ task[c].ref \in Refs
                         /\ \/ /\ task[c].stage = "registration" /\ disk.rows[task[c].ref].phase # "absent"
                               /\ disk.rows[task[c].ref].from = "registration"
                            \/ task[c].stage = "detachment" /\ disk.rows[task[c].ref].from = "detachment"
    <3>1. {t} \subseteq Calls
      BY Zenon
    <3>. QED BY <3>1, SentOK
  <2>2. c = t
    BY Zenon
  <2>. QED BY <2>1, <2>2, Zenon
<1>8. \A ref \in Refs : <<"detachment", ref>> \in Sent({t}) => disk.rows[ref].from = "detachment"
  <2> SUFFICES ASSUME NEW ref \in Refs, <<"detachment", ref>> \in Sent({t}) PROVE disk.rows[ref].from = "detachment"
    BY Zenon
  <2>1. task[t].stage = "detachment" /\ task[t].ref = ref
    BY <1>7, RequestIs, Zenon
  <2>. QED BY <1>7, <2>1, Zenon
<1>9. ASSUME NEW ref \in Refs, <<"registration", ref>> \in Sent({t})
      PROVE  /\ disk.rows[ref].phase # "absent" /\ disk.rows[ref].from = "registration"
             /\ task[t].stage = "registration" /\ task[t].ref = ref
             /\ \A c \in Calls : task'[c].stage = "registration" /\ task'[c].ref = ref => task'[c].result = "failed"
  <2>1. task[t].stage = "registration" /\ task[t].ref = ref
    BY <1>7, <1>9, RequestIs, Zenon
  <2>2. disk.rows[ref].phase # "absent" /\ disk.rows[ref].from = "registration"
    BY <1>7, <1>9, <2>1, Zenon
  <2>3. ASSUME NEW c \in Calls, task'[c].stage = "registration", task'[c].ref = ref
        PROVE  task'[c].result = "failed"
    <3>1. c = t
      BY <1>6, <2>1, <2>3, OneTask, Zenon
    <3>. QED BY <1>3, <1>6, <3>1, Zenon
  <2>. QED BY <2>1, <2>2, <2>3, Zenon
<1>10. WorldOK(disk, task', managed, wire')
  BY <1>1, <1>5, <1>8, <1>9, SentWorld, Zenon
<1>11. LateOK(disk, task, wire) => LateOK(disk, task', wire')
  <2> SUFFICES ASSUME LateOK(disk, task', wire), NEW ref \in Refs, <<"registration", ref>> \in wire',
                      disk.rows[ref].phase = "pending_registration"
               PROVE  \E c \in Calls : task'[c].stage = "registration" /\ task'[c].ref = ref
    BY <1>5, Zenon DEF LateOK
  <2>1. CASE <<"registration", ref>> \in wire
    BY <2>1, Zenon DEF LateOK
  <2>2. CASE <<"registration", ref>> \in Sent({t})
    BY <1>3, <1>6, <1>9, <2>2, Zenon
  <2>. QED BY <1>1, <2>1, <2>2, Zenon
<1>12. TypeOK'
  <2>1. Sent({t}) \subseteq {"registration", "detachment"} \X Refs
    BY <1>7
  <2>. QED BY <1>1, <1>6, <2>1, Zenon DEF IInv, TypeOK
<1>13. Keeps(disk, disk')
  BY <1>1, <1>2, QuietSelf, Zenon DEF Quiet
<1>. QED BY <1>1, <1>10, <1>11, <1>12, <1>13, Zenon DEF IInv

LEMMA LateEffectStep ==
    ASSUME IInv, NEW request \in wire, LateEffect(request)
    PROVE  IInv' /\ Keeps(disk, disk')
<1>1. /\ managed' = Effect(request[1], request[2]) /\ wire' = wire \ {request}
      /\ UNCHANGED <<disk, mode, task, config>>
  BY Zenon DEF LateEffect
<1>2. /\ request = <<request[1], request[2]>> /\ request[1] \in {"registration", "detachment"}
      /\ request[2] \in Refs
  BY DEF IInv, TypeOK
<1>3. Good(disk) /\ WorldOK(disk, task, managed, wire)
  BY Zenon DEF IInv
<1>6. WorldOK(disk, task, managed', wire) /\ managed' \subseteq Refs
  <2>1. /\ request[1] = "registration" =>
               disk.rows[request[2]].phase # "absent" /\ disk.rows[request[2]].from = "registration"
        /\ request[1] = "detachment" => disk.rows[request[2]].from = "detachment"
    BY <1>2, <1>3, Zenon DEF WorldOK
  <2>. QED BY <1>1, <1>2, <2>1, EffectWorld, Zenon
<1>7. WorldOK(disk, task, managed', wire')
  BY <1>1, <1>6, Zenon DEF WorldOK
<1>8. LateOK(disk, task, wire) => LateOK(disk, task, wire')
  BY <1>1, Zenon DEF LateOK
<1>9. TypeOK'
  BY <1>1, <1>6, Zenon DEF IInv, TypeOK
<1>10. Keeps(disk, disk')
  BY <1>1, <1>3, QuietSelf, Zenon DEF Quiet
<1>. QED BY <1>1, <1>7, <1>8, <1>9, <1>10, Zenon DEF IInv

LEMMA CrashStep ==
    ASSUME IInv, Crash
    PROVE  IInv' /\ Keeps(disk, disk')
<1>1. /\ mode' = "down" /\ task' = [t \in Calls |-> NoTask] /\ wire' = wire \union Sent(Calls)
      /\ UNCHANGED <<disk, managed, config>>
  BY Zenon DEF Crash
<1>2. Good(disk) /\ WorldOK(disk, task, managed, wire)
  BY Zenon DEF IInv
<1>3. \A c \in Calls : task'[c] = NoTask
  BY <1>1, Zenon
<1>4. NoTask \in Tasks /\ NoTask.stage # "registration" /\ \A c \in Calls : TaskOK(disk, NoTask, managed, c)
  BY NoTaskTyped, NoTaskOK, Zenon
<1>5. WorldOK(disk, task', managed, wire)
  BY <1>2, <1>3, <1>4, Zenon DEF WorldOK
<1>6. \A ref \in Refs : <<"detachment", ref>> \in Sent(Calls) => disk.rows[ref].from = "detachment"
  <2> SUFFICES ASSUME NEW ref \in Refs, <<"detachment", ref>> \in Sent(Calls) PROVE disk.rows[ref].from = "detachment"
    BY Zenon
  <2>1. PICK t \in Calls : /\ <<"detachment", ref>> = <<task[t].stage, task[t].ref>>
                           /\ \/ task[t].stage = "registration"
                              \/ task[t].stage = "detachment" /\ disk.rows[task[t].ref].from = "detachment"
    BY SentOK, Zenon
  <2>2. task[t].stage = "detachment" /\ task[t].ref = ref
    BY <2>1, RequestIs, Zenon
  <2>. QED BY <2>1, <2>2, Zenon
<1>7. ASSUME NEW ref \in Refs, <<"registration", ref>> \in Sent(Calls)
      PROVE  disk.rows[ref].phase # "absent" /\ disk.rows[ref].from = "registration"
  <2>1. PICK t \in Calls : /\ <<"registration", ref>> = <<task[t].stage, task[t].ref>>
                           /\ \/ /\ task[t].stage = "registration" /\ disk.rows[task[t].ref].phase # "absent"
                                 /\ disk.rows[task[t].ref].from = "registration"
                              \/ task[t].stage = "detachment"
    BY <1>7, SentOK, Zenon
  <2>2. task[t].stage = "registration" /\ task[t].ref = ref
    BY <2>1, RequestIs, Zenon
  <2>. QED BY <2>1, <2>2, Zenon
<1>8. WorldOK(disk, task', managed, wire')
  BY <1>1, <1>3, <1>4, <1>5, <1>6, <1>7, SentWorld, Zenon
<1>9. TypeOK'
  <2>1. Sent(Calls) \subseteq {"registration", "detachment"} \X Refs
    <3> SUFFICES ASSUME NEW request \in Sent(Calls) PROVE request \in {"registration", "detachment"} \X Refs
      BY Zenon
    <3>1. PICK t \in Calls : /\ request = <<task[t].stage, task[t].ref>> /\ task[t].ref \in Refs
                             /\ task[t].stage \in {"registration", "detachment"}
      BY SentOK, Zenon
    <3>. QED BY <3>1, Zenon
  <2>2. task' \in [Calls -> Tasks]
    BY <1>1, <1>4, Zenon
  <2>. QED BY <1>1, <2>1, <2>2, Zenon DEF IInv, TypeOK
<1>10. Keeps(disk, disk')
  BY <1>1, <1>2, QuietSelf, Zenon DEF Quiet
<1>. QED BY <1>1, <1>8, <1>9, <1>10, Zenon DEF IInv

LEMMA RestartStep ==
    ASSUME IInv, Restart
    PROVE  IInv' /\ Keeps(disk, disk')
<1>1. disk' = Recovered(disk) /\ mode' = "up" /\ UNCHANGED <<task, managed, wire, config>>
  BY Zenon DEF Restart
<1>2. TypeOK /\ Good(disk) /\ Fits(disk)
  BY FitsSelf, Zenon DEF IInv
<1>3. Quiet(disk, disk') /\ \A ref \in Refs : disk'.rows[ref].phase # "pending_registration"
  BY <1>1, <1>2, RecoveredQuiet, Zenon
<1>4. Fits(disk')
  BY <1>2, <1>3, FitsQuiet, Zenon
<1>5. LateOK(disk', task, wire)
  BY <1>3, Zenon DEF LateOK
<1>6. ConfigOK(disk', config)
  BY <1>4, FitsConfig, Zenon
<1>7. TypeOK'
  BY <1>1, <1>2, <1>4, Zenon DEF TypeOK, Fits, Good
<1>. QED BY <1>1, <1>4, <1>5, <1>6, <1>7, Zenon DEF IInv, Fits

(* The record of an admitted call. *)
Recorded(u, t) ==
    /\ t \in Controls => u.control[t] # "absent"
    /\ t \notin Controls => u.inner[Operation(t)] # "absent"

LEMMA AdmittedRecorded ==
    ASSUME IInv, NEW u, Fits(u), NEW t \in Calls, task[t].admitted
    PROVE  Recorded(u, t)
BY Zenon DEF Fits, WorldOK, TaskOK, Recorded

LEMMA FitsUncertain ==
    ASSUME TypeOK, NEW u, Fits(u), NEW t \in Calls, NEW ref \in Refs \union {None}, Recorded(u, t)
    PROVE  Fits(Uncertain(u, t, ref))
<1>1. Quiet(u, Uncertain(u, t, ref))
  BY UncertainQuiet, Zenon DEF Fits, Recorded
<1>. QED BY <1>1, FitsQuiet, Zenon

(* The ways a commit may end leave a snapshot that fits. *)
LEMMA CommitFits ==
    ASSUME NEW u, Fits(u), Commit(u)
    PROVE  Fits(disk') /\ disk' = u /\ mode' = "up"
BY Zenon DEF Commit

LEMMA FailedCommitFits ==
    ASSUME NEW u, Fits(u), NEW v, Fits(v), FailedCommit(u, v)
    PROVE  Fits(disk') /\ mode' = "poisoned"
<1>1. disk' = u \/ disk' = v
  BY Zenon DEF FailedCommit
<1>. QED BY <1>1, Zenon DEF FailedCommit

LEMMA FailedCommitOfFits ==
    ASSUME TypeOK, NEW u, Fits(u), NEW v, Fits(v), NEW t \in Calls, NEW ref \in Refs \union {None},
           Recorded(u, t), FailedCommitOf(u, v, t, ref)
    PROVE  Fits(disk') /\ mode' = "poisoned"
<1>1. disk' = u \/ disk' = v \/ disk' = Uncertain(u, t, ref)
  BY Zenon DEF FailedCommitOf
<1>2. Fits(Uncertain(u, t, ref))
  BY FitsUncertain, Zenon
<1>. QED BY <1>1, <1>2, Zenon DEF FailedCommitOf

LEMMA CommitUncertainFits ==
    ASSUME TypeOK, NEW u, Fits(u), NEW t \in Calls, NEW ref \in Refs \union {None},
           Recorded(u, t), CommitUncertain(u, t, ref)
    PROVE  Fits(disk') /\ mode' \in {"up", "poisoned"}
<1>1. Fits(Uncertain(u, t, ref))
  BY FitsUncertain, Zenon
<1>2. Commit(Uncertain(u, t, ref)) \/ FailedCommit(u, Uncertain(u, t, ref))
  BY Zenon DEF CommitUncertain
<1>3. CASE Commit(Uncertain(u, t, ref))
  BY <1>1, <1>3, CommitFits, Zenon
<1>4. CASE FailedCommit(u, Uncertain(u, t, ref))
  BY <1>1, <1>4, FailedCommitFits, Zenon
<1>. QED BY <1>2, <1>3, <1>4, Zenon

(* Handlers of a daemon that serves and that leave the configuration alone. *)
LEMMA HandledHere ==
    ASSUME IInv, mode = "up", Fits(disk'), mode' \in {"up", "poisoned"}, UNCHANGED <<task, managed, wire, config>>
    PROVE  IInv' /\ Keeps(disk, disk')
<1>1. mode' \in {"up", "poisoned", "down"} /\ config' = config /\ config' \in Registries
  BY Zenon DEF IInv, TypeOK
<1>2. ConfigOK(disk', config')
  BY <1>1, FitsConfig, Zenon
<1>. QED BY <1>1, <1>2, StepHere, Zenon

LEMMA HandledTask ==
    ASSUME IInv, mode = "up", Fits(disk'), mode' \in {"up", "poisoned"}, UNCHANGED <<managed, wire, config>>,
           NEW c \in Calls, NEW x \in Tasks, task' = [task EXCEPT ![c] = x], TaskOK(disk', x, managed, c),
           x.stage = "registration" => <<"registration", x.ref>> \notin wire,
           task[c].stage # "registration"
    PROVE  IInv' /\ Keeps(disk, disk')
<1>1. /\ mode' \in {"up", "poisoned", "down"} /\ config' = config /\ config' \in Registries
      /\ managed' = managed /\ wire' = wire
  BY Zenon DEF IInv, TypeOK
<1>2. ConfigOK(disk', config')
  BY <1>1, FitsConfig, Zenon
<1>. QED BY <1>1, <1>2, StepTask, Zenon

LEMMA HandledEnd ==
    ASSUME IInv, mode = "up", Fits(disk'), mode' \in {"up", "poisoned"}, UNCHANGED <<managed, wire, config>>,
           NEW c \in Calls, End(c),
           mode' = "up" /\ task[c].stage = "registration" => disk'.rows[task[c].ref].phase # "pending_registration"
    PROVE  IInv' /\ Keeps(disk, disk')
<1>1. /\ mode' \in {"up", "poisoned", "down"} /\ config' = config /\ config' \in Registries
      /\ managed' = managed /\ wire' = wire
  BY Zenon DEF IInv, TypeOK
<1>2. ConfigOK(disk', config')
  BY <1>1, FitsConfig, Zenon
<1>. QED BY <1>1, <1>2, StepEnd, Zenon

-----------------------------------------------------------------------------
(* Every step keeps the invariant. *)

(* A configuration that names no removal asks nothing. *)
LEMMA InstalledConfig ==
    ASSUME NEW s, NEW e
    PROVE  ConfigOK(s, <<"pending_install", e>>) /\ ConfigOK(s, <<"installed", e>>)
BY Zenon DEF ConfigOK

LEMMA InstallStep ==
    ASSUME IInv, Install
    PROVE  IInv' /\ Keeps(disk, disk')
<1> DEFINE c == <<"installed", disk.epoch>>
           next == [disk EXCEPT !.installed = TRUE, !.registry = c]
<1>1. mode = "up" /\ UNCHANGED <<task, managed, wire>> /\ TypeOK /\ Good(disk) /\ Fits(disk)
  BY FitsSelf, Zenon DEF Install, IInv
<1>2. disk.epoch \in Epochs
  BY <1>1, FieldTypes, Zenon DEF Good
<1>3. c \in Registries /\ <<"pending_install", disk.epoch>> \in Registries
  BY <1>2, Zenon DEF Registries, RegistryRecords
<1>4. CASE config' = <<"pending_install", disk.epoch>> /\ UNCHANGED <<disk, mode>>
  <2>1. Fits(disk') /\ mode' = "up" /\ ConfigOK(disk', config') /\ config' \in Registries
    BY <1>1, <1>3, <1>4, InstalledConfig, Zenon
  <2>. QED BY <1>1, <2>1, StepHere, Zenon
<1>5. CASE /\ config' = c
           /\ Commit([disk EXCEPT !.installed = TRUE, !.registry = config'])
              \/ FailedCommit(disk, [disk EXCEPT !.installed = TRUE, !.registry = config'])
  <2>1. Fits(next)
    BY <1>1, <1>3, InstallQuiet, FitsQuiet, Zenon
  <2>2. Commit(next) \/ FailedCommit(disk, next)
    BY <1>5, Zenon
  <2> HIDE DEF next
  <2>3. Fits(disk') /\ mode' \in {"up", "poisoned"}
    BY <1>1, <2>1, <2>2, CommitFits, FailedCommitFits, Zenon
  <2>4. ConfigOK(disk', config') /\ config' \in Registries
    BY <1>3, <1>5, InstalledConfig, Zenon
  <2>. QED BY <1>1, <2>3, <2>4, StepHere, Zenon
<1>. QED BY <1>4, <1>5, Zenon DEF Install

LEMMA StartRegisterStep ==
    ASSUME IInv, NEW r \in Registers, NEW o \in Owners, NEW i \in DOMAIN Names, StartRegister(r, o, i)
    PROVE  IInv' /\ Keeps(disk, disk')
<1> DEFINE x == [NoTask EXCEPT !.stage = "identify", !.owner = o, !.instance = i]
<1>1. /\ mode = "up" /\ task[r].stage = "none" /\ task' = [task EXCEPT ![r] = x] /\ r \in Calls
      /\ UNCHANGED <<disk, mode, managed, wire, config>> /\ Fits(disk)
  BY FitsSelf, Zenon DEF StartRegister, Startable, Calls
<1>2. /\ x \in Tasks /\ x.stage = "identify" /\ x.owner = o /\ x.instance = i /\ x.ref = None
      /\ x.admitted = FALSE
  BY Zenon DEF NoTask, Tasks, Registries, RegistryRecords
<1> HIDE DEF x
<1>3. TaskOK(disk, x, managed, r)
  BY <1>2, Zenon DEF TaskOK
<1>. QED BY <1>1, <1>2, <1>3, HandledTask, Zenon

LEMMA StartCallbackStep ==
    ASSUME IInv, NEW a \in Attaches, StartCallback(a)
    PROVE  IInv' /\ Keeps(disk, disk')
<1> DEFINE c == Callback(a)
           x == [task[a] EXCEPT !.stage = "identify", !.admitted = FALSE, !.result = "running"]
<1>1. /\ mode = "up" /\ task[c].stage = "none" /\ task[a].stage = "announcement"
      /\ task' = [task EXCEPT ![c] = x] /\ UNCHANGED <<disk, mode, managed, wire, config>>
  BY Zenon DEF StartCallback
<1>2. a \in Calls /\ a \in Controls /\ c \in Callbacks /\ c \in Calls
  BY Zenon DEF Calls, Callbacks, Controls
<1>3. c \notin Registers /\ c \notin Controls
  BY <1>2, NativeOwnersAssumption, Zenon
<1>4. Operation(c) = a /\ Operation(a) = a
  BY <1>2, OperationOf, Zenon
<1>5. task[a] \in Tasks /\ TaskOK(disk, task[a], managed, a) /\ Fits(disk)
  BY <1>2, FitsSelf, Zenon DEF IInv, TypeOK, WorldOK
<1> HIDE DEF c
<1>6. /\ x \in Tasks /\ x.stage = "identify" /\ x.ref = task[a].ref /\ x.admitted = FALSE
  BY <1>5, Zenon DEF Tasks
<1> HIDE DEF x
<1>7. x.ref \in Refs /\ x.ref # None
  BY <1>1, <1>5, <1>6, NativeOwnersAssumption, Zenon DEF TaskOK
<1>8. x.ref \in Rows(disk) /\ disk.rows[x.ref].registration = Operation(c)
  BY <1>1, <1>4, <1>5, <1>6, <1>7, Zenon DEF TaskOK
<1>9. TaskOK(disk, x, managed, c)
  BY <1>2, <1>3, <1>6, <1>7, <1>8, Zenon DEF TaskOK
<1>. QED BY <1>1, <1>2, <1>5, <1>6, <1>9, HandledTask, Zenon

LEMMA StartAttachStep ==
    ASSUME IInv, NEW a \in Attaches, NEW o \in Owners, NEW i \in DOMAIN Names, NEW selected \in BOOLEAN,
           StartAttach(a, o, i, selected)
    PROVE  IInv' /\ Keeps(disk, disk')
<1> DEFINE x == [NoTask EXCEPT !.stage = "announcement_identify", !.owner = o, !.instance = i,
                               !.admitted = ~selected, !.registry = disk.registry]
           s == Admit(disk, a)
<1>1. /\ mode = "up" /\ task[a].stage = "none" /\ a \in Calls /\ a \in Controls
      /\ UNCHANGED <<managed, wire, config>>
  BY Zenon DEF StartAttach, Startable, Calls, Controls
<1>2. disk.registry \in Registries /\ TypeOK /\ Good(disk) /\ Fits(disk)
  BY FitsSelf, Zenon DEF IInv, Good, Snapshots
<1>3. /\ x \in Tasks /\ x.stage = "announcement_identify" /\ x.owner = o /\ x.instance = i /\ x.ref = None
      /\ x.admitted = ~selected
  BY <1>2, Zenon DEF NoTask, Tasks, Registries, RegistryRecords
<1>4. Fits(s) /\ s.control[a] = "started"
  BY <1>1, <1>2, AdmitQuiet, FitsQuiet, Zenon
<1>5. \/ selected /\ task' = [task EXCEPT ![a] = x] /\ UNCHANGED <<disk, mode>>
      \/ ~selected /\ Commit(s) /\ task' \in {task, [task EXCEPT ![a] = x]}
      \/ ~selected /\ FailedCommit(disk, s) /\ UNCHANGED task
  BY Zenon DEF StartAttach
<1> HIDE DEF x, s
<1>6. CASE selected /\ task' = [task EXCEPT ![a] = x] /\ UNCHANGED <<disk, mode>>
  <2>1. TaskOK(disk', x, managed, a)
    BY <1>3, <1>6, Zenon DEF TaskOK
  <2>. QED BY <1>1, <1>2, <1>3, <1>6, <2>1, HandledTask, Zenon
<1>7. CASE Commit(s) /\ task' = [task EXCEPT ![a] = x]
  <2>1. Fits(disk') /\ disk' = s /\ mode' = "up"
    BY <1>4, <1>7, CommitFits, Zenon
  <2>2. TaskOK(disk', x, managed, a)
    BY <1>1, <1>3, <1>4, <2>1, Zenon DEF TaskOK
  <2>. QED BY <1>1, <1>3, <1>7, <2>1, <2>2, HandledTask, Zenon
<1>8. CASE (Commit(s) \/ FailedCommit(disk, s)) /\ task' = task
  <2>1. Fits(disk') /\ mode' \in {"up", "poisoned"}
    BY <1>2, <1>4, <1>8, CommitFits, FailedCommitFits, Zenon
  <2>. QED BY <1>1, <1>8, <2>1, HandledHere, Zenon
<1>. QED BY <1>5, <1>6, <1>7, <1>8, Zenon

(* The task of a detach that was begun. *)
LEMMA DetachingOK ==
    ASSUME NEW s, NEW ref \in Refs, NEW t \in Detaches \union Removals,
           s.rows[ref].from = "detachment", s.control[t] # "absent"
    PROVE  /\ Detaching(ref) \in Tasks /\ Detaching(ref).stage = "detachment"
           /\ TaskOK(s, Detaching(ref), managed, t)
<1>1. /\ Detaching(ref) \in Tasks /\ Detaching(ref).stage = "detachment" /\ Detaching(ref).ref = ref
      /\ Detaching(ref).result = "running" /\ Detaching(ref).admitted
  BY Zenon DEF Detaching, NoTask, Tasks, Registries, RegistryRecords
<1>2. t \in Controls
  BY Zenon DEF Controls
<1>. QED BY <1>1, <1>2, Zenon DEF TaskOK

LEMMA StartDetachStep ==
    ASSUME IInv, NEW d \in Detaches, NEW ref \in Refs, StartDetach(d, ref)
    PROVE  IInv' /\ Keeps(disk, disk')
<1> DEFINE admitted == Admit(disk, d)
           begun == BeginDetach(admitted, ref, d)
<1>1. /\ mode = "up" /\ task[d].stage = "none" /\ d \in Calls /\ d \in Controls /\ d \in DetachOperations
      /\ ~NativeRequestsPending(disk, ref) /\ UNCHANGED <<managed, wire, config>>
  BY Zenon DEF StartDetach, Startable, Calls, Controls, DetachOperations
<1>2. TypeOK /\ Good(disk) /\ Fits(disk)
  BY FitsSelf, Zenon DEF IInv
<1>3. /\ Fits(admitted) /\ admitted.control[d] = "started" /\ admitted.rows = disk.rows
      /\ admitted.leases = disk.leases
  BY <1>1, <1>2, AdmitQuiet, FitsQuiet, Zenon
<1>4. \/ FailedCommit(disk, admitted) /\ UNCHANGED task
      \/ Commit(admitted) /\ UNCHANGED task
      \/ /\ DetachAdmissible(disk.rows[ref])
         /\ FailedCommit(admitted, begun)
         /\ UNCHANGED task
      \/ /\ DetachAdmissible(disk.rows[ref])
         /\ Commit(begun)
         /\ task' \in {task, [task EXCEPT ![d] = Detaching(ref)]}
  BY Zenon DEF StartDetach
<1> HIDE DEF admitted
<1>5. ASSUME DetachAdmissible(disk.rows[ref])
      PROVE  Fits(begun) /\ begun.rows[ref].from = "detachment" /\ begun.control[d] # "absent"
  <2>1. DetachAdmissible(admitted.rows[ref]) /\ ~NativeRequestsPending(admitted, ref)
    BY <1>1, <1>3, <1>5, Zenon DEF NativeRequestsPending
  <2>2. d \notin Children /\ admitted.control[d] # "absent" /\ Good(admitted)
    BY <1>3, NativeOwnersAssumption, Zenon DEF Fits
  <2>3. Quiet(admitted, begun) /\ begun.rows[ref].from = "detachment" /\ begun.control = admitted.control
    BY <1>1, <2>1, <2>2, BeginDetachQuiet, Zenon
  <2>. QED BY <1>2, <1>3, <2>2, <2>3, FitsQuiet, Zenon
<1> HIDE DEF begun
<1>6. CASE Commit(begun) /\ DetachAdmissible(disk.rows[ref]) /\ task' = [task EXCEPT ![d] = Detaching(ref)]
  <2>1. Fits(disk') /\ disk' = begun /\ mode' = "up"
    BY <1>5, <1>6, CommitFits, Zenon
  <2>2. Detaching(ref) \in Tasks /\ Detaching(ref).stage = "detachment" /\ TaskOK(disk', Detaching(ref), managed, d)
    BY <1>5, <1>6, <2>1, DetachingOK, Zenon
  <2>. QED BY <1>1, <1>6, <2>1, <2>2, HandledTask, Zenon
<1>7. CASE /\ task' = task
           /\ \/ FailedCommit(disk, admitted) \/ Commit(admitted)
              \/ DetachAdmissible(disk.rows[ref]) /\ (FailedCommit(admitted, begun) \/ Commit(begun))
  <2>1. Fits(disk') /\ mode' \in {"up", "poisoned"}
    BY <1>2, <1>3, <1>5, <1>7, CommitFits, FailedCommitFits, Zenon
  <2>. QED BY <1>1, <1>7, <2>1, HandledHere, Zenon
<1>. QED BY <1>4, <1>6, <1>7, Zenon

LEMMA AcquireStep ==
    ASSUME IInv, NEW ref \in Refs, Acquire(ref)
    PROVE  IInv' /\ Keeps(disk, disk')
<1> DEFINE next == [disk EXCEPT !.bindings = disk.bindings \union {ref}, !.leases = disk.leases \union {ref}]
<1>1. /\ mode = "up" /\ ref.epoch = disk.epoch /\ ~Fenced(disk) /\ disk.rows[ref].phase = "attached"
      /\ Commit(next) \/ FailedCommit(disk, next)
      /\ UNCHANGED <<task, managed, wire, config>>
  BY Zenon DEF Acquire
<1>2. TypeOK /\ Good(disk) /\ Fits(disk)
  BY FitsSelf, Zenon DEF IInv
<1>3. Fits(next)
  BY <1>1, <1>2, AcquireQuiet, FitsQuiet, Zenon
<1> HIDE DEF next
<1>4. Fits(disk') /\ mode' \in {"up", "poisoned"}
  BY <1>1, <1>2, <1>3, CommitFits, FailedCommitFits, Zenon
<1>. QED BY <1>1, <1>4, HandledHere, Zenon

LEMMA ReportStep ==
    ASSUME IInv, NEW ref \in Refs, Report(ref)
    PROVE  IInv' /\ Keeps(disk, disk')
<1> DEFINE L == disk.leases \ {ref}
           next == [disk EXCEPT !.leases = L]
<1>1. /\ mode = "up"
      /\ Commit(next) \/ FailedCommit(disk, next)
      /\ UNCHANGED <<task, managed, wire, config>>
  BY Zenon DEF Report
<1>2. TypeOK /\ Good(disk) /\ Fits(disk) /\ L \subseteq disk.leases
  BY FitsSelf, Zenon DEF IInv
<1> HIDE DEF L
<1>3. Quiet(disk, next)
  BY <1>2, WorkEndsQuiet, Zenon
<1>4. Fits(next)
  BY <1>2, <1>3, FitsQuiet, Zenon
<1> HIDE DEF next
<1>5. Fits(disk') /\ mode' \in {"up", "poisoned"}
  BY <1>1, <1>2, <1>4, CommitFits, FailedCommitFits, Zenon
<1>. QED BY <1>1, <1>5, HandledHere, Zenon

LEMMA ReleaseBindingStep ==
    ASSUME IInv, NEW ref \in Refs, ReleaseBinding(ref)
    PROVE  IInv' /\ Keeps(disk, disk')
<1> DEFINE B == disk.bindings \ {ref}
           next == [disk EXCEPT !.bindings = B]
<1>1. /\ mode = "up"
      /\ Commit(next) \/ FailedCommit(disk, next)
      /\ UNCHANGED <<task, managed, wire, config>>
  BY Zenon DEF ReleaseBinding
<1>2. TypeOK /\ Good(disk) /\ Fits(disk) /\ B \subseteq disk.bindings
  BY FitsSelf, Zenon DEF IInv
<1> HIDE DEF B
<1>3. Quiet(disk, next)
  BY <1>2, WorkEndsQuiet, Zenon
<1>4. Fits(next)
  BY <1>2, <1>3, FitsQuiet, Zenon
<1> HIDE DEF next
<1>5. Fits(disk') /\ mode' \in {"up", "poisoned"}
  BY <1>1, <1>2, <1>4, CommitFits, FailedCommitFits, Zenon
<1>. QED BY <1>1, <1>5, HandledHere, Zenon

(* What a registration under way knows of its row. *)
LEMMA Registering ==
    ASSUME IInv, NEW t \in Calls, task[t].stage = "registration"
    PROVE  /\ t \notin Controls /\ Operation(t) \in Enrolments /\ task[t].admitted
           /\ task[t].ref \in Rows(disk) /\ task[t].ref \in Refs
           /\ disk.rows[task[t].ref].registration = Operation(t)
           /\ disk.rows[task[t].ref].from = "registration" /\ disk.inner[Operation(t)] # "completed"
<1>1. TaskOK(disk, task[t], managed, t)
  BY Zenon DEF IInv, WorldOK
<1>2. t \in Registers \union Callbacks /\ task[t].ref \in Refs /\ task[t].admitted
      /\ disk.rows[task[t].ref].from = "registration"
  BY <1>1, Zenon DEF TaskOK
<1>3. t \notin Controls
  BY <1>2, NativeOwnersAssumption, Zenon
<1>4. task[t].ref # None
  BY <1>2, NativeOwnersAssumption, Zenon
<1>5. task[t].ref \in Rows(disk) /\ disk.rows[task[t].ref].registration = Operation(t)
  BY <1>1, <1>4, Zenon DEF TaskOK
<1>6. RowOK(disk, task[t].ref) /\ disk.rows[task[t].ref].phase # "absent"
  BY <1>2, <1>5, Zenon DEF IInv, Good, RowsOK, Rows
<1>7. disk.inner[Operation(t)] # "completed"
  BY <1>2, <1>5, <1>6, Zenon DEF RowOK
<1>8. Operation(t) \in Enrolments
  BY <1>3, OperationOf, Zenon
<1>. QED BY <1>2, <1>3, <1>5, <1>7, <1>8, Zenon

LEMMA FailTaskStep ==
    ASSUME IInv, NEW t \in Calls, FailTask(t)
    PROVE  IInv' /\ Keeps(disk, disk')
<1> DEFINE u == Uncertain(disk, t, task[t].ref)
<1>1. End(t) /\ UNCHANGED <<managed, wire, config>>
  BY Zenon DEF FailTask
<1>2. /\ TypeOK /\ Good(disk) /\ Fits(disk) /\ mode \in {"up", "poisoned", "down"}
      /\ task[t].ref \in Refs \union {None} /\ config' \in Registries
  BY <1>1, FitsSelf, Zenon DEF IInv, TypeOK, Tasks
<1>3. CASE task[t].admitted
  <2>1. Recorded(disk, t)
    BY <1>2, <1>3, AdmittedRecorded, Zenon
  <2>2. Fits(u)
    BY <1>2, <2>1, FitsUncertain, Zenon
  <2>3. task[t].stage = "registration" => u.rows[task[t].ref].phase # "pending_registration"
    BY <1>2, <2>1, Registering, UncertainQuiet, Zenon DEF Recorded
  <2>4. /\ disk' \in {disk, u}
        /\ mode' = IF mode = "up" /\ disk' = u THEN "up" ELSE "poisoned"
    BY <1>3, Zenon DEF FailTask
  <2> HIDE DEF u
  <2>5. Fits(disk')
    BY <1>2, <2>2, <2>4, Zenon
  <2>6. mode' \in {"up", "poisoned", "down"} /\ (mode' = "up" => mode = "up" /\ disk' = u)
    BY <2>4, Zenon
  <2>7. ConfigOK(disk', config')
    BY <1>1, <2>5, FitsConfig, Zenon
  <2>. QED BY <1>1, <1>2, <2>3, <2>5, <2>6, <2>7, StepEnd, Zenon
<1>4. CASE ~task[t].admitted
  <2>1. task[t].stage # "registration"
    BY <1>4, Registering, Zenon
  <2>2. disk' = disk /\ mode' = mode
    BY <1>4, Zenon DEF FailTask
  <2>3. ConfigOK(disk', config') /\ Fits(disk')
    BY <1>1, <1>2, <2>2, FitsConfig, Zenon
  <2>. QED BY <1>1, <1>2, <2>1, <2>2, <2>3, StepEnd, Zenon
<1>. QED BY <1>3, <1>4, Zenon

LEMMA FinishAnnouncementStep ==
    ASSUME IInv, NEW a \in Calls, FinishAnnouncement(a)
    PROVE  IInv' /\ Keeps(disk, disk')
<1> DEFINE next == CompleteControl(disk, a)
<1>1. /\ mode = "up" /\ task[a].stage = "announcement" /\ End(a) /\ UNCHANGED <<managed, wire, config>>
      /\ Commit(next) \/ FailedCommitOf(disk, next, a, task[a].ref)
  BY Zenon DEF FinishAnnouncement, Acknowledged
<1>2. TypeOK /\ Good(disk) /\ Fits(disk) /\ TaskOK(disk, task[a], managed, a)
  BY FitsSelf, Zenon DEF IInv, WorldOK
<1>3. a \in Controls /\ task[a].ref \in Refs \union {None} /\ task[a].admitted
  BY <1>1, <1>2, Zenon DEF TaskOK, Controls
<1>4. Fits(next) /\ Recorded(disk, a)
  BY <1>2, <1>3, CompleteControlQuiet, FitsQuiet, AdmittedRecorded, Zenon
<1> HIDE DEF next
<1>5. Fits(disk') /\ mode' \in {"up", "poisoned"}
  BY <1>1, <1>2, <1>3, <1>4, CommitFits, FailedCommitOfFits, Zenon
<1>. QED BY <1>1, <1>5, HandledEnd, Zenon

LEMMA RefuseSelectedStep ==
    ASSUME IInv, NEW a \in Attaches, RefuseSelected(a)
    PROVE  IInv' /\ Keeps(disk, disk')
<1> DEFINE s == Admit(disk, a)
<1>1. /\ mode = "up" /\ task[a].stage = "announcement_identify" /\ ~task[a].admitted
      /\ End(a) /\ UNCHANGED <<managed, wire, config>> /\ a \in Calls /\ a \in Controls
  BY Zenon DEF RefuseSelected, Acknowledged, Calls, Controls
<1>2. CommitUncertain(s, a, None) \/ FailedCommit(disk, s)
  BY <1>1, Zenon DEF RefuseSelected, Admitted
<1>3. TypeOK /\ Good(disk) /\ Fits(disk)
  BY FitsSelf, Zenon DEF IInv
<1>4. Fits(s) /\ s.control[a] = "started"
  BY <1>1, <1>3, AdmitQuiet, FitsQuiet, Zenon
<1>5. Recorded(s, a)
  BY <1>1, <1>4, Zenon DEF Recorded
<1> HIDE DEF s
<1>6. Fits(disk') /\ mode' \in {"up", "poisoned"}
  <2>1. None \in Refs \union {None}
    BY Zenon
  <2>. QED BY <1>1, <1>2, <1>3, <1>4, <1>5, <2>1, CommitUncertainFits, FailedCommitFits, Zenon
<1>. QED BY <1>1, <1>6, HandledEnd, Zenon

LEMMA PrepareCallbackStep ==
    ASSUME IInv, NEW t \in Calls, PrepareCallback(t)
    PROVE  IInv' /\ Keeps(disk, disk')
<1> DEFINE x == [task[t] EXCEPT !.stage = "registration", !.admitted = TRUE, !.result = "running"]
<1>1. /\ mode = "up" /\ task[t].stage = "identify" /\ task[t].ref # None
      /\ disk.rows[task[t].ref].phase = "pending_registration" /\ disk.inner[Operation(t)] = "started"
      /\ UNCHANGED <<managed, wire, config>>
  BY Zenon DEF PrepareCallback, Acknowledged, CallbackPrepared
<1>2. \/ task' = [task EXCEPT ![t] = x] /\ UNCHANGED <<disk, mode>>
      \/ CommitUncertain(disk, t, task[t].ref) /\ End(t)
  BY Zenon DEF PrepareCallback
<1>3. /\ TypeOK /\ Good(disk) /\ Fits(disk) /\ task[t] \in Tasks /\ TaskOK(disk, task[t], managed, t)
      /\ LateOK(disk, task, wire)
  BY <1>1, FitsSelf, Zenon DEF IInv, TypeOK, WorldOK
<1>4. task[t].ref \in Refs
  BY <1>1, <1>3, Zenon DEF Tasks
<1>5. t \in Callbacks /\ t \notin Controls
  <2>1. t \in Registers \union Callbacks /\ t \notin Registers
    BY <1>1, <1>3, Zenon DEF TaskOK
  <2>. QED BY <2>1, NativeOwnersAssumption, Zenon
<1>6. CASE task' = [task EXCEPT ![t] = x] /\ UNCHANGED <<disk, mode>>
  <2>1. /\ x \in Tasks /\ x.stage = "registration" /\ x.ref = task[t].ref /\ x.admitted = TRUE
        /\ x.result = "running"
    BY <1>3, Zenon DEF Tasks
  <2> HIDE DEF x
  <2>2. x.ref \in Rows(disk) /\ disk.rows[x.ref].registration = Operation(t)
    BY <1>1, <1>3, <2>1, Zenon DEF TaskOK
  <2>3. disk.rows[x.ref].from = "registration"
    <3>1. RowOK(disk, x.ref)
      BY <1>3, <1>4, <2>1, Zenon DEF Good, RowsOK
    <3>. QED BY <1>1, <2>1, <3>1, Zenon DEF RowOK
  <2>4. TaskOK(disk, x, managed, t)
    BY <1>1, <1>4, <1>5, <2>1, <2>2, <2>3, Zenon DEF TaskOK
  <2>5. <<"registration", x.ref>> \notin wire
    <3> SUFFICES ASSUME <<"registration", x.ref>> \in wire PROVE FALSE
      BY Zenon
    <3>1. PICK c \in Calls : task[c].stage = "registration" /\ task[c].ref = x.ref
      BY <1>1, <1>3, <1>4, <2>1, Zenon DEF LateOK
    <3>2. disk.rows[x.ref].registration = Operation(c)
      BY <3>1, Registering, Zenon
    <3>3. TaskOK(disk, task[c], managed, c)
      BY Zenon DEF IInv, WorldOK
    <3>4. c \in Registers \union Callbacks
      BY <3>1, <3>3, Zenon DEF TaskOK
    <3>5. c = t
      BY <1>5, <2>2, <3>2, <3>4, OneCall, Zenon
    <3>. QED BY <1>1, <3>1, <3>5, Zenon
  <2>. QED BY <1>1, <1>3, <1>6, <2>1, <2>4, <2>5, HandledTask, Zenon
<1>7. CASE CommitUncertain(disk, t, task[t].ref) /\ End(t)
  <2>1. Recorded(disk, t)
    BY <1>1, <1>5, Zenon DEF Recorded
  <2>2. Fits(disk') /\ mode' \in {"up", "poisoned"}
    BY <1>3, <1>4, <1>7, <2>1, CommitUncertainFits, Zenon
  <2>. QED BY <1>1, <1>7, <2>2, HandledEnd, Zenon
<1>. QED BY <1>2, <1>6, <1>7, Zenon

(* The acknowledged registration ends with its row attached. *)
LEMMA AttachedWorld ==
    ASSUME IInv, NEW t \in Calls, task[t].stage = "registration", task[t].result = "acknowledged",
           NEW u, Good(u), Keeps(disk, u), u.rows[task[t].ref].phase = "attached",
           u.rows[task[t].ref].from = "attachment",
           \A r \in Refs : r # task[t].ref => u.rows[r] = disk.rows[r]
    PROVE  LET l == [task EXCEPT ![t] = NoTask]
           IN  WorldOK(u, l, managed, wire) /\ (LateOK(disk, task, wire) => LateOK(u, l, wire))
<1> DEFINE ref == task[t].ref
           l == [task EXCEPT ![t] = NoTask]
<1>1. /\ Good(disk) /\ WorldOK(disk, task, managed, wire) /\ task \in [Calls -> Tasks] /\ managed \subseteq Refs
      /\ TaskOK(disk, task[t], managed, t)
  BY Zenon DEF IInv, TypeOK, WorldOK
<1>2. ref \in Refs /\ ref \in Rows(disk) /\ disk.rows[ref].from = "registration" /\ ref \in managed
  BY <1>1, Registering, Zenon DEF TaskOK
<1>3. l[t] = NoTask /\ \A c \in Calls : c # t => l[c] = task[c]
  BY <1>1, Zenon
<1>4. NoTask.stage # "registration"
  BY NoTaskTyped, Zenon
<1> HIDE DEF l
<1>5. ASSUME NEW c \in Calls PROVE TaskOK(u, l[c], managed, c)
  <2>1. CASE c = t
    BY <1>3, <2>1, NoTaskOK, Zenon
  <2>2. CASE c # t
    <3>1. TaskOK(disk, task[c], managed, c)
      BY <1>1, Zenon DEF WorldOK
    <3>2. task[c].stage = "registration" => u.rows[task[c].ref].from = "registration"
      <4> SUFFICES ASSUME task[c].stage = "registration" PROVE u.rows[task[c].ref].from = "registration"
        BY Zenon
      <4>1. task[c].ref # ref
        BY <2>2, OneTask, Zenon
      <4>2. task[c].ref \in Refs /\ disk.rows[task[c].ref].from = "registration"
        BY Registering, Zenon
      <4>. QED BY <4>1, <4>2, Zenon
    <3>. QED BY <1>1, <1>3, <2>2, <3>1, <3>2, TaskKept, Zenon
  <2>. QED BY <2>1, <2>2, Zenon
<1>6. \A r \in managed : u.rows[r].phase \notin {"absent", "retired"}
  <2> SUFFICES ASSUME NEW r \in managed PROVE u.rows[r].phase \notin {"absent", "retired"}
    BY Zenon
  <2>1. disk.rows[r].phase \notin {"absent", "retired"} /\ r \in Refs
    BY <1>1, Zenon DEF WorldOK
  <2>. QED BY <2>1, Zenon
<1>7. \A r \in Refs : u.rows[r].phase = "attached" => r \in managed
  BY <1>1, <1>2, Zenon DEF WorldOK
<1>8. \A r \in Refs : <<"detachment", r>> \in wire => u.rows[r].from = "detachment"
  BY <1>1, <1>2, Zenon DEF WorldOK
<1>9. \A r \in Refs : <<"registration", r>> \in wire => r # ref
  BY <1>1, <1>2, Zenon DEF WorldOK
<1>10. ASSUME NEW r \in Refs, <<"registration", r>> \in wire
       PROVE  /\ u.rows[r].phase # "absent" /\ u.rows[r].from = "registration"
              /\ \A c \in Calls : l[c].stage = "registration" /\ l[c].ref = r => l[c].result = "failed"
  <2>1. u.rows[r] = disk.rows[r]
    BY <1>9, <1>10, Zenon
  <2>2. u.rows[r].phase # "absent" /\ u.rows[r].from = "registration"
    BY <1>1, <1>10, <2>1, Zenon DEF WorldOK
  <2>3. \A c \in Calls : l[c].stage = "registration" /\ l[c].ref = r => l[c].result = "failed"
    BY <1>1, <1>3, <1>4, <1>10 DEF WorldOK
  <2>. QED BY <2>2, <2>3, Zenon
<1>11. WorldOK(u, l, managed, wire)
  BY <1>5, <1>6, <1>7, <1>8, <1>10, Zenon DEF WorldOK
<1>12. ASSUME LateOK(disk, task, wire) PROVE LateOK(u, l, wire)
  <2> SUFFICES ASSUME NEW r \in Refs, <<"registration", r>> \in wire, u.rows[r].phase = "pending_registration"
               PROVE  \E c \in Calls : l[c].stage = "registration" /\ l[c].ref = r
    BY Zenon DEF LateOK
  <2>1. r # ref /\ disk.rows[r].phase = "pending_registration"
    BY <1>9, Zenon
  <2>2. PICK c \in Calls : task[c].stage = "registration" /\ task[c].ref = r
    BY <1>12, <2>1, Zenon DEF LateOK
  <2>3. c # t
    BY <2>1, <2>2, Zenon
  <2>. QED BY <1>3, <2>2, <2>3, Zenon
<1>. QED BY <1>11, <1>12, Zenon DEF l

LEMMA FinishRegistrationStep ==
    ASSUME IInv, NEW t \in Calls, FinishRegistration(t)
    PROVE  IInv' /\ Keeps(disk, disk')
<1> DEFINE ref == task[t].ref
           next == CompleteRegistration(disk, ref, Operation(t))
<1>1. /\ mode = "up" /\ task[t].stage = "registration" /\ task[t].result = "acknowledged"
      /\ disk.rows[ref].phase = "pending_registration" /\ End(t) /\ UNCHANGED <<managed, wire, config>>
      /\ Commit(next) \/ FailedCommitOf(disk, next, t, ref)
  BY Zenon DEF FinishRegistration, Acknowledged
<1>2. TypeOK /\ Good(disk) /\ Fits(disk) /\ LateOK(disk, task, wire)
  BY <1>1, FitsSelf, Zenon DEF IInv
<1>3. /\ ref \in Refs /\ Operation(t) \in Enrolments /\ disk.rows[ref].registration = Operation(t)
      /\ task[t].admitted
  BY <1>1, Registering, Zenon
<1>4. /\ Good(next) /\ Keeps(disk, next) /\ next.rows[ref].phase = "attached"
      /\ next.rows[ref].from = "attachment" /\ \A r \in Refs : r # ref => next.rows[r] = disk.rows[r]
  BY <1>1, <1>2, <1>3, CompleteRegistrationFollows DEF Follows
<1> HIDE DEF next
<1>5. CASE disk' = next /\ mode' \in {"up", "poisoned"}
  <2>1. task' = [task EXCEPT ![t] = NoTask] /\ managed' = managed /\ wire' = wire /\ config' = config
    BY <1>1, Zenon DEF End
  <2>2. WorldOK(disk', task', managed', wire') /\ LateOK(disk', task', wire')
    BY <1>1, <1>2, <1>4, <1>5, <2>1, AttachedWorld, Zenon
  <2>3. task' \in [Calls -> Tasks]
    BY <1>2, <2>1, NoTaskTyped, Zenon DEF TypeOK
  <2>4. TypeOK'
    BY <1>2, <1>4, <1>5, <2>1, <2>3, Zenon DEF TypeOK, Good
  <2>5. ConfigOK(disk', config')
    BY <1>4, <1>5, <2>1, KeepsConfig, Zenon DEF IInv
  <2>. QED BY <1>4, <1>5, <2>2, <2>4, <2>5, Zenon DEF IInv
<1>6. CASE disk' \in {disk, Uncertain(disk, t, ref)} /\ mode' = "poisoned"
  <2>1. Recorded(disk, t)
    BY <1>2, <1>3, AdmittedRecorded, Zenon
  <2>2. Fits(Uncertain(disk, t, ref))
    BY <1>2, <1>3, <2>1, FitsUncertain, Zenon
  <2>3. Fits(disk')
    BY <1>2, <1>6, <2>2, Zenon
  <2>. QED BY <1>1, <1>6, <2>3, HandledEnd, Zenon
<1>. QED BY <1>1, <1>5, <1>6, Zenon DEF Commit, FailedCommitOf

(* An acknowledged detach may be completed: its owner let the thread go. *)
LEMMA FitsDetach ==
    ASSUME IInv, NEW t \in Calls, task[t].stage = "detachment", task[t].result = "acknowledged",
           NEW op \in DetachOperations, DetachCompletable(disk, task[t].ref, op)
    PROVE  LET u == CompleteDetach(disk, task[t].ref, op)
           IN  /\ Fits(u) /\ u.owners = disk.owners /\ u.removals = disk.removals /\ u.control = disk.control
               /\ u.epoch = disk.epoch /\ u.leases = disk.leases
<1> DEFINE ref == task[t].ref
           u == CompleteDetach(disk, ref, op)
<1>1. /\ Good(disk) /\ WorldOK(disk, task, managed, wire) /\ managed \subseteq Refs
      /\ TaskOK(disk, task[t], managed, t)
  BY Zenon DEF IInv, TypeOK, WorldOK
<1>2. ref \in Refs /\ disk.rows[ref].from = "detachment" /\ ref \notin managed
  BY <1>1, Zenon DEF TaskOK
<1>3. /\ Good(u) /\ Keeps(disk, u) /\ u.rows[ref].phase = "retired" /\ u.rows[ref].from = "detachment"
      /\ \A r \in Refs : r # ref => u.rows[r] = disk.rows[r]
      /\ u.owners = disk.owners /\ u.removals = disk.removals /\ u.control = disk.control
      /\ u.epoch = disk.epoch /\ u.leases = disk.leases
  BY <1>1, <1>2, CompleteDetachFollows, Zenon DEF Follows
<1> HIDE DEF u
<1>4. \A r \in Refs : u.rows[r].from = disk.rows[r].from
  BY <1>2, <1>3, Zenon
<1>5. ASSUME NEW c \in Calls PROVE TaskOK(u, task[c], managed, c)
  <2>1. TaskOK(disk, task[c], managed, c)
    BY <1>1, Zenon DEF WorldOK
  <2>2. task[c].stage = "registration" => u.rows[task[c].ref].from = "registration"
    BY <1>4, <2>1, Zenon DEF TaskOK
  <2>. QED BY <1>1, <1>3, <2>1, <2>2, TaskKept, Zenon
<1>6. \A r \in managed : u.rows[r].phase \notin {"absent", "retired"}
  <2> SUFFICES ASSUME NEW r \in managed PROVE u.rows[r].phase \notin {"absent", "retired"}
    BY Zenon
  <2>1. disk.rows[r].phase \notin {"absent", "retired"} /\ r \in Refs /\ r # ref
    BY <1>1, <1>2, Zenon DEF WorldOK
  <2>2. u.rows[r] = disk.rows[r]
    BY <1>3, <2>1, Zenon
  <2>. QED BY <2>1, <2>2, Zenon
<1>7. \A r \in Refs : u.rows[r].phase = "attached" => r \in managed
  BY <1>1, <1>3, Zenon DEF WorldOK
<1>8. \A r \in Refs : <<"detachment", r>> \in wire => u.rows[r].from = "detachment"
  BY <1>1, <1>4, Zenon DEF WorldOK
<1>9. ASSUME NEW r \in Refs, <<"registration", r>> \in wire
      PROVE  /\ u.rows[r].phase # "absent" /\ u.rows[r].from = "registration"
             /\ \A c \in Calls : task[c].stage = "registration" /\ task[c].ref = r => task[c].result = "failed"
  <2>1. /\ disk.rows[r].phase # "absent" /\ disk.rows[r].from = "registration"
        /\ \A c \in Calls : task[c].stage = "registration" /\ task[c].ref = r => task[c].result = "failed"
    BY <1>1, <1>9, Zenon DEF WorldOK
  <2>2. u.rows[r] = disk.rows[r]
    BY <1>2, <1>3, <2>1, Zenon
  <2>. QED BY <2>1, <2>2, Zenon
<1>10. WorldOK(u, task, managed, wire)
  BY <1>5, <1>6, <1>7, <1>8, <1>9, Zenon DEF WorldOK
<1>11. mode = "up" => LateOK(u, task, wire)
  <2>1. \A r \in Refs : u.rows[r].phase = "pending_registration" => disk.rows[r].phase = "pending_registration"
    BY <1>3, Zenon
  <2>. QED BY <2>1, Zenon DEF IInv, LateOK
<1>12. Fits(u)
  BY <1>3, <1>10, <1>11, Zenon DEF Fits
<1>. QED BY <1>3, <1>12, Zenon DEF u

LEMMA FinishDetachStep ==
    ASSUME IInv, NEW d \in Calls, FinishDetach(d)
    PROVE  IInv' /\ Keeps(disk, disk')
<1> DEFINE ref == task[d].ref
           detached == CompleteDetach(disk, ref, d)
           done == CompleteControl(detached, d)
<1>1. /\ mode = "up" /\ task[d].stage = "detachment" /\ task[d].result = "acknowledged" /\ d \in Detaches
      /\ DetachCompletable(disk, ref, d) /\ End(d) /\ UNCHANGED <<managed, wire, config>>
      /\ \/ Commit(done) \/ FailedCommitOf(disk, detached, d, ref)
         \/ FailedCommitOf(detached, done, d, ref)
  BY Zenon DEF FinishDetach, Acknowledged
<1>2. /\ TypeOK /\ Good(disk) /\ Fits(disk) /\ TaskOK(disk, task[d], managed, d)
      /\ d \in DetachOperations /\ d \in Controls
  BY <1>1, FitsSelf, Zenon DEF IInv, WorldOK, DetachOperations, Controls
<1>3. ref \in Refs /\ task[d].admitted
  BY <1>1, <1>2, Zenon DEF TaskOK
<1>4. Fits(detached)
  BY <1>1, <1>2, FitsDetach, Zenon
<1> HIDE DEF detached
<1>5. Fits(done)
  BY <1>2, <1>4, CompleteControlQuiet, FitsQuiet, Zenon DEF Fits
<1>6. Recorded(disk, d) /\ Recorded(detached, d)
  BY <1>2, <1>3, <1>4, AdmittedRecorded, Zenon
<1> HIDE DEF done
<1>7. Fits(disk') /\ mode' \in {"up", "poisoned"}
  <2>1. ref \in Refs \union {None}
    BY <1>3, Zenon
  <2>. QED BY <1>1, <1>2, <1>4, <1>5, <1>6, <2>1, CommitFits, FailedCommitOfFits, Zenon
<1>. QED BY <1>1, <1>7, HandledEnd, Zenon

(* A row that is made fits: nothing refers to it yet. *)
LEMMA FitsEnrol ==
    ASSUME IInv, NEW s, Fits(s), NEW call, NEW ref \in Refs, Operation(call) \in Enrolments,
           ref.epoch = s.epoch, ref.generation \in NextGeneration(s, ref.owner, ref.instance),
           ~Fenced(s), s.inner[Operation(call)] = "absent",
           OwnerAdmissible(s, ref.owner), AttachmentAdmissible(s, ref.owner, ref.instance)
    PROVE  LET u == Enrol(s, call, ref)
           IN  /\ Fits(u) /\ <<"registration", ref>> \notin wire /\ ref \in Rows(u)
               /\ u.rows[ref].from = "registration" /\ u.rows[ref].registration = Operation(call)
               /\ u.inner[Operation(call)] = "started" /\ u.control = s.control
<1> DEFINE u == Enrol(s, call, ref)
<1>1. /\ Good(s) /\ Keeps(disk, s) /\ WorldOK(s, task, managed, wire) /\ managed \subseteq Refs
      /\ mode = "up" => LateOK(s, task, wire)
  BY Zenon DEF IInv, TypeOK, Fits
<1>2. /\ Follows(s, u) /\ s.rows[ref].phase = "absent"
      /\ u.rows[ref].phase = "pending_registration" /\ u.rows[ref].from = "registration"
      /\ u.rows[ref].registration = Operation(call) /\ u.inner[Operation(call)] = "started"
      /\ \A r \in Refs : r # ref => u.rows[r] = s.rows[r]
      /\ u.control = s.control /\ u.removals = s.removals
  BY <1>1, EnrolFollows, ZenonT(60)
<1> HIDE DEF u
<1>3. Good(u) /\ Keeps(s, u)
  BY <1>2, Zenon DEF Follows
<1>4. Keeps(disk, u)
  BY <1>1, <1>3, KeepsTransitive, Zenon
<1>5. s.rows[ref].from = "registration"
  <2>1. RowOK(s, ref)
    BY <1>1, Zenon DEF Good, RowsOK
  <2>. QED BY <1>2, <2>1, Zenon DEF RowOK
<1>6. \A r \in Refs : u.rows[r].from = s.rows[r].from
  BY <1>2, <1>5, Zenon
<1>7. ASSUME NEW c \in Calls PROVE TaskOK(u, task[c], managed, c)
  <2>1. TaskOK(s, task[c], managed, c)
    BY <1>1, Zenon DEF WorldOK
  <2>2. task[c].stage = "registration" => u.rows[task[c].ref].from = "registration"
    BY <1>6, <2>1, Zenon DEF TaskOK
  <2>. QED BY <1>1, <1>3, <2>1, <2>2, TaskKept, Zenon
<1>8. \A r \in managed : u.rows[r].phase \notin {"absent", "retired"}
  <2> SUFFICES ASSUME NEW r \in managed PROVE u.rows[r].phase \notin {"absent", "retired"}
    BY Zenon
  <2>1. s.rows[r].phase \notin {"absent", "retired"} /\ r \in Refs
    BY <1>1, Zenon DEF WorldOK
  <2>2. u.rows[r] = s.rows[r]
    BY <1>2, <2>1, Zenon
  <2>. QED BY <2>1, <2>2, Zenon
<1>9. \A r \in Refs : u.rows[r].phase = "attached" => r \in managed
  BY <1>1, <1>2, Zenon DEF WorldOK
<1>10. \A r \in Refs : <<"detachment", r>> \in wire => u.rows[r].from = "detachment"
  BY <1>1, <1>6, Zenon DEF WorldOK
<1>11. <<"registration", ref>> \notin wire
  BY <1>1, <1>2, Zenon DEF WorldOK
<1>12. ASSUME NEW r \in Refs, <<"registration", r>> \in wire
       PROVE  /\ u.rows[r].phase # "absent" /\ u.rows[r].from = "registration"
              /\ \A c \in Calls : task[c].stage = "registration" /\ task[c].ref = r => task[c].result = "failed"
  <2>1. /\ s.rows[r].phase # "absent" /\ s.rows[r].from = "registration"
        /\ \A c \in Calls : task[c].stage = "registration" /\ task[c].ref = r => task[c].result = "failed"
    BY <1>1, <1>12, Zenon DEF WorldOK
  <2>2. u.rows[r] = s.rows[r]
    BY <1>2, <2>1, Zenon
  <2>. QED BY <2>1, <2>2, Zenon
<1>13. WorldOK(u, task, managed, wire)
  BY <1>7, <1>8, <1>9, <1>10, <1>12, Zenon DEF WorldOK
<1>14. mode = "up" => LateOK(u, task, wire)
  <2>1. \A r \in Refs : <<"registration", r>> \in wire => u.rows[r] = s.rows[r]
    BY <1>2, <1>11, Zenon
  <2>. QED BY <1>1, <2>1, Zenon DEF LateOK
<1>15. Fits(u)
  BY <1>3, <1>4, <1>13, <1>14, Zenon DEF Fits
<1>16. ref \in Rows(u)
  BY <1>2, Zenon DEF Rows
<1>. QED BY <1>2, <1>11, <1>15, <1>16, Zenon DEF u

LEMMA PrepareRegistrationStep ==
    ASSUME IInv, NEW t \in Calls, PrepareRegistration(t)
    PROVE  IInv' /\ Keeps(disk, disk')
<1> DEFINE o == task[t].owner
           i == task[t].instance
           base == Admitted(t)
<1>1. PICK generation \in NextGeneration(base, o, i) :
          LET ref == [owner |-> o, epoch |-> base.epoch, instance |-> i, generation |-> generation]
              enrolled == Enrol(base, t, ref)
          IN  \/ /\ Commit(enrolled)
                 /\ task' = [task EXCEPT ![t].stage = IF t \in Attaches THEN "announcement" ELSE "registration",
                                         ![t].ref = ref, ![t].admitted = TRUE, ![t].result = "running"]
              \/ FailedCommit(disk, base) /\ End(t)
              \/ t \in Attaches /\ FailedCommitOf(base, enrolled, t, ref) /\ End(t)
              \/ FailedCommit(base, enrolled) /\ End(t)
              \/ CommitUncertain(enrolled, t, ref) /\ End(t)
  BY Zenon DEF PrepareRegistration
<1> DEFINE ref == [owner |-> o, epoch |-> base.epoch, instance |-> i, generation |-> generation]
           enrolled == Enrol(base, t, ref)
           stage == IF t \in Attaches THEN "announcement" ELSE "registration"
           x == [task[t] EXCEPT !.stage = stage, !.ref = ref, !.admitted = TRUE, !.result = "running"]
<1>2. /\ mode = "up" /\ task[t].stage \in {"identify", "announcement_identify"} /\ task[t].ref = None
      /\ Enrollable(base, t)
      /\ UNCHANGED <<managed, wire, config>>
  BY Zenon DEF PrepareRegistration, Acknowledged, Prepared
<1>3. \/ Commit(enrolled) /\ task' = [task EXCEPT ![t] = x]
      \/ FailedCommit(disk, base) /\ End(t)
      \/ t \in Attaches /\ FailedCommitOf(base, enrolled, t, ref) /\ End(t)
      \/ FailedCommit(base, enrolled) /\ End(t)
      \/ CommitUncertain(enrolled, t, ref) /\ End(t)
  BY <1>1, Zenon
<1>4. /\ TypeOK /\ Good(disk) /\ Fits(disk) /\ task[t] \in Tasks /\ TaskOK(disk, task[t], managed, t)
  BY FitsSelf, Zenon DEF IInv, TypeOK, WorldOK
<1>5. o \in Owners /\ i \in DOMAIN Names /\ t \in Registers \union Attaches
  BY <1>2, <1>4, Zenon DEF TaskOK
<1>6. /\ t \in Attaches => t \in Controls
      /\ t \notin Attaches => t \in Registers /\ t \notin Controls
      /\ Operation(t) = t /\ Operation(t) \in Enrolments
  <2>1. /\ t \in Attaches => t \in Controls
        /\ t \notin Attaches => t \in Registers /\ t \notin Controls
        /\ t \in Enrolments
    BY <1>5, NativeOwnersAssumption, Zenon DEF Controls, Enrolments
  <2>2. Operation(t) = t
    BY <2>1, OperationOf, Zenon
  <2>. QED BY <2>1, <2>2, Zenon
<1>7. Fits(base) /\ (t \in Attaches => base.control[t] # "absent")
  <2>1. CASE t \in Attaches /\ ~task[t].admitted
    <3>1. base = Admit(disk, t)
      BY <2>1, Zenon DEF Admitted
    <3>2. Quiet(disk, Admit(disk, t)) /\ Admit(disk, t).control[t] = "started"
      BY <1>4, <1>6, <2>1, AdmitQuiet, Zenon
    <3>3. Fits(Admit(disk, t))
      BY <1>4, <3>2, FitsQuiet, Zenon
    <3>. QED BY <3>1, <3>2, <3>3, Zenon
  <2>2. CASE ~(t \in Attaches /\ ~task[t].admitted)
    <3>1. base = disk
      BY <2>2, Zenon DEF Admitted
    <3>2. t \in Attaches => disk.control[t] # "absent"
      BY <1>4, <1>6, <2>2, Zenon DEF TaskOK
    <3>. QED BY <1>4, <3>1, <3>2, Zenon
  <2>. QED BY <2>1, <2>2, Zenon
<1> HIDE DEF base
<1>8. ref \in Refs /\ ref.owner = o /\ ref.epoch = base.epoch /\ ref.instance = i
      /\ ref.generation = generation
  <2>1. generation \in 1..MaxGeneration
    BY GenerationIsNew, Zenon
  <2>2. base.epoch \in Epochs
    BY <1>7, FieldTypes, Zenon DEF Fits, Good
  <2>. QED BY <1>5, <2>1, <2>2, Zenon DEF Refs
<1>9. /\ x \in Tasks /\ x.stage = stage /\ x.ref = ref /\ x.admitted = TRUE /\ x.result = "running"
  <2>1. stage \in {"registration", "announcement"}
    BY Zenon
  <2> HIDE DEF stage
  <2>. QED BY <1>4, <1>8, <2>1, Zenon DEF Tasks
<1> HIDE DEF x, ref
<1>10. /\ Fits(enrolled) /\ <<"registration", ref>> \notin wire /\ ref \in Rows(enrolled)
       /\ enrolled.rows[ref].from = "registration" /\ enrolled.rows[ref].registration = Operation(t)
       /\ enrolled.inner[Operation(t)] = "started" /\ enrolled.control = base.control
  <2>1. /\ ~Fenced(base) /\ base.inner[Operation(t)] = "absent"
        /\ OwnerAdmissible(base, ref.owner) /\ AttachmentAdmissible(base, ref.owner, ref.instance)
    BY <1>2, <1>8, Zenon DEF Enrollable
  <2>2. ref.generation \in NextGeneration(base, ref.owner, ref.instance)
    BY <1>8, Zenon
  <2>. QED BY <1>6, <1>7, <1>8, <2>1, <2>2, FitsEnrol, Zenon
<1> HIDE DEF enrolled
<1>11. Recorded(enrolled, t)
  BY <1>6, <1>7, <1>10, Zenon DEF Recorded
<1>12. CASE Commit(enrolled) /\ task' = [task EXCEPT ![t] = x]
  <2>1. Fits(disk') /\ disk' = enrolled /\ mode' = "up"
    BY <1>10, <1>12, CommitFits, Zenon
  <2>2. TaskOK(disk', x, managed, t)
    <3>1. CASE t \in Attaches
      <4>1. x.stage = "announcement"
        BY <1>9, <3>1, Zenon
      <4>. QED BY <1>6, <1>8, <1>9, <1>10, <1>11, <2>1, <3>1, <4>1, Zenon DEF TaskOK, Recorded
    <3>2. CASE t \notin Attaches
      <4>1. x.stage = "registration"
        BY <1>9, <3>2, Zenon
      <4>. QED BY <1>6, <1>8, <1>9, <1>10, <1>11, <2>1, <3>2, <4>1, Zenon DEF TaskOK, Recorded
    <3>. QED BY <3>1, <3>2, Zenon
  <2>. QED BY <1>2, <1>9, <1>10, <1>12, <2>1, <2>2, HandledTask, Zenon
<1>13. CASE /\ End(t)
            /\ \/ FailedCommit(disk, base) \/ FailedCommit(base, enrolled)
               \/ t \in Attaches /\ FailedCommitOf(base, enrolled, t, ref)
               \/ CommitUncertain(enrolled, t, ref)
  <2>1. ref \in Refs \union {None}
    BY <1>8, Zenon
  <2>2. t \in Attaches => Recorded(base, t)
    BY <1>6, <1>7, Zenon DEF Recorded
  <2>3. Fits(disk') /\ mode' \in {"up", "poisoned"}
    BY <1>4, <1>7, <1>10, <1>11, <1>13, <2>1, <2>2, FailedCommitFits, FailedCommitOfFits, CommitUncertainFits, Zenon
  <2>. QED BY <1>2, <1>13, <2>3, HandledEnd, Zenon
<1>. QED BY <1>3, <1>12, <1>13, Zenon

-----------------------------------------------------------------------------
(* Removals. *)

(* A registry that names an epoch names no other. *)
LEMMA EndedConfig ==
    ASSUME NEW s, RemovalReady(s), NEW c, c \in {<<"pending_remove", s.epoch>>, <<"removed", s.epoch>>}
    PROVE  ConfigOK(s, c)
<1> SUFFICES ASSUME NEW e \in Epochs, c \in {<<"pending_remove", e>>, <<"removed", e>>}
             PROVE  /\ s.removals[e].phase # "none"
                    /\ \A o \in Owners : s.owners[o][e] \in {"absent", "retired"}
  BY Zenon DEF ConfigOK
<1>1. e = s.epoch
  OBVIOUS
<1>. QED BY <1>1, Zenon DEF RemovalReady, Fenced

(* The end of a removal, from a snapshot that fits. *)
LEMMA FinishRemovalStep ==
    ASSUME IInv, mode = "up", NEW s, Fits(s), Fenced(s), NEW m \in Removals, NEW ref \in Refs \union {None},
           s.control[m] # "absent", task[m].stage # "registration", managed' = managed, wire' = wire,
           FinishRemoval(s, m, ref)
    PROVE  IInv' /\ Keeps(disk, disk')
<1> DEFINE retired == RetireOwners(s)
           pending == CompleteControl(retired, m)
           removed == Removed(retired, m)
<1>1. /\ TypeOK /\ Good(s) /\ m \in Controls /\ m \in Calls /\ config \in Registries
  BY Zenon DEF IInv, TypeOK, Fits, Controls, Calls
<1>2. Quiet(s, retired) /\ retired.epoch = s.epoch /\ retired.removals = s.removals
      /\ retired.control = s.control
  BY <1>1, RetireQuiet, Zenon
<1>3. /\ End(m)
      /\ \/ (Commit(pending) \/ FailedCommitOf(s, pending, m, ref)) /\ config' = config
         \/ FailedCommitOf(s, retired, m, ref) /\ config' = config
         \/ /\ RemovalReady(retired) /\ CommitUncertain(retired, m, ref)
            /\ config' \in {config, <<"pending_remove", s.epoch>>}
         \/ /\ RemovalReady(retired) /\ s.epoch < MaxEpoch /\ config' = <<"removed", s.epoch>>
            /\ Commit(removed) \/ FailedCommitOf(retired, removed, m, ref)
  BY Zenon DEF FinishRemoval
<1> HIDE DEF retired
<1>4. Good(retired) /\ Fits(retired)
  BY <1>1, <1>2, FitsQuiet, Zenon DEF Quiet
<1>5. Fits(pending)
  BY <1>1, <1>4, CompleteControlQuiet, FitsQuiet, Zenon
<1>6. RemovalReady(retired) /\ s.epoch < MaxEpoch => Quiet(retired, removed) /\ Fits(removed)
  <2>1. RemovalReady(retired) /\ s.epoch < MaxEpoch => Quiet(retired, removed)
    BY <1>2, <1>4, RemovedQuiet, Zenon
  <2>. QED BY <1>1, <1>4, <2>1, FitsQuiet, Zenon
<1>7. Recorded(s, m) /\ Recorded(retired, m)
  BY <1>1, <1>2, Zenon DEF Recorded
<1>8. Quiet(retired, Uncertain(retired, m, ref))
  BY <1>1, <1>4, <1>7, UncertainQuiet, Zenon DEF Recorded
<1>9. s.epoch \in Epochs
  BY <1>1, FieldTypes, Zenon DEF Good
<1> HIDE DEF pending, removed
<1>10. CASE /\ config' = config
            /\ Commit(pending) \/ FailedCommitOf(s, pending, m, ref) \/ FailedCommitOf(s, retired, m, ref)
  <2>1. Fits(disk') /\ mode' \in {"up", "poisoned"}
    BY <1>1, <1>4, <1>5, <1>7, <1>10, CommitFits, FailedCommitOfFits, Zenon
  <2>. QED BY <1>1, <1>3, <1>10, <2>1, HandledEnd, Zenon
<1>11. CASE /\ RemovalReady(retired) /\ CommitUncertain(retired, m, ref)
            /\ config' \in {config, <<"pending_remove", s.epoch>>}
  <2>1. Fits(disk') /\ mode' \in {"up", "poisoned"}
    BY <1>1, <1>4, <1>7, <1>11, CommitUncertainFits, Zenon
  <2>2. disk' = retired \/ disk' = Uncertain(retired, m, ref)
    BY <1>11, Zenon DEF CommitUncertain, Commit, FailedCommit
  <2>3. Keeps(retired, disk')
    BY <1>4, <1>8, <2>2, QuietSelf, Zenon DEF Quiet
  <2>4. ConfigOK(retired, config')
    BY <1>2, <1>4, <1>11, EndedConfig, FitsConfig, Zenon
  <2>5. ConfigOK(disk', config')
    BY <2>3, <2>4, KeepsConfig, Zenon
  <2>6. config' \in Registries
    BY <1>1, <1>9, <1>11 DEF Registries, RegistryRecords
  <2>. QED BY <1>1, <1>3, <2>1, <2>5, <2>6, StepEnd, Zenon
<1>12. CASE /\ RemovalReady(retired) /\ s.epoch < MaxEpoch /\ config' = <<"removed", s.epoch>>
            /\ Commit(removed) \/ FailedCommitOf(retired, removed, m, ref)
  <2>1. Fits(disk') /\ mode' \in {"up", "poisoned"}
    BY <1>1, <1>4, <1>6, <1>7, <1>12, CommitFits, FailedCommitOfFits, Zenon
  <2>2. disk' = retired \/ disk' = removed \/ disk' = Uncertain(retired, m, ref)
    BY <1>12, Zenon DEF Commit, FailedCommitOf
  <2>3. Keeps(retired, disk')
    BY <1>4, <1>6, <1>8, <1>12, <2>2, QuietSelf, Zenon DEF Quiet
  <2>4. ConfigOK(retired, config')
    BY <1>2, <1>12, EndedConfig, Zenon
  <2>5. ConfigOK(disk', config')
    BY <2>3, <2>4, KeepsConfig, Zenon
  <2>6. config' \in Registries
    BY <1>9, <1>12, Zenon DEF Registries, RegistryRecords
  <2>. QED BY <1>1, <1>3, <2>1, <2>5, <2>6, StepEnd, Zenon
<1>. QED BY <1>3, <1>10, <1>11, <1>12, Zenon

(* The next detach of a removal fits. *)
LEMMA FitsBegun ==
    ASSUME TypeOK, NEW s, Fits(s), Fenced(s), NEW next \in NextDetaches(s)
    PROVE  /\ next \in Refs /\ Fits(Begun(s, next)) /\ Begun(s, next).rows[next].from = "detachment"
           /\ Begun(s, next).control = s.control
<1>1. Good(s)
  BY Zenon DEF Fits
<1>2. /\ next \in Refs /\ next.epoch = s.epoch /\ DetachAdmissible(s.rows[next])
      /\ ~NativeRequestsPending(s, next)
  BY Zenon DEF NextDetaches, Rows
<1>3. /\ Child(s) \in DetachOperations /\ Child(s) \notin Detaches
      /\ Child(s) = ChildOf(s.removals[next.epoch].operation)
  BY <1>1, <1>2, ChildTyped, NativeOwnersAssumption, Zenon DEF Child
<1>4. /\ Quiet(s, Begun(s, next)) /\ Begun(s, next).rows[next].from = "detachment"
      /\ Begun(s, next).control = s.control
  BY <1>1, <1>2, <1>3, BeginDetachQuiet, Zenon DEF Begun
<1>5. Fits(Begun(s, next))
  BY <1>4, FitsQuiet, Zenon
<1>. QED BY <1>2, <1>4, <1>5, Zenon

(* A removal goes on, from a snapshot that fits. *)
LEMMA AdvanceRemovalStep ==
    ASSUME IInv, mode = "up", NEW s, Fits(s), Fenced(s), NEW m \in Removals, NEW ref \in Refs \union {None},
           s.control[m] # "absent", task[m].stage # "registration", UNCHANGED <<managed, wire>>,
           AdvanceRemoval(s, m, ref)
    PROVE  IInv' /\ Keeps(disk, disk')
<1>1. CASE \E next \in NextDetaches(s) : /\ Commit(Begun(s, next))
                                         /\ task' = [task EXCEPT ![m] = Detaching(next)]
                                         /\ UNCHANGED config
  <2>1. PICK next \in NextDetaches(s) : /\ Commit(Begun(s, next))
                                        /\ task' = [task EXCEPT ![m] = Detaching(next)]
                                        /\ UNCHANGED config
    BY <1>1, Zenon
  <2>2. TypeOK /\ m \in Calls /\ m \in Detaches \union Removals
    BY Zenon DEF IInv, Calls, Controls
  <2>3. /\ next \in Refs /\ Fits(Begun(s, next)) /\ Begun(s, next).rows[next].from = "detachment"
        /\ Begun(s, next).control = s.control
    BY <2>2, FitsBegun, Zenon
  <2>4. Fits(disk') /\ disk' = Begun(s, next) /\ mode' = "up"
    BY <2>1, <2>3, CommitFits, Zenon
  <2>5. disk'.rows[next].from = "detachment" /\ disk'.control[m] # "absent"
    BY <2>3, <2>4, Zenon
  <2>6. /\ Detaching(next) \in Tasks /\ Detaching(next).stage = "detachment"
        /\ TaskOK(disk', Detaching(next), managed, m)
    BY <2>2, <2>3, <2>5, DetachingOK, Zenon
  <2>. QED BY <2>1, <2>2, <2>4, <2>6, HandledTask, Zenon
<1>2. CASE FinishRemoval(s, m, ref)
  BY <1>2, FinishRemovalStep, Zenon
<1>. QED BY <1>1, <1>2, Zenon DEF AdvanceRemoval

LEMMA StartRemovalStep ==
    ASSUME IInv, NEW m \in Removals, StartRemoval(m)
    PROVE  IInv' /\ Keeps(disk, disk')
<1> DEFINE admitted == Admit(disk, m)
           fenced == BeginApplicationRemoval(admitted, m)
           done == CompleteControl(fenced, m)
<1>1. /\ mode = "up" /\ task[m].stage # "registration" /\ UNCHANGED <<managed, wire>>
      /\ m \in Controls /\ m \in Calls /\ disk.control[m] = "absent"
  BY Zenon DEF StartRemoval, Startable, Controls, Calls
<1>2. \/ (FailedCommit(disk, admitted) \/ FailedCommit(admitted, fenced)) /\ UNCHANGED <<task, config>>
      \/ (Commit(done) \/ FailedCommit(fenced, done)) /\ UNCHANGED <<task, config>>
      \/ /\ \E next \in NextDetaches(fenced) :
                 Commit(Begun(fenced, next)) \/ FailedCommit(fenced, Begun(fenced, next))
         /\ UNCHANGED <<task, config>>
      \/ AdvanceRemoval(fenced, m, None)
  BY Zenon DEF StartRemoval
<1>3. TypeOK /\ Good(disk) /\ Fits(disk)
  BY FitsSelf, Zenon DEF IInv
<1>4. Quiet(disk, admitted) /\ admitted.control[m] = "started"
  BY <1>1, <1>3, AdmitQuiet, Zenon
<1> HIDE DEF admitted
<1>5. Good(admitted) /\ Fits(admitted)
  BY <1>3, <1>4, FitsQuiet, Zenon DEF Quiet
<1>6. Quiet(admitted, fenced) /\ Fenced(fenced) /\ fenced.control = admitted.control
  BY <1>5, FenceQuiet, Zenon
<1> HIDE DEF fenced
<1>7. Good(fenced) /\ Fits(fenced) /\ fenced.control[m] # "absent"
  <2>1. Good(fenced) /\ Fits(fenced)
    BY <1>3, <1>5, <1>6, FitsQuiet, Zenon DEF Quiet
  <2>2. fenced.control[m] # "absent"
    BY <1>4, <1>6, Zenon
  <2>. QED BY <2>1, <2>2, Zenon
<1>8. Fits(done)
  BY <1>1, <1>3, <1>7, CompleteControlQuiet, FitsQuiet, Zenon
<1> HIDE DEF done
<1>9. CASE /\ UNCHANGED <<task, config>>
           /\ \/ FailedCommit(disk, admitted) \/ FailedCommit(admitted, fenced)
              \/ Commit(done) \/ FailedCommit(fenced, done)
              \/ \E next \in NextDetaches(fenced) :
                     Commit(Begun(fenced, next)) \/ FailedCommit(fenced, Begun(fenced, next))
  <2>1. \A next \in NextDetaches(fenced) : Fits(Begun(fenced, next))
    BY <1>3, <1>6, <1>7, FitsBegun, Zenon
  <2>2. Fits(disk') /\ mode' \in {"up", "poisoned"}
    BY <1>3, <1>5, <1>7, <1>8, <1>9, <2>1, CommitFits, FailedCommitFits, Zenon
  <2>. QED BY <1>1, <1>9, <2>2, HandledHere, Zenon
<1>10. CASE AdvanceRemoval(fenced, m, None)
  <2>1. None \in Refs \union {None}
    BY Zenon
  <2>. QED BY <1>1, <1>6, <1>7, <1>10, <2>1, AdvanceRemovalStep, Zenon
<1>. QED BY <1>2, <1>9, <1>10, Zenon

LEMMA FinishRemovalDetachStep ==
    ASSUME IInv, NEW m \in Calls, FinishRemovalDetach(m)
    PROVE  IInv' /\ Keeps(disk, disk')
<1> DEFINE ref == task[m].ref
           op == Child(disk)
           detached == CompleteDetach(disk, ref, op)
<1>1. /\ mode = "up" /\ task[m].stage = "detachment" /\ task[m].result = "acknowledged" /\ m \in Removals
      /\ DetachCompletable(disk, ref, op) /\ UNCHANGED <<managed, wire>>
  BY Zenon DEF FinishRemovalDetach, Acknowledged
<1>2. \/ /\ \/ FailedCommitOf(disk, detached, m, ref)
            \/ \E next \in NextDetaches(detached) :
                  \/ CommitUncertain(Begun(detached, next), m, next)
                  \/ FailedCommitOf(detached, Begun(detached, next), m, next)
         /\ End(m) /\ UNCHANGED config
      \/ AdvanceRemoval(detached, m, ref)
  BY Zenon DEF FinishRemovalDetach
<1>3. /\ TypeOK /\ Good(disk) /\ Fits(disk) /\ TaskOK(disk, task[m], managed, m) /\ m \in Controls
  BY <1>1, FitsSelf, Zenon DEF IInv, WorldOK, Controls
<1>4. ref \in Refs /\ ref \in Refs \union {None} /\ task[m].admitted /\ disk.control[m] # "absent"
  BY <1>1, <1>3, Zenon DEF TaskOK
<1>5. Fenced(disk) /\ op \in DetachOperations
  <2>1. disk.rows[ref].detach = op
    BY <1>1, Zenon DEF DetachCompletable
  <2>2. op \in DetachOperations \union {None}
    <3>1. disk \in Snapshots
      BY <1>3, Zenon DEF Good
    <3>2. disk.rows[ref].detach \in DetachOperations \union {None}
      BY <1>4, <3>1, FieldTypes, Zenon
    <3>. QED BY <2>1, <3>2, Zenon
  <2>3. ASSUME ~Fenced(disk) PROVE FALSE
    <3>1. disk.epoch \in Epochs
      BY <1>3, FieldTypes, Zenon DEF Good
    <3>2. op = ChildOf(None)
      BY <1>3, <2>3, <3>1, Zenon DEF Fenced, Good, OwnersOK, Child
    <3>3. ChildOf(None) \notin Children
      BY NativeOwnersAssumption, Zenon DEF Children, ChildOf
    <3>. QED BY <2>2, <3>2, <3>3, NativeOwnersAssumption, Zenon DEF DetachOperations
  <2>. QED BY <1>3, <2>3, ChildTyped, Zenon
<1>6. Fits(detached) /\ detached.removals = disk.removals /\ detached.control = disk.control
      /\ detached.epoch = disk.epoch
  BY <1>1, <1>5, FitsDetach, Zenon
<1> HIDE DEF detached
<1>7. Fenced(detached) /\ detached.control[m] # "absent"
  BY <1>4, <1>5, <1>6, Zenon DEF Fenced
<1>8. CASE /\ \/ FailedCommitOf(disk, detached, m, ref)
              \/ \E next \in NextDetaches(detached) :
                    \/ CommitUncertain(Begun(detached, next), m, next)
                    \/ FailedCommitOf(detached, Begun(detached, next), m, next)
           /\ End(m) /\ UNCHANGED config
  <2>1. \A next \in NextDetaches(detached) : /\ next \in Refs \union {None} /\ Fits(Begun(detached, next))
                                             /\ Recorded(Begun(detached, next), m)
    <3> SUFFICES ASSUME NEW next \in NextDetaches(detached)
                 PROVE  /\ next \in Refs \union {None} /\ Fits(Begun(detached, next))
                        /\ Recorded(Begun(detached, next), m)
      BY Zenon
    <3>1. next \in Refs /\ Fits(Begun(detached, next)) /\ Begun(detached, next).control = detached.control
      BY <1>3, <1>6, <1>7, FitsBegun, Zenon
    <3>. QED BY <1>3, <1>7, <3>1, Zenon DEF Recorded
  <2>2. Recorded(disk, m) /\ Recorded(detached, m)
    BY <1>3, <1>4, <1>7, Zenon DEF Recorded
  <2>3. Fits(disk') /\ mode' \in {"up", "poisoned"}
    BY <1>3, <1>4, <1>6, <1>8, <2>1, <2>2, FailedCommitOfFits, CommitUncertainFits, Zenon
  <2>. QED BY <1>1, <1>8, <2>3, HandledEnd, Zenon
<1>9. CASE AdvanceRemoval(detached, m, ref)
  <2>1. task[m].stage # "registration"
    BY <1>1, Zenon
  <2>. QED BY <1>1, <1>4, <1>6, <1>7, <1>9, <2>1, AdvanceRemovalStep, Zenon
<1>. QED BY <1>2, <1>8, <1>9, Zenon

-----------------------------------------------------------------------------
(* The specification. *)

LEMMA InitOK == Init => IInv
<1> SUFFICES ASSUME Init PROVE IInv
  BY Zenon
<1>1. /\ disk.owners = [o \in Owners |-> [e \in Epochs |-> "absent"]] /\ disk.rows = [ref \in Refs |-> NoRow]
      /\ disk.removals = [e \in Epochs |-> [phase |-> "none", operation |-> None]]
      /\ disk.control = [op \in Controls |-> "absent"] /\ disk.inner = [op \in Enrolments |-> "absent"]
      /\ disk.credits = {} /\ disk.bindings = {} /\ disk.leases = {}
      /\ task = [t \in Calls |-> NoTask] /\ managed = {} /\ wire = {} /\ config = None
  BY Zenon DEF Init
<1>2. NoRow \in Attachments /\ NoRow.phase = "absent" /\ NoRow.detach = None /\ NoRow.from = "registration"
  BY Zenon DEF NoRow, Attachments, Phases
<1>3. /\ \A ref \in Refs : disk.rows[ref] = NoRow
      /\ \A o \in Owners : \A e \in Epochs : disk.owners[o][e] = "absent"
      /\ \A e \in Epochs : disk.removals[e].phase = "none" /\ disk.removals[e].operation = None
      /\ \A op \in Controls : disk.control[op] = "absent"
      /\ \A op \in Enrolments : disk.inner[op] = "absent"
  BY <1>1
<1>4. disk \in Snapshots
  <2>1. 1 \in Epochs /\ None \in Registries
    BY NativeOwnersAssumption DEF Epochs, Registries, RegistryRecords
  <2>2. /\ [o \in Owners |-> [e \in Epochs |-> "absent"]]
               \in [Owners -> [Epochs -> {"absent", "open", "closing", "retired"}]]
        /\ [ref \in Refs |-> NoRow] \in [Refs -> Attachments]
        /\ [e \in Epochs |-> [phase |-> "none", operation |-> None]]
               \in [Epochs -> [phase : {"none", "pending", "retired"}, operation : Removals \union {None}]]
        /\ [op \in Controls |-> "absent"] \in [Controls -> RecordStates]
        /\ [op \in Enrolments |-> "absent"] \in [Enrolments -> RecordStates]
    BY <1>2, Zenon DEF RecordStates
  <2>. QED BY <2>1, <2>2, Zenon DEF Init, Snapshots
<1>5. Rows(disk) = {}
  BY <1>2, <1>3, Zenon DEF Rows
<1>6. RowsOK(disk)
  BY <1>2, <1>3, Zenon DEF RowsOK, RowOK
<1>7. PairsOK(disk) /\ InnerOK(disk)
  BY <1>3, <1>5, Zenon DEF PairsOK, InnerOK
<1>8. CreditsOK(disk)
  <2>1. None \notin DetachOperations
    BY NativeOwnersAssumption, Zenon DEF DetachOperations
  <2>. QED BY <1>1, <1>2, <1>3, <2>1 DEF CreditsOK, Unfinished
<1>9. OwnersOK(disk)
  BY <1>3, Zenon DEF OwnersOK
<1>10. WorkOK(disk)
  BY <1>1, Zenon DEF WorkOK
<1>11. Good(disk)
  BY <1>4, <1>6, <1>7, <1>8, <1>9, <1>10, Zenon DEF Good
<1>12. TypeOK
  <2>1. task \in [Calls -> Tasks]
    BY <1>1, NoTaskTyped, Zenon
  <2>2. mode \in {"up", "poisoned", "down"} /\ config \in Registries
    BY <1>1, Zenon DEF Init, Registries, RegistryRecords
  <2>. QED BY <1>1, <1>4, <2>1, <2>2, Zenon DEF TypeOK
<1>13. WorldOK(disk, task, managed, wire)
  <2>1. \A t \in Calls : TaskOK(disk, task[t], managed, t)
    BY <1>1, NoTaskOK, Zenon
  <2>2. \A ref \in Refs : disk.rows[ref].phase # "attached"
    BY <1>2, <1>3, Zenon
  <2>. QED BY <1>1, <2>1, <2>2, Zenon DEF WorldOK
<1>14. LateOK(disk, task, wire)
  BY <1>1, Zenon DEF LateOK
<1>15. ConfigOK(disk, config)
  <2>1. \A e \in Epochs : None \notin {<<"pending_remove", e>>, <<"removed", e>>}
    BY NativeOwnersAssumption DEF RegistryRecords
  <2>. QED BY <1>1, <2>1, Zenon DEF ConfigOK
<1>. QED BY <1>11, <1>12, <1>13, <1>14, <1>15, Zenon DEF IInv

(* Every step keeps the invariant, and what was committed. *)
LEMMA NextStep ==
    ASSUME IInv, [Next]_vars
    PROVE  IInv' /\ Keeps(disk, disk')
<1>1. CASE UNCHANGED vars
  <2>1. /\ disk' = disk /\ mode' = mode /\ task' = task /\ managed' = managed /\ wire' = wire /\ config' = config
    BY <1>1, Zenon DEF vars
  <2>2. IInv'
    <3>1. TypeOK'
      BY <2>1, Zenon DEF IInv, TypeOK
    <3>2. Good(disk') /\ WorldOK(disk', task', managed', wire') /\ ConfigOK(disk', config')
      BY <2>1, Zenon DEF IInv
    <3>3. mode' = "up" => LateOK(disk', task', wire')
      BY <2>1, Zenon DEF IInv
    <3>. QED BY <3>1, <3>2, <3>3, Zenon DEF IInv
  <2>3. Keeps(disk, disk')
    BY <2>1, QuietSelf, Zenon DEF IInv, Quiet
  <2>. QED BY <2>2, <2>3, Zenon
<1>2. CASE Install \/ Crash \/ Restart
  BY <1>2, InstallStep, CrashStep, RestartStep, Zenon
<1>3. ASSUME NEW r \in Registers, NEW o \in Owners, NEW i \in DOMAIN Names, StartRegister(r, o, i)
      PROVE  IInv' /\ Keeps(disk, disk')
  BY <1>3, StartRegisterStep, Zenon
<1>4. ASSUME NEW a \in Attaches, StartCallback(a) \/ RefuseSelected(a)
      PROVE  IInv' /\ Keeps(disk, disk')
  BY <1>4, StartCallbackStep, RefuseSelectedStep, Zenon
<1>5. ASSUME NEW a \in Attaches, NEW o \in Owners, NEW i \in DOMAIN Names, NEW selected \in BOOLEAN,
             StartAttach(a, o, i, selected)
      PROVE  IInv' /\ Keeps(disk, disk')
  BY <1>5, StartAttachStep, Zenon
<1>6. ASSUME NEW d \in Detaches, NEW ref \in Refs, StartDetach(d, ref)
      PROVE  IInv' /\ Keeps(disk, disk')
  BY <1>6, StartDetachStep, Zenon
<1>7. ASSUME NEW m \in Removals, StartRemoval(m)
      PROVE  IInv' /\ Keeps(disk, disk')
  BY <1>7, StartRemovalStep, Zenon
<1>8. ASSUME NEW t \in Calls, Acknowledge(t) \/ Timeout(t) \/ FailTask(t)
      PROVE  IInv' /\ Keeps(disk, disk')
  BY <1>8, AcknowledgeStep, TimeoutStep, FailTaskStep, Zenon
<1>9. ASSUME NEW request \in wire, LateEffect(request)
      PROVE  IInv' /\ Keeps(disk, disk')
  BY <1>9, LateEffectStep, Zenon
<1>10. ASSUME NEW t \in Calls, PrepareRegistration(t) \/ PrepareCallback(t)
       PROVE  IInv' /\ Keeps(disk, disk')
  BY <1>10, PrepareRegistrationStep, PrepareCallbackStep, Zenon
<1>11. ASSUME NEW t \in Calls, FinishRegistration(t) \/ FinishAnnouncement(t)
       PROVE  IInv' /\ Keeps(disk, disk')
  BY <1>11, FinishRegistrationStep, FinishAnnouncementStep, Zenon
<1>12. ASSUME NEW t \in Calls, FinishDetach(t) \/ FinishRemovalDetach(t)
       PROVE  IInv' /\ Keeps(disk, disk')
  BY <1>12, FinishDetachStep, FinishRemovalDetachStep, Zenon
<1>13. ASSUME NEW ref \in Refs, Acquire(ref) \/ Report(ref) \/ ReleaseBinding(ref)
       PROVE  IInv' /\ Keeps(disk, disk')
  BY <1>13, AcquireStep, ReportStep, ReleaseBindingStep, Zenon
<1>. QED
  BY <1>1, <1>2, <1>3, <1>4, <1>5, <1>6, <1>7, <1>8, <1>9, <1>10, <1>11, <1>12, <1>13, Zenon DEF Next

(* The ledgers, the tasks of the engine and what the owners manage agree   *)
(* in every reachable state, with messages lost or late, failed commits    *)
(* and restarts included.                                                  *)
THEOREM Invariance == Spec => []IInv
<1>1. IInv /\ [Next]_vars => IInv'
  BY NextStep, Zenon
<1>. QED BY <1>1, InitOK, PTL DEF Spec

(* A registration that may still reach its owner has a row that was not    *)
(* retired, as a row is retired only when its detach was acknowledged, and *)
(* finishNativeRemoval touches the configuration of an epoch only when all *)
(* its owners are retired; so a thread that is managed, or may come to be, *)
(* has custody.                                                            *)
THEOREM CustodyKept == Spec => []ManagedHasCustody
<1>1. IInv => ManagedHasCustody
  <2> SUFFICES ASSUME IInv,
                      NEW ref \in managed \union {request[2] : request \in {w \in wire : w[1] = "registration"}}
               PROVE  /\ disk.rows[ref].phase \notin {"absent", "retired"}
                      /\ config \notin {<<"pending_remove", ref.epoch>>, <<"removed", ref.epoch>>}
    BY Zenon DEF ManagedHasCustody
  <2>1. /\ Good(disk) /\ WorldOK(disk, task, managed, wire) /\ ConfigOK(disk, config)
        /\ managed \subseteq Refs /\ wire \subseteq {"registration", "detachment"} \X Refs
    BY Zenon DEF IInv, TypeOK
  <2>2. ref \in Refs /\ (ref \in managed \/ <<"registration", ref>> \in wire)
    BY <2>1
  <2>3. RowOK(disk, ref) /\ ref.owner \in Owners /\ ref.epoch \in Epochs
    BY <2>1, <2>2, FieldTypes, Zenon DEF Good, RowsOK
  <2>4. disk.rows[ref].phase \notin {"absent", "retired"}
    <3>1. CASE ref \in managed
      BY <2>1, <3>1, Zenon DEF WorldOK
    <3>2. CASE <<"registration", ref>> \in wire
      <4>1. disk.rows[ref].phase # "absent" /\ disk.rows[ref].from = "registration"
        BY <2>1, <2>2, <3>2, Zenon DEF WorldOK
      <4>. QED BY <2>3, <4>1, Zenon DEF RowOK
    <3>. QED BY <2>2, <3>1, <3>2, Zenon
  <2>5. ASSUME config \in {<<"pending_remove", ref.epoch>>, <<"removed", ref.epoch>>} PROVE FALSE
    <3>1. disk.owners[ref.owner][ref.epoch] \in {"absent", "retired"}
      BY <2>1, <2>3, <2>5, Zenon DEF ConfigOK
    <3>. QED BY <2>3, <2>4, <3>1, Zenon DEF RowOK
  <2>. QED BY <2>4, <2>5, Zenon
<1>. QED BY <1>1, Invariance, PTL

(* completeRegistration attaches a row only on the owner's acknowledgement *)
(* and a detach, of whatever fate, first takes it out of attached; so the  *)
(* owner of an attached row manages its thread.                            *)
THEOREM AttachedManaged == Spec => []AttachedIsManaged
<1>1. IInv => AttachedIsManaged
  BY Zenon DEF IInv, WorldOK, AttachedIsManaged, Rows
<1>. QED BY <1>1, Invariance, PTL

(* Every snapshot a handler commits, or may have committed when it failed, *)
(* passes fromSnapshot, validateNativeAttribution and the native part of   *)
(* validatePersistedAdmission.                                             *)
THEOREM SnapshotsRestorable == Spec => []CommittedSnapshotRestorable
<1>1. IInv => CommittedSnapshotRestorable
  BY GoodRestorable, Zenon DEF IInv, CommittedSnapshotRestorable
<1>. QED BY <1>1, Invariance, PTL

(* beginDetach is refused while nativeRequestsPending finds a lease of the *)
(* row, so the row of a lease is attached, or was when it came into doubt. *)
THEOREM WorkAttached == Spec => []WorkKeepsAttachment
<1>1. IInv => WorkKeepsAttachment
  BY Zenon DEF IInv, Good, WorkOK, WorkKeepsAttachment
<1>. QED BY <1>1, Invariance, PTL

(* Behind the fence of beginApplicationRemoval no step admits an owner, an *)
(* attachment or a lease, also for a task whose owner was identified       *)
(* before the fence was committed.                                         *)
THEOREM FenceHolds == Spec => FencedEpochAdmitsNothing
<1>1. ASSUME IInv, [Next]_vars
      PROVE  \A e \in Epochs : disk.removals[e].phase # "none" =>
                /\ \A o \in Owners : disk.owners[o][e] = "absent" => disk'.owners[o][e] = "absent"
                /\ \A ref \in Refs : ref.epoch = e =>
                       /\ disk.rows[ref].phase = "absent" => disk'.rows[ref].phase = "absent"
                       /\ ref \in disk'.leases => ref \in disk.leases
  <2>1. Keeps(disk, disk')
    BY <1>1, NextStep, Zenon
  <2>. QED BY <2>1, Zenon DEF Keeps
<1>. QED BY <1>1, Invariance, PTL DEF Spec, FencedEpochAdmitsNothing

(* No step forgets a row, gives it to another operation, or changes it     *)
(* once it is retired.                                                     *)
THEOREM RowsKept == Spec => RowsAreNeverRecycled
<1>1. ASSUME IInv, [Next]_vars
      PROVE  \A ref \in Rows(disk) :
                /\ disk'.rows[ref].registration = disk.rows[ref].registration
                /\ disk'.rows[ref].phase # "absent"
                /\ disk.rows[ref].phase = "retired" => disk'.rows[ref] = disk.rows[ref]
  <2>1. Keeps(disk, disk')
    BY <1>1, NextStep, Zenon
  <2>. QED BY <2>1, Zenon DEF Keeps
<1>. QED BY <1>1, Invariance, PTL DEF Spec, RowsAreNeverRecycled

=============================================================================
