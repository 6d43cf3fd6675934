------------------------------ MODULE Imports ------------------------------
(***************************************************************************)
(* Credential imports (engine.zig): an import admits a job and its outcome *)
(* credit durably, asks the provider who the credential belongs to, and    *)
(* turns the answer, which may come late or after a restart, into an       *)
(* account and a grant.  Sources detach, come back and are disconnected,   *)
(* accounts are forgotten, and newer imports replace older ones meanwhile. *)
(*                                                                         *)
(* Every handler runs alone on the actor and leaves memory equal to what   *)
(* it committed: a failure reads the committed state back, and a failed    *)
(* commit stops all further service until a restart.  So the ledgers are   *)
(* one committed record, and only the reads in flight are process-local.   *)
(***************************************************************************)
EXTENDS Naturals, FiniteSets

CONSTANTS
    Sources,       \* native credential stores
    Identities,    \* the accounts the provider may name
    MaxReads,      \* most pending imports at once
    MaxAuthority,  \* bound: generations of a source's authority
    MaxJob,        \* bound: generations of a job
    MaxForgets,    \* bound: forgotten accounts
    MaxPolls       \* bound: observation polls

ASSUME ImportsAssumption ==
    /\ {MaxReads, MaxAuthority, MaxJob, MaxForgets, MaxPolls} \subseteq Nat
    /\ MaxAuthority # 0

VARIABLES
    db,       \* the committed snapshot
    reads,    \* pending_imports: identity reads in flight in this process
    polls,    \* observation_credits: observation polls in flight
    asked,    \* observation polls admitted so far
    stale,    \* history: reads whose source was revoked or that were replaced
    forgot    \* history: the forget epoch in which an identity was last forgotten

vars == <<db, reads, polls, asked, stale, forgot>>

(* importJobRunning. *)
Running(d, r) == d.job[r.source] = [generation |-> r.job, status |-> "running"]

-----------------------------------------------------------------------------
(* Ledger operations, on a snapshot. *)

(* retireImportCredits. *)
RetireImports(d, s, through) ==
    [d EXCEPT !.imports = {c \in @ : ~(c.source = s /\ c.job <= through)}]

(* Mutation of FailJob: the job fails and keeps its outcome credit. *)
FailJobKeepingCredit(d, r) ==
    [d EXCEPT !.job[r.source].status = IF Running(d, r) THEN "failed" ELSE @]

(* failImportJob: settle the read's job if it is still the current one and *)
(* release the read's own credit if it is still held.                      *)
FailJob(d, r) ==
    [d EXCEPT !.job[r.source].status = IF Running(d, r) THEN "failed" ELSE @,
              !.imports = {c \in @ : ~(c.source = r.source /\ c.job = r.job)}]

(* advanceImportSource: nothing happens before the source's first import. *)
Advance(d, s) ==
    IF d.authority[s] = 0 THEN d
    ELSE RetireImports(
            [d EXCEPT !.authority[s] = @ + 1,
                      !.samples = {c \in @ : c.source # s},
                      !.job[s].status = IF @ = "running" THEN "failed" ELSE @],
            s, d.job[s].generation)

AdvanceFits(d, s) == d.authority[s] < MaxAuthority

(* connectImportSource, detachImportSource and disconnectImportSource. *)
Connect(d, s) == [Advance(d, s) EXCEPT !.source[s] = "connected"]

Detach(d, s) == [Advance(d, s) EXCEPT !.source[s] = "detached"]

Disconnect(d, s) ==
    [Advance(d, s) EXCEPT !.source[s] = "disconnected",
                          !.grant[s] = [i \in Identities |-> [@[i] EXCEPT !.ready = FALSE]]]

-----------------------------------------------------------------------------
(* queueImportMode. *)

Read(d, s, allow) ==
    [source |-> s, allow |-> allow, authority |-> d.authority[s],
     job |-> d.job[s].generation, epoch |-> d.epoch]

(* A read in flight that the new import may share. *)
Shared(d, s, allow) ==
    \E r \in reads : /\ r.source = s /\ r.authority = d.authority[s] /\ Running(d, r)
                     /\ allow => r.allow
                     /\ r.allow => r.epoch = d.epoch

HasRead(d, s) == \E r \in reads : r.source = s /\ r.job = d.job[s].generation

(* The job of a read this process does not know of. *)
Orphan(d, s) == d.job[s].status = "running" /\ ~HasRead(d, s)

Queueable(d, s, allow, explicit) ==
    /\ d.source[s] = "connected"
    /\ ~Shared(d, s, allow)
    /\ explicit \/ ~Orphan(d, s)
    /\ Cardinality(reads) < MaxReads
    /\ d.job[s].generation < MaxJob

(* reopenJob, after the job of an earlier read was failed. *)
Reopened(j) ==
    IF j.status = "running" THEN j
    ELSE [generation |-> j.generation + 1, status |-> "running"]

(* Mutation of Queued: the replaced job is not failed, so it is rejoined. *)
QueuedJoining(d, s, explicit) ==
    LET job == Reopened(d.job[s])
        authority == IF d.authority[s] = 0 THEN 1 ELSE d.authority[s]
        credit == [source |-> s, job |-> job.generation, authority |-> authority,
                   state |-> "reserved"]
    IN  [RetireImports(d, s, job.generation - 1) EXCEPT
            !.authority[s] = authority, !.job[s] = job, !.imports = @ \union {credit}]

(* The snapshot committed before the read is issued. *)
Queued(d, s, explicit) ==
    LET replaced == d.job[s].status = "running" /\ (explicit \/ HasRead(d, s))
        job == Reopened([d.job[s] EXCEPT !.status = IF replaced THEN "failed" ELSE @])
        authority == IF d.authority[s] = 0 THEN 1 ELSE d.authority[s]
        credit == [source |-> s, job |-> job.generation, authority |-> authority,
                   state |-> "reserved"]
    IN  [RetireImports(d, s, job.generation - 1) EXCEPT
            !.authority[s] = authority, !.job[s] = job, !.imports = @ \union {credit}]

(* The reads of s are revoked or replaced. *)
Revoke(s) == stale' = stale \union {r \in reads : r.source = s}

(* Queue from snapshot d: the read is issued, or its submission fails and  *)
(* the job with it.                                                        *)
Queue(d, s, allow, explicit) ==
    LET admitted == Queued(d, s, explicit)
        read == Read(admitted, s, allow)
    IN  /\ Queueable(d, s, allow, explicit)
        /\ Revoke(s)
        /\ \/ db' = admitted /\ reads' = reads \union {read}
           \/ db' = FailJob(admitted, read) /\ UNCHANGED reads

-----------------------------------------------------------------------------
Init ==
    /\ db = [source |-> [s \in Sources |-> "absent"],
             authority |-> [s \in Sources |-> 0],
             job |-> [s \in Sources |-> [generation |-> 0, status |-> "none"]],
             epoch |-> 0,
             account |-> [i \in Identities |-> {}],
             tombstones |-> {},
             grant |-> [s \in Sources |-> [i \in Identities |->
                            [generation |-> 0, ready |-> FALSE]]],
             imports |-> {},
             samples |-> {}]
    /\ reads = {} /\ polls = {} /\ asked = 0
    /\ stale = {} /\ forgot = [i \in Identities |-> 0]

(* source.connect; the source's id is new. *)
SourceConnect(s) ==
    /\ db.source[s] = "absent"
    /\ db' = Connect(db, s)
    /\ UNCHANGED <<reads, polls, asked, stale, forgot>>

(* source.disconnect. *)
SourceDisconnect(s) ==
    /\ db.source[s] # "absent" /\ AdvanceFits(db, s)
    /\ db' = Disconnect(db, s)
    /\ Revoke(s)
    /\ UNCHANGED <<reads, polls, asked, forgot>>

(* reconcileSourceMode (source.reconcile, enrollment.start, repair.start   *)
(* and pollSources): the credential file is missing.                       *)
ReconcileMissing(s) ==
    /\ db.source[s] \in {"connected", "detached"} /\ AdvanceFits(db, s)
    /\ db' = Detach(db, s)
    /\ Revoke(s)
    /\ UNCHANGED <<reads, polls, asked, forgot>>

(* The file is there again: the source is connected and committed, and its *)
(* credential imported unless it is the one already granted.               *)
ReconcileReturned(s) ==
    LET d == Connect(db, s)
    IN  /\ db.source[s] = "detached" /\ AdvanceFits(db, s)
        /\ \/ db' = d /\ Revoke(s) /\ UNCHANGED reads
           \/ Queue(d, s, FALSE, FALSE)
        /\ UNCHANGED <<polls, asked, forgot>>

ReconcileImport(s) ==
    /\ db.source[s] = "connected"
    /\ Queue(db, s, FALSE, FALSE)
    /\ UNCHANGED <<polls, asked, forgot>>

(* credential.import: explicitly authorized, by allow also for identities  *)
(* that were forgotten.                                                    *)
CredentialImport(s, allow) ==
    /\ Queue(db, s, allow, TRUE)
    /\ UNCHANGED <<polls, asked, forgot>>

(* What finishImport requires of the committed state. *)
Authorized(d, r) ==
    /\ Running(d, r)
    /\ d.authority[r.source] = r.authority /\ d.source[r.source] = "connected"
    /\ r.allow => r.epoch = d.epoch

(* Mutation of Admits: consent outlives a later forget. *)
AdmitsOldConsent(d, r, i) ==
    /\ Running(d, r)
    /\ d.authority[r.source] = r.authority /\ d.source[r.source] = "connected"
    /\ i \in d.tombstones => r.allow

(* permitReenrollment, then enroll, which refuses a forgotten identity. *)
Admits(d, r, i) == Authorized(d, r) /\ (i \in d.tombstones => r.allow)

(* Mutation of Granted: observations of the old generation stay admitted. *)
GrantedKeepingSamples(d, r, i) ==
    LET s == r.source
    IN  [d EXCEPT !.tombstones = IF r.allow THEN @ \ {i} ELSE @,
                  !.account[i] = @ \union {s},
                  !.grant[s][i] = [generation |-> @.generation + 1, ready |-> TRUE],
                  !.job[s].status = "completed",
                  !.imports = {c \in @ : ~(c.source = s /\ c.job = r.job)}]

(* What finishImport commits: the account, the next generation of its      *)
(* grant, the job and both kinds of credits.                               *)
Granted(d, r, i) ==
    LET s == r.source
    IN  [d EXCEPT !.tombstones = IF r.allow THEN @ \ {i} ELSE @,
                  !.account[i] = @ \union {s},
                  !.grant[s][i] = [generation |-> @.generation + 1, ready |-> TRUE],
                  !.samples = {c \in @ : ~(c.source = s /\ c.identity = i)},
                  !.job[s].status = "completed",
                  !.imports = {c \in @ : ~(c.source = s /\ c.job = r.job)}]

(* failImport: nothing, if the read was superseded. *)
Failed(d, r) == IF Running(d, r) THEN FailJob(d, r) ELSE d

(* pollNetwork, for the completion of an import: the provider names i. *)
FinishImport(r, i) ==
    /\ db' = IF Admits(db, r, i) THEN Granted(db, r, i) ELSE Failed(db, r)
    /\ reads' = reads \ {r} /\ stale' = stale \ {r}
    /\ UNCHANGED <<polls, asked, forgot>>

(* The read failed, the credential expired or another account answered. *)
FailImport(r) ==
    /\ db' = Failed(db, r)
    /\ reads' = reads \ {r} /\ stale' = stale \ {r}
    /\ UNCHANGED <<polls, asked, forgot>>

(* account.forget; no lease of the account is open. *)
Forget(i) ==
    /\ db.account[i] # {} /\ db.epoch < MaxForgets
    /\ db' = [db EXCEPT !.tombstones = @ \union {i},
                        !.account[i] = {},
                        !.grant = [s \in Sources |->
                            [@[s] EXCEPT ![i] = [generation |-> 0, ready |-> FALSE]]],
                        !.samples = {c \in @ : c.identity # i},
                        !.epoch = @ + 1]
    /\ forgot' = [forgot EXCEPT ![i] = db.epoch + 1]
    /\ UNCHANGED <<reads, polls, asked, stale>>

(* pollSources, for one grant: the credit is committed before the poll is  *)
(* submitted; one poll per account is in flight.                           *)
Poll(s, i) ==
    LET sample == [source |-> s, identity |-> i, authority |-> db.authority[s],
                   grant |-> db.grant[s][i].generation, key |-> asked]
    IN  /\ db.grant[s][i].ready /\ db.source[s] # "disconnected"
        /\ asked < MaxPolls
        /\ \A p \in polls : p.identity # i
        /\ db' = [db EXCEPT !.samples = @ \union {sample}]
        /\ polls' = polls \union {sample} /\ asked' = asked + 1
        /\ UNCHANGED <<reads, stale, forgot>>

(* pollNetwork, for the completion of an observation poll: the sample is   *)
(* taken if its credit is held, and drained without effect otherwise.  A   *)
(* sample the domain refuses keeps its credit, marked indeterminate.       *)
FinishPoll(p) ==
    /\ polls' = polls \ {p}
    /\ db' \in {db, [db EXCEPT !.samples = @ \ {p}]}
    /\ UNCHANGED <<reads, asked, stale, forgot>>

(* The process ends anywhere and bootstrap restores the snapshot: reads    *)
(* and polls are lost, their credits indeterminate.                        *)
Restart ==
    /\ db' = [db EXCEPT !.imports = {[c EXCEPT !.state = "indeterminate"] : c \in @}]
    /\ reads' = {} /\ polls' = {} /\ stale' = {}
    /\ UNCHANGED <<asked, forgot>>

Next ==
    \/ \E s \in Sources : \/ SourceConnect(s)
                          \/ SourceDisconnect(s)
                          \/ ReconcileMissing(s)
                          \/ ReconcileReturned(s)
                          \/ ReconcileImport(s)
                          \/ \E allow \in BOOLEAN : CredentialImport(s, allow)
                          \/ \E i \in Identities : Poll(s, i)
    \/ \E r \in reads : \/ FailImport(r)
                        \/ \E i \in Identities : FinishImport(r, i)
    \/ \E i \in Identities : Forget(i)
    \/ \E p \in polls : FinishPoll(p)
    \/ Restart

Spec == Init /\ [][Next]_vars

-----------------------------------------------------------------------------
Credits ==
    [source : Sources, job : 1..MaxJob, authority : 1..MaxAuthority,
     state : {"reserved", "indeterminate"}]

Samples ==
    [source : Sources, identity : Identities, authority : 1..MaxAuthority,
     grant : 1..MaxJob, key : 0..MaxPolls]

(* What validatePersistedAdmission requires of jobs, import credits and    *)
(* observation credits.                                                    *)
Restorable(d) ==
    /\ \A s \in Sources : d.job[s].status = "running" =>
          \E c \in d.imports : c.source = s /\ c.job = d.job[s].generation
    /\ \A c \in d.imports :
          /\ c.authority = d.authority[c.source] /\ d.source[c.source] = "connected"
          /\ c.job = d.job[c.source].generation
          /\ d.job[c.source].status # "completed"
    /\ \A c \in d.samples :
          /\ c.authority = d.authority[c.source] /\ d.source[c.source] # "disconnected"
          /\ c.identity \in Identities /\ c.source \in d.account[c.identity]
          /\ c.grant = d.grant[c.source][c.identity].generation

(* Whatever was committed can be restored: validatePersistedAdmission,     *)
(* which guards every start and every rollback in memory, accepts each     *)
(* snapshot the handlers commit.                                           *)
CommittedSnapshotRestorable ==
    /\ db.imports \subseteq Credits /\ db.samples \subseteq Samples
    /\ Restorable(db)

(* Outcome space never leaks: an import credit is held exactly by the      *)
(* running jobs, and until a restart intervenes a running job has its read *)
(* in flight, so it ends without anyone's help.                            *)
CreditsFollowJobs ==
    /\ \A c \in db.imports : db.job[c.source].status = "running"
    /\ \A c \in db.imports : c.state = "reserved" => ~Orphan(db, c.source)

(* A grant only ever comes from a read that is current when it is applied: *)
(* not one whose source was detached, reconnected or disconnected, or that *)
(* a newer import replaced, while the provider was answering.              *)
GrantsComeFromCurrentReads ==
    [][\A s \in Sources, i \in Identities :
          db'.grant[s][i].generation > db.grant[s][i].generation =>
              \E r \in reads \ stale : r.source = s /\ r \notin reads']_vars

(* A forgotten account returns only by an import that the user authorized  *)
(* for re-enrollment after forgetting it (account.forget, finishImport).   *)
ForgottenReturnsByConsent ==
    [][\A i \in Identities :
          db.account[i] = {} /\ db'.account[i] # {} /\ forgot[i] > 0 =>
              \E r \in reads \ reads' : r.allow /\ r.epoch >= forgot[i]]_vars
=============================================================================
