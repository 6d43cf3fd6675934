--------------------------- MODULE ImportsProofs ---------------------------
(***************************************************************************)
(* Proofs about Imports, for any sources, identities and bounds: the       *)
(* inductive invariant, what the ledger operations, the changes of a       *)
(* source and the queueing of an import do to it, and the properties.      *)
(***************************************************************************)
EXTENDS Imports, TLAPS

Jobs == [generation : 0..MaxJob, status : {"none", "running", "completed", "failed"}]

Snapshots ==
    [source : [Sources -> {"absent", "connected", "detached", "disconnected"}],
     authority : [Sources -> 0..MaxAuthority],
     job : [Sources -> Jobs],
     epoch : 0..MaxForgets,
     account : [Identities -> SUBSET Sources],
     tombstones : SUBSET Identities,
     grant : [Sources -> [Identities -> [generation : 0..MaxJob, ready : BOOLEAN]]],
     imports : SUBSET Credits,
     samples : SUBSET Samples]

Reads ==
    [source : Sources, allow : BOOLEAN, authority : 1..MaxAuthority,
     job : 1..MaxJob, epoch : 0..MaxForgets]

(* A job gives at most one generation of a grant, and a grant that is      *)
(* polled has an account and a source that was imported.                   *)
GrantsOK(d) ==
    \A s \in Sources, i \in Identities :
        /\ d.grant[s][i].generation <= d.job[s].generation
        /\ d.job[s].status = "running" => d.grant[s][i].generation < d.job[s].generation
        /\ d.grant[s][i].ready =>
              s \in d.account[i] /\ d.grant[s][i].generation # 0 /\ d.authority[s] # 0

(* What every committed snapshot satisfies. *)
Good(d) ==
    /\ d \in Snapshots
    /\ Restorable(d)
    /\ \A s \in Sources : d.source[s] = "absent" => d.authority[s] = 0
    /\ \A c \in d.imports : d.job[c.source].status = "running"
    /\ GrantsOK(d)

(* How the reads in flight, and those of them that were revoked, fit the   *)
(* snapshot.                                                               *)
ReadsOK(d, flight, revoked) ==
    /\ flight \subseteq Reads /\ revoked \subseteq flight
    /\ \A r \in flight : r.authority <= d.authority[r.source] /\ r.job <= d.job[r.source].generation
    /\ \A r \in revoked : ~Running(d, r)
    /\ \A c \in d.imports : c.state = "reserved" =>
          \E r \in flight : r.source = c.source /\ r.job = c.job

(* A forgotten account that has not returned has its tombstone. *)
ForgetsOK ==
    /\ forgot \in [Identities -> Nat]
    /\ \A i \in Identities : /\ forgot[i] <= db.epoch
                             /\ db.account[i] = {} /\ forgot[i] > 0 => i \in db.tombstones

(* The inductive invariant. *)
IInv ==
    /\ Good(db) /\ ReadsOK(db, reads, stale) /\ ForgetsOK
    /\ asked \in 0..MaxPolls

(* Nothing is granted and nobody returns. *)
Quiet ==
    \A i \in Identities :
        /\ \A s \in Sources : db'.grant[s][i].generation <= db.grant[s][i].generation
        /\ db.account[i] = {} => db'.account[i] = {}

-----------------------------------------------------------------------------
(* The numbers of a snapshot. *)
LEMMA SnapshotNumbers ==
    ASSUME NEW d \in Snapshots, NEW s \in Sources
    PROVE  /\ d.authority[s] \in 0..MaxAuthority /\ d.authority[s] \in Nat
           /\ d.job[s].generation \in 0..MaxJob /\ d.job[s].generation \in Nat
           /\ \A i \in Identities : /\ d.grant[s][i].generation \in 0..MaxJob
                                   /\ d.grant[s][i].generation \in Nat
<1>1. d.authority[s] \in 0..MaxAuthority
  BY Zenon DEF Snapshots
<1>2. d.job[s].generation \in 0..MaxJob
  <2>1. d.job[s] \in Jobs
    BY Zenon DEF Snapshots
  <2> QED
    BY <2>1, Zenon DEF Jobs
<1>3. ASSUME NEW i \in Identities
      PROVE  d.grant[s][i].generation \in 0..MaxJob
  <2>1. d.grant[s][i] \in [generation : 0..MaxJob, ready : BOOLEAN]
    BY DEF Snapshots
  <2> QED
    BY <2>1, Zenon
<1>4. MaxAuthority \in Nat /\ MaxJob \in Nat
  BY ImportsAssumption, Zenon
<1> QED
  BY <1>1, <1>2, <1>3, <1>4

(* What importJobRunning compares. *)
LEMMA RunningFields ==
    ASSUME NEW d \in Snapshots, NEW r \in Reads
    PROVE  Running(d, r) <=> /\ d.job[r.source].generation = r.job
                             /\ d.job[r.source].status = "running"
<1>1. d.job[r.source] \in Jobs
  BY Zenon DEF Snapshots, Reads
<1> QED
  BY <1>1 DEF Running, Jobs

(* A snapshot e that differs from d in the standing of source s, whose     *)
(* imports and polls are settled.                                          *)
Settled(d, e, s) ==
    /\ e \in Snapshots
    /\ e.source[s] # "absent"
    /\ \A t \in Sources \ {s} : /\ e.source[t] = d.source[t]
                                /\ e.authority[t] = d.authority[t]
                                /\ e.job[t] = d.job[t]
    /\ e.authority[s] >= d.authority[s]
    /\ e.job[s].generation = d.job[s].generation /\ e.job[s].status # "running"
    /\ e.epoch = d.epoch /\ e.account = d.account /\ e.tombstones = d.tombstones
    /\ \A t \in Sources, i \in Identities :
          /\ e.grant[t][i].generation = d.grant[t][i].generation
          /\ e.grant[t][i].ready => d.grant[t][i].ready
    /\ e.imports = {c \in d.imports : c.source # s}
    /\ e.samples = {c \in d.samples : c.source # s}

(* advanceImportSource settles the source. *)
LEMMA AdvanceFields ==
    ASSUME NEW d, Good(d), NEW s \in Sources, AdvanceFits(d, s)
    PROVE  LET e == Advance(d, s)
           IN  /\ e \in Snapshots
               /\ e.source = d.source
               /\ \A t \in Sources \ {s} : e.authority[t] = d.authority[t] /\ e.job[t] = d.job[t]
               /\ e.authority[s] >= d.authority[s]
               /\ e.job[s].generation = d.job[s].generation /\ e.job[s].status # "running"
               /\ e.epoch = d.epoch /\ e.account = d.account /\ e.tombstones = d.tombstones
               /\ e.grant = d.grant
               /\ e.imports = {c \in d.imports : c.source # s}
               /\ e.samples = {c \in d.samples : c.source # s}
<1> DEFINE e == Advance(d, s)
<1>0. d \in Snapshots /\ d.job[s] \in Jobs /\ d.imports \subseteq Credits /\ d.samples \subseteq Samples
      /\ d.authority[s] \in 0..MaxAuthority
  BY Zenon DEF Good, Snapshots
<1>1. \A c \in d.imports : c.authority >= 1 /\ c.authority = d.authority[c.source]
                           /\ c.job = d.job[c.source].generation
  BY <1>0, ImportsAssumption DEF Good, Restorable, Credits
<1>2. \A c \in d.samples : c.authority >= 1 /\ c.authority = d.authority[c.source]
  BY <1>0, ImportsAssumption DEF Good, Restorable, Samples
<1>3. CASE d.authority[s] = 0
  <2>1. e = d
    BY <1>3, Zenon DEF Advance
  <2>2. \A c \in d.imports : c.source # s
    BY <1>1, <1>3
  <2>3. \A c \in d.samples : c.source # s
    BY <1>2, <1>3
  <2>4. d.job[s].status # "running"
    BY <2>2, Zenon DEF Good, Restorable
  <2> QED
    BY <2>1, <2>2, <2>3, <2>4, <1>0
<1>4. CASE d.authority[s] # 0
  <2> DEFINE status == IF d.job[s].status = "running" THEN "failed" ELSE d.job[s].status
             job == [d.job EXCEPT ![s].status = status]
             authority == [d.authority EXCEPT ![s] = @ + 1]
             imports == {c \in d.imports : ~(c.source = s /\ c.job <= d.job[s].generation)}
             samples == {c \in d.samples : c.source # s}
  <2>1. e = [d EXCEPT !.authority = authority, !.samples = samples, !.job = job,
                      !.imports = imports]
    BY <1>4, <1>0, Zenon DEF Advance, RetireImports, Snapshots
  <2>2. imports = {c \in d.imports : c.source # s}
    BY <1>1, <1>0, ImportsAssumption DEF Jobs
  <2>3. job \in [Sources -> Jobs] /\ job[s].generation = d.job[s].generation /\ job[s].status # "running"
        /\ \A t \in Sources \ {s} : job[t] = d.job[t]
    BY <1>0, Zenon DEF Snapshots, Jobs
  <2>4. authority \in [Sources -> 0..MaxAuthority] /\ authority[s] >= d.authority[s]
        /\ \A t \in Sources \ {s} : authority[t] = d.authority[t]
    BY <1>0, ImportsAssumption DEF Snapshots, AdvanceFits
  <2>5. e \in Snapshots /\ e.source = d.source /\ e.authority = authority /\ e.job = job
        /\ e.epoch = d.epoch /\ e.account = d.account /\ e.tombstones = d.tombstones
        /\ e.grant = d.grant /\ e.imports = imports /\ e.samples = samples
    <3> HIDE DEF job, authority, imports, samples, e
    <3>1. imports \subseteq Credits
      BY <2>2, <1>0, Zenon
    <3>2. samples \subseteq Samples
      BY <1>0, Zenon DEF samples
    <3> QED
      BY <2>1, <2>3, <2>4, <3>1, <3>2, <1>0, Zenon DEF Snapshots
  <2> QED
    BY <2>2, <2>3, <2>4, <2>5, Zenon
<1> QED
  BY <1>0, <1>3, <1>4, Zenon

(* The standing of a source changes only together with its settlement. *)
LEMMA SourceFields ==
    ASSUME NEW d, Good(d), NEW s \in Sources, AdvanceFits(d, s)
    PROVE  Settled(d, Connect(d, s), s) /\ Settled(d, Detach(d, s), s) /\ Settled(d, Disconnect(d, s), s)
<1> DEFINE e == Advance(d, s)
<1>0. d \in Snapshots
  BY Zenon DEF Good
<1>1. /\ e \in Snapshots
      /\ e.source = d.source
      /\ \A t \in Sources \ {s} : e.authority[t] = d.authority[t] /\ e.job[t] = d.job[t]
      /\ e.authority[s] >= d.authority[s]
      /\ e.job[s].generation = d.job[s].generation /\ e.job[s].status # "running"
      /\ e.epoch = d.epoch /\ e.account = d.account /\ e.tombstones = d.tombstones
      /\ e.grant = d.grant
      /\ e.imports = {c \in d.imports : c.source # s}
      /\ e.samples = {c \in d.samples : c.source # s}
  BY AdvanceFields
<1> HIDE DEF e
<1>2. ASSUME NEW v \in {"connected", "detached"}
      PROVE  Settled(d, [e EXCEPT !.source[s] = v], s)
  BY <1>0, <1>1, Zenon DEF Settled, Snapshots
<1>3. Settled(d, [e EXCEPT !.source[s] = "disconnected",
                           !.grant[s] = [i \in Identities |-> [@[i] EXCEPT !.ready = FALSE]]], s)
  <2> DEFINE revoked == [i \in Identities |-> [e.grant[s][i] EXCEPT !.ready = FALSE]]
             grant == [e.grant EXCEPT ![s] = revoked]
             f == [e EXCEPT !.source = [@ EXCEPT ![s] = "disconnected"], !.grant = grant]
  <2>1. grant \in [Sources -> [Identities -> [generation : 0..MaxJob, ready : BOOLEAN]]]
    <3>1. e.grant \in [Sources -> [Identities -> [generation : 0..MaxJob, ready : BOOLEAN]]]
      BY <1>1, Zenon DEF Snapshots
    <3>2. ASSUME NEW i \in Identities
          PROVE  [e.grant[s][i] EXCEPT !.ready = FALSE] \in [generation : 0..MaxJob, ready : BOOLEAN]
      <4>1. e.grant[s][i] \in [generation : 0..MaxJob, ready : BOOLEAN]
        BY <3>1, Zenon
      <4> QED
        BY <4>1, Zenon
    <3>3. revoked \in [Identities -> [generation : 0..MaxJob, ready : BOOLEAN]]
      BY <3>2, Zenon
    <3> QED
      BY <3>1, <3>3, Zenon
  <2>2. \A t \in Sources, i \in Identities :
          /\ grant[t][i].generation = d.grant[t][i].generation
          /\ grant[t][i].ready => d.grant[t][i].ready
    BY <1>0, <1>1 DEF Snapshots
  <2> HIDE DEF grant
  <2>3. Settled(d, f, s)
    BY <1>0, <1>1, <2>1, <2>2, Zenon DEF Settled, Snapshots
  <2>4. f = [e EXCEPT !.source[s] = "disconnected",
                      !.grant[s] = [i \in Identities |-> [@[i] EXCEPT !.ready = FALSE]]]
    BY <1>1, Zenon DEF grant, Snapshots
  <2> QED
    BY <2>3, <2>4, Zenon
<1> QED
  BY <1>2, <1>3, Zenon DEF Connect, Detach, Disconnect, e

(* A settled snapshot is a good one, and the reads fit it, with those of   *)
(* the source revoked.                                                     *)
LEMMA SettledGood ==
    ASSUME NEW d, Good(d), NEW e, NEW s \in Sources, Settled(d, e, s)
    PROVE  Good(e)
<1>0. d \in Snapshots /\ e \in Snapshots
  BY Zenon DEF Good, Settled
<1>1. \A c \in e.imports : c \in d.imports /\ c.source # s /\ c.source \in Sources
  BY <1>0, Zenon DEF Settled, Snapshots, Credits
<1>2. \A c \in e.samples : c \in d.samples /\ c.source # s /\ c.source \in Sources
                           /\ c.identity \in Identities
  BY <1>0, Zenon DEF Settled, Snapshots, Samples
<1>3. Restorable(e)
  <2>1. ASSUME NEW t \in Sources, e.job[t].status = "running"
        PROVE  \E c \in e.imports : c.source = t /\ c.job = e.job[t].generation
    <3>1. t # s /\ e.job[t] = d.job[t]
      BY <2>1, Zenon DEF Settled
    <3>2. PICK c \in d.imports : c.source = t /\ c.job = d.job[t].generation
      BY <2>1, <3>1 DEF Good, Restorable
    <3> QED
      BY <3>1, <3>2, Zenon DEF Settled
  <2>2. ASSUME NEW c \in e.imports
        PROVE  /\ c.authority = e.authority[c.source] /\ e.source[c.source] = "connected"
               /\ c.job = e.job[c.source].generation
               /\ e.job[c.source].status # "completed"
    BY <1>1 DEF Good, Restorable, Settled
  <2>3. ASSUME NEW c \in e.samples
        PROVE  /\ c.authority = e.authority[c.source] /\ e.source[c.source] # "disconnected"
               /\ c.identity \in Identities /\ c.source \in e.account[c.identity]
               /\ c.grant = e.grant[c.source][c.identity].generation
    BY <1>2, SMTT(90) DEF Good, Restorable, Settled
  <2> QED
    BY <2>1, <2>2, <2>3, Zenon DEF Restorable
<1>4. \A t \in Sources : e.source[t] = "absent" => e.authority[t] = 0
  BY DEF Good, Settled
<1>5. \A c \in e.imports : e.job[c.source].status = "running"
  BY <1>1, Zenon DEF Good, Settled
<1>6. ASSUME NEW t \in Sources, NEW i \in Identities
      PROVE  /\ e.grant[t][i].generation <= e.job[t].generation
             /\ e.job[t].status = "running" => e.grant[t][i].generation < e.job[t].generation
             /\ e.grant[t][i].ready =>
                   t \in e.account[i] /\ e.grant[t][i].generation # 0 /\ e.authority[t] # 0
  <2>1. e.job[t].generation = d.job[t].generation
        /\ (e.job[t].status = "running" => d.job[t].status = "running")
    BY Zenon DEF Settled
  <2>2. d.authority[t] \in Nat /\ e.authority[t] \in Nat
    BY <1>0, ImportsAssumption DEF Snapshots
  <2>3. e.authority[t] >= d.authority[t]
    BY <2>2 DEF Settled
  <2> QED
    BY <2>1, <2>2, <2>3 DEF Good, GrantsOK, Settled
<1> QED
  BY <1>0, <1>3, <1>4, <1>5, <1>6, Zenon DEF Good, GrantsOK

(* Settling a source revokes the reads of it. *)
LEMMA SettledReads ==
    ASSUME NEW d, Good(d), NEW e, NEW s \in Sources, Settled(d, e, s),
           ReadsOK(d, reads, stale)
    PROVE  ReadsOK(e, reads, stale \union {r \in reads : r.source = s})
<1>0. d \in Snapshots /\ e \in Snapshots
  BY Zenon DEF Good, Settled
<1>1. ASSUME NEW r \in reads
      PROVE  r \in Reads /\ r.authority <= e.authority[r.source] /\ r.job <= e.job[r.source].generation
  <2>1. r \in Reads /\ r.source \in Sources /\ r.authority \in Nat
        /\ d.authority[r.source] \in Nat /\ e.authority[r.source] \in Nat
        /\ r.authority <= d.authority[r.source] /\ r.job <= d.job[r.source].generation
    BY <1>0, ImportsAssumption DEF ReadsOK, Reads, Snapshots
  <2>2. e.authority[r.source] >= d.authority[r.source]
        /\ e.job[r.source].generation = d.job[r.source].generation
    BY <2>1 DEF Settled
  <2> QED
    BY <2>1, <2>2
<1>2. ASSUME NEW r \in stale \union {r \in reads : r.source = s}
      PROVE  r \in reads /\ ~Running(e, r)
  <2>1. r \in reads /\ r \in Reads /\ r.source \in Sources
    BY Zenon DEF ReadsOK, Reads
  <2>2. CASE r.source = s
    BY <1>0, <2>1, <2>2, RunningFields, Zenon DEF Settled
  <2>3. CASE r.source # s
    BY <2>1, <2>3, Zenon DEF ReadsOK, Settled, Running
  <2> QED
    BY <2>1, <2>2, <2>3, Zenon
<1>3. ASSUME NEW c \in e.imports, c.state = "reserved"
      PROVE  \E r \in reads : r.source = c.source /\ r.job = c.job
  BY <1>3, Zenon DEF ReadsOK, Settled
<1> QED
  BY <1>1, <1>2, <1>3, Zenon DEF ReadsOK

-----------------------------------------------------------------------------
(* A snapshot e that admits a new job of source s, running or, when its    *)
(* read was not issued, failed.                                            *)
Opened(d, e, s, status, held) ==
    /\ e \in Snapshots
    /\ e.source = d.source /\ d.source[s] = "connected"
    /\ \A t \in Sources \ {s} : e.authority[t] = d.authority[t] /\ e.job[t] = d.job[t]
    /\ e.authority[s] = IF d.authority[s] = 0 THEN 1 ELSE d.authority[s]
    /\ e.job[s] = [generation |-> d.job[s].generation + 1, status |-> status]
    /\ e.epoch = d.epoch /\ e.account = d.account /\ e.tombstones = d.tombstones
    /\ e.grant = d.grant /\ e.samples = d.samples
    /\ e.imports = {c \in d.imports : c.source # s} \union held

Credit(e, s) ==
    [source |-> s, job |-> e.job[s].generation, authority |-> e.authority[s],
     state |-> "reserved"]

(* queueImportMode never joins a job: the one that runs has a read, which  *)
(* it replaces, or the import is explicit.                                 *)
LEMMA QueuedFields ==
    ASSUME NEW d, Good(d), NEW s \in Sources, NEW allow \in BOOLEAN, NEW explicit \in BOOLEAN,
           Queueable(d, s, allow, explicit)
    PROVE  LET e == Queued(d, s, explicit) IN Opened(d, e, s, "running", {Credit(e, s)})
<1> DEFINE e == Queued(d, s, explicit)
           generation == d.job[s].generation
           job == [generation |-> generation + 1, status |-> "running"]
           authority == IF d.authority[s] = 0 THEN 1 ELSE d.authority[s]
           credit == [source |-> s, job |-> generation + 1, authority |-> authority,
                      state |-> "reserved"]
           imports == {c \in d.imports : ~(c.source = s /\ c.job <= generation)}
<1>0. d \in Snapshots /\ d.job[s] \in Jobs /\ d.imports \subseteq Credits /\ generation \in Nat
      /\ d.authority[s] \in 0..MaxAuthority
  BY ImportsAssumption DEF Good, Snapshots, Jobs
<1>1. d.job[s].status = "running" => explicit \/ HasRead(d, s)
  BY Zenon DEF Queueable, Orphan
<1> DEFINE reopened ==
             Reopened([d.job[s] EXCEPT !.status =
                 IF d.job[s].status = "running" /\ (explicit \/ HasRead(d, s)) THEN "failed" ELSE @])
<1>2. reopened = job
  <2>1. CASE d.job[s].status = "running"
    BY <1>0, <1>1, <2>1, Zenon DEF Reopened, Jobs
  <2>2. CASE d.job[s].status # "running"
    BY <1>0, <2>2, Zenon DEF Reopened, Jobs
  <2> QED
    BY <2>1, <2>2, Zenon
<1>3. generation + 1 - 1 = generation /\ job.generation = generation + 1
  BY <1>0
<1>4. e = [RetireImports(d, s, generation) EXCEPT
              !.authority[s] = authority, !.job[s] = job, !.imports = @ \union {credit}]
  <2>1. e = [RetireImports(d, s, reopened.generation - 1) EXCEPT
                !.authority[s] = authority, !.job[s] = reopened,
                !.imports = @ \union {[source |-> s, job |-> reopened.generation,
                                       authority |-> authority, state |-> "reserved"]}]
    BY Zenon DEF Queued
  <2> HIDE DEF reopened, e, authority, job, generation
  <2>2. reopened.generation = generation + 1 /\ reopened.generation - 1 = generation
    BY <1>0, <1>2, <1>3
  <2>3. e = [RetireImports(d, s, generation) EXCEPT
                !.authority[s] = authority, !.job[s] = job,
                !.imports = @ \union {[source |-> s, job |-> generation + 1,
                                       authority |-> authority, state |-> "reserved"]}]
    BY <1>2, <2>1, <2>2, Zenon
  <2> QED
    BY <2>3, Zenon
<1>5. imports = {c \in d.imports : c.source # s}
  BY <1>0 DEF Good, Restorable, Credits
<1>6. credit \in Credits /\ job \in Jobs /\ authority \in 0..MaxAuthority
  BY <1>0, ImportsAssumption DEF Queueable, Credits, Jobs
<1>7. RetireImports(d, s, generation) = [d EXCEPT !.imports = imports]
  BY Zenon DEF RetireImports
<1> HIDE DEF e, job, authority, credit, imports
<1>8. imports \subseteq Credits
  BY <1>0, <1>5, Zenon
<1>9. /\ e \in Snapshots /\ e.source = d.source
      /\ e.authority = [d.authority EXCEPT ![s] = authority] /\ e.job = [d.job EXCEPT ![s] = job]
      /\ e.epoch = d.epoch /\ e.account = d.account /\ e.tombstones = d.tombstones
      /\ e.grant = d.grant /\ e.samples = d.samples /\ e.imports = imports \union {credit}
  <2> DEFINE a == [d.authority EXCEPT ![s] = authority]
             j == [d.job EXCEPT ![s] = job]
             i == imports \union {credit}
  <2>1. e = [d EXCEPT !.authority = a, !.job = j, !.imports = i]
    BY <1>0, <1>4, <1>7, Zenon DEF Snapshots
  <2>2. a \in [Sources -> 0..MaxAuthority] /\ j \in [Sources -> Jobs] /\ i \subseteq Credits
    BY <1>0, <1>6, <1>8, Zenon DEF Snapshots
  <2> HIDE DEF a, j, i
  <2>3. /\ e \in Snapshots /\ e.source = d.source /\ e.authority = a /\ e.job = j
        /\ e.epoch = d.epoch /\ e.account = d.account /\ e.tombstones = d.tombstones
        /\ e.grant = d.grant /\ e.samples = d.samples /\ e.imports = i
    BY <1>0, <2>1, <2>2, Zenon DEF Snapshots
  <2> QED
    BY <2>3, Zenon DEF a, j, i
<1>10. e.authority[s] = authority /\ e.job[s] = job
       /\ \A t \in Sources \ {s} : e.authority[t] = d.authority[t] /\ e.job[t] = d.job[t]
  BY <1>0, <1>9, Zenon DEF Snapshots
<1>11. Credit(e, s) = credit
  BY <1>3, <1>10, Zenon DEF Credit, credit
<1> QED
  BY <1>5, <1>9, <1>10, <1>11, Zenon DEF Opened, Queueable, authority, job, e

(* A read that could not be submitted leaves the job failed. *)
LEMMA UnsentFields ==
    ASSUME NEW d, Good(d), NEW s \in Sources, NEW e, Opened(d, e, s, "running", {Credit(e, s)}),
           NEW allow \in BOOLEAN
    PROVE  Opened(d, FailJob(e, Read(e, s, allow)), s, "failed", {})
<1> DEFINE r == Read(e, s, allow)
           job == [generation |-> d.job[s].generation + 1, status |-> "failed"]
           imports == {c \in d.imports : c.source # s}
<1>0. d \in Snapshots /\ e \in Snapshots /\ d.job[s].generation \in Nat
  BY ImportsAssumption DEF Good, Opened, Snapshots, Jobs
<1>1. r.source = s /\ r.job = d.job[s].generation + 1 /\ Running(e, r)
  BY <1>0 DEF Read, Opened, Running
<1>2. {c \in e.imports : ~(c.source = r.source /\ c.job = r.job)} = imports
  BY <1>1 DEF Opened, Credit
<1>3. FailJob(e, r) = [e EXCEPT !.job = [e.job EXCEPT ![s] = job], !.imports = imports]
  <2>1. [e.job EXCEPT ![s].status = "failed"] = [e.job EXCEPT ![s] = job]
    <3>1. e.job \in [Sources -> Jobs] /\ [e.job[s] EXCEPT !.status = "failed"] = job
      BY <1>0 DEF Opened, Snapshots
    <3> QED
      BY <3>1, Zenon
  <2> QED
    BY <1>0, <1>1, <1>2, <2>1, Zenon DEF FailJob, Snapshots
<1>4. job \in Jobs /\ imports \subseteq Credits
  BY <1>0 DEF Opened, Snapshots, Jobs
<1> HIDE DEF job, imports, r
<1>5. LET f == FailJob(e, r)
      IN  /\ f \in Snapshots /\ f.source = e.source /\ f.authority = e.authority
          /\ f.job = [e.job EXCEPT ![s] = job] /\ f.imports = imports
          /\ f.epoch = e.epoch /\ f.account = e.account /\ f.tombstones = e.tombstones
          /\ f.grant = e.grant /\ f.samples = e.samples
  <2> DEFINE j == [e.job EXCEPT ![s] = job]
  <2>1. j \in [Sources -> Jobs]
    BY <1>0, <1>4, Zenon DEF Snapshots
  <2> HIDE DEF j
  <2>2. FailJob(e, r) = [e EXCEPT !.job = j, !.imports = imports]
    BY <1>3, Zenon DEF j
  <2>3. LET f == FailJob(e, r)
        IN  /\ f \in Snapshots /\ f.source = e.source /\ f.authority = e.authority
            /\ f.job = j /\ f.imports = imports
            /\ f.epoch = e.epoch /\ f.account = e.account /\ f.tombstones = e.tombstones
            /\ f.grant = e.grant /\ f.samples = e.samples
    BY <1>0, <1>4, <2>1, <2>2, Zenon DEF Snapshots
  <2> QED
    BY <2>3, Zenon DEF j
<1>6. LET f == FailJob(e, r)
      IN  f.job[s] = job /\ \A t \in Sources \ {s} : f.job[t] = e.job[t]
  BY <1>0, <1>5, Zenon DEF Snapshots
<1> QED
  BY <1>5, <1>6, Zenon DEF Opened, job, imports, r

(* Opening a job, whether or not its read could be sent. *)
LEMMA OpenedGood ==
    ASSUME NEW d, Good(d), NEW s \in Sources, NEW e, NEW held,
           \/ Opened(d, e, s, "running", held) /\ held = {Credit(e, s)}
           \/ Opened(d, e, s, "failed", held) /\ held = {}
    PROVE  Good(e)
<1>0. d \in Snapshots /\ e \in Snapshots /\ d.job[s].generation \in Nat
      /\ d.authority[s] \in Nat /\ e.job[s].generation = d.job[s].generation + 1
  BY ImportsAssumption, SMTT(90) DEF Good, Opened, Snapshots, Jobs
<1>1. ASSUME NEW c \in e.imports
      PROVE  \/ c = Credit(e, s) /\ e.job[s].status = "running"
             \/ c \in d.imports /\ c.source # s /\ c.source \in Sources
  BY <1>0, SMTT(90) DEF Opened, Snapshots, Credits
<1>2. \A c \in d.samples : c \in Samples /\ c.authority \in 1..MaxAuthority /\ c.source \in Sources
                           /\ c.authority = d.authority[c.source]
  BY <1>0, Zenon DEF Snapshots, Samples, Good, Restorable
<1>3. Restorable(e)
  <2>1. ASSUME NEW t \in Sources, e.job[t].status = "running"
        PROVE  \E c \in e.imports : c.source = t /\ c.job = e.job[t].generation
    <3>1. CASE t = s
      <4>1. Credit(e, s) \in e.imports
        BY <2>1, <3>1 DEF Opened
      <4> QED
        BY <3>1, <4>1, Zenon DEF Credit
    <3>2. CASE t # s
      <4>1. PICK c \in d.imports : c.source = t /\ c.job = d.job[t].generation
        BY <2>1, <3>2, SMTT(90) DEF Good, Restorable, Opened
      <4> QED
        BY <3>2, <4>1, Zenon DEF Opened
    <3> QED
      BY <3>1, <3>2, Zenon
  <2>2. ASSUME NEW c \in e.imports
        PROVE  /\ c.authority = e.authority[c.source] /\ e.source[c.source] = "connected"
               /\ c.job = e.job[c.source].generation
               /\ e.job[c.source].status # "completed"
    <3>1. CASE c = Credit(e, s) /\ e.job[s].status = "running"
      BY <3>1, Zenon DEF Credit, Opened
    <3>2. CASE c \in d.imports /\ c.source # s /\ c.source \in Sources
      BY <3>2, SMTT(90) DEF Good, Restorable, Opened
    <3> QED
      BY <1>1, <3>1, <3>2, Zenon
  <2>3. ASSUME NEW c \in e.samples
        PROVE  /\ c.authority = e.authority[c.source] /\ e.source[c.source] # "disconnected"
               /\ c.identity \in Identities /\ c.source \in e.account[c.identity]
               /\ c.grant = e.grant[c.source][c.identity].generation
    <3>1. c \in d.samples
      BY Zenon DEF Opened
    <3>2. e.authority[c.source] = d.authority[c.source]
      BY <1>2, <3>1, SMTT(90) DEF Opened
    <3> QED
      BY <3>1, <3>2, SMTT(90) DEF Good, Restorable, Opened
  <2> QED
    BY <2>1, <2>2, <2>3, Zenon DEF Restorable
<1>4. \A t \in Sources : e.source[t] = "absent" => e.authority[t] = 0
  BY Zenon DEF Good, Opened
<1>5. \A c \in e.imports : e.job[c.source].status = "running"
  BY <1>1, SMTT(90) DEF Good, Opened, Credit
<1>6. ASSUME NEW t \in Sources, NEW i \in Identities
      PROVE  /\ e.grant[t][i].generation <= e.job[t].generation
             /\ e.job[t].status = "running" => e.grant[t][i].generation < e.job[t].generation
             /\ e.grant[t][i].ready =>
                   t \in e.account[i] /\ e.grant[t][i].generation # 0 /\ e.authority[t] # 0
  <2>1. d.grant[t][i].generation \in Nat
    BY <1>0, ImportsAssumption DEF Snapshots
  <2>2. CASE t = s
    BY <1>0, <2>1, <2>2, SMTT(90) DEF Good, GrantsOK, Opened
  <2>3. CASE t # s
    BY <2>3, SMTT(90) DEF Good, GrantsOK, Opened
  <2> QED
    BY <2>2, <2>3, Zenon
<1> QED
  BY <1>0, <1>3, <1>4, <1>5, <1>6, Zenon DEF Good, GrantsOK

(* The new read fits the snapshot and those it replaces are revoked. *)
LEMMA OpenedReads ==
    ASSUME NEW d, Good(d), NEW s \in Sources, NEW e, NEW allow \in BOOLEAN,
           ReadsOK(d, reads, stale), Revoke(s),
           \/ Opened(d, e, s, "running", {Credit(e, s)}) /\ reads' = reads \union {Read(e, s, allow)}
           \/ Opened(d, e, s, "failed", {}) /\ reads' = reads
    PROVE  ReadsOK(e, reads', stale')
<1> DEFINE read == Read(e, s, allow)
<1>0. d \in Snapshots /\ e \in Snapshots /\ d.job[s].generation \in Nat
      /\ d.authority[s] \in Nat /\ e.authority[s] \in Nat
      /\ e.job[s].generation = d.job[s].generation + 1
  BY ImportsAssumption, SMTT(90) DEF Good, Opened, Snapshots, Jobs
<1>1. read \in Reads /\ read.source = s /\ read.authority = e.authority[s]
      /\ read.job = e.job[s].generation
  <2>1. e.authority[s] \in 1..MaxAuthority
    BY <1>0, ImportsAssumption, SMTT(90) DEF Opened, Snapshots
  <2>2. e.job[s].generation \in 1..MaxJob
    BY <1>0, ImportsAssumption, SMTT(90) DEF Snapshots, Jobs
  <2>3. e.epoch \in 0..MaxForgets
    BY <1>0, Zenon DEF Snapshots
  <2> QED
    BY <2>1, <2>2, <2>3, Zenon DEF Read, Reads
<1>2. \A r \in reads : r \in Reads /\ r.source \in Sources /\ r.authority \in Nat /\ r.job \in Nat
                       /\ r.authority <= d.authority[r.source] /\ r.job <= d.job[r.source].generation
  BY ImportsAssumption, SMTT(90) DEF ReadsOK, Reads
<1>3. reads \subseteq reads' /\ reads' \subseteq reads \union {read}
  BY Zenon
<1>4. ASSUME NEW r \in reads'
      PROVE  r \in Reads /\ r.authority <= e.authority[r.source] /\ r.job <= e.job[r.source].generation
  <2>1. CASE r = read
    BY <1>0, <1>1, <2>1, SMTT(90)
  <2>2. CASE r \in reads /\ r.source = s
    BY <1>0, <1>2, <2>2, SMTT(90) DEF Opened
  <2>3. CASE r \in reads /\ r.source # s
    BY <1>2, <2>3, Zenon DEF Opened
  <2> QED
    BY <1>3, <2>1, <2>2, <2>3, Zenon
<1>5. ASSUME NEW r \in stale' PROVE r \in reads' /\ ~Running(e, r)
  <2>1. r \in reads
    BY Zenon DEF Revoke, ReadsOK
  <2>2. CASE r.source = s
    <3>1. r.job < e.job[s].generation
      BY <1>0, <1>2, <2>1, <2>2
    <3> QED
      BY <1>0, <1>2, <1>3, <2>1, <2>2, <3>1, RunningFields, SMTT(90)
  <2>3. CASE r.source # s
    BY <1>2, <1>3, <2>1, <2>3, Zenon DEF Revoke, ReadsOK, Opened, Running
  <2> QED
    BY <2>2, <2>3, Zenon
<1>6. ASSUME NEW c \in e.imports, c.state = "reserved"
      PROVE  \E r \in reads' : r.source = c.source /\ r.job = c.job
  <2>1. CASE c \in d.imports
    BY <1>3, <1>6, <2>1, Zenon DEF ReadsOK
  <2>2. CASE c \notin d.imports
    <3>1. c = Credit(e, s) /\ read \in reads'
      BY <2>2, Zenon DEF Opened
    <3> QED
      BY <1>1, <3>1, Zenon DEF Credit
  <2> QED
    BY <2>1, <2>2, Zenon
<1> QED
  BY <1>4, <1>5, <1>6, Zenon DEF ReadsOK

(* An import that is queued leaves everything but its own job and credit   *)
(* as it was.                                                              *)
LEMMA QueueKeeps ==
    ASSUME NEW d, Good(d), ReadsOK(d, reads, stale), NEW s \in Sources,
           NEW allow \in BOOLEAN, NEW explicit \in BOOLEAN, Queue(d, s, allow, explicit)
    PROVE  /\ Good(db') /\ ReadsOK(db', reads', stale')
           /\ db'.epoch = d.epoch /\ db'.account = d.account /\ db'.tombstones = d.tombstones
           /\ db'.grant = d.grant
<1> DEFINE admitted == Queued(d, s, explicit)
           read == Read(admitted, s, allow)
<1>1. Queueable(d, s, allow, explicit) /\ Revoke(s)
      /\ \/ db' = admitted /\ reads' = reads \union {read}
         \/ db' = FailJob(admitted, read) /\ reads' = reads
  BY Zenon DEF Queue
<1>2. Opened(d, admitted, s, "running", {Credit(admitted, s)})
  BY <1>1, QueuedFields, Zenon
<1> HIDE DEF admitted
<1>3. CASE db' = admitted /\ reads' = reads \union {read}
  <2>1. Good(db')
    BY <1>2, <1>3, OpenedGood, Zenon
  <2>2. ReadsOK(db', reads', stale')
    BY <1>1, <1>2, <1>3, OpenedReads, Zenon
  <2> QED
    BY <1>2, <1>3, <2>1, <2>2, Zenon DEF Opened
<1>4. CASE db' = FailJob(admitted, read) /\ reads' = reads
  <2>1. Opened(d, db', s, "failed", {})
    BY <1>2, <1>4, UnsentFields, Zenon
  <2>2. Good(db')
    BY <2>1, OpenedGood, Zenon
  <2>3. ReadsOK(db', reads', stale')
    BY <1>1, <1>4, <2>1, OpenedReads, Zenon
  <2> QED
    BY <2>1, <2>2, <2>3, Zenon DEF Opened
<1> QED
  BY <1>1, <1>3, <1>4, Zenon

-----------------------------------------------------------------------------
(* What follows for the steps that leave accounts and grants alone. *)
LEMMA LedgersUnchanged ==
    ASSUME IInv, Good(db'), ReadsOK(db', reads', stale'), UNCHANGED <<asked, forgot>>,
           db'.epoch = db.epoch, db'.account = db.account, db'.tombstones = db.tombstones,
           \A s \in Sources, i \in Identities :
              db'.grant[s][i].generation = db.grant[s][i].generation
    PROVE  IInv' /\ Quiet
<1>1. ForgetsOK'
  BY Zenon DEF IInv, ForgetsOK
<1>2. Quiet
  <2>1. \A s \in Sources, i \in Identities : db.grant[s][i].generation \in Nat
    BY SnapshotNumbers, Zenon DEF IInv, Good
  <2> QED
    BY <2>1 DEF Quiet
<1> QED
  BY <1>1, <1>2, Zenon DEF IInv

(* Sources that are connected, detached, disconnected and reconciled. *)
LEMMA SourcesKeep ==
    ASSUME IInv, NEW s \in Sources,
           \/ SourceConnect(s) \/ SourceDisconnect(s) \/ ReconcileMissing(s)
           \/ ReconcileReturned(s)
    PROVE  IInv' /\ Quiet
<1>0. Good(db) /\ ReadsOK(db, reads, stale)
  BY Zenon DEF IInv
<1>1. AdvanceFits(db, s)
  <2>1. CASE SourceConnect(s)
    BY <1>0, <2>1, ImportsAssumption DEF SourceConnect, AdvanceFits, Good
  <2> QED
    BY <2>1, Zenon DEF SourceDisconnect, ReconcileMissing, ReconcileReturned
<1>2. Settled(db, Connect(db, s), s) /\ Settled(db, Detach(db, s), s) /\ Settled(db, Disconnect(db, s), s)
  BY <1>0, <1>1, SourceFields, Zenon
<1>3. ASSUME Settled(db, db', s), UNCHANGED <<reads, asked, forgot>>,
             stale' = stale \/ stale' = stale \union {r \in reads : r.source = s}
      PROVE  IInv' /\ Quiet
  <2>1. Good(db')
    BY <1>0, <1>3, SettledGood, Zenon
  <2>2. ReadsOK(db', reads, stale \union {r \in reads : r.source = s})
    BY <1>0, <1>3, SettledReads
  <2>3. ReadsOK(db', reads', stale')
    BY <1>3, <2>2, Zenon DEF ReadsOK
  <2> QED
    BY <1>3, <2>1, <2>3, LedgersUnchanged, Zenon DEF Settled
<1>4. CASE SourceConnect(s)
  BY <1>2, <1>3, <1>4, Zenon DEF SourceConnect
<1>5. CASE SourceDisconnect(s)
  BY <1>2, <1>3, <1>5, Zenon DEF SourceDisconnect, Revoke
<1>6. CASE ReconcileMissing(s)
  BY <1>2, <1>3, <1>6, Zenon DEF ReconcileMissing, Revoke
<1>7. CASE ReconcileReturned(s)
  <2> DEFINE d == Connect(db, s)
  <2>1. CASE db' = d /\ Revoke(s) /\ UNCHANGED reads
    BY <1>2, <1>3, <1>7, <2>1, Zenon DEF ReconcileReturned, Revoke
  <2>2. CASE Queue(d, s, FALSE, FALSE)
    <3>1. Good(d)
      BY <1>0, <1>2, SettledGood, Zenon
    <3>2. ReadsOK(d, reads, stale)
      <4>1. ReadsOK(d, reads, stale \union {r \in reads : r.source = s})
        BY <1>0, <1>2, SettledReads, Zenon
      <4> QED
        BY <4>1, Zenon DEF ReadsOK
    <3> HIDE DEF d
    <3>3. /\ Good(db') /\ ReadsOK(db', reads', stale')
          /\ db'.epoch = d.epoch /\ db'.account = d.account /\ db'.tombstones = d.tombstones
          /\ db'.grant = d.grant
      BY <2>2, <3>1, <3>2, QueueKeeps, Zenon
    <3>4. /\ d.epoch = db.epoch /\ d.account = db.account /\ d.tombstones = db.tombstones
          /\ \A t \in Sources, i \in Identities :
                d.grant[t][i].generation = db.grant[t][i].generation
      BY <1>2, Zenon DEF Settled, d
    <3> QED
      BY <1>7, <3>3, <3>4, LedgersUnchanged, Zenon DEF ReconcileReturned
  <2> QED
    BY <1>7, <2>1, <2>2, Zenon DEF ReconcileReturned
<1> QED
  BY <1>4, <1>5, <1>6, <1>7, Zenon

(* An import that is queued from the committed snapshot. *)
LEMMA ImportsKeep ==
    ASSUME IInv, NEW s \in Sources,
           ReconcileImport(s) \/ \E allow \in BOOLEAN : CredentialImport(s, allow)
    PROVE  IInv' /\ Quiet
<1>1. PICK allow \in BOOLEAN, explicit \in BOOLEAN : Queue(db, s, allow, explicit)
  BY Zenon DEF ReconcileImport, CredentialImport
<1>2. UNCHANGED <<asked, forgot>>
  BY Zenon DEF ReconcileImport, CredentialImport
<1>3. /\ Good(db') /\ ReadsOK(db', reads', stale')
      /\ db'.epoch = db.epoch /\ db'.account = db.account /\ db'.tombstones = db.tombstones
      /\ db'.grant = db.grant
  BY <1>1, QueueKeeps, Zenon DEF IInv
<1> QED
  BY <1>2, <1>3, LedgersUnchanged, Zenon

-----------------------------------------------------------------------------
(* A snapshot e in which the running job of source s has ended. *)
Ended(d, e, s, status) ==
    /\ e \in Snapshots
    /\ e.source = d.source /\ e.authority = d.authority /\ e.epoch = d.epoch
    /\ \A t \in Sources \ {s} : e.job[t] = d.job[t]
    /\ e.job[s] = [generation |-> d.job[s].generation, status |-> status]
    /\ e.imports = {c \in d.imports : c.source # s}

(* The credits of a snapshot are those of its running jobs. *)
CreditsOK(e) ==
    /\ \A s \in Sources : e.job[s].status = "running" =>
          \E c \in e.imports : c.source = s /\ c.job = e.job[s].generation
    /\ \A c \in e.imports :
          /\ c.authority = e.authority[c.source] /\ e.source[c.source] = "connected"
          /\ c.job = e.job[c.source].generation
          /\ e.job[c.source].status = "running"

(* Reads and credits fit a snapshot in which a read has ended its job. *)
LEMMA EndedReads ==
    ASSUME NEW d, Good(d), ReadsOK(d, reads, stale), NEW r \in reads, NEW e,
           Ended(d, e, r.source, "failed") \/ Ended(d, e, r.source, "completed")
    PROVE  ReadsOK(e, reads \ {r}, stale \ {r}) /\ CreditsOK(e)
<1> DEFINE s == r.source
<1>0. d \in Snapshots /\ e \in Snapshots /\ s \in Sources /\ reads \subseteq Reads
      /\ \A q \in reads : q.source \in Sources
  BY Zenon DEF Good, Ended, ReadsOK, Reads
<1>1. \A c \in e.imports : c \in d.imports /\ c.source # s /\ c.source \in Sources
                           /\ e.job[c.source] = d.job[c.source]
  BY <1>0, Zenon DEF Ended, Snapshots, Credits
<1>2. \A t \in Sources : e.job[t].generation = d.job[t].generation
  BY SMTT(90) DEF Ended
<1>3. ASSUME NEW t \in Sources, e.job[t].status = "running"
      PROVE  \E c \in e.imports : c.source = t /\ c.job = e.job[t].generation
  <2>1. t # s /\ e.job[t] = d.job[t]
    BY <1>3 DEF Ended
  <2>2. PICK c \in d.imports : c.source = t /\ c.job = d.job[t].generation
    BY <1>3, <2>1, Zenon DEF Good, Restorable
  <2> QED
    BY <2>1, <2>2, Zenon DEF Ended
<1>4. ASSUME NEW c \in e.imports
      PROVE  /\ c.authority = e.authority[c.source] /\ e.source[c.source] = "connected"
             /\ c.job = e.job[c.source].generation
             /\ e.job[c.source].status = "running"
  BY <1>1, SMTT(90) DEF Good, Restorable, Ended
<1>5. ASSUME NEW q \in stale \ {r} PROVE q \in reads \ {r} /\ ~Running(e, q)
  <2>1. q \in reads /\ ~Running(d, q)
    BY Zenon DEF ReadsOK
  <2>2. CASE q.source = s
    BY <1>0, <2>1, <2>2, RunningFields, SMTT(90) DEF Ended
  <2>3. CASE q.source # s
    BY <1>0, <2>1, <2>3, Zenon DEF Running, Ended
  <2> QED
    BY <2>1, <2>2, <2>3, Zenon
<1>6. ASSUME NEW c \in e.imports, c.state = "reserved"
      PROVE  \E q \in reads \ {r} : q.source = c.source /\ q.job = c.job
  BY <1>1, <1>6, Zenon DEF ReadsOK
<1>7. \A q \in reads \ {r} : q.authority <= e.authority[q.source] /\ q.job <= e.job[q.source].generation
  BY <1>0, <1>2, Zenon DEF ReadsOK, Ended
<1> QED
  BY <1>0, <1>3, <1>4, <1>5, <1>6, <1>7, Zenon DEF ReadsOK, CreditsOK

(* A read that fails ends its job, if the job is still its own. *)
LEMMA FailedFields ==
    ASSUME NEW d, Good(d), NEW r \in Reads, Running(d, r)
    PROVE  /\ Ended(d, Failed(d, r), r.source, "failed")
           /\ Failed(d, r).account = d.account
           /\ Failed(d, r).tombstones = d.tombstones /\ Failed(d, r).grant = d.grant
           /\ Failed(d, r).samples = d.samples
<1> DEFINE s == r.source
           imports == {c \in d.imports : c.source # s}
           job == [generation |-> d.job[s].generation, status |-> "failed"]
<1>0. d \in Snapshots /\ s \in Sources /\ d.job[s] \in Jobs
  BY Zenon DEF Good, Snapshots, Reads
<1>1. {c \in d.imports : ~(c.source = s /\ c.job = r.job)} = imports
  BY <1>0, RunningFields, SMTT(90) DEF Good, Restorable
<1>2. [d.job[s] EXCEPT !.status = "failed"] = job
  BY <1>0 DEF Jobs
<1> DEFINE jobs == [d.job EXCEPT ![s] = job]
<1>3. Failed(d, r) = [d EXCEPT !.job = jobs, !.imports = imports]
  BY <1>0, <1>1, <1>2, Zenon DEF Failed, FailJob, Snapshots
<1>4. jobs \in [Sources -> Jobs] /\ imports \in SUBSET Credits
  BY <1>0, Zenon DEF Snapshots, Jobs
<1> HIDE DEF jobs, imports
<1>5. /\ Failed(d, r) \in Snapshots
      /\ Failed(d, r).source = d.source /\ Failed(d, r).authority = d.authority
      /\ Failed(d, r).epoch = d.epoch /\ Failed(d, r).imports = imports
      /\ Failed(d, r).account = d.account /\ Failed(d, r).tombstones = d.tombstones
      /\ Failed(d, r).grant = d.grant /\ Failed(d, r).samples = d.samples
      /\ Failed(d, r).job = jobs
  BY <1>0, <1>3, <1>4, Zenon DEF Snapshots
<1>6. Failed(d, r).job[s] = job /\ \A t \in Sources \ {s} : Failed(d, r).job[t] = d.job[t]
  BY <1>0, <1>5, Zenon DEF Snapshots, jobs
<1> QED
  BY <1>5, <1>6, Zenon DEF Ended, imports

(* A snapshot e in which a read of source s has ended its job, and given   *)
(* the source and an identity i the next generation of their grant.        *)
Gained(d, e, s, i, allow) ==
    /\ Ended(d, e, s, "completed")
    /\ e.tombstones = IF allow THEN d.tombstones \ {i} ELSE d.tombstones
    /\ e.account[i] = d.account[i] \union {s}
    /\ \A j \in Identities \ {i} : e.account[j] = d.account[j]
    /\ e.grant[s][i] = [generation |-> d.grant[s][i].generation + 1, ready |-> TRUE]
    /\ \A t \in Sources, j \in Identities : t # s \/ j # i => e.grant[t][j] = d.grant[t][j]
    /\ e.samples = {c \in d.samples : ~(c.source = s /\ c.identity = i)}

(* What finishImport commits is such a snapshot. *)
LEMMA GrantedFields ==
    ASSUME NEW d, Good(d), NEW r \in Reads, NEW i \in Identities, Running(d, r)
    PROVE  Gained(d, Granted(d, r, i), r.source, i, r.allow)
<1> DEFINE e == Granted(d, r, i)
           s == r.source
           imports == {c \in d.imports : c.source # s}
           samples == {c \in d.samples : ~(c.source = s /\ c.identity = i)}
           job == [generation |-> d.job[s].generation, status |-> "completed"]
           jobs == [d.job EXCEPT ![s] = job]
           grant == [generation |-> d.grant[s][i].generation + 1, ready |-> TRUE]
           grants == [d.grant EXCEPT ![s] = [@ EXCEPT ![i] = grant]]
           accounts == [d.account EXCEPT ![i] = @ \union {s}]
           tombstones == IF r.allow THEN d.tombstones \ {i} ELSE d.tombstones
           Grant == [generation : 0..MaxJob, ready : BOOLEAN]
<1>0. d \in Snapshots /\ s \in Sources
  BY Zenon DEF Good, Reads
<1>1. d.job \in [Sources -> Jobs] /\ d.job[s] \in Jobs /\ d.account \in [Identities -> SUBSET Sources]
      /\ d.grant \in [Sources -> [Identities -> Grant]] /\ d.grant[s][i] \in Grant
  BY <1>0 DEF Snapshots
<1>2. d.grant[s][i].generation < d.job[s].generation
  <2>1. d.job[s].status = "running"
    BY <1>0, RunningFields, Zenon
  <2> QED
    BY <1>0, <2>1, Zenon DEF Good, GrantsOK
<1>3. {c \in d.imports : ~(c.source = s /\ c.job = r.job)} = imports
  BY <1>0, RunningFields, SMTT(90) DEF Good, Restorable
<1>4. e = [d EXCEPT !.tombstones = tombstones, !.account = accounts, !.grant = grants,
                    !.samples = samples, !.job = jobs, !.imports = imports]
  <2>1. [d.job EXCEPT ![s].status = "completed"] = jobs
    <3>1. [d.job[s] EXCEPT !.status = "completed"] = job
      BY <1>1 DEF Jobs
    <3> QED
      BY <1>1, <3>1, Zenon
  <2>2. [d.grant EXCEPT ![s][i] = [generation |-> @.generation + 1, ready |-> TRUE]] = grants
    BY <1>1, Zenon
  <2>3. e = [d EXCEPT !.tombstones = tombstones, !.account = accounts,
                      !.grant = [d.grant EXCEPT ![s][i] = [generation |-> @.generation + 1, ready |-> TRUE]],
                      !.samples = samples, !.job = [d.job EXCEPT ![s].status = "completed"],
                      !.imports = {c \in d.imports : ~(c.source = s /\ c.job = r.job)}]
    BY <1>0, Zenon DEF Granted, Snapshots
  <2> HIDE DEF e, tombstones, accounts, grants, samples, jobs, imports
  <2> QED
    BY <1>3, <2>1, <2>2, <2>3, Zenon
<1>5. grant \in Grant
  <2>1. d.grant[s][i].generation + 1 \in 0..MaxJob
    BY <1>1, <1>2, ImportsAssumption, SMTT(90) DEF Jobs
  <2> QED
    BY <2>1, Zenon
<1>6. jobs \in [Sources -> Jobs]
  <2>1. job \in Jobs
    BY <1>1, Zenon DEF Jobs
  <2> QED
    BY <1>1, <2>1, Zenon
<1>7. grants \in [Sources -> [Identities -> Grant]]
  BY <1>1, <1>5, Zenon
<1>8. accounts \in [Identities -> SUBSET Sources]
  BY <1>0, <1>1, Zenon
<1>9. imports \in SUBSET Credits /\ samples \in SUBSET Samples /\ tombstones \in SUBSET Identities
  BY <1>0, Zenon DEF Snapshots
<1>10. /\ jobs[s] = job /\ \A t \in Sources \ {s} : jobs[t] = d.job[t]
       /\ accounts[i] = d.account[i] \union {s}
       /\ \A j \in Identities \ {i} : accounts[j] = d.account[j]
  BY <1>0, <1>1, Zenon
<1>11. /\ grants[s][i] = grant
       /\ \A t \in Sources, j \in Identities : t # s \/ j # i => grants[t][j] = d.grant[t][j]
  BY <1>0, <1>1, Zenon
<1> HIDE DEF e, imports, samples, jobs, grants, accounts, tombstones
<1>12. /\ e \in Snapshots
       /\ e.source = d.source /\ e.authority = d.authority /\ e.epoch = d.epoch
       /\ e.imports = imports /\ e.samples = samples /\ e.tombstones = tombstones
       /\ e.account = accounts /\ e.grant = grants /\ e.job = jobs
  BY <1>0, <1>4, <1>6, <1>7, <1>8, <1>9, Zenon DEF Snapshots
<1>13. Ended(d, e, s, "completed")
  BY <1>10, <1>12, Zenon DEF Ended, imports
<1> QED
  BY <1>10, <1>11, <1>12, <1>13, Zenon DEF Gained, e, samples, tombstones

(* failImport, for a read that is current or superseded. *)
LEMMA FailedGood ==
    ASSUME NEW d, Good(d), ReadsOK(d, reads, stale), NEW r \in reads
    PROVE  /\ Good(Failed(d, r)) /\ ReadsOK(Failed(d, r), reads \ {r}, stale \ {r})
           /\ Failed(d, r).epoch = d.epoch /\ Failed(d, r).account = d.account
           /\ Failed(d, r).tombstones = d.tombstones /\ Failed(d, r).grant = d.grant
<1> DEFINE e == Failed(d, r)
<1>0. d \in Snapshots /\ r \in Reads /\ r.source \in Sources
  BY Zenon DEF Good, ReadsOK, Reads
<1>1. CASE Running(d, r)
  <2>1. /\ Ended(d, e, r.source, "failed") /\ e.account = d.account
        /\ e.tombstones = d.tombstones /\ e.grant = d.grant /\ e.samples = d.samples
    BY <1>0, <1>1, FailedFields, Zenon
  <2> HIDE DEF e
  <2>2. ReadsOK(e, reads \ {r}, stale \ {r}) /\ CreditsOK(e)
    BY <2>1, EndedReads, Zenon
  <2>3. Restorable(e)
    <3>1. \A c \in e.samples :
             /\ c.authority = e.authority[c.source] /\ e.source[c.source] # "disconnected"
             /\ c.identity \in Identities /\ c.source \in e.account[c.identity]
             /\ c.grant = e.grant[c.source][c.identity].generation
      BY <2>1, SMTT(90) DEF Good, Restorable, Ended
    <3> QED
      BY <2>2, <3>1, Zenon DEF Restorable, CreditsOK
  <2>4. GrantsOK(e)
    <3>1. \A s \in Sources : /\ e.job[s].generation = d.job[s].generation
                             /\ e.job[s].status = "running" => d.job[s].status = "running"
      BY <2>1, SMTT(90) DEF Ended
    <3> QED
      BY <2>1, <3>1, SMTT(90) DEF Good, GrantsOK, Ended
  <2>5. e \in Snapshots /\ e.epoch = d.epoch
        /\ \A s \in Sources : e.source[s] = "absent" => e.authority[s] = 0
    BY <2>1, Zenon DEF Ended, Good
  <2> QED
    BY <2>1, <2>2, <2>3, <2>4, <2>5, Zenon DEF Good, CreditsOK, e
<1>2. CASE ~Running(d, r)
  <2>1. e = d
    BY <1>2, Zenon DEF Failed
  <2>2. ASSUME NEW c \in d.imports, c.state = "reserved"
        PROVE  \E q \in reads \ {r} : q.source = c.source /\ q.job = c.job
    <3>1. PICK q \in reads : q.source = c.source /\ q.job = c.job
      BY <2>2, Zenon DEF ReadsOK
    <3>2. q \in Reads
      BY Zenon DEF ReadsOK
    <3>3. Running(d, q)
      BY <1>0, <3>1, <3>2, RunningFields, SMTT(90) DEF Good, Restorable
    <3> QED
      BY <1>2, <3>1, <3>3, Zenon
  <2> QED
    BY <2>1, <2>2, Zenon DEF ReadsOK
<1> QED
  BY <1>1, <1>2, Zenon

(* finishImport, for a read that is authorized. *)
LEMMA GrantedGood ==
    ASSUME NEW d, Good(d), ReadsOK(d, reads, stale), NEW r \in reads, NEW i \in Identities,
           Authorized(d, r)
    PROVE  Good(Granted(d, r, i)) /\ ReadsOK(Granted(d, r, i), reads \ {r}, stale \ {r})
<1> DEFINE e == Granted(d, r, i)
           s == r.source
<1>0. d \in Snapshots /\ r \in Reads /\ s \in Sources /\ Running(d, r)
  BY Zenon DEF Good, ReadsOK, Reads, Authorized
<1>g. Gained(d, e, s, i, r.allow)
  BY <1>0, GrantedFields, Zenon
<1> HIDE DEF e
<1>e. Ended(d, e, s, "completed")
  BY <1>g, Zenon DEF Gained
<1>1. /\ e.account[i] = d.account[i] \union {s}
      /\ \A j \in Identities \ {i} : e.account[j] = d.account[j]
      /\ e.grant[s][i] = [generation |-> d.grant[s][i].generation + 1, ready |-> TRUE]
      /\ \A t \in Sources, j \in Identities : t # s \/ j # i => e.grant[t][j] = d.grant[t][j]
      /\ e.samples = {c \in d.samples : ~(c.source = s /\ c.identity = i)}
  BY <1>g, Zenon DEF Gained
<1>2. ReadsOK(e, reads \ {r}, stale \ {r}) /\ CreditsOK(e)
  BY <1>e, EndedReads, Zenon
<1>3. Restorable(e)
  <2>1. ASSUME NEW c \in e.samples
        PROVE  /\ c.authority = e.authority[c.source] /\ e.source[c.source] # "disconnected"
               /\ c.identity \in Identities /\ c.source \in e.account[c.identity]
               /\ c.grant = e.grant[c.source][c.identity].generation
    <3>1. /\ c \in d.samples /\ (c.source # s \/ c.identity # i)
          /\ c.source \in Sources /\ c.identity \in Identities
      BY <1>0, <1>1, Zenon DEF Snapshots, Samples
    <3>2. e.grant[c.source][c.identity] = d.grant[c.source][c.identity]
      BY <1>1, <3>1, Zenon
    <3>3. d.account[c.identity] \subseteq e.account[c.identity]
      BY <1>1, <3>1, Zenon
    <3>4. e.source = d.source /\ e.authority = d.authority
      BY <1>e, Zenon DEF Ended
    <3> QED
      BY <3>1, <3>2, <3>3, <3>4, SMTT(90) DEF Good, Restorable
  <2> QED
    BY <1>2, <2>1, Zenon DEF Restorable, CreditsOK
<1>4. GrantsOK(e)
  <2> SUFFICES ASSUME NEW t \in Sources, NEW j \in Identities
               PROVE  /\ e.grant[t][j].generation <= e.job[t].generation
                      /\ e.job[t].status = "running" => e.grant[t][j].generation < e.job[t].generation
                      /\ e.grant[t][j].ready => t \in e.account[j]
                            /\ e.grant[t][j].generation # 0 /\ e.authority[t] # 0
    BY Zenon DEF GrantsOK
  <2>1. /\ d.grant[t][j].generation \in Nat /\ d.job[t].generation \in Nat
        /\ e.job[t].generation = d.job[t].generation /\ e.authority = d.authority
        /\ e.job[t].status = "running" => d.job[t].status = "running"
    <3>1. d.grant[t][j].generation \in Nat /\ d.job[t].generation \in Nat
      BY <1>0, SnapshotNumbers, Zenon
    <3>2. /\ e.job[t].generation = d.job[t].generation /\ e.authority = d.authority
          /\ e.job[t].status = "running" => d.job[t].status = "running"
      BY <1>e DEF Ended
    <3> QED
      BY <3>1, <3>2, Zenon
  <2>2. CASE t = s /\ j = i
    <3>1. d.grant[s][i].generation < d.job[s].generation
      <4>1. d.job[s].status = "running"
        BY <1>0, RunningFields, Zenon
      <4> QED
        BY <1>0, <4>1, Zenon DEF Good, GrantsOK
    <3>2. e.job[s].status = "completed"
      BY <1>e DEF Ended
    <3>3. d.authority[s] # 0
      <4>1. d.authority[s] = r.authority /\ r.authority \in 1..MaxAuthority
        BY <1>0, Zenon DEF Authorized, Reads
      <4> QED
        BY <4>1
    <3>4. s \in e.account[i]
      BY <1>1, Zenon
    <3>5. e.grant[s][i].generation = d.grant[s][i].generation + 1
      BY <1>1
    <3> QED
      BY <2>1, <2>2, <3>1, <3>2, <3>3, <3>4, <3>5
  <2>3. CASE t # s \/ j # i
    <3>1. e.grant[t][j] = d.grant[t][j] /\ d.account[j] \subseteq e.account[j]
      BY <1>1, <2>3, Zenon
    <3>2. GrantsOK(d)
      BY Zenon DEF Good
    <3> QED
      BY <2>1, <3>1, <3>2, Zenon DEF GrantsOK
  <2> QED
    BY <2>2, <2>3, Zenon
<1>5. e \in Snapshots /\ \A t \in Sources : e.source[t] = "absent" => e.authority[t] = 0
  BY <1>e, Zenon DEF Ended, Good
<1> QED
  BY <1>2, <1>3, <1>4, <1>5, Zenon DEF Good, CreditsOK, e

-----------------------------------------------------------------------------
(* One current read leaves the flight and at most its own source and an    *)
(* identity gain by it, one that was forgotten only with consent.          *)
Granting ==
    \E r \in reads \ stale, i \in Identities :
        /\ r \notin reads'
        /\ \A s \in Sources, j \in Identities :
              s # r.source \/ j # i => db'.grant[s][j].generation = db.grant[s][j].generation
        /\ \A j \in Identities \ {i} : db'.account[j] = db.account[j]
        /\ db.account[i] = {} /\ forgot[i] > 0 => r.allow /\ r.epoch = db.epoch

(* A read that fails, or is not admitted, grants nothing. *)
LEMMA FailKeeps ==
    ASSUME IInv, NEW r \in reads, db' = Failed(db, r), reads' = reads \ {r},
           stale' = stale \ {r}, UNCHANGED <<asked, forgot>>
    PROVE  IInv' /\ Quiet
<1>1. /\ Good(db') /\ ReadsOK(db', reads', stale')
      /\ db'.epoch = db.epoch /\ db'.account = db.account
      /\ db'.tombstones = db.tombstones /\ db'.grant = db.grant
  BY FailedGood, Zenon DEF IInv
<1> QED
  BY <1>1, LedgersUnchanged, Zenon

(* A read that is admitted. *)
LEMMA GrantKeeps ==
    ASSUME IInv, NEW r \in reads, NEW i \in Identities, Admits(db, r, i),
           db' = Granted(db, r, i), reads' = reads \ {r}, stale' = stale \ {r},
           UNCHANGED <<asked, forgot>>
    PROVE  IInv' /\ Granting
<1>0. /\ Good(db) /\ ReadsOK(db, reads, stale) /\ Authorized(db, r) /\ Running(db, r)
      /\ r \in Reads /\ r.source \in Sources
  BY Zenon DEF IInv, Admits, Authorized, ReadsOK, Reads
<1>1. Good(db') /\ ReadsOK(db', reads', stale')
  BY <1>0, GrantedGood, Zenon
<1>2. Gained(db, db', r.source, i, r.allow)
  BY <1>0, GrantedFields, Zenon
<1>3. ForgetsOK'
  <2>1. db'.epoch = db.epoch
    BY <1>2, Zenon DEF Gained, Ended
  <2>2. ASSUME NEW j \in Identities, db'.account[j] = {}, forgot[j] > 0
        PROVE  j \in db'.tombstones
    <3>1. j # i /\ db.account[j] = {}
      BY <1>0, <1>2, <2>2, Zenon DEF Gained
    <3>2. j \in db.tombstones
      BY <2>2, <3>1, Zenon DEF IInv, ForgetsOK
    <3> QED
      BY <1>2, <3>1, <3>2, Zenon DEF Gained
  <2> QED
    BY <2>1, <2>2, Zenon DEF IInv, ForgetsOK
<1>4. r \notin stale
  BY <1>0, Zenon DEF ReadsOK
<1>5. db.account[i] = {} /\ forgot[i] > 0 => r.allow /\ r.epoch = db.epoch
  BY Zenon DEF IInv, ForgetsOK, Admits, Authorized
<1>6. Granting
  <2>1. /\ \A s \in Sources, j \in Identities :
              s # r.source \/ j # i => db'.grant[s][j].generation = db.grant[s][j].generation
        /\ \A j \in Identities \ {i} : db'.account[j] = db.account[j]
    BY <1>2, Zenon DEF Gained
  <2> QED
    BY <1>4, <1>5, <2>1, Zenon DEF Granting
<1> QED
  BY <1>1, <1>3, <1>6, Zenon DEF IInv

-----------------------------------------------------------------------------
(* account.forget leaves reads and jobs alone. *)
LEMMA ForgetKeeps ==
    ASSUME IInv, NEW i \in Identities, Forget(i)
    PROVE  IInv' /\ Quiet
<1> DEFINE Grant == [generation : 0..MaxJob, ready : BOOLEAN]
           none == [generation |-> 0, ready |-> FALSE]
           tombstones == db.tombstones \union {i}
           accounts == [db.account EXCEPT ![i] = {}]
           grants == [s \in Sources |-> [db.grant[s] EXCEPT ![i] = none]]
           samples == {c \in db.samples : c.identity # i}
<1>0. db \in Snapshots /\ Good(db) /\ db.epoch + 1 \in 0..MaxForgets /\ db.epoch \in Nat
  BY ImportsAssumption DEF IInv, Good, Snapshots, Forget
<1>1. db.account \in [Identities -> SUBSET Sources] /\ db.grant \in [Sources -> [Identities -> Grant]]
  BY <1>0, Zenon DEF Snapshots
<1>2. db' = [db EXCEPT !.tombstones = tombstones, !.account = accounts, !.grant = grants,
                       !.samples = samples, !.epoch = db.epoch + 1]
  BY <1>0, <1>1, Zenon DEF Forget, Snapshots
<1>3. /\ tombstones \in SUBSET Identities /\ samples \in SUBSET Samples
      /\ accounts \in [Identities -> SUBSET Sources]
  BY <1>0, <1>1, Zenon DEF Snapshots
<1>4. grants \in [Sources -> [Identities -> Grant]]
  <2>1. none \in Grant
    BY ImportsAssumption
  <2> QED
    BY <1>1, <2>1, Zenon
<1>5. /\ accounts[i] = {} /\ \A j \in Identities \ {i} : accounts[j] = db.account[j]
      /\ \A s \in Sources : /\ grants[s][i] = none
                            /\ \A j \in Identities \ {i} : grants[s][j] = db.grant[s][j]
  BY <1>1, Zenon
<1> HIDE DEF tombstones, accounts, grants, samples
<1>6. /\ db' \in Snapshots
      /\ db'.source = db.source /\ db'.authority = db.authority /\ db'.job = db.job
      /\ db'.imports = db.imports /\ db'.epoch = db.epoch + 1
      /\ db'.tombstones = tombstones /\ db'.account = accounts /\ db'.grant = grants
      /\ db'.samples = samples
  BY <1>0, <1>2, <1>3, <1>4, Zenon DEF Snapshots
<1>7. \A s \in Sources, j \in Identities :
         db.grant[s][j].generation \in Nat /\ db.job[s].generation \in Nat
  BY <1>0, SnapshotNumbers, Zenon
<1>8. GrantsOK(db')
  <2> SUFFICES ASSUME NEW t \in Sources, NEW j \in Identities
               PROVE  /\ grants[t][j].generation <= db.job[t].generation
                      /\ db.job[t].status = "running" => grants[t][j].generation < db.job[t].generation
                      /\ grants[t][j].ready => t \in accounts[j]
                            /\ grants[t][j].generation # 0 /\ db.authority[t] # 0
    BY <1>6, Zenon DEF GrantsOK
  <2>1. /\ db.grant[t][j].generation <= db.job[t].generation
        /\ db.job[t].status = "running" => db.grant[t][j].generation < db.job[t].generation
        /\ db.grant[t][j].ready => t \in db.account[j]
              /\ db.grant[t][j].generation # 0 /\ db.authority[t] # 0
    BY <1>0, Zenon DEF Good, GrantsOK
  <2>2. CASE j = i
    BY <1>5, <1>7, <2>1, <2>2, SMTT(90)
  <2>3. CASE j # i
    BY <1>5, <2>1, <2>3, Zenon
  <2> QED
    BY <2>2, <2>3, Zenon
<1>9. Restorable(db')
  <2>1. ASSUME NEW c \in samples
        PROVE  /\ c.authority = db.authority[c.source] /\ db.source[c.source] # "disconnected"
               /\ c.identity \in Identities /\ c.source \in accounts[c.identity]
               /\ c.grant = grants[c.source][c.identity].generation
    <3>1. c \in db.samples /\ c.identity # i /\ c.source \in Sources /\ c.identity \in Identities
      BY <1>0, Zenon DEF samples, Snapshots, Samples
    <3>2. accounts[c.identity] = db.account[c.identity]
          /\ grants[c.source][c.identity] = db.grant[c.source][c.identity]
      BY <1>5, <3>1, SMTT(90)
    <3> QED
      BY <1>0, <3>1, <3>2, SMTT(90) DEF Good, Restorable
  <2>2. /\ \A s \in Sources : db.job[s].status = "running" =>
              \E c \in db.imports : c.source = s /\ c.job = db.job[s].generation
        /\ \A c \in db.imports :
              /\ c.authority = db.authority[c.source] /\ db.source[c.source] = "connected"
              /\ c.job = db.job[c.source].generation
              /\ db.job[c.source].status # "completed"
    BY <1>0, Zenon DEF Good, Restorable
  <2> QED
    BY <1>6, <2>1, <2>2, SMTT(90) DEF Restorable
<1>10. Good(db')
  BY <1>0, <1>6, <1>8, <1>9, Zenon DEF Good
<1>11. ReadsOK(db', reads', stale')
  <2>1. UNCHANGED <<reads, stale>> /\ ReadsOK(db, reads, stale)
    BY Zenon DEF Forget, IInv
  <2> QED
    BY <1>6, <2>1, Zenon DEF ReadsOK, Running
<1>12. ForgetsOK'
  <2>1. forgot' = [forgot EXCEPT ![i] = db.epoch + 1] /\ forgot \in [Identities -> Nat]
        /\ \A j \in Identities : /\ forgot[j] <= db.epoch
                                 /\ db.account[j] = {} /\ forgot[j] > 0 => j \in db.tombstones
    BY Zenon DEF Forget, IInv, ForgetsOK
  <2>2. forgot' \in [Identities -> Nat]
    BY <1>0, <2>1
  <2>3. ASSUME NEW j \in Identities
        PROVE  /\ forgot'[j] <= db.epoch + 1
               /\ accounts[j] = {} /\ forgot'[j] > 0 => j \in tombstones
    <3>1. CASE j = i
      BY <1>0, <2>1, <3>1 DEF tombstones
    <3>2. CASE j # i
      BY <1>0, <1>5, <2>1, <3>2, SMTT(90) DEF tombstones
    <3> QED
      BY <3>1, <3>2, Zenon
  <2> QED
    BY <1>6, <2>2, <2>3, Zenon DEF ForgetsOK
<1>13. Quiet
  <2>1. \A s \in Sources, j \in Identities : grants[s][j].generation <= db.grant[s][j].generation
    BY <1>5, <1>7, SMTT(90)
  <2> QED
    BY <1>5, <1>6, <2>1, Zenon DEF Quiet
<1>14. asked' \in 0..MaxPolls
  BY Zenon DEF Forget, IInv
<1> QED
  BY <1>10, <1>11, <1>12, <1>13, <1>14, Zenon DEF IInv

-----------------------------------------------------------------------------
(* Steps that change nothing but the observation credits. *)
LEMMA SamplesKeep ==
    ASSUME IInv, NEW samples \in SUBSET Samples, db' = [db EXCEPT !.samples = samples],
           UNCHANGED <<reads, stale, forgot>>, asked' \in 0..MaxPolls,
           \A c \in samples :
              /\ c.authority = db.authority[c.source] /\ db.source[c.source] # "disconnected"
              /\ c.identity \in Identities /\ c.source \in db.account[c.identity]
              /\ c.grant = db.grant[c.source][c.identity].generation
    PROVE  IInv' /\ Quiet
<1>0. db \in Snapshots /\ Good(db)
  BY Zenon DEF IInv, Good
<1>1. /\ db' \in Snapshots
      /\ db'.source = db.source /\ db'.authority = db.authority /\ db'.job = db.job
      /\ db'.imports = db.imports /\ db'.epoch = db.epoch /\ db'.tombstones = db.tombstones
      /\ db'.account = db.account /\ db'.grant = db.grant /\ db'.samples = samples
  BY <1>0, Zenon DEF Snapshots
<1>2. Restorable(db')
  BY <1>0, <1>1 DEF Good, Restorable
<1>3. GrantsOK(db')
  BY <1>0, <1>1 DEF Good, GrantsOK
<1>4. Good(db')
  BY <1>0, <1>1, <1>2, <1>3, Zenon DEF Good
<1>5. ReadsOK(db', reads', stale')
  BY <1>1, Zenon DEF IInv, ReadsOK, Running
<1>6. ForgetsOK'
  BY <1>1, Zenon DEF IInv, ForgetsOK
<1>7. Quiet
  <2>1. \A s \in Sources, i \in Identities : db.grant[s][i].generation \in Nat
    BY <1>0, ImportsAssumption DEF Snapshots
  <2> QED
    BY <1>1, <2>1 DEF Quiet
<1> QED
  BY <1>4, <1>5, <1>6, <1>7, Zenon DEF IInv

(* Observation polls that are submitted and that complete. *)
LEMMA PollsKeep ==
    ASSUME IInv, \/ \E s \in Sources, i \in Identities : Poll(s, i)
                 \/ \E p \in polls : FinishPoll(p)
    PROVE  IInv' /\ Quiet
<1>0. db \in Snapshots /\ Good(db) /\ asked \in 0..MaxPolls
      /\ \A c \in db.samples :
            /\ c.authority = db.authority[c.source] /\ db.source[c.source] # "disconnected"
            /\ c.identity \in Identities /\ c.source \in db.account[c.identity]
            /\ c.grant = db.grant[c.source][c.identity].generation
  BY Zenon DEF IInv, Good, Restorable
<1>1. ASSUME NEW s \in Sources, NEW i \in Identities, Poll(s, i)
      PROVE  IInv' /\ Quiet
  <2> DEFINE sample == [source |-> s, identity |-> i, authority |-> db.authority[s],
                        grant |-> db.grant[s][i].generation, key |-> asked]
             samples == db.samples \union {sample}
  <2>1. /\ db' = [db EXCEPT !.samples = samples] /\ UNCHANGED <<reads, stale, forgot>>
        /\ asked' = asked + 1 /\ asked < MaxPolls
        /\ db.grant[s][i].ready /\ db.source[s] # "disconnected"
    BY <1>1, Zenon DEF Poll
  <2>2. s \in db.account[i] /\ db.grant[s][i].generation # 0 /\ db.authority[s] # 0
    BY <1>0, <2>1, Zenon DEF Good, GrantsOK
  <2>3. db.authority[s] \in 1..MaxAuthority /\ db.grant[s][i].generation \in 1..MaxJob
    <3>1. db.authority[s] \in 0..MaxAuthority /\ db.grant[s][i].generation \in 0..MaxJob
      BY <1>0, SnapshotNumbers, Zenon
    <3> QED
      BY <2>2, <3>1, ImportsAssumption, SMTT(90)
  <2>4. samples \in SUBSET Samples
    <3>1. sample \in Samples
      BY <1>0, <2>3, Zenon DEF Samples
    <3> QED
      BY <1>0, <3>1, Zenon DEF Snapshots
  <2>5. asked' \in 0..MaxPolls
    BY <1>0, <2>1, ImportsAssumption
  <2>6. ASSUME NEW c \in samples
        PROVE  /\ c.authority = db.authority[c.source] /\ db.source[c.source] # "disconnected"
               /\ c.identity \in Identities /\ c.source \in db.account[c.identity]
               /\ c.grant = db.grant[c.source][c.identity].generation
    BY <1>0, <2>1, <2>2
  <2> HIDE DEF samples
  <2> QED
    BY <2>1, <2>4, <2>5, <2>6, SamplesKeep, Zenon
<1>2. ASSUME NEW p \in polls, FinishPoll(p)
      PROVE  IInv' /\ Quiet
  <2>1. PICK samples \in SUBSET db.samples : db' = [db EXCEPT !.samples = samples]
    <3>1. CASE db' = db
      <4>1. db = [db EXCEPT !.samples = db.samples]
        BY <1>0, Zenon DEF Snapshots
      <4> QED
        BY <3>1, <4>1, Zenon
    <3>2. CASE db' = [db EXCEPT !.samples = @ \ {p}]
      BY <3>2, Zenon
    <3> QED
      BY <1>2, <3>1, <3>2, Zenon DEF FinishPoll
  <2>2. samples \in SUBSET Samples
    BY <1>0, Zenon DEF Snapshots
  <2>3. UNCHANGED <<reads, stale, forgot, asked>>
    BY <1>2, Zenon DEF FinishPoll
  <2> QED
    BY <1>0, <2>1, <2>2, <2>3, SamplesKeep, Zenon
<1> QED
  BY <1>1, <1>2, Zenon

-----------------------------------------------------------------------------
(* A restart loses the reads in flight and marks their credits. *)
LEMMA RestartKeeps ==
    ASSUME IInv, Restart
    PROVE  IInv' /\ Quiet
<1> DEFINE imports == {[c EXCEPT !.state = "indeterminate"] : c \in db.imports}
<1>0. db \in Snapshots /\ Good(db) /\ db.imports \subseteq Credits
  BY Zenon DEF IInv, Good, Snapshots
<1>1. ASSUME NEW c \in db.imports
      PROVE  LET b == [c EXCEPT !.state = "indeterminate"]
             IN  /\ b \in Credits /\ b.source = c.source /\ b.job = c.job
                 /\ b.authority = c.authority /\ b.state = "indeterminate"
  BY <1>0, Zenon DEF Credits
<1>2. imports \in SUBSET Credits
  BY <1>1, Zenon
<1>3. ASSUME NEW b \in imports
      PROVE  /\ b.state = "indeterminate"
             /\ \E c \in db.imports : b.source = c.source /\ b.job = c.job
                                      /\ b.authority = c.authority
  <2>1. PICK c \in db.imports : b = [c EXCEPT !.state = "indeterminate"]
    BY Zenon
  <2> QED
    BY <1>1, <2>1, Zenon
<1>4. \A c \in db.imports : \E b \in imports : b.source = c.source /\ b.job = c.job
  BY <1>1, Zenon
<1> HIDE DEF imports
<1>5. /\ db' \in Snapshots
      /\ db'.source = db.source /\ db'.authority = db.authority /\ db'.job = db.job
      /\ db'.imports = imports /\ db'.epoch = db.epoch /\ db'.tombstones = db.tombstones
      /\ db'.account = db.account /\ db'.grant = db.grant /\ db'.samples = db.samples
  <2>1. db' = [db EXCEPT !.imports = imports]
    BY Zenon DEF Restart, imports
  <2> QED
    BY <1>0, <1>2, <2>1, Zenon DEF Snapshots
<1>6. CreditsOK(db')
  <2>1. \A s \in Sources : db.job[s].status = "running" =>
           \E b \in imports : b.source = s /\ b.job = db.job[s].generation
    BY <1>0, <1>4, SMTT(90) DEF Good, Restorable
  <2>2. \A b \in imports :
           /\ b.authority = db.authority[b.source] /\ db.source[b.source] = "connected"
           /\ b.job = db.job[b.source].generation
           /\ db.job[b.source].status = "running"
    BY <1>0, <1>3, SMTT(90) DEF Good, Restorable
  <2> QED
    BY <1>5, <2>1, <2>2, SMTT(90) DEF CreditsOK
<1>7. Restorable(db')
  <2>1. \A c \in db.samples :
           /\ c.authority = db.authority[c.source] /\ db.source[c.source] # "disconnected"
           /\ c.identity \in Identities /\ c.source \in db.account[c.identity]
           /\ c.grant = db.grant[c.source][c.identity].generation
    BY <1>0, Zenon DEF Good, Restorable
  <2> QED
    BY <1>5, <1>6, <2>1, SMTT(90) DEF Restorable, CreditsOK
<1>8. GrantsOK(db')
  BY <1>0, <1>5, Zenon DEF Good, GrantsOK
<1>9. Good(db')
  BY <1>0, <1>5, <1>6, <1>7, <1>8, Zenon DEF Good, CreditsOK
<1>10. ReadsOK(db', reads', stale')
  <2>1. reads' = {} /\ stale' = {}
    BY Zenon DEF Restart
  <2> QED
    BY <1>3, <1>5, <2>1, Zenon DEF ReadsOK
<1> QED
  BY <1>5, <1>9, <1>10, LedgersUnchanged, Zenon DEF Restart

(* An empty snapshot satisfies the invariant. *)
LEMMA InitKeeps ==
    ASSUME Init
    PROVE  IInv
<1> DEFINE Grant == [generation : 0..MaxJob, ready : BOOLEAN]
           sources == [s \in Sources |-> "absent"]
           authorities == [s \in Sources |-> 0]
           jobs == [s \in Sources |-> [generation |-> 0, status |-> "none"]]
           accounts == [i \in Identities |-> {}]
           grants == [s \in Sources |-> [i \in Identities |-> [generation |-> 0, ready |-> FALSE]]]
<1>1. /\ sources \in [Sources -> {"absent", "connected", "detached", "disconnected"}]
      /\ authorities \in [Sources -> 0..MaxAuthority]
      /\ accounts \in [Identities -> SUBSET Sources] /\ 0 \in 0..MaxForgets
  BY ImportsAssumption
<1>2. jobs \in [Sources -> Jobs]
  BY ImportsAssumption DEF Jobs
<1>3. grants \in [Sources -> [Identities -> Grant]]
  <2>1. [generation |-> 0, ready |-> FALSE] \in Grant
    BY ImportsAssumption
  <2> QED
    BY <2>1, Zenon
<1>4. /\ \A s \in Sources : jobs[s].status = "none" /\ jobs[s].generation = 0 /\ authorities[s] = 0
      /\ \A s \in Sources, i \in Identities : grants[s][i].generation = 0 /\ grants[s][i].ready = FALSE
  BY Zenon
<1>5. db = [source |-> sources, authority |-> authorities, job |-> jobs, epoch |-> 0,
            account |-> accounts, tombstones |-> {}, grant |-> grants, imports |-> {}, samples |-> {}]
  BY Zenon DEF Init
<1> HIDE DEF sources, authorities, jobs, accounts, grants
<1>6. /\ db \in Snapshots /\ db.imports = {} /\ db.samples = {} /\ db.job = jobs
      /\ db.authority = authorities /\ db.grant = grants /\ db.epoch = 0
  BY <1>1, <1>2, <1>3, <1>5, Zenon DEF Snapshots
<1>7. Restorable(db)
  BY <1>4, <1>6, Zenon DEF Restorable
<1>8. GrantsOK(db)
  BY <1>4, <1>6 DEF GrantsOK
<1>9. Good(db)
  BY <1>4, <1>6, <1>7, <1>8, Zenon DEF Good
<1>10. reads = {} /\ stale = {} /\ asked = 0 /\ forgot = [i \in Identities |-> 0]
  BY Zenon DEF Init
<1>11. ReadsOK(db, reads, stale)
  BY <1>6, <1>10, Zenon DEF ReadsOK
<1>12. ForgetsOK
  BY <1>6, <1>10 DEF ForgetsOK
<1>13. asked \in 0..MaxPolls
  BY <1>10, ImportsAssumption
<1> QED
  BY <1>9, <1>11, <1>12, <1>13, Zenon DEF IInv

(* A step that grants anything is Granting, every other one is Quiet. *)
LEMMA NextKeeps ==
    ASSUME IInv, [Next]_vars
    PROVE  IInv' /\ (Quiet \/ Granting)
<1>1. ASSUME NEW s \in Sources,
             \/ SourceConnect(s) \/ SourceDisconnect(s) \/ ReconcileMissing(s)
             \/ ReconcileReturned(s)
      PROVE  IInv' /\ (Quiet \/ Granting)
  BY <1>1, SourcesKeep, Zenon
<1>2. ASSUME NEW s \in Sources,
             ReconcileImport(s) \/ \E allow \in BOOLEAN : CredentialImport(s, allow)
      PROVE  IInv' /\ (Quiet \/ Granting)
  BY <1>2, ImportsKeep, Zenon
<1>3. ASSUME NEW r \in reads, FailImport(r)
      PROVE  IInv' /\ (Quiet \/ Granting)
  BY <1>3, FailKeeps, Zenon DEF FailImport
<1>4. ASSUME NEW r \in reads, NEW i \in Identities, FinishImport(r, i)
      PROVE  IInv' /\ (Quiet \/ Granting)
  <2>1. CASE Admits(db, r, i)
    BY <1>4, <2>1, GrantKeeps, Zenon DEF FinishImport
  <2>2. CASE ~Admits(db, r, i)
    BY <1>4, <2>2, FailKeeps, Zenon DEF FinishImport
  <2> QED
    BY <2>1, <2>2, Zenon
<1>5. ASSUME NEW i \in Identities, Forget(i)
      PROVE  IInv' /\ (Quiet \/ Granting)
  BY <1>5, ForgetKeeps, Zenon
<1>6. CASE \/ \E s \in Sources, i \in Identities : Poll(s, i)
           \/ \E p \in polls : FinishPoll(p)
  BY <1>6, PollsKeep, Zenon
<1>7. CASE Restart
  BY <1>7, RestartKeeps, Zenon
<1>8. CASE UNCHANGED vars
  <2>1. UNCHANGED <<db, reads, stale, asked, forgot>>
    BY <1>8, Zenon DEF vars
  <2>2. Good(db') /\ ReadsOK(db', reads', stale')
    BY <2>1, Zenon DEF IInv
  <2> QED
    BY <2>1, <2>2, LedgersUnchanged, Zenon
<1> QED
  BY <1>1, <1>2, <1>3, <1>4, <1>5, <1>6, <1>7, <1>8, Zenon DEF Next

(* The inductive invariant holds in every reachable state. *)
LEMMA Invariance == Spec => []IInv
<1>1. Init => IInv
  BY InitKeeps, Zenon
<1>2. IInv /\ [Next]_vars => IInv'
  BY NextKeeps, Zenon
<1> QED
  BY <1>1, <1>2, PTL DEF Spec

-----------------------------------------------------------------------------
(* Every snapshot the handlers commit passes validatePersistedAdmission:   *)
(* the credits name the current authority, job and grant generations, for  *)
(* every order of imports, answers, detached sources and restarts.         *)
THEOREM ImportsRestorable == Spec => []CommittedSnapshotRestorable
<1>1. IInv => CommittedSnapshotRestorable
  BY Zenon DEF IInv, Good, Snapshots, CommittedSnapshotRestorable
<1> QED
  BY <1>1, Invariance, PTL

(* The import credits are those of the running jobs (retireImportCredits,  *)
(* failImportJob, finishImport), and a reserved one has its read in flight *)
(* in pending_imports.                                                     *)
THEOREM CreditsAreHeld == Spec => []CreditsFollowJobs
<1>1. IInv => CreditsFollowJobs
  <2> SUFFICES ASSUME IInv, NEW c \in db.imports
               PROVE  /\ db.job[c.source].status = "running"
                      /\ c.state = "reserved" => HasRead(db, c.source)
    BY Zenon DEF CreditsFollowJobs, Orphan
  <2>1. db.job[c.source].status = "running" /\ c.job = db.job[c.source].generation
    BY Zenon DEF IInv, Good, Restorable
  <2> QED
    BY <2>1, Zenon DEF IInv, ReadsOK, HasRead
<1> QED
  BY <1>1, Invariance, PTL

(* finishImport grants nothing for a read whose source was revoked, or     *)
(* whose job a newer import replaced, while the provider was answering.    *)
THEOREM OnlyCurrentReadsGrant == Spec => GrantsComeFromCurrentReads
<1> DEFINE Step == \A s \in Sources, i \in Identities :
                      db'.grant[s][i].generation > db.grant[s][i].generation =>
                          \E r \in reads \ stale : r.source = s /\ r \notin reads'
<1>1. IInv /\ [Next]_vars => Step
  <2> SUFFICES ASSUME IInv, [Next]_vars, NEW s \in Sources, NEW i \in Identities,
                      db'.grant[s][i].generation > db.grant[s][i].generation
               PROVE  \E r \in reads \ stale : r.source = s /\ r \notin reads'
    BY Zenon
  <2>1. IInv' /\ (Quiet \/ Granting)
    BY NextKeeps, Zenon
  <2>2. db.grant[s][i].generation \in Nat /\ db'.grant[s][i].generation \in Nat
    <3>1. db \in Snapshots /\ db' \in Snapshots
      BY <2>1, Zenon DEF IInv, Good
    <3> QED
      BY <3>1, SnapshotNumbers, Zenon
  <2>3. ~Quiet
    BY <2>2, SMTT(90) DEF Quiet
  <2>4. PICK r \in reads \ stale, j \in Identities :
           /\ r \notin reads'
           /\ \A t \in Sources, k \in Identities :
                 t # r.source \/ k # j => db'.grant[t][k].generation = db.grant[t][k].generation
    BY <2>1, <2>3, Zenon DEF Granting
  <2>5. r.source = s
    BY <2>2, <2>4
  <2> QED
    BY <2>4, <2>5, Zenon
<1> QED
  BY <1>1, Invariance, PTL DEF Spec, GrantsComeFromCurrentReads

(* A forgotten account comes back only through an import the user started  *)
(* after the forget with consent to re-enroll (permitReenrollment, enroll  *)
(* and the forget epoch that finishImport compares).                       *)
THEOREM ForgottenNeedConsent == Spec => ForgottenReturnsByConsent
<1> DEFINE Step == \A i \in Identities :
                      db.account[i] = {} /\ db'.account[i] # {} /\ forgot[i] > 0 =>
                          \E r \in reads \ reads' : r.allow /\ r.epoch >= forgot[i]
<1>1. IInv /\ [Next]_vars => Step
  <2> SUFFICES ASSUME IInv, [Next]_vars, NEW i \in Identities,
                      db.account[i] = {}, db'.account[i] # {}, forgot[i] > 0
               PROVE  \E r \in reads \ reads' : r.allow /\ r.epoch >= forgot[i]
    BY Zenon
  <2>1. Granting
    BY NextKeeps, Zenon DEF Quiet
  <2>2. PICK r \in reads \ stale, j \in Identities :
           /\ r \notin reads'
           /\ \A k \in Identities \ {j} : db'.account[k] = db.account[k]
           /\ db.account[j] = {} /\ forgot[j] > 0 => r.allow /\ r.epoch = db.epoch
    BY <2>1, Zenon DEF Granting
  <2>3. r.allow /\ r.epoch = db.epoch
    BY <2>2, Zenon
  <2>4. forgot[i] <= db.epoch /\ forgot[i] \in Nat /\ db.epoch \in Nat
    BY ImportsAssumption, SMTT(90) DEF IInv, ForgetsOK, Good, Snapshots
  <2> QED
    BY <2>2, <2>3, <2>4, Zenon
<1> QED
  BY <1>1, Invariance, PTL DEF Spec, ForgottenReturnsByConsent
=============================================================================
