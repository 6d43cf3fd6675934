# Omux in TLA+

A verification development for Omux, the per-user account-continuity daemon of
this repository. Each module is translated from the source, in Zig and, for the
browser extension, JavaScript; `PROJECT.json`
maps every definition that models code to the lines it stands for.

## The system

One daemon per user keeps provider accounts (Codex, GitHub) usable by native
applications. Its parts, and how they interact:

| Part | Source | What it does |
|---|---|---|
| Lifecycle actor | `src/engine.zig` | One thread owns all state. Callers put invocations in a queue of 32 and block; every 100 ms the actor polls the network, expires leases and polls sources. |
| Native work supervisor | `src/native_owner_work.zig` | Two worker threads (lanes) run I/O with native owners; completions go back to the actor. |
| Domain state | `src/domain.zig` | Sources, accounts, grants, bindings, leases, observations, jobs, policy. |
| Request authority | `src/request_authority.zig` | Durable ledger of native requests: at most a first and an alternate attempt. |
| Mutation authority | `src/mutation_authority.zig` | Durable ledger of control operations, keyed by operation id. |
| Snapshot admission | `src/snapshot_admission.zig` | Credits that reserve room in the snapshot for an outcome before its work starts. |
| Native owner ledger | `src/native_owner.zig` | Owners, attachments, detach and removal. |
| Custody store | `src/storage.zig`, `src/recovery.zig` | SQLite snapshot and grants, beside an authority file that holds the checkpoint of the last admitted commit. |
| Observer | `src/observer.zig` | Polls providers for remaining capacity. |
| Transport client | `src/transport.zig` | HTTP on a thread of its own, with fixed rings. |
| Daemon | `src/daemon.zig`, `src/control.zig` | Local sockets, per-channel pools, JSON control protocol. |
| Browser bridge | `src/browser_*.zig`, `Engine.handleBrowser`, `extensions/` | An extension that connects a browser context to the daemon as a source, through a native messaging host. |
| Setup and probes | `src/integrations/` | Install and remove adapters, measure runtimes. |
| Readiness, evidence, reliability | `src/application_readiness.zig`, `src/setup_*.zig`, `src/reliability*.zig` | Derived reports and witnesses. |
| Clients and delivery | `clients/`, `delivery/`, `nix/`, `tools/` | User interfaces, packaging. |

Every handler of the actor reads the in-memory state, changes it, and ends in
`persist`, one commit of the whole snapshot. When a handler fails,
`restoreCommitted` reloads the last committed snapshot; when a commit fails
with an unknown outcome the engine is poisoned until a restart. All modules
share this shape.

## Modules

**`Store`** (`MCStore`, `StoreProofs`). The database file, the authority file, backups and
the open transaction are variables. A mutation (`Commit`, `BeginRotation`,
`CompleteRotation`, `QuarantineRotation`, the reconciliation inside `Open`)
stages its writes and a successor checkpoint; `Reserve` publishes the
checkpoint in the authority file; `CommitSucceeds`/`CommitFails` end it. `Stop`
may hit between any two of these, with either outcome of a write in progress.
`Backup` and `Restore` move the database file only. A checkpoint's random nonce
is the number of the draw, its digest the snapshot itself.

**`Mutations`**, **`OnceOnly`**, **`MutationsProofs`**. `Mutations` is
`authorizedRequest` around the mutation ledger: `RunLocal` commits effect and
record together; an external operation goes through `FenceExternal` (started
record and credit committed), `PerformEffect` or `PerformThroughCommit`, then
`CompleteExternal` or `FailExternal`. `Boot`, `ReserveRecovery` and
`FinishRecovery` are the commits of `bootstrap`. `wedged` is what `Store` shows
can happen to the database under a crash: the authority is ahead and the
database does not open again. `OnceOnly` is the promise to a client.

**`Requests`** (`MCRequests`, `RequestsProofs`). `adapter.acquire`, `materialize`, `report`,
`releaseBinding`, `account.forget`, the expiry sweep, import, disconnect,
restart. `saved` is the committed snapshot; between handlers the in-memory
state equals it, except for `native` (the process-local `NativeLease` list),
which `restoreCommitted` does not touch. `world` is what the application and the
provider really did with a handle, so that properties speak of acceptance by
the provider and not of what was reported. An account has one grant, and the
choice among the accounts whose grant is ready is free: capacity, pausing and
draining only narrow it.

**`Observations`**. The list of observations of one account and resource, in
its order, because `observe` replaces the first entry that qualifies and
`fromSnapshot` replays the list. `standing` is a history variable: the evidence
against the account, kept without a list.

**`Actor`** (`ActorProofs`). The loop of `Engine.actor`, the dispatch queue, native tasks with
their stages, the supervisor's queue, workers and completions, the runtime
measurement, shutdown. An announcement makes its owner call the daemon back;
the owner acknowledges once that callback was answered.

**`NativeOwners`** (`MCNativeOwners`, `NativeOwnersProofs`). A native owner is a
process that runs threads; registering a thread puts it under the daemon's
management, detaching it ends that. `disk` is the committed snapshot (owners, attachment rows,
removals, operation records, credits, leases and bindings that name a row),
`task` the native task of each call with its stage, `config` the registry
beside the owner's configuration. `managed` and `wire` are the owners' side:
the threads they really manage and the requests that may still take effect
after the daemon stopped waiting. Each `Start...` action is what the actor does
with a call before the first I/O, `Acknowledge` and `Timeout` the end of an I/O,
`Prepare...` and `Finish...` what `completeNativeWork` does next, with
`FailTask` for `failNativeTask`. An announcement and the callback its owner
makes share one row. A removal fences the epoch, detaches row by row
(`AdvanceRemoval`) and takes the adapter out of the configuration
(`FinishRemoval`); a later removal goes on from the fence of an earlier one.
More is allowed than the code does in four places: a removal takes any row
that can be detached, completions are handled in any order, a failing task may
or may not commit its uncertainty once the engine is poisoned, and a failed
commit may leave the snapshot before or after.

**`Transport`**, **`Reservations`** (`TransportProofs`). The HTTP client: `place`
says where each request is (being submitted, in the submission ring, active,
completed, in a caller's hands, being disposed), `chunks` is the shared ring of
streamed bytes, `cancels` the cancel ring, `outstanding` the counter that
`submit` reserves from. The owner thread has a program counter `pc` and goes
through its round as `ownerMain` does: `ProcessCancel` (a bounded number of
entries), `TakeStart` and `Start` while slots are free, `Tend` for deadlines and
paused transfers, `Perform` for libcurl, then `Drain` and `Exit` once `deinit`
has set the stop flag. `deinit` is a thread of its own (`Stop`, `Join`,
`DisposeResult`, `FreeMulti`, `Close`); the client's memory goes with the last
reservation, so a completion may outlive `deinit`. Each step between two
acquisitions of the mutex is one action. `gone` says that the client was
destroyed, and `Touch` records in `misused` a step that uses what is freed.
`Reservations` is what callers rely on: a bounded pool from which each request
takes one place and gives it back once, after at most one outcome.

**`Imports`** (`ImportsProofs`). `db` is the committed snapshot (sources, source generations, one
enrolment job per source, grants, tombstones, the credits of imports and
polls), `reads` and `polls` are the transports in flight, which a restart
loses. Queueing a read (`Queue`) joins a read that may be shared, refuses while
a job from before a restart is unresolved, or replaces the job and its credit,
as `queueImportMode` does; `FinishImport` and `FailImport` are `pollNetwork`
with the checks of `finishImport` in its order. `repair.start` and
`pollSources` are sequences of the `Reconcile...` steps, each with a commit of
its own. A handler that fails leaves the snapshot as it was, and a commit that
fails poisons the engine until `Restart`, so memory and snapshot are one
variable. `operation.cancel` changes nothing in a reachable state: a job that
runs is refused as issued and one that ended as completed. Leases, which block
forget, are in `Requests`. `stale` (reads revoked or replaced) and `forgot` are
history.

**`Bridge`** (`BridgeProofs`). The extension's service and the daemon's
`handleBrowser`. `meta`, `state` and `request` are the three objects in the
browser's local storage; each write to one is a step and the browser may end
the worker between any two (`Kill`). `task` is the operation the serialised
queue is in and the await it is at, `pass` and `todo` the startup passes over
permissions and sources with their budget. An operation at `await` has posted a
request and waits for its answer (`HandleBrowser`). When it gives up or the
worker ends, the request goes to `late`, which counts the requests of a source
that are on their way with nobody waiting: `native.mjs` starts a native host
for each send, each host opens a connection of its own, and the daemon serves
several at once and does not look at request ids. A late request is applied at
any later time (`HandleLate`), in any order with the others, or never (`Lose`).
`overtaken` is history: the sources that were answered while an earlier request
to the opposite effect was still late.
`daemon` is the daemon's record of the source; `withdrawn` is one its owner
disconnected at the daemon. A context is an adapter with one cookie store.
`unknown` is history: the ids sent whose outcome the extension has not learnt.

`Requests`, `Mutations`, `NativeOwners` and `Imports` use what `Store`
establishes (a commit that is durable, one that is not, one that leaves the
database closed for good) and `Actor` establishes what they assume: one handler
at a time. `Imports` takes from `Transport` that a read has at most one outcome.

## Runs

| Run | What it shows |
|---|---|
| `store` | An open store has the content of the last acknowledged mutation, or of the one under way after it (`OpenIsLatest`); a refresh token goes to the issuer once (`RotationIssuedOnce`); generations are not reused after deletion (`NoGenerationReuse`); a forgotten account's credentials do not return (`ForgottenStaysForgotten`); grants and rotation operations agree (`RotationTablesAgree`). |
| `mutations` | Refinement of `OnceOnly` (`EffectOnce`); answers are durable; committed snapshots are restorable; the ledger never forgets. |
| `requests` | A provider accepts a request at most once (`AcceptedOnce`); leases are exactly the unresolved attempts; routes are fixed while work is uncertain; `materialize` hands out credentials only for issued attempts; attempts are not recycled; committed snapshots are restorable. |
| `observations` | Eligibility is what the evidence says; the newest sample survives pruning. |
| `actor` | Tasks and jobs are paired one to one (`EveryTaskOwnsOneJob`); nothing is left at exit (`ExitLeavesNothing`); a callback is refused for want of room only during a runtime measurement (`CallbackKeepsItsSlot`); every admitted call is answered (`EveryCallFinishes`); a stop ends all threads (`StopTerminates`). |
| `native_owners` | A thread an owner manages, or may come to manage, has a live row and its configuration is untouched (`ManagedHasCustody`); an attached row is really managed (`AttachedIsManaged`); a row is not detached under unfinished work (`WorkKeepsAttachment`); nothing enters a fenced epoch (`FencedEpochAdmitsNothing`); rows are never reused (`RowsAreNeverRecycled`); committed snapshots are restorable. |
| `transport` | The counter is exactly the places held and covers the rings (`CounterCoversRings`); no step touches what is freed (`NeverUsedAfterFree`); no chunk stays without a reader (`ChunksHaveReader`); refinement of `Reservations` (`ImplementsReservations`); every submitted transfer ends (`EveryTransferEnds`). |
| `imports` | Committed snapshots pass the check of the next start; an import credit is held only for a running job, which has its read in flight until a restart intervenes (`CreditsFollowJobs`); no read that was revoked or replaced grants anything (`GrantsComeFromCurrentReads`); a forgotten account comes back only by a consent given after it was forgotten (`ForgottenReturnsByConsent`). |
| `bridge` | A source the daemon holds as connected is in the extension's list, and one shown as connected was not disconnected by the extension, unless an answer came ahead of an earlier, opposite request (`NeitherForgetsInOrder`); a request of unknown outcome is stored under the id it was sent with (`UnknownWorkIsStored`); a disconnect left pending ends, except for the sources listed under *Limits of the bridge* (`PendingDisconnectEnds`). |
| `native_epoch_race` | Violated: see below. |
| `requests_abandon` | Violated: see below. |
| `observations_restore` | Violated: see below. |

Each property of a passing run has a mutant: a plausible wrong version of a
mapped definition, kept in the module before the definition, under which TLC
finds the property violated.

### Three disagreements

*`requests_abandon`.* `report` sets the status of the `NativeLease` before
`persist`. When `persist` fails short of the store, the ledgers are restored
and the status is not. The contract says abandonment covers issued or accepted
requests; such an attempt refuses it (and every other report) until a restart.

*`observations_restore`.* A sample may replace an ended entry that stands
before an older entry of the sample's own window. The list is committed, and
`fromSnapshot`, replaying it in order, returns `GenerationConflict`: the daemon
cannot restore a snapshot it wrote.

*`native_epoch_race`.* `prepareNativeRegistration` looks for a removal fence on
the epoch that is current when the owner's identity arrives. A removal that
finds nothing to detach ends within one handler and moves to the next epoch,
so a registration or unselected announcement identified meanwhile meets an
epoch without a fence and is enrolled for an adapter that is not installed.
The plans under `docs/plans` say such races are refused; a selected
announcement, which is checked against its epoch and registry again, is.

### Limits of the bridge

`PendingDisconnectEnds` excludes what the code cannot serve, the predicate
`Unserviceable`. These are consequences of `service.mjs` worth knowing:

- `send` refuses a request while one with another method is stored for the
  source. After a reconcile whose answer was lost, each retry of a disconnect
  fails with `uncertain_operation` while a reconcile fails with
  `disconnect_pending`.
- A worker ended between `saveMetadata` and the write of the connect request
  leaves a source the daemon never heard of; it answers `NotFound` to a
  disconnect or reconcile, and the request stays stored.
- Connecting again while a disconnect is unsettled replaces
  `pending_disconnect`, so startup no longer retries it.
- Nothing orders the requests of a source at the daemon, and `handleBrowser`
  applies whatever it gets. `NeitherForgetsInOrder` therefore has a hypothesis,
  that the source was not answered ahead of an earlier, opposite request
  (`overtaken`), and without it TLC refutes both halves. A worker is ended right
  after it posted a connect; a disconnect settles the stored connect by sending
  it again, is answered, and removes the source; the first connect is applied
  between the two, and the daemon holds a source nobody lists. The other way
  round, a disconnect is given up and sent again, the worker is ended before it
  removes the source, the user connects again, and the first disconnect is
  applied last: the source is shown as connected and is not. The window is the
  time a request that nobody waits for may still take to be applied: the host
  gives the exchange 8 s (`nativeExchange`), and the daemon may serve what it
  has read after that.
- `reconcilePermissions` starts at the first entry with a budget of 8 requests,
  so 8 entries that cannot be settled keep later ones from being retried. One
  context does not show this; it is read off the code.

### Bounds

`store`: one grant, two rotation operations, five random draws (one creates
the database, four begin mutations), one backup, at most two changes in a
commit. That is enough for a rotation interrupted by a crash, reconciled and
retried under another id, for forget, re-enrol and import in one life, and for
a backup taken two commits back.
`mutations`: two ids, one local and one external intent, two results, twelve
commits: three of each start, so an operation is fenced, lost in a crash,
recovered and retried with commits to spare.
`requests`: two accounts, two requests on one binding, two handles, one
import: first and alternate attempt, two requests that share a route, a
generation change while one is in flight.
`observations`: ticks of 30 s, so that the poll interval is 2, freshness 4,
the cooldowns 2 and 3 (60 s, and 300 s shortened to what differs), windows of
6, three window ends, up to time 9, two rejections.
`actor`: a queue of 2 and a supervisor of 2, which an announcement and its
callback fill, beside a removal, an inline call and the measurement. The
inductive invariant and the safety properties were also checked with a
registration and a supervisor of 3 (1 343 702 states).

`native_owners`: two owners with one thread each, one operation of each
kind, two epochs, two attachment generations: registration against
announcement, detach against removal, two rows for a removal to detach, a
thread attached again after a detach. Owners are
interchangeable, hence the symmetry set.
`native_epoch_race` needs one of everything. The instance with two removals, where
the second takes up the fence of a first that ended early (687 141 states), has
also been checked and holds.

`transport`: three requests for a pool of two with one active slot, one of them
streaming, a ring of one chunk, so a second request waits for a slot, a transfer is paused on a
full ring and the cancel ring fills while it is emptied.
`imports`: two sources that lead to one identity, two reads and one poll in
flight, two source generations and three jobs per source, two forgets: a read
revoked, replaced and replaced again, a forget between two consents, a restart
with a read in flight.
`bridge`: one context, two source ids (a source forgotten and a new one), two
request ids, two faults (requests given up, workers ended and budgets spent, in
any combination), so two requests may be late at once. The invariants were also
checked with three faults (556 028 states) and with two contexts and one fault
(1 487 774 states).

Deadlock is checked in `store`, `requests`, `imports` and `bridge`. `mutations` and
`observations` end at their bounds (commits, clock); `Actor` and `Transport` end
when the daemon or the client is stopped. `NativeOwners` ends when its operation
ids are used up, and where the daemon refuses to start because the configuration
is not the one it committed.

### Fairness

*Actor.* Weak fairness of the actor's step and of each worker's step: they are
threads, and native I/O has a deadline. Strong fairness of `TakeCall`:
`maintenance_due` is set 100 ms ahead right before the loop looks at its queue,
so maintenance cannot be due every time round. Callers, `Stop` and the clock
have no fairness.

*Transport.* Weak fairness of the owner thread's steps, of `deinit` once it has
begun, of a submission in progress, and of the clock that expires a transfer
(each has a deadline, so libcurl need not answer). No fairness of polling, cancelling or disposing:
callers may do nothing, or go on cancelling for ever.

*Bridge.* Weak fairness of the worker's steps and of the daemon answering a
request that is waited for, none of a late request, strong fairness
of a waiting operation's turn in the queue and of the worker being started
again. Requests are given up and the worker ended only `MaxFaults` times: with
unbounded loss nothing could be promised.

## Proofs

All proofs hold for any values of the constants that meet the named assumptions
of the modules. None of the properties below is inductive; each proof module
states the invariant that is.

`MutationsProofs` (`MutationsAssumption`: local and external intents are
disjoint, the bounds are naturals):

- `TypeCorrect`, `Acknowledged`, `AlwaysRestorable`, `NeverForgets`: the type
  invariant and the three safety properties of the run `mutations`;
- `Refinement`: `Spec => Promise!Spec`, the ledger implements `OnceOnly`.

`IInv` adds that the in-memory snapshot equals the committed one while the
engine serves, that a running handler's record is `started` with its effect
counted (`HandlerFenced`), and for each id (`Coherent`) that credits mark
exactly the unresolved external records, that the effect happened at most once
and never before the ledger knew the id, that a completed record has its effect
and its result, and that only a completed record was answered. One lemma per
action shows all three obligations at once (`Sound`: the invariant again, no
record forgotten, a step or a stutter of the promise); lemmas about a commit
carry the common part.

`ActorProofs` (`ActorAssumption`):
`TasksOwnJobs`, `ExitIsClean`, `CallbackHasRoom`. The supervisor's queue and
completions are sequences, so `IInv` says that neither they nor the workers
repeat a job (`Unrepeated`); that queue, workers and completions are disjoint and
hold together the jobs of the tasks and of the measurement (`JobsOK`); that the
supervisor's count is theirs, and the tasks with the slots kept for callbacks
fit the capacity (`SlotsOK`); that the progress of a call says whether it is in
the queue, taken or a native task (`CallsOK`); and that an actor that has left
has nothing in its hands, for good (`ExitOK`). The first lemmas say what
appending to, taking from and removing inside a sequence without repetition does
to its elements; cardinalities enter only through the lemmas `Counts` and `OneMore`.

`TransportProofs` (`TransportAssumption`): `CounterIsExact`, `MemoryIsSafe`,
`ChunksAreRead` and `TransportRefines`, that is `Spec => R!Spec`. `IInv` is the
type invariant, that the counter is the number of places held (`CountOK`),
that the transfers the owner thread has yet to visit are where it left them,
for each value of `pc` (`OwnerOK`), how far the owner thread and `deinit` may be
apart and when the memory goes (`DeinitOK`), and `ChunksHaveReader`.

`BridgeProofs` (`BridgeAssumption`): `BridgeNeverForgets` and
`BridgeStoresUnknownWork`. `IInv` adds that the contexts' sources are distinct
(`ListOK`), what storage says of each source in whatever order requests are
applied (`SourceOK`), where the current operation is and what it left in storage
(`TaskOK`), and, for the sources that are not `overtaken`, how storage, late
requests and the daemon's record fit together (`OrderOK`) and what the current
operation may conclude from its answers (`AnswerOK`): a disconnect that was
answered leaves no connect on its way, so nothing can revive a source once it is
removed from the list. The number of late requests is not bounded.

`ImportsProofs` (`ImportsAssumption`: the bounds are
naturals, and a source has room for a first generation): `ImportsRestorable`,
`CreditsAreHeld`, `OnlyCurrentReadsGrant` and `ForgottenNeedConsent`. `IInv` is
that the snapshot is restorable with the credits of running jobs only (`Good`);
that a grant's generation is at most its source's job generation and smaller
while the job runs, and a grant that is ready has an account and an authority
(`GrantsOK`); that no read in flight is ahead of the snapshot, no revoked one
has its job running and every reserved credit has a read (`ReadsOK`); and that
a forgotten account which has not returned has its tombstone, from an epoch not
after the current one (`ForgetsOK`). The operations that settle a source
(connect, detach, disconnect), open a job (queue) and end it (fail, grant) each
get one lemma on the fields they change, from which the rest follows. A step
either lets nothing rise and nobody return (`Quiet`) or applies one current
read (`Granting`), which gives both action properties.

`StoreProofs` (`StoreAssumption`: the bounds are naturals, `None` is none of the
records): `OpensLatest`, `RotatesOnce`, `GenerationsNew`, `StaysForgotten` and
`TablesAgree`, all the properties of the run `store`. A property of the open
store has to be carried through stops, failed commits and restored backups, where
the store is closed and any old file may be in its place. `IInv` therefore speaks
of every database that exists or that the history remembers (`Known`): each was
drawn already, its rotations and grants agree (`Agree`), and a checkpoint names
one content (`KnownOK`). The authority file admits only the last content
acknowledged and the one under way (`Fenced`), and those honour what callers were told: no token that was sent is
ready, no watermark is below a generation given away, the forgotten are gone
(`Safe`). `Serving` and `Running` say what holds of an open store and of a
mutation between its steps. Each statement of a mutation is shown to keep
rotations and grants in pairs, to lower no watermark and to make a grant ready
only under a new generation (`Advances`). A commit applies a sequence of changes;
`ApplyChanges` is a recursive function, and what holds after all of them follows
from a least index at which it would fail (lemma `Least`).

`RequestsProofs` (`RequestsAssumption`): `AcceptsOnce`, `SnapshotsRestorable`,
`LeasesUncertain`, and the action properties `RoutesFixed`, `AuthorityKept` and
`ExposedIssued`, all the properties of the run `requests`. `IInv` is that the
committed snapshot passes the checks of a start and its leases pair off with the
unresolved attempts, naming the account of the attempt and the binding of its
request (`Good`, `Linked`); that handles and sequences were drawn, and an attempt
reported as rejected was refused by the provider (`Witnessed`); that a
process-local lease is issued only while its attempt is (`NativeOK`); and that a
daemon that is down has no such leases. The attempt's life (issue, report, expiry,
release, forget) gets one lemma per change of the snapshot: the result is `Good`,
retains every attempt (`Retained`) and leaves the routes of unresolved ones alone
(`Pinned`), which is what the two action properties on the snapshot say.

`NativeOwnersProofs` (`NativeOwnersAssumption`: an operation id names one
operation, the hash `nativeDetachOperation` makes of a removal is nobody's id,
`None` is none of the records): `CustodyKept`, `AttachedManaged`,
`SnapshotsRestorable`, `WorkAttached`, and the action properties `FenceHolds` and
`RowsKept`, all the properties of the run `native_owners`. The ledger and the
owners are only ever compared by messages that may be lost or late, so `IInv` has
two halves. `Good` is about one snapshot: the phase of a row, what its doubt comes
from, its records and its owner fit together (`RowOK`); a registration has one row
and a thread one that is not retired (`PairsOK`); there is a credit for each open
outcome and no other (`CreditsOK`); at most one epoch of an owner is live, and
none is open behind a fence (`OwnersOK`); a lease's row is attached or was
(`WorkOK`). `WorldOK` puts the tasks, the threads the owners manage and the
requests under way beside it: a registration that may still arrive has a row that
comes from a registration, and the task that sent it has failed; an attached row
is managed and a managed one is not retired. `LateOK` adds, while the engine
serves, that such a row is no longer pending once its task is gone: without it a
callback could send a second registration of the row while the first may still
arrive. `ConfigOK` says that the configuration is touched only for an epoch whose
owners are all retired.

A handler commits one of several snapshots, or fails between them. Each operator
that makes a snapshot therefore gets one lemma: the result is `Good` and keeps
what was committed (`Keeps`, of which the two action properties are parts), and
most results also make, attach and retire nothing (`Quiet`). A snapshot that may
be committed in the present world `Fits`; lemmas about `Commit`, `FailedCommit`,
`FailedCommitOf` and `CommitUncertain` turn that into the step, one lemma per
action.

Only model-checked: `Observations`, whose list is folded and filtered, so that its
properties need induction over sequences; and every liveness property
(`EveryCallFinishes`, `StopTerminates`, `EveryTransferEnds`,
`PendingDisconnectEnds`), which is out of the prover's reach.

## Not modelled

Encryption, key storage and schema migration; JSON parsing and framing; reports
derived from state (readiness, reliability, evidence); file formats of the
integrations; the setup refresh thread the actor joins each round; the command
line, clients, delivery and build tooling, which run outside the daemon.

The daemon's sockets and pools: bounded queues of file descriptors in front of
the actor's own queue, where a request waits but changes nothing.
The byte and cardinality arithmetic of snapshot admission: credits are present
or absent in the modules, never measured, so a ledger at its byte limit does
not occur.
`gitCredential` (`adapter.gitGet` and `adapter.gitErase`): it selects an account
and hands its credential to the git helper directly, without an attempt, a lease
or a report, so `ExposedOnlyWhenIssued`, which is about `materialize`, does not
speak of it. What it commits is a binding that no lease refers to, and for a
rejected password a cooldown of the account for that repository.
Grant capture in the extension and the attempt ledger behind it: every shipped
adapter has grant export blocked (`adapters.mjs`), only the test fixture does
not.

Random identifiers are taken to be unique. `NativeOwners` leaves out discovery
of endpoints, endpoint generations and process nonces (a wrong one is a failed
I/O) and the file journal behind a registry phase. A clock that steps backwards
is left out of `Observations`.
