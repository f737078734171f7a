# A TLA+ model of the game server platform

The platform runs Arma 3 game servers on demand. A *session* is one server with its
configuration, its EC2 host, its data volume and its archives; users drive it from
Discord through a life of provisioning, play, sleep, archive, restore and termination.
Everything is serverless: Lambda handlers, SQS queues, Step Functions and one DynamoDB
table, which is the only state that the parts share.

This directory models the parts whose correctness depends on *who acts when*: the
workflows and the lease they hold, the shared capacity, the automation, the content of
live servers, the intake of drafts, the commands and confirmations of users, the guild
index and its migration, and the environment reset. It states what the code promises
about them, checks it with TLC on small instances and proves the most important promises
with TLAPS for every instance.

Paths below are relative to the repository's root (`src/` in `PROJECT.json`).

## 1. The system

### Components, state and operations

| Component | State it keeps | Operations | Model |
|---|---|---|---|
| Session aggregate (`internal/domain`) | the session item: lifecycle, health, workflow lock with type and lease, infrastructure, archive, configuration, missions, mods, timers, version | `Can...`, `Begin...`, `Acquire...`, `Complete...`, `Fail...`, `Abort...`, `Validate`, the setters of drafts and mods | `SessionLifecycle`; `DraftIntake`, `ContentSync` and `Automation` for what it leaves out |
| Session commands (`internal/app/sessions`) | slug claims, idempotency records | create, edit, request an operation, ask, confirm, cancel | `SessionCommands`, `DraftIntake` |
| Destructive confirmations (`domain/confirmation.go`, `dynamodbstore/confirmation.go`) | one pending confirmation per user and guild | create, consume, cancel, expire | `SessionCommands` |
| Command queue (`sqscommand`, `sqsdlq`, `phase4.tf`) | `commands.fifo`, one message group per session; its dead-letter queue | receive, redeliver, dead-letter, redrive | `SessionWorkflows` |
| Workflow dispatcher (`internal/app/workflows`, `cmd/command-worker`) | the workflow item: status, execution ARN, cancellation, command ID | look up, load, admit, start the execution, record it, abort a refused start | `SessionWorkflows` |
| Step Functions (`phase5.tf` ... `phase10.tf`) | an execution per workflow, named after it | order of tasks, `Retry`, `Catch`, timeouts | `SessionWorkflows` |
| Workers: provisioning, bootstrap, sleep/wake, archive, restore, termination | none of their own; they write the session and workflow items and drive EC2, SSM and S3 | one action per task | `SessionWorkflows`; `Fleet` and `ContentSync` for what they share |
| Reconciler and cancellation (`internal/app/reliability`) | none | inspect expired leases, repair, honour a cancellation at a boundary | `SessionWorkflows`, `ContentSync` |
| Capacity slots (`dynamodbstore/provisioning.go`) | a fixed set of slot items | probe, acquire, release | `CapacitySlots`, `Fleet` |
| Orphan scan (`internal/app/orphan`) | findings | scan, wait, quarantine, clean up | `Fleet` |
| Health monitor and automation (`internal/app/monitoring`, `domain/inactivity.go`) | probe and activity fields, warning level, deadlines | probe, warn, send sleep, archive, termination; extend | `Automation` |
| Preset revisions and Workshop synchronisation (`domain/preset_revision.go`, `internal/app/workshopcontent`) | active and pending revision, mission snapshot, the session's lock | stage, synchronise, apply, promote, fail | `ContentSync` |
| Artifacts and drafts (`internal/app/artifacts`, `internal/app/workshop`, `cmd/artifact-worker`) | the artifact queue, the Workshop marker, outcomes | ingest, validate, resolve, copy, start | `DraftIntake` |
| Discord interactions (`internal/adapters/discord/interactions`) | none | the service calls of a form, one after the other | `DraftIntake`, `SessionCommands` |
| Guild index (`dynamodbstore/guild_sessions.go`, `guild_session_migration.go`) | index keys, the cutover marker, cursors | project, verify, enable, list | `GuildSessions` |
| Environment reset (`internal/app/reset`, `resetcleanup`) | confirmation, operation, lock | confirm, start, clean, verify | `EnvironmentReset` |
| Session cards and notifications (`cmd/notification-worker`) | the card and its control claim | read the session, send, put | `EnvironmentReset`, as far as the reset meets it |
| Bootstrap script (`deploy/bootstrap`) | files and configuration of the host | deploy the missions and the one to load | `DraftIntake`, as far as missions go |
| Host access, Steam broker | items of their own | | not modelled |
| Access policy, configuration and mod-list parsing, failure catalogue, progress | mostly none | | not modelled |

`PROJECT.json` has the same list with the source files of each.

### How they interact

1. A Discord interaction passes the session command's checks and becomes a save of the
   session, a message of `artifacts.fifo`, or a message of `commands.fifo`, in the
   message group of its session (`app/sessions/service.go`). A form makes several such
   calls, one after the other.
2. The artifact worker validates uploads and resolves Workshop links, records each outcome
   in the session, and asks for the automatic start when the draft is complete.
3. The command worker receives a command. `workflows.Service.Start` looks the command's
   workflow up, loads the session, and *admits* it: one DynamoDB transaction writes the
   session with the lock, the lease and the first transitional lifecycle, and creates
   the workflow item `PENDING`. Then it starts the execution and puts the workflow item
   back as `RUNNING` with the ARN. A refused start is *aborted*: the session goes back,
   the workflow is `FAILED`, and the message is delivered again.
4. Step Functions calls the workers' Lambda handlers in the order of the Terraform
   definitions. Each handler loads session and workflow, checks that the workflow holds
   the lock, acts on EC2, SSM or S3, and saves what it did. Provisioning and restore take
   a capacity slot, archive and termination give it back, in writes of their own.
5. The last task completes or fails both items in one transaction and gives the lease
   back. A provisioning workflow then takes it again for the bootstrap workflow derived
   from it, and sends that workflow's command through the same queue.
6. A Workshop synchronisation takes the same lock for one command on a live host, and is
   closed by the callback of the command, by a scheduled scan, or by its own start.
7. The reconciler, the monitor, and the orphan scan run on schedules. The reconciler reads
   one page of sessions and fails workflows whose lease has expired; the monitor probes
   the servers, warns, and sends commands of its own; the scan compares EC2 with the
   table.
8. Metadata changes, health probes and timers write the session at any time, also while
   a workflow holds the lease.

Two kinds of write matter. A **session** write is conditional on the version its writer
read. Most **other** writes (workflow items, confirmations, reset operations) are
whole-item puts conditional on one field, so they can put back a copy taken before
others wrote.

### What is hard here

* Several writers of one row that read, call a service, then write: dispatcher, worker,
  cancellation, reconciler, monitor and user.
* Delivery at least once at every level: SQS redelivers, Step Functions retries a task
  whose reply was lost, `StartExecution` fails after it was accepted, Discord delivers
  an interaction to two invocations, the operator redrives the dead-letter queue.
* A handler that dies between a side effect and its record: an instance launched and
  not recorded, a slot taken and not recorded, a command sent and not recorded, a lease
  taken and its command not queued, a marker set and its message not queued.
* An execution that goes on after its lease was repaired away, while another workflow
  holds the session.
* Decisions on what was read earlier: the monitor's observation, the orphan scan's
  snapshot, the reset's inventory, the confirmation bound to a version, the page cursor.
* Paths with no `Catch`, which leave the lease to its expiry and the reconciler.
* Rows that the next `Session.Validate` refuses, so that nobody can write them again.

Each hazard is listed at its source line in `PROJECT.json` under `hazards`, with the
properties that catch it.

## 2. The modules

```
SessionLifecycle            the lifecycle record and its transitions, no state
   ^        ^        ^
   |        |        +---- SessionCommands  <---  MCSessionCommands, SessionCommandsProofs
   |        +------------- Automation       <---  MCAutomation, AutomationProofs
SessionWorkflows  ------>  WorkflowLease          (INSTANCE: the abstract lease)
   ^        ^
   |        +---- SessionWorkflowsProofs
MCSessionWorkflows

Fleet  ------------------>  CapacitySlots         (INSTANCE: the abstract table)
   ^-- MCFleet, FleetProofs
ContentSync        <---  ContentSyncProofs
DraftIntake        <---  MCDraftIntake, DraftIntakeProofs
GuildSessions      <---  MCGuildSessions, GuildSessionsProofs
EnvironmentReset   <---  EnvironmentResetProofs
```

**`SessionLifecycle`** translates `internal/domain`: `Session` is the item,
`Valid` is `Session.Validate` for the modelled fields, and each method that takes,
keeps, gives back or cancels under the lease is an operator from record to record, with
its refusals in a `Can...` operator. Infrastructure is a level (`none`, `slot`,
`instance`, `complete`), a lease is `live` or `expired`.

**`SessionWorkflows`** is one session with everything that races on its row.

| Variable | In the code |
|---|---|
| `session` | the session item |
| `fresh` | readers whose version condition would still succeed; each session write empties it |
| `wf` | the workflow items: `status`, `ExecutionARN`, `CancelRequestedAt`, `CommandID` |
| `exec` | the Step Functions execution of each workflow: its current task, or how it ended |
| `plane` | the EC2 host and data volume behind the session: `none`, `running`, `stopped`, `volume` |
| `held` | the workflow copy that a bootstrap dispatch has read and will put back |
| `queue`, `receives`, `dead` | `commands.fifo` for this message group, the receive count of its head, the dead-letter queue |
| `unsent` | the commands of the scenario that nobody has sent yet |
| `handler` | the command worker's invocation: where it is and the workflow copy it holds |
| `canceller` | a cancellation request between its read and its put |

Its actions follow the code's own steps.

* *Dispatcher*: `Receive`, `Lookup`, `LoadSession`, `Admit`, `StartExecution`,
  `RecordExecution`, `AbortExecution`, `HandlerFails`, `DeadLetter`, `Redrive`. Each
  call to AWS is a step of its own, because the others run between them.
* *State machines*: `ProvisionSession` ... `DestroySession` are tables of the Terraform
  definitions: where a machine starts, what follows a task, which tasks have a `Catch`
  to the rollback, to `Fail` or to nothing, and which have the transient-error `Retry`.
* *Workers*: one action per task (`PrepareProvision`, `EnsureHost`, `StopHost`,
  `DispatchBootstrap`, `RecordVerified`, `TerminateInstance`, `CompleteStage`,
  `ContinueProvision`, `FailStage`, ...). A worker's read and conditional write are one
  step: whatever comes between them, the write is refused and the task fails, which is
  `StageFails`. A handler that has committed may still lose its reply (`Reply`): the
  task then runs again or is caught. Two places where a side effect precedes the record
  are split: `LaunchUnrecorded`, and `DispatchBootstrap` / `PersistDispatch`.
* *Around them*: `RequestCancellation` / `SaveCancellation`, `ExpireLease`, `Inspect` /
  `Repair`, `ExecutionAborted`, `MetadataWrite`, `ConfigureDraft`, `StartProbe` /
  `FinishProbe`.

**`WorkflowLease`** is what all of that promises about its lease: at most one holder at a
time, a workflow that takes it is new and takes it once, and gives it back for good.
`LeaseSpec` is this specification under the mapping *holder = the lock in the session
row, status = the workflow item's*, so it also says that the two items never disagree.

**`Fleet`** is what the lease does not cover: several sessions on one capacity table and
one EC2 account. `record` is the session item seen from outside (life, slot, host),
`task` the invocation that works on it and how far it is, `capacity` and `cloud` the two
shared resources. Each invocation touches slot, EC2 and record in the order of its code
(`ReadSlot`, `PutSlot`, `SaveSlot`, `EnsureInstance`, `SaveLaunch`; `ReleaseBeforeFailure`
of the restore, `ReleaseAfterFailure` of the provisioning) and may `Crash` between any two
of them; `Repair` is the reconciler.

Two things go on after the workflow they belong to. `late` has the slots that failed
provisionings have yet to release: the session may be started again before they do, and
`robbed` is the history of those that lost a slot in this way. `stray` is the execution
that runs on after a repair failed its workflow: the loads of restore, archive and
termination admit it as long as the session is `FAILED` (`StrayPrepare`, `StrayEnsure`,
`StrayTerminate`, `StrayRelease`). What it writes to the session is refused; the slot it
takes and the host it launches or ends stay so. `cloud[h].astray` marks such a host.

`Scan` is the orphan scan, `operator` the operator between the two reads of a cleanup. Both
read one page of the whole table, so that any session may be missing from it (`listed`).
**`CapacitySlots`** is the table as the in-memory adapter has it, atomic, and
`CapacityIsExclusive` says that the probes and conditional writes of the DynamoDB adapter
implement it.

**`Automation`** adds the clock and the timestamps that `SessionLifecycle` leaves out
(`timing`), the monitor's invocation (`monitor`), what was sent and not yet admitted
(`commands`), and the notices that were sent. The monitor saves under the version it
read and enqueues under none; the worker evaluates a request again when it admits it
(`AdmitAutomatic`, `ValidateAutomaticCommand`). `contrary` is history: the last sign of
use of the server.

**`ContentSync`** is one session whose lock is taken by content synchronisations (`Syncs`)
and by sleeps, wakes, restarts and bootstraps (`Operations`). `session` holds the active
and the pending revision with its status and the workflow that applies it, the mission
snapshot and the attached missions; `host` what is linked, what runs and which manifests
were published; `session.age` how old the lock is (live, overdue, expired); the command on
the host runs to an end of its own and its callback may be lost. `HandleTerminal`,
`CancelOverdue`, `ReconcileActive`, `ReconcileAbandoned` and the start itself are the ways
a synchronisation closes; a callback that finds the command still running records its ID
if nobody has yet (`TrackFound`).

**`SessionCommands`** has the sessions of one guild with their versions (`sessions`,
`items`), `claims` of slugs, idempotency `records`, each owner's confirmation `slot`, the
`invocations` of the interaction handler between their reads and their transaction, and
the commands `queue`. An invocation may stop anywhere, lose its answer, and be one of two
deliveries.

**`DraftIntake`** takes one session from its creation to its start and beyond. A form is
the list of service calls that its handler makes; each call loads, changes and saves the
session under its version and key. `queue`, `receives`, `dead`, `worker` are the artifact
queue and its worker, `commands` and `begun` the automatic starts that were sent and
taken, `host` the mission files and the loaded mission of the game host.

A session has three missions: the one configured for the next start (`configured`), the
one it was started with (`current`), and the one that is written in the configuration of
its server (`host.loaded`). The start and `Wake` make the configured one current; `Restart`
and `Sleep` leave it (`Begins`). A bootstrap and a restart deploy the current one to the
host (`Deployed`); a wake deploys nothing, so that the server goes on with the one it had
(`host.woken`). A workflow that fails may have set up its host or not.

**`GuildSessions`** has the table (`item`: state, time of the last save, index keys), the
`index` that DynamoDB replicates later, the `cutover` marker, the `operator`'s backfill
and verification page by page, and a `listing` through either side with its cursors.

**`EnvironmentReset`** has the confirmations, operations, `lock` and `message`s of resets,
the `worker` with its stage and the inventory it took, and the platform that goes on:
admitted `request`s, workflow `handler`s, `publisher`s of cards. Each of these has read
the session, or passed the check of the lock, and then writes without asking again:
`row`s, `card`s with their control `claim`, capacity `slot`s, `host`s, `objects`.
`inFlight` is history: the sessions with one of them at the worker's second look.

The `MC...` modules name workflows, commands and situations for the configurations.

A definition whose comment begins with *Mutant* is a plausible mistake in the definition
after it. Nothing uses it; `PROJECT.json` names the property that refutes it.

## 3. What the runs check

Deadlock is not checked: the system rests when there is nothing to do.

| Run | Instance | Question |
|---|---|---|
| `Provisioning` | a draft; provision and its bootstrap, the latter cancellable, two receives | do lock, items and lifecycle stay in step through the two leases, does it all implement `WorkflowLease`, and does every command leave the queue? |
| `Hosts` | six histories: running with sleep and wake, or a restart; sleeping with an archive that may be cancelled, archive and restore, or archive and terminate; archived with two restores | can every row left behind be written again, and the lease behind it be repaired away; is the host as the lifecycle says; is it destroyed only after its own archive; does only the holder get past its load; is the data always somewhere? |
| `Fleet` | two sessions, two hosts, one slot, one session with a loose end; scan and operator | does live capacity stay covered by a slot, does a cleanup spare what is referred to? |
| `Reset` | one session, two resets | does the lock name the reset without a result; what does a success leave? |
| `Automation` | a server or a failed creation, one command of the owner, clock to 3 | is an automatic action still earned when it starts; was a warning sent? |
| `ContentSync` | a sleeping session, two syncs, two operations, two revisions, one snapshot | is every stored revision valid; does the server run the active one; are listed missions there? |
| `SessionCommands` | creations, edits, confirmations and double deliveries, two sessions that share a confirmation slot; five invocations, two owners | unique slugs, one effect per interaction, and nothing destroyed unconfirmed? |
| `DraftIntake` | three forms and three messages in each of 20 situations | do outcomes survive; is a ready session ready; does it start once; is what it loaded kept? |
| `GuildSessions` | three items, page size 1; a migration, a migration under a listing, a listing after the cutover | does the cutover miss a session; does a listing? |
| `CancelledConfirmation`, `ReuploadedMission`, `OverQuotaLaunch` | parts of the instances above | does the code do what a document says? Each finds that it does not (section 4). |

The properties:

* `TypeOK` (of `SessionWorkflows` and `Fleet`), the type invariants.
* `LeaseAgreement`: a workflow is open exactly while the session names it as the holder,
  under its type. `LeaseSpec`, the refinement.
* `LifecycleIsDriven`: a transitional lifecycle has a workflow that drives it.
* `SessionIsValid`: `Session.Validate`, which the repository runs before each save, never
  refuses a row that is there.
* `TerminalIsFinal`: none of the whole-item puts reopens a workflow or changes its end.
* `SucceededIsRecorded`: an execution that succeeded closed its workflow. The reconciler
  only reports those that did not.
* `LeaseFencesWorkers`: while a workflow holds the lease, no other execution passes its
  load guard, although archive, restore and termination admit failed workflows too.
* `InfrastructureIsRecorded`, `HostMatchesLifecycle`: record, lifecycle and EC2 agree. Of
  a session that is `NEW` the second says so only if it has no archive (section 4).
* `DataSurvives`, `DestroyedOnlyVerified`: the players' data is on the volume or in a
  recorded archive, and an earlier archive never stands in for the one being made.
* `DeletedIsFinal`: nothing late changes a tombstone.
* `LeaseIsRepairable`: whoever holds the lease, at whatever stage he died, neither the
  failure that a repair records nor `Session.Validate` refuses the row that it leaves. A
  wake whose refused start cannot be written depends on it.
* `CommandSettles`, the liveness property.
* `LiveHostsAreCovered`, `RunningOwnsSlot`, `CapacityIsExclusive`: whatever invocation dies
  where, the capacity a host uses belongs to its session; the slot that an archive will
  release is the session's; slots change hands through *free* only. The first two except
  the sessions that a late release has robbed, and hosts of an execution that outlived its
  workflow: `OverQuotaLaunch` has what becomes of them.
* `CleanupSparesListed`: removing an orphan never ends a host that a workflow launched and
  a session refers to, if the operator's own look contained that session; what the scans
  before it missed makes no difference. Of a session that is not on the operator's page
  nothing is promised, and the code keeps nothing (section 4).
* `LockNamesActiveReset`. `SuccessLeavesNothing`: no session that the reset found is left
  when it reports success, and every row, card, claim, slot, host or object that is left
  is of a session that a request, a handler or a publisher was at work on at the second
  look. These can write at any time afterwards, so that no more can be promised.
* `QueuedWarningsWereSent`, `AutomationIsEarned`: a crash between level and notice loses
  no warning; no automatic action is early, on the *present* timeouts and signs of use.
* `RevisionsAreValid`, `ActiveIsInstalled`, `AttachedMissionsAreOnHost`.
* `SlugsAreUnique`, `AcceptedIsKept`, `DestructiveIsConfirmed`: a destructive command
  stems from a confirmation of the owner, for that session and operation, no stored
  change came in between, and the confirmation is spent once, if the owner's other
  confirmations are for the same session (`AsksAlone`; section 4 has the other case).
* `UploadOutcomeIsKept`, `ReadyWaitsForServerMods`, `AutomaticStartIsOnce`,
  `MarkerIsPending`. `LoadedIsKeptUntilWoken`: the mission that the server has loaded is
  not removed, as long as its host was not woken since it was last set up.
* `CutoverIsComplete`, `UnmovedAreListed`: a listing that ends has every session that
  stayed in place meanwhile; those that moved, or whose index entry lagged, are exempt.

### Bounds and assumptions

* `SessionWorkflows`: two workflows on one session, a holder and a rival or a first
  attempt and its retry. Three at once would add a waiting message, which does nothing
  until it is received: one message group has one invocation. `MaxReceive` is 5 in
  `phase4.tf` and 1 or 2 here; a redrive starts the count again and may be repeated
  without limit, so longer histories of one message are already there. One cancellation
  request in flight, one reconciler, one probe. No bound on retries of a task, lost
  replies, metadata writes or repairs.
* `Fleet`: one slot for two sessions is where they compete; a second slot or host adds
  parallel, independent work. `MaxLoose`, 1 here, bounds the sessions that have a stray
  execution or a late release at a time; within one session any number of slots may be
  released late. `LiveView` leaves out of the comparison of states whose a terminated host
  was and what was found out about it, which nobody can act on. That a scan's reads are
  one step loses nothing, as any session may be missing from its page anyway.
* `Automation`: three ticks with every timeout one or two long is the shortest time in
  which each timeout runs out, is extended, and runs out again. Time is counted in
  periods of the scan. A worker is assumed to hold its lease.
* `ContentSync`: two synchronisations and two operations are a holder, its takeover and
  a restart that applies what was staged; two revisions are an active and a pending one.
* `SessionCommands`: one guild; an invocation is short beside the ten minutes of a
  confirmation; the queue deduplicates by command ID; a workflow is its beginning and its
  end, and its lease does not expire here. `SituationsAssumption` says of the situations
  that stored slugs are distinct and that each interaction has an ID and, where its form
  asks for one, a target. Two confirmations, two who confirm and two sessions are the
  least that can put one confirmation back twice.
* `DraftIntake`: the replay check and the load, the admission and the send, and the read
  and send of a start request are one step each; an invocation that is refused takes no
  further step, as in the handler; each situation says whether faults and ends
  happen, and how often the running server is restarted or put to sleep; a failed live
  copy is a crash; mods of a session that has started are `ContentSync`'s.
* `GuildSessions`: every writer that saves has the index keys deployed; a page of the
  compatibility scan is read in one step; the index may lag for ever. One listing:
  listings share nothing.
* `EnvironmentReset`: no bound but the sessions and the resets. Two resets compete for the
  lock, whatever the sessions do. Sessions do not compete for anything here, and one may be
  in the inventory or come after it, in part or whole; both properties are proved for
  every number of sessions. Two sessions under one reset, or under two with symmetry, take
  minutes and show the same.

### Fairness

`SessionWorkflows!FairSpec` assumes one thing: that SQS delivers, and that an invocation of
the command worker ends (`Dispatcher`, weak). The event source of the queue receives
without end, the message group has one message in flight, and the Lambda timeout ends an
invocation that hangs. `CommandSettles` rests on that alone.

Nothing else is fair, because nothing else is guaranteed. The reconciler reads one page of
a hundred sessions without a cursor (`dynamodbstore/reliability.go:96`), and the error of
one session ends its batch (`app/reliability/service.go:163`): a session may never be
inspected. A state machine may never end: the stop of a host is polled without a limit
(`phase8.tf:17`). So the models do not claim that a lease comes back; they claim that it
*can* be taken back at any time (`LeaseIsRepairable`). The same holds for the lock of a
Workshop synchronisation, of which `ContentSync` states safety only.

## 4. Where code and documents differ

Each is a run of its own that expects a violation.

* `CancelledConfirmation`: `docs/phase-12-discord-experience.md:259` says that cancelling
  a confirmation cancels it, and that replays fail closed. Both consume and cancel put
  back the confirmation they read, on the condition that the slot holds *a* pending one
  of this owner. If the owner asks for a second confirmation in between, the two can
  succeed for different ones, and a cancelled one is dispatched. In the same way a
  confirmation that two interactions have read is consumed a second time once the slot
  holds the pending confirmation of the owner's other session. The proof found this: the
  second condition on a consumption, the session's version, rules it out only if no
  other session can free the slot.
* `ReuploadedMission`: `docs/phase-13-mission-management.md:27` says that newly accepted
  uploads are copied to a running host. A mission that was removed and is uploaded again
  keeps the mark of its removal (`AttachArtifact`, `domain/session.go:123`) and is not. In
  the run the mission is removed from the draft, and the server starts on the built-in one.
* `OverQuotaLaunch`: `docs/phase-5-infrastructure-provisioning.md:11` says that a slot is
  reserved before compute is launched. A failed provisioning saves its failure first and
  releases the slot afterwards (`app/provisioning/service.go:427`). A retry in between
  finds the slot its own, loses it, and launches. The execution of a failed restore does
  the same by another way: it passes its load and launches without asking for the slot
  (`app/restore/service.go:504` and `256`).

Seen while modelling, and not run. The first six contradict a document; the models do
what the code does, and the properties named claim only what is left:

* Both checks of an orphan read one page of the table and take a session beyond it for
  absent (`dynamodbstore/orphan.go:46`), so that a host is terminated that its session
  refers to. `docs/phase-10-reliability.md:58` says that an orphan is referred to by no
  session, and that references are checked again immediately before its cleanup.
  `Fleet` lets a page lack any session, which is why `CleanupSparesListed` asks that the
  operator's page had it.
* A wake makes the chosen mission current (`domain/sleepwake.go:64`) and deploys nothing
  (`app/sleepwake/service.go:184`; `arma3-bootstrap.sh:991`): the server goes on with the
  mission it had, and `RemoveMission` guards the other.
  `docs/phase-13-mission-management.md:10` says that the next start or wake takes the
  chosen one, and that the mission currently loaded cannot be removed. `DraftIntake` has
  the wake, which is where `LoadedIsKeptUntilWoken` ends.
* A sleep whose start is refused is left unlocked in `STOPPING`
  (`app/workflows/service.go:294`); `docs/phase-14-inactivity-lifecycle.md:55` says that
  it releases the lock and restores the source state. `LifecycleIsDriven` excepts it.
* No state machine schedules the action that would honour the cancellation of a sleep or
  a wake (`phase8.tf:15`; `docs/phase-10-reliability.md:18`).
* The dispatcher's put of the execution ARN erases a cancellation saved after it read
  (`app/workflows/service.go:270`; target architecture, 716-727).
* A restore that fails before any replacement exists leaves `FAILED`, not `ARCHIVED`
  (`domain/archive.go:275`; `docs/phase-9-archive-restore.md:90`).
* A restore that was given up as failed passes its load guard whenever the session has
  failed again, and can launch a host after later workflows have removed theirs; a
  session can so be `NEW` once more, with its archive, and have a host
  (`app/restore/service.go:504`; the proof of `HostMatchesLifecycle` found it).
* A slot that was taken but whose save failed stays with the session until it takes it
  again or is removed.
* A handler, an admitted request or a publisher of a card that has read a session before
  the reset can write after its success (`dynamodbstore/repository.go:681`); a control
  claim that is left so makes the next inventory refuse to start.
* The automatic start is not asked for when the last upload to finish is a rejection
  (a vanilla draft's optional preset), nor when `UpdateDraftSetup` makes the draft ready.
* A Workshop marker whose request stopped between marker and message, or was delivered
  twice, stays (`MarkerIsPending` names these cases); it is cleared by target, so that
  one request's end clears another's (`domain/workshop.go:143`).
* A wake that fails after it began to apply a revision leaves it `APPLYING`; only a
  restart fails it (`domain/sleepwake.go:110`).
* A consumed confirmation whose command could not be queued is reported as uncertain and
  not sent again.
* A reset worker that dies leaves the environment's lock, since its queue delivers once.
* One session's error ends the reconciler's batch (`app/reliability/service.go:163`).
* A second archive can no longer be cancelled once the metadata of an earlier one is
  there; a refused bootstrap leaves `BOOTSTRAPPING` or `INSTALLING` unlocked; the refused
  start of a wake can never be recorded, because the row it would write keeps
  `SleepingSince`, and waits for the reconciler.

## 5. What is proved

`tlapm` checks these for every value of the constants that the named `ASSUME`s allow.

`SessionWorkflowsProofs` (every set of workflows, assignment of kinds, continuations and
cancellations, every resting state and receive limit):

* `Invariance`: `IInv` is invariant. `LeaseAgreement` alone is not inductive. A bootstrap
  dispatch puts back the copy in `held`, so `DispatchIsHeld` says that this copy was
  taken while the workflow was open; and admission lets a `NEW` session's *expired* lease
  be taken over, so `UnstartedIsUnlocked` says that a session that has not started has
  none.
* The proof goes through `LeaseStep`: each action *keeps* the lease, *takes* it for a
  workflow that was absent, or *gives it back* and closes its workflow. One lemma per
  group of actions shows that (`...IsGood`), from one lemma per transition of the session
  (`BeginTakes`, `CompleteReleases`, ...) and one on the machines' tables
  (`MachinesAreWellFormed`). All else follows from the three cases.
* `TypeCorrect`, `LeaseAgrees`, `EndsOnce` (`TerminalIsFinal`).
* `ImplementsLease`: `Spec => LeaseSpec`, the refinement. Keeping the lease is a stutter
  of `WorkflowLease`, taking it is `Acquire`, giving it back is `Release`.
* `AlwaysDriven`: `Driven(session)` is invariant. It joins `Valid` with the lifecycle's
  phase, because neither is inductive alone: whether a completion leaves a valid row
  depends on the phase it starts from, and the phase on who holds the lock. Its third
  conjunct says that `SleepingSince` *is* set wherever the session may go back to sleep.
  `Validate` only says where it *may* be set; without this the invariant would have to
  allow an unlocked `WAKING` session, which a refused start of a wake would leave.
* `LifecycleDriven`, `SessionValid`, `LeaseRepairable`, `WorkersFenced`, for the
  invariants of those runs. The last needs both invariants: the load guards admit a failed
  workflow of a `FAILED` session, and a `FAILED` session is never locked.
* `DeletedForGood` (`DeletedIsFinal`): nobody can begin on a tombstone, and it is unlocked.
* `ExecutionsAreRecorded`, `SuccessIsRecorded` (`SucceededIsRecorded`): `ExecInv` says that
  an execution exists only for a workflow item that was written, also for the dispatcher
  that has yet to record it, and that the stages behind a machine's completion are reached
  only with a recorded end.
* `AlwaysEquipped`: `DataInv`, the invariant that relates lifecycle, record and EC2. Its
  parts are what a lifecycle says of the record (`Equipped`), what the stage of the
  *holder's* execution says of the host (`HolderInv`; other executions may run on after a
  repair, and say nothing), that a session which may return to rest still has its host
  (`UpWhereItRests`), that one without a record has none (`NoStrayHost`), and that a
  restore has begun only where there is an archive (`NothingToRestore`), which keeps late
  restores away from sessions that never had one.
* `InfrastructureRecorded`, `HostMatches` (`HostMatchesLifecycle`), `DestroyedVerified`
  (`DestroyedOnlyVerified`) and `DataIsKept` (`DataSurvives`) follow; the last with
  `SurvivalInv`, which also holds of archives that run on after their failure: they
  delete the volume only with an archive recorded.

`FleetProofs` (every number of sessions, hosts and slots). One lemma per action says what
it writes (`...Effect`); the invariants are in layers, each proved on the one before.

* `TypeCorrect`: with `ChoiceInv`, that what an invocation carries at a step is there.
* `ImplementsCapacity`: `FleetSpec => CapacityIsExclusive`, the refinement of
  `CapacitySlots`: each step acquires a free slot, releases one of its owner, or stutters.
* `CleanupIsSafe` (`CleanupSparesListed`): `RecordInv` says that a session has one instance
  at most, that a recorded one leaves no room for another, and that a session without a
  slot has no host but one of a stray execution. From it, an instance that has waited is
  still its session's recorded one or is lost for good (`OrphanInv`). If the operator's
  look had the session on its page, the look tells these two apart, and what it saw is
  still true when he acts.
* `LiveHostsCovered`, `RunningOwnsItsSlot` (`RunningOwnsSlot`): `CapacityInv` says whose
  the recorded slot is at each step of a failing start or a removal, in every order of
  release and save, up to the moment at which a late release takes the slot from under a
  session that counts on it. Neither theorem has a hypothesis.

`SessionCommandsProofs` (every set of sessions, owners, interactions and invocations, in
every situation that `SituationsAssumption` allows):

* `CommandInv`: `Remembers` says that the version tells one content of an item from
  another, so that a save under the version it read loses nothing; `SlotInv`, `HeldInv`
  and `QueueInv` follow a confirmation from its asker through the slot and whoever has
  read it to the queued command (`WasPut`).
* `SlugsUnique`: a slug without a claim is only that of a session stored before; the scan
  precedes the transaction, and no session without a claim appears in between (`SlugInv`).
* `EffectsAreKept` (`AcceptedIsKept`): a key that is recorded is in the edits of one
  session, once; the others' edits do not have it (`EffectInv`).
* `DestructionConfirmed` (`DestructiveIsConfirmed`): a confirmation that has been spent is
  not consumed again for one of three reasons (`SpendInv`): its version is outdated; the
  slot is blocked by its consumed self, which no confirmation of the same version of the
  same session replaces; or it has expired, and nobody has it any more.

`EnvironmentResetProofs` (every set of sessions and resets):

* `TypeCorrect`; `LockIsExclusive` (`LockNamesActiveReset`): a lock is taken with its
  operation and released with its result, and the worker works for the lock's operation.
* `SuccessIsClean` (`SuccessLeavesNothing`): the invariant follows the worker's stages.
  After the deletion no row of the inventory can come back, because a row is created for
  a session that has none only by an admitted request, and the verification would see it.
  `Looked` says that from the second look on, whoever is at work on a session, and whatever
  is stored of one, is of a session in `inFlight`: a request is admitted only without the
  lock, and a handler or a publisher needs a row to begin. `HostsSeen` and `ObjectsSeen`
  say the same of hosts and objects, from the look at them.

`GuildSessionsProofs` (every finite set of sessions, every set of states, every page size
and limit):

* `CutoverMissesNoSession` (`CutoverIsComplete`): `VerifiedInv` says that what the
  verification has passed stays complete, since every writer writes the keys: outside
  `left` after the pass over the table, everywhere after the pass over the index.
* `ListingMissesNoSession` (`UnmovedAreListed`): `ListingInv` says of every session that
  has not moved where a listing still has it: in the result, in the page that is read
  again, or ahead of the cursor, which is the scan's or that of the session's state
  (`Covered`, `Ahead`); between the query of a state and the merge, in the stream, or
  behind a stream that was full (`Streamed`). Its lemmas are about the order of a listing:
  a page precedes what it leaves (`FirstPrecedes`), a stream that leaves something is full
  (`FullFirst`), so that the last entry taken of a state precedes the rest of it
  (`LastPrecedes`). That the index shows a session where its item puts it is the
  completeness of the cutover (`VerifiedInv`), and `IndexInv`: the listing counts what
  the index has still to replicate as moved.

`ContentSyncProofs` (every number of synchronisations, operations, revisions, snapshots):

* `RevisionsStayValid` (`RevisionsAreValid`): inductive together with the type of what can
  be stored and with the kinds of running operations. `TypeCorrect`: the other variables.
* `ActiveRevisionRuns` (`ActiveIsInstalled`): `OperationInv`. An abandoned operation leaves
  its command on the host, where it may end after the session has failed and been
  bootstrapped; `QuietInv` says that it can then no longer change the links, and follows
  from `OrderInv`, because the later operation's success made it give up. `InstallInv`
  says of the holder, from its dispatch, that its command carries the revision it will make
  active, and after the success that this is what runs. A synchronisation, its callbacks
  and the scan leave all of that aside (`Aside`).
* `AttachedArePublished` (`AttachedMissionsAreOnHost`): whoever attaches has read the
  manifests, and they only grow.

`AutomationProofs` (every timeout, cap and bound of the clock, every set of workflows):

* `AutomationSafety`: `SafeInv` joins the types (`TypeInv`; every deadline of a timestamp
  that is set lies within `Deadlines`, so that none is mistaken for `Never`), what
  automation needs of the session (`Sound`), and `IdleInv`: the idle window a session
  records began after the last sign of use. That alone is not inductive: a wake is a sign
  of use and does not end the window. So `IdleInv` also says that a session which slept,
  or may go back to sleep, has none. One lemma per transition of the session shows that
  only a completed sleep makes a session one that slept (`CompleteReleases`, `BeginTakes`,
  `Kept`), and that one closes the window.
* `AutomaticActionsAreEarned` (`AutomationIsEarned`): only `AdmitAutomatic` starts a
  workflow that is not the owner's, and the worker's check is of the session it changes.
* `QueuedNoticesWereSent` (`QueuedWarningsWereSent`): `WarningInv` says that while a warning
  is being given, the session records its deadline, or the alert that has replaced it; and
  that a notice, once sent, is there until one for another deadline is.

`DraftIntakeProofs` (every set of forms and messages, in every situation that
`IntakeAssumption` allows, every receive limit). One lemma per action says what it does to
the session, the queue and the records (`...Effect`), and `Edits` what every save of a
form or of the worker leaves as it was.

* `BaseInv`, with `TypeCorrect`: `CopyInv` says that a copy as old as the session *is* the
  session, since every save moves the version; a save under the version that was read is
  then a save of the present session, which all the rest goes by. `FormInv` and
  `WorkerInv` say what a stage has established of its call or of its message.
* `NoStartBeforeServerMods` (`ReadyWaitsForServerMods`): `Sound` holds of every session
  that an operation returns, for each operation that can make it ready or edit it when it
  is; also that what is removed was accepted, and what is locked is being driven.
* `UploadsAreKept` (`UploadOutcomeIsKept`): `OutcomeInv` has the converse for every file,
  and that an outcome is only of a message that was sent.
* `StartsAreOnce` (`AutomaticStartIsOnce`): a revision that was started has a command that
  was taken, commands differ in their revisions, and one that was taken is not taken
  again (`StartInv`). The lifecycle plays no part: it would let a failed session be
  started again, and only the command's name prevents that.
* `LoadedIsKept` (`LoadedIsKeptUntilWoken`): until a wake, what is loaded is the current
  selection, and it is nothing as long as the session has no host (`HostInv`), so that a
  start, which selects, changes nothing that is loaded; a removal spares the current
  selection.
* `MarkersArePending` (`MarkerIsPending`): a marker is deleted with its message, or when
  its link is recorded. What is recorded twice would not clear it again, so `MarkerInv`
  says in addition that an accepted link has no marker; and that whoever has sent a
  message is past the call, so that a message that is delivered once is queued when its
  marker is left behind, and not dropped as a duplicate.

The constants' assumptions say no more than that names are distinct, that bounds are
natural numbers, and that what is stored initially is well formed (`TimesAssumption`: the
sleep timeout is within the cap, as `ValidateLifecycleTimeouts` requires); `GuildAssumption`
also says that a guild has finitely many sessions, and that a table found cut over has no
item without keys. `IntakeAssumption` says of a situation that uploads and links are of
the kinds that their calls send, that an interaction's key is none of those that the
service derives for itself (it begins with `discord:`), and that a message's key names
one field of one interaction (`SendsItsOwn`), as `createArtifactRequest` and
`createWorkshopRequest` build it.

Every safety property that a passing run checks has a theorem. Liveness stays with TLC:
fairness and `ENABLED` are out of the proof system's reach. Two properties were found wrong
by their proofs and not by the runs, whose instances were too small, and were corrected:
those of `HostMatchesLifecycle` and `DestructiveIsConfirmed` are in section 4. The two
properties with a proviso on the history, `LiveHostsAreCovered` and `RunningOwnsSlot`, and
`CleanupSparesListed` and `LoadedIsKeptUntilWoken` are what is left to promise beside the
disagreements of section 4.

## 6. What is not modelled

* Lengths of time, except in `Automation`: the eight-hour lease against the
  eighteen-hour restore machine, and polling intervals.
* The contents of configuration, missions, mods, manifests and objects in S3: a step that
  verifies them may fail.
* More than one instance per session in `SessionWorkflows`; `Fleet` has several, with
  EC2's own view consistent.
* A worker's Lambda that is delayed between its load and its call to EC2. Its session
  write would be refused; its call to EC2 would not.
* How many copies of a command run on a host, and the shell script they run, except for
  the missions that it deploys.
* The reconciler's page of active sessions and the end of its batch, as nothing is claimed
  of when it acts; the audit and the guild default of timeouts.
* Roles and access policy: they decide on one request from one item.
* Rendering of session cards and notifications, and their delivery except in the reset;
  formatted progress; the failure catalogue; parsing of mod lists, server configuration
  and Discord payloads.
* The server-only mod revision, which follows the code of the mod revision.
* Host access and its delivery manifests, and the Steam credential exchange.
* The in-memory adapters, except for conditions that they share with the repository.

## 7. Plan

1. `SteamExchange`: the lease and the exchange record of the credential broker, with
   lost completions and expired leases; property: a returned cache is never older than
   the one it replaces.
2. `HostAccess`: attempts, generations and pinned outputs under the conditions on session
   and workflow; property: a finished attempt is final and no manifest outlives its lease.
