# A TLA+ model of plgd hub

plgd hub is a set of services that connect OCF devices to clients. Its core is
an event-sourced store of device state: commands from clients and devices are
judged by aggregates, accepted commands become versioned events in a database,
the events are published on a bus, and read models (projections) follow them.
This directory models that core, checks it with TLC and proves parts of it with
TLAPS. Paths below are relative to the repository.

## 1. Inventory

| Part | State | Operations | What makes it correct |
|---|---|---|---|
| Rules of a resource (`resource-aggregate/events/resourceStateSnapshotTaken.go`) | latest accepted content with its connection and sequence; four lists of requests the device has not answered | notify; request and confirm update, retrieve, create, delete; cancel | no request lost, answered twice or stuck; live correlation ids unique; content of a connection never goes back |
| Command handling (`resource-aggregate/cqrs/aggregate`, `service/aggregate.go`, `service/grpcApi.go`) | per request: model, loaded version, retry counter | load, judge, save with a version check, retry, clean up, publish | the effect of concurrent requests is that of some sequence of them; only stored events are published; every request ends |
| Event store (`resource-aggregate/cqrs/eventstore/mongodb`; `cqldb` alike) | per aggregate a document: first, latest and latest snapshot version, events | insert, append if the version follows, remove up to a version, delete, load from snapshot or version | a document can always be loaded; versions are consecutive |
| Event bus (NATS) | messages under way | publish, deliver | none: messages can be lost or late, the readers must cope |
| Projection of an aggregate (`resource-aggregate/cqrs/eventstore/projection.go`, models in `resource-directory/service`) | believed version, the user's model | handle messages, reload on a gap, load a snapshot | shows whole states, does not go back, catches up |
| Projection registry (`resource-aggregate/cqrs/projection`, `resource-directory/service/projection.go`) | reference counts, topic counts, eviction cache | register, unregister, force update, evict | a registered device is subscribed and loaded; an unregistered one is forgotten |
| Device metadata (`resource-aggregate/events/deviceMetadataSnapshotTaken.go`) | connection and its service, twin status, unanswered changes of the twin's settings | connect, disconnect, report the twin, change, confirm, cancel, expire | late reports of an ended connection change nothing; changes are answered |
| Service heartbeat (`resource-aggregate/service/updateServiceHeartbeat.go`, `events/serviceMetadataSnapshotTaken.go`, `coap-gateway/service/serviceHeartbeat.go`) | valid and expired services; request queue, timer and wake-ups of two goroutines; what a gateway believes of its own validity | register, renew, check, expire, set devices offline, confirm; stop a stale gateway | hub and gateway agree on who is alive; devices of a dead gateway become offline, those of a live one do not |
| Resource links (`events/resourceLinksSnapshotTaken.go`) | published links | publish, unpublish | links only of the device's resources |
| Snippet service (`snippet-service/updater`, `store/mongodb/appliedConfiguration.go`) | per device and configuration one applied configuration with a status per resource; commands pending at the aggregate | apply by conditions or on demand, force, record results, time out, cancel, delete | no command left behind, no foreign or overwritten outcome, everything with a time to live settles |
| Gateways (CoAP, gRPC, HTTP, cloud2cloud), identity store, CA, provisioning, OAuth | sessions, ownership, credentials | - | - |

The parts meet in five places. Request handlers of any number of replicas
share nothing but the aggregate's document, so everything rests on the version
check of `Save` and on the clean-up that runs after it. Handlers publish after
they stored and never in a transaction with it, so the bus can lack, delay and
reorder events. Projections combine the bus with reads of the store that are
not ordered with it. Gateways and `resource-aggregate` each keep a copy of how
long a gateway is valid, which calls that fail or come late keep in step. The
snippet service keeps a record of commands that live in another aggregate, and
learns of their results from the bus or from the clock.

Hard to test, and therefore what the properties aim at: lost races and retries
with state left over from the failed attempt; clean-ups delayed past later
saves or past a deletion; errors reported by a database that stored the data;
requests that expire while ids are reused; loops that change what they iterate
over; messages that are lost, late, or come in batches, while a snapshot read
earlier waits to be applied; reports of a connection handled after the device
has come back over another; a heartbeat whose caller has given up; a result that
arrives before the request it answers has been recorded, or after the record was
replaced. `PROJECT.json` lists each hazard at its line.

## 2. Modules

| Module | Models | Used by |
|---|---|---|
| `ResourceState` | the rules of a resource as operators: `ResourceHandleCommand(state, cmd, now)` yields whether the command is accepted, its events and the new state | `ResourceRules`, `MCAggregate` |
| `LinearAggregate` | abstract specification: commands take effect one at a time with consecutive versions | `ResourceRules` (instance), `Aggregate` (refinement) |
| `ResourceRules` | `LinearAggregate` with the rules of `ResourceState`, and the properties of the rules | `MCResourceRules` |
| `Aggregate` | command handling by concurrent handlers over the MongoDB event store, the rules being a parameter | `MCAggregate`, `AggregateProofs` |
| `AggregateProofs` | theorems about `Aggregate` | |
| `EventProjection` | the projection of one aggregate, with store and bus as its environment | `MCEventProjection`, `EventProjectionProofs` |
| `ResourceRulesProofs`, `EventProjectionProofs`, `DeviceMetadataProofs`, `ServiceHeartbeatProofs`, `AppliedConfigurationsProofs` | theorems about the module of that name | |
| `LeastNumber` | a set of numbers has a least and, if bounded, a greatest member: induction for the proofs | the proof modules |
| `Counting` | how many positions a set has after an entry of a list is appended or removed: counting for the proofs | `ResourceRulesProofs`, `DeviceMetadataProofs` |
| `DeviceMetadataState` | the rules of a device's status as operators | `DeviceMetadata`, `ServiceHeartbeat` |
| `DeviceMetadata` | `LinearAggregate` with those rules, and their properties | `MCDeviceMetadata` |
| `ServiceMetadataState` | the rules of the services aggregate as operators | `ServiceHeartbeat` |
| `ServiceHeartbeat` | gateways, the two goroutines of `resource-aggregate`, and the two aggregates they change, composed | `MCServiceHeartbeat` |
| `AppliedConfigurations` | the snippet service's calls, handlers and store, with the resource aggregate and the bus as environment | `MCAppliedConfigurations` |
| `MC...` | commands, connections and orders for TLC | |

### How they correspond to the code

*ResourceState.* A state is the content of `ResourceStateSnapshotTaken`. One
parameterised definition stands for the four copies the Go code has of each
handler (create, update, retrieve, delete); the differences between the copies
(content conversion, the successful deletion that clears all lists, what a
resource without content accepts) are kept. The removal of a list element is
modelled as what `append(p[:i], p[i+1:]...)` does to the backing array, because
the cancel loops range over that array. Content types appear as one flag of a
request: can its content be re-encoded to the type of the latest change, asked
only when there is one. The rejection of a request without metadata, resource
types, audit and trace fields are left out. `handleEvent...Pending` drops a
request that has expired by the time it is applied; the model reads the clock
once per command, so a time to live shorter than that is not represented.

*Aggregate.* Each handler is one gRPC request. `Load` is `NewAggregateModel`
(the document's events from its latest snapshot on; a document without events
is an error). `HandleInMemory` runs the rules on the clock of that moment;
`Reject`, `NothingToDo`, `SaveOk`, `SaveUnknown` and `ConcurrencyException` are
the outcomes of `HandleCommandWithAggregateModelWrapper`, whose only shared
access is the single atomic database write of `Save`. `Retry` and
`RetryReachedLimit` are `HandleRetry` with `NewDefaultRetryFunc`. The two
database commands of `RemoveUpToVersion` are separate steps, and either can
fail. `PublishEvent` publishes one event, or loses it. `Withhold` is
`wantToPublish` for a forced request; the links it reads are not modelled, so
it may or may not apply. `Abort` is a database error, a cancelled context or
the death of the process at any point. `SharedModel` says whether the factory
returns one model object for all attempts (`newResourceStateModel` does): then
a retry starts from the effects of the failed attempt unless it loads a
document. The history variable `log` records every stored event.

*EventProjection.* `Update` is `aggregateModel.Update`; `NextEvent` is one call
of the iterator (`Next`, `RewindIgnore`, `RewindToSnapshot`); an iteration
holds the lock of the user's model, as `resourceProjection.Handle` does. The
consumer is the goroutine that `GoroutinePoolHandler` runs per aggregate: it
takes what is queued as one batch, and after a gap loads from the store in
steps of its own. The loader is `Register` or `ForceUpdate`, one at a time
under the device's mutex. The user's model is abstracted to the version of the
state it shows, `Torn` when an event was applied to a state it does not follow.
Commits of one or two events, clean-ups, and loss of messages are the
environment, as `Aggregate` leaves it. `resourceProjection.Handle` fails on a
model without data, which takes the reload with it (`FailsWhenEmpty`).

Two history variables serve the properties. `seen` is the highest version the
consumer has taken from the bus and not given up on. `astray` marks a model that
was left to events it cannot follow: `Lapse` is the one place where that begins,
an event that `Update` lets through although the model is not at the version
before it, and after which nothing is reloaded. There are two such events, and
each is a finding: the one whose reload request `RewindIgnore` drops, and one of
version 0 that comes to a model with data. The next snapshot ends the state.

*DeviceMetadataState, DeviceMetadata.* A state is the content of
`DeviceMetadataSnapshotTaken`: the last `DeviceMetadataUpdated` (connection,
service, user, correlation id), the twin synchronization with its command
metadata, and the pending updates. The commands are those of
`DeviceMetadataSnapshotTakenForCommand`: `Connect`, `Disconnect` and
`Synchronization` come from a gateway, `ChangeTwin` from a user, `ConfirmTwin`
from the gateway again, `CancelUpdates` from a user, `UpdateDeviceToOffline`
from the hub when a service has expired. The comparison `Equal`, which drops an
event that repeats the last one, is kept with exactly the fields it looks at.
A report of a connection may name no service: gateways always send the id of
their instance, the cloud2cloud connector sends none
(`devicesSubscription.go:153-160`, `pull.go:228`). A report of the twin with state
`OUT_OF_SYNC` is an error and one with `DISABLED` is stored, as the `switch` of
`updateDeviceTwinSynchronization` has it.
Protocol, local endpoints and audit fields are left out. `DeviceMetadata` runs
the rules one command at a time; that concurrent requests behave so is what
`Aggregate` and its refinement are for.

*ServiceMetadataState, ServiceHeartbeat.* The services aggregate is a map from
service to validity, plus the expired services not yet confirmed. A gateway
(`newServiceHeartbeat`, `TryUpdateServiceMetadata`, `ServiceIsOffline`, `Answer`)
registers, renews, and stops itself when it is refused or its validity has run
out. `RunWoken`, `RunTimer`, `ProcessRequest` and `RunSleep` are the goroutine
`run`: the queue, the one-token wake-up channel and the timer are variables, so
a lost wake-up would be a behaviour of the model. `ExpirerWoken`, `LoadDevices`,
`UpdateDeviceToExpired`, `ConfirmExpired` and `ExpirerFails` are
`runProcessExpiredServices`. `SignIn`, `OnClose` and `HandleReport` are the
reports of gateways on their devices, which may be handled in any order, late or
never. `Restart` is a crash of `resource-aggregate`: only the event store
survives. Points in time are kept as ticks left, so that the clock needs no
bound. `calculateTimeToLive` may grant `Extra` more. A failed load leaves an
empty snapshot behind and a failed save leaves one that was never stored, as the
code does; the history variables `unsaved` and `shortened` mark the services
this has touched. A third one, `dead`, holds the services that were ever stored
as expired, also after the confirmation has removed them.

*AppliedConfigurations.* One device, one configuration; each member of `Apply`
is one call of `applyConfigurationToResources`. `Create` is
`CreateAppliedConfiguration` with its unique index or, for a forced call, the
replacement; `CancelReplaced` cancels what the replaced one had pending;
`UpdateAccepted`, `UpdateUnauthenticated` and `UpdateFails` are the request to
the resource aggregate, with the search for a condition whose token works;
`Store`, `StoreFails` and `Withdraw` record its outcome, or take the command
back when the record is gone. `HandleResourceUpdated` is the event handler and
`FindTimeouts`, `TimeoutPendingResource` the cron job, whose read and writes are
separate steps. Every update of the store is the single `FindOneAndUpdate` it is
in the code, with its status filter; when the filter does not match, the call
goes on with the document it had (`ErrNotModified`). `Accept` and
`CancelPendingCommands` are the two requests to the resource aggregate, reduced
to one correlation id from the rules `ResourceState` has in full. The device and
the bus are the environment: a command that was accepted is answered or
cancelled once, and its event may be lost. `forsaken` records the commands a
failed call, a crash or a deletion has left without anyone to look after them,
and `early` the updates whose result was handled while they were still queued;
no action reads either.

## 3. Runs

| Run | Instance | Shows |
|---|---|---|
| `resource_rules` | two correlation ids, clock 0..2, versions 0..4; 102,778 states | `RequestsAccountedFor`, `LiveIdsUnique`, `PendingsAnswerable`, `ConnectionAdvances`, `TypeOK` hold |
| `aggregate_races` | three handlers, five commands that conflict in pairs, one retry; 218,815 states up to symmetry | `Linearizable`, `LoadableUntilDeleted`, `PublishedWereStored`, `TypeOK` hold |
| `aggregate_lifecycle` | two handlers, clock 0..1, one deletion, fairness; 38,291 states | `EveryCommandAnswered`, `Linearizable` hold |
| `event_projection` | a new aggregate, versions 0..3, batches of two messages, one loader, fairness; 81,398 states | `Consistent`, `SeenIsApplied`, `BackOnlyToStart`, `CatchesUp`, `TypeOK` hold |
| `device_metadata` | two connections over two services and one over none, reports in any order, two updates, one expiry; 248,505 states | `ServiceOfConnection`, `OnlineEndedByOwnConnection`, `TwinOfConnection`, `SynchronizedIsOnline`, `UpdatesAnswerable`, `UpdatesLeaveAnswered`, `TypeOK` hold |
| `heartbeat_leases` | one gateway from registration on, two devices, failing calls and saves; 682,601 states | `LeaseAgreed`, `LeaseRespected`, `NeverRevived`, `TypeOK` hold |
| `heartbeat_recovery` | two gateways, one of which may crash, failing work, a restart of the hub, fairness; 149,561 states | `GoneGatewayNoticed`, `ExpiredConfirmed`, `StaleGatewayStops`, `LeaseAgreed` hold |
| `applied_configurations` | a call by conditions and a forced one on demand, two resources, one fault, fairness; 709,942 states | `NoUpdateLeftBehind`, `OutcomeIsOwn`, `LinkIsUsedCondition`, `AnswerIsFinal`, `Settled`, `TypeOK` hold |
| `cancel_all` | three updates pending | `CancelAllCancelsAll` is violated |
| `aggregate_deleted` | three handlers, one deletion | `LatestSnapshotKept` is violated |
| `gaps_reloaded` | batches of two messages | `GapsReloaded` is violated |
| `version_regresses` | a new aggregate, single messages | `VersionNeverRegresses` is violated |

Deadlock is not checked: handlers and calls finish, gateways stop, and a run
ends when all have.

### Where properties stop

Some properties hold with an exception that the code itself makes; each is
written into the property or its comment, and into the hazards.

- `Consistent`: not while the model is `astray`, from a lapse to the next snapshot.
- `SeenIsApplied`, `CatchesUp`: not for versions given up on, which is in a lapse,
  when the reload fails, and when `Handle` fails on a model without data.
- `BackOnlyToStart`: version 0 is the exception, as finding 4 has it.
- `LinkIsUsedCondition`: not from resources whose result was recorded before the
  loop stored the update (`early`). The condition is written together with the
  resource's status and only while the resource is queued
  (`resourceUpdater.go:426-440`), so if the first condition is refused, the
  second accepted and every update answered that early, the document goes on
  naming the first. Nor from updates that are `forsaken`, of which the call does
  not know that they were accepted, or could not store it.
- `SynchronizedIsOnline`: when the hub ends a connection on behalf of an expired
  gateway it invents a sequence number, so a report still under way is accepted
  (`EndedByHub`).
- `UpdatesAnswerable`, `UpdatesLeaveAnswered`: an update that reuses the
  correlation id of the last stored event may be answered in silence, because the
  answer can be `Equal` to that event.
- `LeaseAgreed`: a slow heartbeat is granted more than a quick one; if a quick
  one follows whose caller has given up, the hub's validity is shorter than the
  gateway believes (`shortened`).
- `LeaseRespected`: `processRequest` also acts on the snapshot of a command it
  failed to store (`unsaved`).
- `GoneGatewayNoticed`, `ExpiredConfirmed`: asked for only while another gateway
  goes on serving. A failed check with no other request to follow it, or a
  computed wake-up of zero, leaves the timer at ten minutes or unset.
- `NoUpdateLeftBehind`, `Settled`: not for what is `forsaken`. A resource left
  queued by a crash or a failed write is not seen by the cron job.

### Findings

1. *Cancelling all pending commands does not cancel all.* The cancel loops range
   over a list while each cancellation removes an element from it in place. Of
   three pending updates the second survives. `pb/commands.proto:572`: "empty
   array means all."
2. *A delayed clean-up can destroy a re-created aggregate.* A handler stores
   version 1 and is delayed; the device is deleted; another handler creates the
   aggregate again at version 0; the delayed clean-up up to version 1 removes
   its only snapshot. The document without events can be neither loaded nor
   replaced. If the clean-up is delayed before its first command, that command
   deletes the new document.
3. *A gap inside a batch is not reloaded.* `RewindIgnore` discards the reload
   request of `Update`, and the event is applied to a state it does not follow.
4. *A late event of version 0 takes a projection back.* The first case of
   `Update` precedes the comparison with the current version. In the trace the
   loader projects version 1 before the consumer gets the message of version 0; a
   load that was read at version 0 and handled late does the same.

The passing projection run excludes neither batches nor the first version: it
starts with a new aggregate, meets findings 3 and 4, and shows what holds beside
them.

### Bounds

Conflicts need two handlers; a clean-up overtaken by a save and another
clean-up, and a retry that loses again, need three, and each handler executes
one command, so three commands are in play. One retry distinguishes the first
attempt from later ones and reaches the limit. `MaxEvents = 2` covers a
cancellation that stores an event and a snapshot; `resource_rules` allows four.
A request with a time to live of 1 issued at time 0 is expired at 2, so a clock
of 0..2 includes reuse of an expired id. Versions 0 to 3 give a projection two
commands of two events each, gaps of up to three, a batch with a gap in it, and
a snapshot in the middle of what a reload reads; the inductive invariant of the
proofs was also checked with batches of three, without `FailsWhenEmpty`, and up
to version 4 from a start at version 0. A device needs two connections for one
to be late, and two services for one to expire while the device is at the other,
and a third connection that names no service; each connection makes two reports,
so they can be swapped with each other, with the end of the connection and with
the next one. Leases of one tick with one tick extra tell "still valid" from
"late" and a shortened lease from a kept one; two devices with `Limit = 1` make
the expirer load twice. Recovery needs a second gateway, whose heartbeats bring
the failed work back; one fault at any point, together with the crash of a
gateway, is what the code claims to survive. Two applications are one to be
replaced and one that replaces it; two resources give a loop that is interrupted
between them, and two conditions a first one that is refused. A third call was
tried and exceeds 18 million states. `LoadFails` needs an emptied document that
another request then loads: one deletion and four handlers, more than the runs
have.

### Fairness

`Aggregate`: weak fairness of each handler's own steps. Goroutines are
scheduled, database calls return or time out (and `Abort` is always possible),
and handlers take no locks. `EventProjection`: weak fairness of the iteration
and of the load, strong fairness of `HandleReload`, which waits for the model's
mutex: Go's mutexes hand over to a waiter that has waited long, so one that is
released again and again is eventually granted. Nothing is assumed of
delivery, commits, loads from snapshots, or failures. `ServiceHeartbeat`: time
passes; each goroutine of `resource-aggregate` is scheduled (they block only on
their channels, and a restart starts both again); and so is each gateway's own
loop until it crashes. Devices, reports and faults are free to do nothing.
`AppliedConfigurations`: calls run on (each blocks only on calls with a
deadline), validity runs out, and the scheduler runs the cron job again. Neither
the device's answer nor the delivery of any event is assumed, so `Settled` holds
with every event lost.

## 4. Theorems

The proof modules state, for every value of the constants, every invariant and
every action property the passing runs check; `PROJECT.json` pairs each theorem
with its property. Each module has the same shape: an inductive invariant as a
conjunction of named parts, a lemma per operation, and the theorems as
corollaries.

### Command handling

`AggregateProofs` proves, for any sets of handlers and commands, any rules, any
bounds and both values of `SharedModel`:

- `TypeCorrect`: `Spec => []TypeOK`, with the bound on retries;
- `PublishedStored`: `Spec => []PublishedWereStored`;
- `SnapshotKeptUntilDeleted`: `Spec => []LoadableUntilDeleted`;
- `Refinement`: `Spec => Linearizable`, i.e. `Aggregate` implements
  `LinearAggregate` with `version <- doc.latestVersion` and `state` the value of
  the last event of the document.

The only assumption is `AggregateConstants` (the bounds are natural numbers,
`SharedModel` is Boolean).

`PublishedWereStored` is not inductive: it says nothing of what handlers are
about to publish. `OutboxInv` adds that. `LoadableUntilDeleted` needs three
facts, promised until the first deletion: `DocInv` (the last event of a document
is a snapshot and the only event with its version, so whoever loads from the
latest snapshot version gets it), `CleanUpInv` (a handler removes only what
precedes its own snapshot, which is not newer than the document's) and
`AttemptInv` (a handler's loaded version is not ahead of the document, and if it
is the document's, the model is the stored state). `AttemptInv` also carries the
refinement: a handler whose save passes the version check has loaded the
document's latest version, hence has judged its command on the stored state,
hence its save is the abstract `Execute`. Its clause for handlers that retry
shows that a shared model is harmless until a deletion: a handler that lost a
race will find a document, which replaces the model. Clean-ups are stuttering
steps, as they keep the last event.

### Rules of a resource

`ResourceRulesProofs`, for any commands, lists and clock: `TypeCorrect`,
`LiveIdsAreUnique`, `ContentAdvances`, `RequestsAreAnswerable`,
`RequestsAreAccountedFor`. Assumed of the
commands is what the gRPC requests can hold (`RulesConstants`): kinds, sequence
numbers and times to live are of their types, and a notification has a
connection. `PendingsAnswerable` is not inductive: a resource without content
rejects the answer to a retrieval, so the invariant adds that no retrieval waits
there. `LiveIdsUnique` survives the cancel loops because what they leave of a
list is a sublist of it (`Sublist`), although they may skip entries (finding 1);
what a round of a loop keeps is `Round`.

`RequestsAccountedFor` counts the log against the lists. `AccountInv` adds to
the invariant above that the log is finite and states the account as a relation
of a log and a state (`Accounted`), so that a command can be judged by its
result alone: it is `Balanced` if, kind by kind and id by id, the requests among
its events plus those that waited equal the answers among its events plus those
that wait now. For most commands that is one entry appended or removed. The
cancel loops need an invariant of their rounds: the events of the rounds so far
that answer an id, together with the entries with that id that are left, are as
many as there were when the loop began (`RoundsCounted`). It holds although the
loop removes entries from the array it runs over, because what a round reads
from a shifted cell is only the id it answers, and it answers only an id it
finds in the list. A deletion empties the lists and moves the mark from which
the log is counted (`DeletedSince`); any other event is numbered after that mark
(`AddedSince`).

### Status of a device

`DeviceMetadataProofs`, for any commands: `TypeCorrect`,
`TwinsFollowConnections`, `ConnectionsEndTheirOwn`, `ServicesAreOfConnections`,
`UpdatesAreAnswerable`, `UpdatesLeaveWithAnswer`, and
`SynchronizedTwinsAreOnline`, if the end of a connection is numbered after the
other reports of that connection (`EndNumberedLast`; the numbers are those of
`coapConn.Sequence()`). A report that a gateway begins only after it has
numbered the end is outside this theorem.

`TwinOfConnection` speaks of synchronized twins only and is not inductive: a
twin that was out of sync can be reported in sync. `StateInv` says that the
twin of any device that has been seen is that of the connection stored last.
`SynchronizedIsOnline` needs `Quiet`: no report still to come about an offline
device is newer than what its twin knows. `UpdatesAnswerable` follows the
cancel loop (`Canceling`): until it reaches the cell of the update nothing has
changed, and from then on events are only added and updates only removed.
`UpdatesLeaveAnswered` is an action property and needs two things of the states
before it: `LogInv` (events are numbered, so those of a step are not in the log
before it) and, within the loop, `Hearing`: an id has an event by now, or none
of its updates has gone and it is not the id of the last event. The second half
is what keeps the next round from dropping an update in silence, and it is where
the property's exception comes from: an update that has the id of the last
event, if nothing else changes, equals what is stored, and
`HandleDeviceMetadataUpdated` then removes it without an event.

### Heartbeat

`ServiceHeartbeatProofs`, for any number of gateways, devices and faults, any
leases and delays: `TypeCorrect`, `LeasesAgree`, `NeverAgain`,
`LeasesAreRespected`. `HeartbeatConstants` asks that leases are positive and
that connections belong to gateways and devices. `LeaseAgreed` compares a
gateway with the hub's record and says nothing of requests under way: `QueueInv`
adds that a queued request belongs to a gateway that waits for it, or has given
up, and that a registration is queued at most once; `RecordInv` that nobody is
both valid and expired, that those once expired are not valid, though a
confirmation may have removed them, and that those being set offline are not
valid, but for snapshots never stored; `ExpirerInv` that the expiring goroutine
works on those. `LeaseRespected` then follows: whose devices are set offline is
not valid in the hub, hence, by `LeaseAgreed`, not in its own eyes. `DeviceInv`
types the devices and the reports on their way.

### Projection

`EventProjectionProofs`, for any number of versions, any size of batches, any
start and both values of `FailsWhenEmpty`: `TypeCorrect`,
`ReadersSeeTheirVersion`, `SeenVersionsAreApplied` and `NeverBack`. The only
assumption is `ProjectionConstants`. The store is characterised by `StoreInv`
(from some snapshot on no version is missing, the latest is a snapshot), from
which `ReadRun` follows: whatever a query asks for and whatever was cleaned up,
it returns consecutive events that end with the latest snapshot (`Run`). What a
step does with an event has one of four outcomes (`Skipped`, `Ignored`, `Taken`,
`Strayed`), and the invariants say which can happen where. `IterInv` has that a
load, past its first event and any gap, goes on from what the model has reached,
so it never goes astray, and that the highest version seen is reached or still to
come in the batch or the load. `ContentInv` allows one moment in which the model
does not show its version: a load that started over from version 0 and is on its
way to its snapshot, which it handles before it releases the lock (`Rebuilding`).
`NeverBack` needs the outcomes alone.

### Applied configurations

`AppliedConfigurationsProofs`, for any number of calls, resources, conditions
and faults: `TypeCorrect`, `NothingLeftBehind`, `OutcomesAreOwn`,
`LinksAreUsedConditions`, `AnswersAreFinal`. `ConfigurationConstants` asks that
a configuration has resources, no two alike, and that stored conditions have an
id. The three invariants say nothing of what calls are about to do: `FreshInv`
adds that no command was made for a resource a call has not come to, `LoopInv`
that such resources are queued and that call and configuration agree on the
condition, `StatusInv` relates every recorded status to the fate of its command.

### Induction

Induction over data with a predicate as parameter is out of the prover's reach.
Where a fact about a list, or about the rounds of a loop, needs one, the proof
takes the least number for which it fails (`LeastNumber`). The recursive
function of a loop exists for the same reason (`LoopExists`).

### Only model-checked

Liveness under fairness is out of the prover's reach: `EveryCommandAnswered`,
`CatchesUp`, `GoneGatewayNoticed`, `ExpiredConfirmed`, `StaleGatewayStops`,
`Settled`. Every other property of a passing run has a theorem.

## 5. Not modelled

- Document rollover when a MongoDB document is full (`saveSnapshot`): it starts
  at 16 MB, and the clean-up after every snapshot keeps documents to a few
  events. The CqlDB store, which implements the same interface with one row per
  aggregate.
- The projection registry (`Register`, `Unregister`, topics, the eviction cache).
  Its reference counts, its map with locked callbacks and its cache come from
  `go-coap`, outside the repository, and the hazards at these lines are about
  what that library does under its lock; a model would rest on a guess.
- Resource links: a map of links per device without timing. They are loaded
  beside a resource, where only their effect on publication is modelled; access
  validation; the batch notification, which is a sequence of independent ones.
- After a deletion under running handlers the abstract aggregate promises
  nothing; see finding 2 and the hazards.
- Of the CoAP gateway everything but the heartbeat and the sign-in and end of a
  session: observation, token expiry, command execution.
- Of the snippet service the editing of conditions and configurations and the
  selection of the configurations an event applies to.
- gRPC, HTTP and cloud2cloud gateways, identity store, certificates,
  provisioning and OAuth: mostly translation, queries and credentials. The owner
  cache of the identity store keeps state of its own.
- Generated code (protocol buffers and gateways made from them), tests, charts
  and the web application.

## 6. Plan

1. The exceptions of section 3 as theorems: which states the excluded cases need.
2. Further modules: document rollover with crashes between its two writes,
   `ResourceLinks`, the owner cache of the identity store.
