# A TLA+ verification of the FIWARE JSON IoT Agent

This directory specifies the IoT Agent for JSON of this repository (the fork
with bounded telemetry, a telemetry work queue and device discovery) in TLA+,
checks the specifications with TLC and proves theorems with TLAPS. Every
invariant and every safety property of a step that the passing runs check is
also proved, for all values of the constants; liveness is model-checked only.
The modules are translated from `lib/`; the documents are used only to state
what the program is said to promise.

All paths are relative to the root of the repository. To run a model:
`tlc -workers 2 -config MCCommands.cfg Commands.tla`; to check a proof:
`tlapm TelemetryQueueProofs.tla`. `PROJECT.json` lists the runs, maps each
definition to the lines it models, and lists the hazards of the code with the
properties that cover them.

## 1. Inventory of the system

The agent stands between devices, which speak JSON over HTTP, MQTT or AMQP, and
the FIWARE Context Broker, which holds an entity for each device. It is a
Node.js program: one thread, an event loop, and callbacks. An action of a module
is therefore a whole callback, and what is interleaved are the callbacks.

| Component | State it keeps | Operations | What is hard |
|---|---|---|---|
| Telemetry queue `lib/telemetryQueue.js` | ordered map `pending`, `active`, `activeGroups`, `draining`, `accepting`, close callbacks, timer, counters | `enqueue`, `drain`, worker's `done`, `close`, shutdown timer, `getStats` | coalescing, eviction, one update per device, wake-ups, close racing late answers |
| Telemetry normalizer `lib/telemetryNormalizer.js` | bounded cache of the last limits of each metric | `normalize` | the cache is written before the update is answered; eviction; restart |
| Device discovery `lib/deviceDiscovery.js` | bounded, expiring map of device ids | `observe`, `list`, `prune` | boundaries of TTL and size, order of the map |
| Warning limiter `lib/warningLimiter.js` | bounded map of the last warnings | `shouldLog` | eviction makes a known warning look new |
| MQTT binding `lib/bindings/MQTTBinding.js` | client, connection, retries, queue, discovery, limiter | `start`, `stop`, client events, messages, commands | reconnection timers, handlers of replaced clients, stop during a fault |
| HTTP binding `lib/bindings/HTTPBinding.js` | Express server | measures, commands by push and poll, configuration requests, provisioning handlers, discovery for the portal | list, delivery and removal of commands are separate calls; a polling flag that is computed once; a second lookup before a configuration is sent |
| AMQP binding `lib/bindings/AMQPBinding.js` | connection, channel, retries | `start`, `stop`, consumer, `executeCommand` | reconnection without a new channel; start that never calls back |
| ARGO binding `lib/bindings/ARGOBinding.js` | HTTP server | `start`, `stop`, measures | search of a device over a list of API keys |
| Common message handling `lib/commonBindings.js` | normalizer | `messageHandler`: measures, results, configuration requests | telemetry by the queue, all else directly; the device is looked up before an update that is sent later |
| Command handler `lib/commandHandler.js` | none | `commandHandler`, `updateCommand` | series of commands, one failing; updates answered out of order |
| Agent lifecycle `lib/iotagent-json.js`, `lib/transportSelector.js` | `transportBindings` | `start`, `stop`, `handleShutdown` | partial start, signals during start and stop, exactly one exit |
| Device lookup and configuration requests `lib/iotaUtils.js` | none (the library's registry) | `retrieveDevice`, `getEffectiveApiKey`, `manageConfiguration` | lookup by key creates devices, lookup by id alone must be unique; both while the registry changes |
| Configuration `lib/configService.js`, `lib/constants.js` | the configuration | `setConfig`, environment | what the environment adds, replaces and rejects |
| Errors, executable | none | | |

Interactions. A client event or an HTTP request enters a binding. The MQTT
binding notes the device's id in the discovery registry, rejects payloads that
are too large (with a limited warning), hands control messages (`configuration`,
`cmd`, `cmdexe`) to the common handler at once, and enqueues telemetry under
the key device/attribute with the device as its group. The queue's worker runs
the common handler: the normalizer rewrites bounded values and
`iotagent-node-lib` (external) updates the Context Broker and calls back, which
frees the queue's slot. In the other direction the library calls
`commandHandler`, which executes the commands of an update one after the other
through the device's binding; results come back as responses or messages and
become updates of the command's status. The lifecycle starts and stops all
bindings together; MQTT's stop waits for the queue's close.

What makes each component correct:

* *queue*: one update per device at a time, bounded memory and concurrency, the
  newest value of an attribute survives, nothing unaccounted for, no wake-up
  lost, a close that always ends and ends early only by its timer;
* *normalizer*: a limit is withheld only if the Context Broker has it;
* *discovery, limiter*: the bound evicts the oldest; expiry is exact;
* *MQTT connection*: it listens again after faults, gives up only after its
  retries, and after a stop that leaves no timer behind nothing happens any more;
* *commands*: a command is marked executed only for a cause, an error ends its
  series, a stored command is delivered;
* *messages*: every message is answered, without an error only if all its values
  are stored; a device is what the registry said at one moment of the processing;
* *configuration of devices*: the polling flag follows the endpoints, a request
  that is answered has been served, the agent does not answer itself;
* *lifecycle*: `start` reports success only after every enabled binding has been
  started (a refused AMQP queue it is not told of), teardown waits for the telemetry,
  the process ends after a signal if the clients of its servers go away.

## 2. Modules

```
CoalescingBuffer  <== implemented by ==  TelemetryQueue
                                               ^
                                     TelemetryQueueLedger   (counters, order)
                                               ^
                                     TelemetryQueueProofs   (both, and the refinement)

BoundedTelemetry <- BoundedTelemetryHistory, BoundedTelemetryProofs
DeviceDiscovery  <- IncomingMessages -> WarningLimiter     (one clock)
IncomingMessages <- IncomingMessagesProofs
AmqpConnection   <- AgentLifecycle -> ServiceConfiguration
AgentLifecycle   <- AgentLifecycleProofs
CoalescingBuffer <- DeviceMessages <- DeviceMessagesProofs
DeviceConfiguration <- DeviceConfigurationProofs
Commands         <- CommandsProofs
MqttConnection   <- MqttConnectionProofs
```

**TelemetryQueue** has the scheduler of `lib/telemetryQueue.js`. `pending` is
the JavaScript `Map` as a sequence of entries in insertion order. `enqueue()` is
four actions, one per branch: `EnqueueCoalesced`, `EnqueueNew`,
`EnqueueOverflow`, `EnqueueClosed`. `drain()` is a loop that calls
workers, which may call back at once or later, so it is the one operation
in several steps: `DrainBegin`, one `StartEntry` or `StartAndFinishEntry` for
each entry, `DrainEnd`; `inDrain` keeps every other callback out meanwhile.
(A callback that `enqueue`s from within a worker does not exist in this code.)
`Done` is the first call of `done`, `DoneAgain` any later one. `Close` and
`ShutdownTimeout` are `close()` and its timer. `CheckIdle`, which those operations
end with, is part of each of them.

**CoalescingBuffer** is the abstract specification: a set of waiting entries, a
set of entries being served, and whether the buffer is open; no order, no
scheduler, no timer. `TelemetryQueue!ImplementsBuffer` is the refinement
under `waiting <- ToSet(pending)`, `serving <- running`, `open <- accepting`.

**TelemetryQueueLedger** adds the counters of `getStats()` and, as history, the
newest item and the last started item of each key. Items are ordinals of arrival.

**BoundedTelemetry** has `normalize()` and the fate of the update it builds.
Payloads are reduced to whether they have a usable value and, per limit, a
number, an invalid value or nothing. The queue's exclusion per device is the
guard `Idle`, justified by `OnePerGroup`. **BoundedTelemetryHistory** adds the
history that a claim of the documents needs. An update whose answer is lost may
have been stored all the same (`AnswerLost`), though not after a later one of the metric.

**DeviceDiscovery** and **WarningLimiter** are the two registries under a clock;
**IncomingMessages** composes them as `handleIncomingMessage()` does.

**MqttConnection** numbers the MQTT clients in the order of creation. Handlers
act on the module variable `mqttClient` whichever client they are called for,
as in the code; the state of each client's stream, and mqtt.js's own
reconnection, are external. A client may report an error while it connects or later,
and a subscription may be refused (`unheard`).

**AmqpConnection** has the waterfall of AMQP's `start()` (connection, channel,
exchange, queues, listener), the reconnections that its timers and `close`
events make, and `stop()`.

**ServiceConfiguration** is what `setConfig()` makes of the file and the
environment, as sets of possible outcomes for the section of each binding, and
when it throws.

**AgentLifecycle** starts and stops all four bindings, from every configuration
that ServiceConfiguration allows, with signals at any moment. AMQP is an instance of
AmqpConnection, whose steps are those of the agent; the MQTT binding is reduced to
the items its queue still has. A server that cannot listen ends the process
(`ListenFails`), and one that has connections (`busy`) is not closed before they end.

**DeviceMessages** follows the messages of one device id from all bindings to
their answers: validation, lookup, updates. The lookup (`LookupAnswered`) and the
updates (`UpdateAnswered`) are callbacks of their own, and between them other
messages create devices and the operator provisions or removes the id. The state of
a message is where its callbacks are (`lookup`, `updating`) and the values still to
be answered; a list of results over MQTT has one such value at a time
(`eachSeries`), one over HTTP has them all. MQTT telemetry goes through
CoalescingBuffer, the queue's abstract specification, which TelemetryQueue is
proved to implement: that is how the two are composed without the queue's scheduler.
`seen` is history: the registries there were since a message asked. `late` has the
telemetry whose update was answered with an error and may still be stored (`StoredLate`).

**DeviceConfiguration** has one device, its group, the handlers that complete a
record when the operator edits it (`Edit`, `HandlersRun`, `EditStored`), and the
requests for configuration: by HTTP, by MQTT (a list), and notifications
of the Context Broker. Each goes through lookup, query, and the binding that sends.
An answer that cannot be written (`AnswerThrows`) costs its request, or the process.

**Commands** follows the commands of one device from the request to the
status stored at the Context Broker, for the transports push, poll, MQTT and AMQP;
devices are independent. The library's command queue is external: whether
`removeCommand` takes one or all commands of a name is left open. A channel of
AMQP that is not there, or stale after a reconnection, makes `executeCommand()`
throw: either somebody catches that and nothing more of the series happens, or the
process ends.

## 3. Runs

| Run | Asks | Bounds, and why they are enough |
|---|---|---|
| `queue` | all safety of the queue, the counters and the refinement | two devices, one with two attributes (three keys); four accepted items; two slots, room for two; two closers. Full queue, coalescing, busy group ahead of a free one, eviction and timer with running workers all occur. |
| `queue_live` | closes are answered; no attribute starves | one slot, room for two, one item value: telemetry arrives for ever, so there is no bound on the length of behaviours |
| `bounded` | the cache against the Context Broker, over failures and restarts | two metrics of two devices, two numbers, one limit, a cache of one entry: every use evicts |
| `limits_available` (violation) | "must remain available" | |
| `incoming` | discovery and warning limiter | three ids for two places; TTL and interval 2, horizon 3: an entry is fresh, exactly at its limit, and past it |
| `mqtt` | connection safety and liveness | one retry, three faults (errors, breaks, refused subscriptions): giving up takes two, one more strikes a replaced client or the stop |
| `lifecycle` | start and shutdown, AMQP's connections | all configurations that file and environment make of the four bindings, two signals, one telemetry item; one AMQP retry configured and three faults, which is what giving up takes |
| `commands` | commands of a device | two requests, alone or as one update, of two names; two polls at a time. Equal names, two answers in flight and overlapping polls occur. |
| `command_echo` (violation) | a command is OK only when executed | the MQTT transport |
| `messages` | answers and lookups of one device id, over all bindings | two messages of any kind, empty or with two values; two keys, one of them with a group, and one change by the operator. Created, removed and ambiguous ids, coalesced telemetry, the queue's timer, lists that fail in the middle and parallel results occur. A third message meets no situation of a new kind: messages interact only through the registry and the queue's one place and one worker. |
| `amqp_measures` (violation) | a measure over AMQP reaches the Context Broker | |
| `configuration` | polling flag, configuration requests, echoes | two requests or notifications, a list of three items (unknown, subscription, configuration), two changes; default transport HTTP, device HTTP, MQTT or unsaid, group unsaid or without a binding |

Deadlock is checked where the system cannot stop. It is off for the queue
(bounded items run out), the connection (a binding that has stopped or given up),
the lifecycle (the process has exited), and the commands, messages and
configuration requests (bounded in number).

Every property of a passing run has a mutant in `PROJECT.json`: a plausible bug
in one definition, kept next to it in its module and marked `Mutant of`, with
which the property fails.

### Fairness

* `TelemetryQueue!LoopSpec`: the event loop runs a scheduled `setImmediate` and
  a timer that is due. `CloseAnswered` needs nothing else: workers may never
  answer. `EveryKeyLeaves` also assumes that workers answer, as a hypothesis
  of the property: the code sets no time limit on an update (a hazard).
* `MqttConnection!FairSpec`: mqtt.js keeps reconnecting a client that was not
  ended, and timers fire. A connection attempt may be refused or break as long as
  faults are left; `Recovers` speaks of the time after the last. That `end()` calls
  back is assumed, so no property claims that a stop ends.
* `AgentLifecycle!FairSpec`: `listen`, `connect`, `close` and `activate` end,
  and timers fire; faults are not fair. Updates are *not* assumed to be answered. A
  server closes only when it has no connections, and nothing makes those end: that they
  end again and again is a hypothesis of `ShutdownEnds`.
* `DeviceMessages!FairSpec`: the library answers lookups and updates, and the
  queue's worker runs, which is what `EveryKeyLeaves` shows of the queue itself.
* `DeviceConfiguration!FairSpec`: the library, the Context Broker and the
  device's endpoint answer, or the HTTP client reports that they do not.
* `Commands!FairSpec`: a polling device polls again and again and the library
  answers the calls. Nothing is asked of devices that are pushed to, of MQTT, or
  of the Context Broker.

## 4. What the checks show

All passing runs finish without error. Where code and documents disagree, a run
shows it:

1. **Limits may get lost** (`limits_available`). `lib/README.md:13`: the limits
   "must remain available". They are remembered as sent when the update is built;
   if it fails they are not sent again until they change or are evicted.
   `CachedLimitIsInOrion` says that this is the only way to lose them.
2. **MQTT commands come back** (`command_echo`). The agent subscribes to the topic
   on which it publishes commands and takes its own message for the
   device's result: the command becomes OK before the device has done anything.
3. **AMQP messages are dropped** (`amqp_measures`). The AMQP binding makes
   `/<key>/<id>/attrs/<name>` of a routing key, and the handler it shares with MQTT
   accepts `<id>/state/<name>` only, so nothing that arrives over AMQP gets past the
   first test, though `test/unit/ngsiv2/amqpBinding-test.js` expects updates.

Disagreements met on the way that no run states, most of them because a model that
has them says all there is to say, or because no document promises more:

* *Queue and registries.* Across the attributes of one machine order is lost: a
  coalesced item takes the place of the older one and overtakes others
  (`lib/README.md:46`; `AttributeInOrder` holds for each attribute, and
  `TelemetryInOrder` up to the Context Broker). The limit cache evicts the metric
  that was cached first, not the least recently used (`lib/README.md:39`,
  `telemetryNormalizer.js:123`); provisioned ids take room in the discovery registry
  (`lib/README.md:79`, `MQTTBinding.js:76`). After an eviction or a restart a malformed
  bounded payload replaces the number (`lib/README.md:33`): `BoundedStaysNumeric` speaks of
  remembered metrics only. An update that was answered with an error, say by a timeout,
  may be stored after a newer one, which `TelemetryInOrder` excepts.
* *Start and stop.* The reconnection timer survives `stop()` and opens a
  connection afterwards (`MQTTBinding.js:376` against 416); `StopIsFinal` says that
  nothing else does. A binding whose subscription is refused stays connected and hears
  nothing (197-201; `Deaf`). If AMQP's queues are refused, the error is dropped and `start()`
  reports success with nothing listening (`AMQPBinding.js:215-219`; `AmqpRefused`, the
  exception named in `StartWaitsForEach`). A port in use is an unhandled error and ends
  the process. `close()` of a server waits for its connections, without a limit
  (`HTTPBinding.js:759`). `start()` never answers
  when AMQP is missing, disabled or gives up (`AMQPBinding.js:78-81`,
  `docs/usermanual.md:1065`). An HTTP or MQTT binding without configuration
  reports an error that `startTransportBindings()` ignores, and HTTP's `stop()`
  then throws. AMQP retries once more than `retries`, never resets the count,
  reads its retry time from the misspelt `retrytime`, and after a reconnection has
  no channel; `executeCommand()` uses `config.amqp.exchange` without the default
  that `start()` has.
* *Configuration service.* Any `IOTA_HTTP_*` variable replaces the whole section
  of the file (`configService.js:328`), where those of MQTT and AMQP add to it; the
  check that the HTTPS certificate exists looks at the key (350), so a missing
  certificate is an exception in `start()`; `IOTA_MQTT_DISABLED` and
  `IOTA_AMQP_DISABLED` can disable but not enable; `IOTA_MQTT_REJECT_UNAUTHORIZED`, empty
  and without an MQTT section, throws (220).
* *Devices and configuration.* A device moved from HTTP without an endpoint to
  MQTT keeps its polling flag, though MQTT commands are "always push"
  (`docs/usermanual.md:460`): `PollingMatches` therefore speaks of HTTP only. The
  flag is not computed again when the group changes; an error when the group
  is read counts as no endpoint; an update reads the group of the device's old key.
  Requests for configuration by MQTT look the group up with an empty key, so its
  transport does not count (`commonBindings.js:227`, `docs/usermanual.md:1045`); those by
  HTTP need an endpoint of the device's own (`HTTPBinding.js:448`), and their second
  lookup creates a device that was removed meanwhile. An error without an HTTP
  status cannot be sent as an answer (460): the exception ends the request "unanswered",
  or the process. A POST without a body makes an empty update (177-183, 384).
* *Commands.* A poll can remove a command of the same name that was stored during
  its reply (`QueuedIsListed` excludes exactly this case); DELIVERED may be stored
  over a result; commands for an MQTT client that is not connected count as sent. One
  for AMQP without a channel may end the process.
* *ARGO.* `done(false)` is meant to stop the series of keys (`ARGOBinding.js:279-281`)
  but does so only from async 3 on; the agent has 2.6.4, and line 266 runs whenever the
  first of two keys matches. `LookupWasTrue` holds because of the test in 263.

## 5. Proofs

One module of proofs stands beside each component. They all have the same form:
an invariant that is stronger than what is to be shown, one lemma for each
action or group of actions, and a last theorem that puts them together.

| Module | Theorem (property of a run that it states) |
|---|---|
| TelemetryQueueProofs | `TypeCorrect` (TypeOK), `Exclusion` (OnePerGroup), `Bounded` (WithinBounds), `WakeupKept` (NoLostWakeup), `CloseCorrect` (ClosedIsFinal), `CloseWaits` (NoEarlyClose), `Refinement` (ImplementsBuffer), `NothingUnaccounted` (Conservation), `NewestKept` (NewestIsKept), `NeverBackwards` (AttributeInOrder) |
| BoundedTelemetryProofs | `CacheCorrect` (TypeOK), `NoLimitForgotten` (CachedLimitIsInOrion), `StaysNumeric` (BoundedStaysNumeric) |
| IncomingMessagesProofs | `ListIsRecent` (ListsTheMostRecent), `FirstSeenHonest` (FirstSeenIsHonest), `WarningsApart` (EqualWarningsApart) |
| MqttConnectionProofs | `GivesUpLate` (GivesUpOnlyAfterRetries), `NoCrash` (NoCrashWhileRunning), `StopFinal` (StopIsFinal), `TypesHold`, `TimersFindClients` |
| AgentLifecycleProofs | `TeardownWaits` (TeardownAfterDrain), `StartIsComplete` (StartWaitsForEach), `AmqpStaysConnected` (AmqpConnects), `StopsWaitForTheClosing`, `TypesHold`, `AttemptsFindConnections` |
| DeviceMessagesProofs | `TypesHold` (TypeOK), `AnswersHonest` (OkMeansStored), `LookupCorrect` (LookupWasTrue), `NobodyElseProvisions` (OnlyKeysProvision), `StoredInOrder` (TelemetryInOrder), `NobodyIsForgotten` |
| DeviceConfigurationProofs | `PollingCorrect` (PollingMatches), `AnswersAreHonest` (OkMeansDelivered), `EchoStops` (EchoesEnd) |
| CommandsProofs | `OkHasACauseHolds` (OkHasACause), `SeriesInOrderHolds` (SeriesInOrder), `ListedLeavesQueueHolds` (ListedLeavesQueue) |

### The telemetry queue

TLC checks the queue with three keys and a few items. `TelemetryQueueProofs`
proves the same for *every* set of keys, groups,
items and closers, every concurrency and every capacity, from the one assumption
`QueueAssumption`: each key has a group, and the two bounds are positive (what
`asPositiveInteger()` ensures).

**The invariant.** `IInv` is the conjunction of `TypeOK`, `OnePerGroup`,
`WithinBounds`, `OneEntryPerKey`, `NoLostWakeup`, `CloseGuarded` and
`ClosedIsFinal`. It is inductive; its parts are not:

* `active = Cardinality(activeGroups)` is kept by `Done` only because no two
  running entries share a group, and by `StartEntry` because the group was free;
* `active <= Concurrency` needs that equality, for `Done` decrements;
* `NoLostWakeup` after `DrainEnd` is the loop's exit condition, and between
  drains depends on every operation that frees a slot or adds a key scheduling
  one, while coalescing, which does not, changes no key;
* `ClosedIsFinal` needs `CloseGuarded`: a drain that goes on after the close has
  ended must find nothing.

There is one lemma per action (`CoalescedSafe`, `InsertSafe`, `StartEntrySafe`,
`DoneSafe` and so on); `RemoveAtFacts` states what removing an element of a
sequence does, `CheckIdleKeepsClose` what the idle check preserves in any of the
operations that end with it. `InitSafe` and `NextSafe` combine them, and
`TypeCorrect`, `Exclusion`, `Bounded`, `WakeupKept` and `CloseCorrect` follow
for `Spec`. `CloseWaits` proves the action property `NoEarlyClose`.

**Refinement.** `Refinement` is `Spec => Buffer!Spec`. `IInv` gives that a
sequence with distinct keys and the set of its entries have the same size, so
that the capacity tests of both specifications agree; each action is then mapped:
`EnqueueCoalesced` to `Put`, `EnqueueOverflow` to `PutEvicting`, `StartEntry` to
`Serve`, `StartAndFinishEntry` to `ServeAtOnce`, `Done` to `Finish`, `Close` to
`Shut`, the timer to `Discard`, and drains, repeated answers and refused items
to stuttering steps.

**The ledger.** The last part of the module adds the counters and the order of items. A step of
the ledger is one of the queue (`LedgerSteps`), so `IInv` holds; `LInv` adds
`Conservation`, `NewestIsKept` and `Ages` (started <= accepted <= counted, for each key).
`OnlyNew` and `OnlyOld` say what an operation leaves of the entries:
one entry for a key is what makes coalescing keep the newest. `NothingUnaccounted`
(`Conservation`), `NewestKept` (`NewestIsKept`) and `NeverBackwards`
(`AttributeInOrder`) follow, for any number of items.

### Bounded telemetry

`BoundedTelemetryProofs` proves `NoLimitForgotten` (`CachedLimitIsInOrion`) and `StaysNumeric`
(`BoundedStaysNumeric`, of remembered metrics) for any metrics, numbers and limits and any
size of the cache. The
strengthening is `OnePerDevice`, which the queue's exclusion gives, and `CacheAgrees`: as
long as an update is in flight, the cache has the limits that it carries,
and does not know the metric if its type is the provisioned one. Without it, the
answer to an older update could undo what the cache takes for granted.

### Discovery and warnings

`IncomingMessagesProofs` is about the two registries, for any devices, bounds, time to
live and interval. Both are maps that are kept in the order of their instants, and both
arguments rest on that.

* Discovery (`DInv`): the map is sorted by `lastSeen` and has one entry for an id; an
  entry tells the truth about its device (`Current`); and of the devices without an
  entry, one that was seen recently is no younger than any entry of a full map
  (`OldestForgotten`). `PruneCuts` shows that what `prune()` leaves of a sorted map is
  its end, for entries expire from the front. `Observe` first prunes, so a device that
  returns in time keeps its `firstSeen`, and one that returns late does not; the entry
  that goes when there is no room is the first, hence the oldest. `ListIsRecent` and
  `FirstSeenHonest` read both properties off `DInv`.
* Warnings (`WInv`): a key that was logged and is no longer remembered has been followed
  by at least as many others as the map has room for (`Remembering`). Evicting the first
  entry of a full map keeps this, because all the others are younger and different.

### The MQTT connection

`MqttConnectionProofs` holds for any number of retries and faults.

* `NoCrash`: `ClientThere` says in which stages `mqttClient` is set. The handlers of
  replaced clients act on it too, and only `stop()` resets it.
* `GivesUpLate` is by counting. `numRetried` grows with each timer; each timer makes a
  client; and a client reconnects by itself until a failure ends it. So the retries are
  at most the clients alive, the timers and the failures together (`RetriesLeaveClients`).
  When nothing is left, the failures are more than the retries allowed.
* `StopFinal` (`StopIsFinal`). `Released`: once `stop()` has ended the client, `mqttConn` is
  null, so a stream that closes later sets no timer (`LateCloseIsIgnored`); and if there was
  neither a timer nor a replaced client, nothing is left that could set it again.
* `TimersFindClients` shows that the number of clients, `2 * Faults + 1`, is no
  restriction. Clients made, timers and streams that will still close grow by at most two
  with a fault, and by one with `stop()` (`Counted`); the first fault finds one client and
  no timer (`NoFaultYet`).

### Messages of a device

`DeviceMessagesProofs` proves, for every set of keys and groups (finite, for the
lookup by id counts records), any number of messages, values and
changes, and any mix of bindings:

* `AnswersHonest` (`OkMeansStored`). The invariant needed (`Progress`) says of every
  message in `updating` which values are still out: in a series the one
  after those stored; in parallel all that are not stored, as long as no error has come.
* `LookupCorrect` (`LookupWasTrue`). The history `seen` of a message holds the
  registry of every moment since it asked (`SeenInv`), also for the keys that ARGO has
  tried before (`TriedBefore`), and histories only grow while a lookup is on.
* `NobodyElseProvisions` (`OnlyKeysProvision`): of all actions only `Operator` and
  `LookupAnswered` with a key change the registry.
* `StoredInOrder` (`TelemetryInOrder`): `OneInHand` (one item is being served, by the
  buffer's exclusion), `Held` (only telemetry that is served can be updating) and
  `InOrder` (what waits is newer than what is served, and that than what is
  stored or may be stored late). It rests on what the buffer promises, which `Refinement` proves of the queue.
* `TypesHold` (`TypeOK`) adds to these what a message has of answers (`Fits`).
* `NobodyIsForgotten`: a message that is not over is waiting in the queue, being looked
  up, or has an update to be answered (`Tended`), and the worker has no message in
  hand that is over (`WorkerBusy`). That is what `EveryMessageAnswered` needs at every
  moment; the rest is fairness.

### Configuration of devices

`DeviceConfigurationProofs` proves `PollingCorrect` (`PollingMatches`) by an invariant on
the record in the store *and* the one being edited (`FlagInv`): the flag was computed
from a version of the group that is not ahead of the present one (`NotAhead`), and
if it is the present one, it agrees with it. `EchoStops` (`EchoesEnd`) holds by
`EchoInv`: an echo has one item, of a type the agent leaves alone, so it never gets to
`sending`. `AnswersAreHonest` (`OkMeansDelivered`) is by `Honest`: a request goes through its
list in order, and all before the item it is at has been served (`ServedBefore`). The next
item is the least of those that are left; that there is a least one is `LeastNumber`,
from the well-foundedness of the natural numbers.

### Commands

`CommandsProofs` proves three properties for every set of names, any number of
requests, of series at a time and of polls:

* `OkHasACauseHolds` (`OkHasACause`), by `Caused`: what may still turn into the status OK, a
  message on its way or an update in progress, has a cause already, and a cause stays
  (`CauseStays`). That is all there is over MQTT: `OkMeansExecuted` fails there (finding).
* `SeriesInOrderHolds` (`SeriesInOrder`), by `Precedes`: whatever comes before a command of
  a series in its batch has called back or is before it in the same series. So
  nothing comes before the head (`HeadIsDue`), and sending the head keeps the order. For
  a device that polls there is no series, and for any other no poll (`Separate`).
* `ListedLeavesQueueHolds` (`ListedLeavesQueue`), by counting, for `removeCommand()` goes by the
  name and may take an older command than the one it is called for. The commands of
  one name that are queued up to a delivered one (`Before`) are no more than the removals
  of that name that some reply still has ahead (`Covered`). A removal, whichever reply
  makes it, takes the oldest of the name or all of them, so both numbers go down
  together. A reply begins with enough of them because it removes all that it has read,
  and what came after has a higher number (`Snapshots`).

### Start and shutdown

`AgentLifecycleProofs` holds for every configuration that `ServiceConfiguration` allows, and any
number of signals, retries and faults of AMQP.

* `TeardownWaits` (`TeardownAfterDrain`). `Orderly` says that the MQTT client outlives the
  work of its queue (`ClientOutlivesWork`), and that every `stop()` that found bindings
  waits for the client as long as it is closing, whichever signal began to close it
  (`StopsWait`).
* `StartIsComplete` (`StartWaitsForEach`). `StartWaits`: until a `stop()`, a binding that is
  enabled has been started or is starting *and* awaited; only an error ends the wait
  earlier. It does not say that AMQP listens, for a refused queue counts as started.
* `AmqpStaysConnected` (`AmqpConnects`). `OneLink`: a connection that is open is `amqpConn`,
  and then there is neither an attempt nor a timer; an attempt and a timer exclude each
  other. `RetriesLeft`: until a `stop()` every fault is followed by a retry, as long as there
  are any.
* `AttemptsFindConnections`: connections, attempts and timers together are at most one more
  than the faults (`OneMoreThanFaults`), so the bound on connections leaves nothing out.
* `StopsWaitForTheClosing`: whoever is awaited by a `stop()` is closing and has still to
  call back. So no `stop()` waits for a binding that has already done so or never
  will, which is what `ShutdownEnds` needs at every moment.

### Model-checked only

Liveness: `CloseAnswered`, `EveryKeyLeaves`, `Recovers`, `ShutdownEnds`, `QueuedIsListed`,
`EveryMessageAnswered` and `EveryRequestEnds`. It needs ENABLED of the fair actions, which
is beyond the prover. For some, what has to hold at every moment is proved:
`NoLostWakeup` and `CloseGuarded` (the queue), `NobodyIsForgotten` (messages) and
`StopsWaitForTheClosing` (shutdown); fairness does the rest.

The properties of the runs that expect a violation are false of the code and have no
theorem. The proofs assume no more than the assumptions named in the modules
(`QueueAssumption`, `LifecycleAssumption` and so on), each of which TLC evaluates in a run;
they ask for types and positive bounds, and for the finiteness of a set where it is counted.

## 6. Bounds and abstractions

* `Items` (ledger), `MaxMessages`, `Sizes`, `MaxRequests`, `MaxChanges`, `Polls`,
  `Faults`, `AmqpFaults`, `Signals`, `MaxWork` and `Horizon` are the bounds; each is named in the module that has it.
* Values of measures, command payloads, expressions, formatting and logging are
  left out. A command's value and its result are identified with its request.
* Clocks are assumed not to go back; a queue's timer may fire at any time.
* `iotagent-node-lib`, mqtt.js, amqplib, Express, the network and the Context
  Broker are modelled as the code in `lib/` uses them, and marked external.

## 7. Not modelled, and the plan

Not modelled: error constructors, the command line, the health probe (no
state); the tests, the documents and the build files. Of what is modelled, these
details are left out: the conversion of payloads into attributes and types
(`extractAttributes()`, `guessType()`), except that of the bounded telemetry; the time
stamps added to measures; the layout of configuration messages; the periodic log of
the queue's counters; single settings of the configuration. `configurationHandler()`
and `updateHandler()` of `lib/iotagent-json.js` have no effect, and `notificationHandler()`
of the HTTP binding and `reset()` of the warning limiter have no caller.

What is left:

1. Proofs of the types of Commands and DeviceConfiguration, and of what
   `EveryRequestEnds` and `QueuedIsListed` need at every moment.
2. A refinement between DeviceMessages and BoundedTelemetry: the latter's messages as
   the telemetry of the former.
3. The precedence of single settings of the environment.

Runs are kept to one per question: a later module that composes an earlier one
takes over the earlier one's run.
