# Krypton scheduler: TLA+ specifications

The Krypton scheduler (`src/service`) accepts requests of device management
services to run tasks on devices. It stores each task, publishes it over MQTT
at once or on a schedule, follows what the device answers and hands the answer
back to the service. This directory holds the specifications of its core, the
TLC configurations that check them on small instances, and proofs for TLAPS.

    tlc -workers 2 -config dispatch_race.cfg MCTaskDispatch.tla
    tlapm TaskDispatch_proofs.tla

Every run is a `.cfg` file with the `MC` module of its component; every module
`X_proofs` holds the theorems about `X`.

## 1. Inventory

### Components

| Component | State it keeps | Operations | Talks to |
|---|---|---|---|
| Task tables (`db/`) | Cassandra tables `tasks` (device, task -> status and body), `consignments` (consignment, task -> status) | `CreateTask`, `CreateConsignment`, `setTaskStatus`, `UpdateTaskStatus`, `MarkTaskDispatched`, `RemoveTask`, reads | shared by all replicas |
| Scheduled runs (`db/*scheduled_run*.go`) | table `scheduled_runs`, keyed by day and millisecond | `CreateScheduledRun`, `GetScheduledRuns` (one page) | `Schedule`, the daemon |
| `Schedule` (`scheduler/api.go`) | a `ScheduledTask` under construction | builder calls, `Schedule()` | tables, dispatch queue |
| Schedule language (`scheduling_units.go`, `time_utils.go`) | none | `ParseSchedule` and what it calls | `Schedule` |
| Request handler (`request_handler.go`, `input_queue.go`, `rest/create_task.go`) | SQS input queue; the answer being built | receive, validate, one `Schedule` per device, delete or respond | `Schedule` |
| Dispatch queue watcher (`dispatch_queue.go`) | SQS dispatch queue; message in hand | receive, publish, mark, delete | MQTT broker, `tasks` |
| Task response handler (`task_response.go`, `mqtt/`) | reply in hand | look up, update two tables, forward | broker, tables, queues of services |
| Scheduler daemon (`daemon.go`) | day, page and page state of its pass | wake up, read a page, read each task, send | `scheduled_runs`, `tasks`, dispatch queue |
| Registered services, device messages (`service_dispatch.go`, `device_message.go`, `dcm_queue.go`) | two registry tables cached in memory, queue URL cache | look up, forward | queues of services |
| Signing key cache (`dstsclient/jwks.go`, `get_jwk.go`) | map key ID -> key | look up, refresh | token service |
| App access token (`dstsclient/client.go`, `get_app_token.go`) | token | acquire with retries | token service |
| MQTT connection (`mqtt/init.go`, `callbacks.go`) | connection manager, `connMutex` | connect, subscribe, publish, reconnect | broker |
| Database session (`db/init.go`, `aws_keyspaces.go`) | session, `gSessionMutex`, refresher goroutine | open, refresh, shut down | all users of the tables |
| Start and shutdown (`main.go`, the `Init` functions) | which parts run | init in order, signal, shut down in order | all |
| REST interface (`rest/`) | request in hand | route, check token, check parameters, act, answer, count | key cache, tables, `Schedule` |
| Configuration (`config/`) | settings, services to register | load two files, override from the environment | start |
| Metrics (`metrics/`) | counters | increment | read by Prometheus |
| Schema migration (`db/migrate.go`), protocol messages (`protos/`) | none | - | start; every message |

### What is hard

* **Replicas.** Every replica runs the same loops on the same tables and queues.
  Nothing is locked or conditional: every statement is an unconditional
  INSERT (which replaces), UPDATE (which creates a missing row) or DELETE.
* **At-least-once delivery.** A message comes back after the visibility timeout
  (60 s), even to a second watcher while the first is still at work, and is
  dead-lettered after `maxReceiveCount` receives.
* **Partial failure.** `Schedule`, the watcher and the response handler each make
  three or four remote calls without undoing any. A call that returns an error
  may have taken effect.
* **Crashes** between any two of these calls; work restarts from the queue only.
* **Time.** Runs are stored by the day on which they were created and read by
  the day on which the daemon looks.
* **Pages.** The daemon reads the run table page by page while rows are added.
* **Connection state** (MQTT, database session, tokens, keys) is refreshed
  beside its users.

`PROJECT.json` lists each hazard with its line and the properties about it.

### What makes each component correct

* Tables: both rows of a queued task exist; the consignment follows the task;
  only outcomes that the device reported appear; a removed task stays removed.
* Dispatch: no accepted task is lost before the broker has it; a message leaves
  the queue only when its dispatch is recorded; every message leaves it.
* Requests: a message is deleted only when handled; at most one task per device
  and delivery; answers add up; broadcasts stand alone; every request is handled.
* Daemon: a pass neither skips nor repeats a row, does not run removed tasks,
  runs tasks when they are due and on every day they are due; every accepted
  recurring task has a row.
* Schedule language: what is accepted is a schedule with a unit and a positive
  period; what the documentation offers is accepted.
* Registry, keys, token, connections, session: a user never meets a table being
  refilled or a handle that is gone; refreshers and users do not block each
  other for ever; shutdown stops users before it closes what they use.

## 2. Plan

The order in which the modules were written, most important behaviour first.

1. `SqsQueue`: an SQS queue, instantiated by 3 and 6.
2. `TaskTables`: the two task tables, extended by 3 and 5.
3. `TaskDispatch`: one-time tasks from `Schedule` to the recorded outcome.
   Composes 1, 2, the watcher, the handler and devices.
4. `TaskPromise`: what clients and services are promised about such tasks,
   implemented by 3.
5. `SchedulerDaemon`: recurring tasks, `scheduled_runs`, the daemon's passes.
6. `RequestHandler`: requests from the input queue and REST; implements `RequestPromise`,
   what those who request tasks may rely on.
7. `ScheduleParse`: the schedule language; builder calls as operators, the search of `At`
   as steps.
8. `RWMutex` and `DbSession`: the database session, its refresher and its lock.
9. `MqttConnection`: token, connect, subscribe, publish and reconnect, on `RWMutex`.
10. `SigningKeys`; `DeviceMessages` and `RestApi`, which extend it; and
    `FrontDoor`, which composes the two.
11. `ServiceLifecycle`: start and shutdown of the parts, extends 8.

All of these exist, with the theorems of section 5. What is left to do, in order:

* Compose 3 and 5 through the dispatch queue, so that the daemon's `about` becomes
  the queue of `TaskDispatch`, and show that it is an abstraction of it.
* Crashes and restarts in 11: what a second start finds in `registered_services`.

## 3. What is modelled

Common conventions. A remote call is one atomic step. A step for an erroneous
call leaves its effect open (made or not made). `Crash` drops what a goroutine
has in hand and returns it to its start, at any step. Names follow the source.
History variables (listed under `\* History:`) record what properties speak of
and are never read by a guard.

### SqsQueue

`msg[m]` is where a message is, `receives[m]` how often it was received.
`Send`, `Receive` and `Delete` are the scheduler's calls (`msg_utils.go`,
`dispatch_queue.go`); `VisibilityTimeout` and `Redrive` are the queue's own
steps. The queue is a standard one: unordered, at least once. The redrive policy
is the one of `tools/compose/elasticmq.conf`, the only queue configuration in the
repository; a deployment without one is the limit of a large `MaxReceives`.
A delete with the receipt handle of an earlier receive may or may not work, so
every delete has an alternative without effect.

### TaskTables

`taskStatus`, `taskBody` and `consStatus` are the columns the program decides on.
`InsertTask` replaces, `SetTaskStatus` and `SetConsignmentStatus` upsert (the
UPDATE of Cassandra creates a row that is not there, with only the columns it
sets: `taskBody` stays FALSE), `DeleteTask` deletes. Concurrent statements on a
row are taken as totally ordered (last write wins at one coordinator).

### TaskDispatch

| Actor | Actions | Code |
|---|---|---|
| `Schedule` | `StoreTask`, `StoreConsignment`, `SendDispatchQueueMessage`, `ScheduleFails` | `api.go`, `create_task.go` |
| watcher of a replica | `ReceiveDispatch`, `SendTaskToBroker`, `MarkTaskDispatched`, `DeleteDispatch` | `dispatch_queue.go`, `send_task.go`, `update_task.go` |
| device | `DeviceReplies` | outside `src/`: any number of replies up to `MaxReplies`, in any order, with any outcome |
| response handler | `TakeReply`, `DropReply`, `UpdateTask`, `UpdateConsignment`, `ForwardReply` | `task_response.go`, `update_task.go` |
| client | `RemoveTask` | `rest/remove_task.go` |
| all | `Crash`, `QueueStep` | |

The MQTT client hands messages to the handlers one at a time, so a replica has
one response handler. MQTT deliveries may repeat: a device sends the same
outcome again as another reply. Whether a reply decodes and its token is valid
is abstracted to `TakeReply` or `DropReply`.

### SchedulerDaemon

`StoreTask`, `StoreConsignment`, `StampRun`, `CreateScheduledRun` and
`ScheduleFails` are `Schedule` of a recurring task; a pass of the daemon is
`StartPass`, then `QueryPage` or `QueryFails`, `ReadTask` or `SkipTask`, `SendTask`
or `SendFails` for each row, `FinishPage`. Stamps are the milliseconds of
`next_run`; a stamp is the key of a row. `Tick` advances the clock and may skip the
daemon past any number of quanta. The last stamp `MaxClock` stands for every later
time. A query reads one page of `PageSize` rows behind the page state, of the
partition of the day of the pass; a failing query ends the pass as in the code.
The dispatch queue is reduced to `about`, the tasks that a message is about: while
there is one, `MarkTaskDispatched` may happen at any time, any number of times.
That is more than TaskDispatch allows, and what it adds only makes the properties
here harder.

### RequestHandler

What a request says (`form`, chosen in the initial state from `FormsSent`) is what
the handler looks at: whether it decodes, names a registered service, has a
consignment, a payload, a tenant, and the list of devices. Watchers (`ReceiveInput`,
`DeleteInput`) and REST handlers (`PostRest`, `Respond`) share `Reject`, `Accept`, `SkipBroadcast`, `ScheduleDevice` and
`FinishLoop`. One `Schedule()` call is one step that stores a task or not and
returns success (`Grant`) or an error (`Miss`); `missed` records the latter
(TaskDispatch takes the call apart). The REST token check is in
`RestApi`: a request that fails it reaches none of this. `Crash` of a worker may
happen at any step and any number of times.

### RequestPromise

The abstract specification of requests: for each one, the devices that are to have a
task (`wanted`, nothing if the request is refused), how often it was delivered, the
tasks made, the calls that were granted or missed, and the answer. There are no workers,
program counters, crashes or orders of devices. `RequestHandler!KeepsPromise` is this
module under the refinement mapping `Promise`. It says that a device gets at most one task
per delivery, none if its request is refused or lists a broadcast beside others, and none
after the client was answered; that a request counts as handled only when each
wanted device has been granted a task or had a call fail, although workers may have died on
the way; that only handled requests leave the queue for good; that a client is answered
once, with a refusal exactly when nothing was wanted and otherwise with the devices granted
and the others as errors. What it does *not* promise: that a device whose call failed has no
task, that a redelivered request makes no second task, or that every client is answered.

### TaskPromise

The abstract specification of one-time tasks: for each task, what its client was
told (`answer`), what a reader finds (`shown`), whether the broker has it, what its
device said and what the requesting service was told. There are no queues,
program counters or failures. `TaskDispatch!KeepsPromise` is this module under the
refinement mapping `Promise`. It says among other things: a task appears once;
an accepted task is stored (it can be found, or was removed), and so is every task
the broker gets; a task is shown as dispatched only after the broker took it, and
with an outcome only after its device reported it. It also records what is *not* promised: a
refused task may be there, a removed task may be shown again, and a finished task
may be shown as dispatched.

One more observation: dispatching updates the tasks row only, so the consignment that
the requesting service is told to query reads queued until an outcome arrives
(`MarkTaskDispatched` leaves `consStatus` alone).

### ScheduleParse

A schedule is the words it was split into (`Schedules`). `Parse...` are the branches
of `ParseSchedule`; `setSchedulingUnit`, `Now`, `Every`, `Months`, `Weekday` and `Cron`
are the builder calls, as operators on the record under construction; `Schedule` is the
checks before anything is stored. `At`, with which the branches that call it end, is a
loop over times and a binary search for each: `addRunAtTime` takes up the next time,
`SearchRunAt` is one probe of `sort.Search` with what its closure notes, `InsertRunAt` puts
the time in its place, `AtFails` and `AtEnds` leave the loop. Errors are carried in a set
as they are in the code's wrapped error.

Four more things can be read off the model, without a run of their own. "At 10:00"
parses and is then refused, because `At` sets neither a unit nor an interval and the
last check wants one. A complete cron expression is always refused, because only
the first of its six fields reaches the cron parser; descriptors such as `@daily`
pass. A duration of zero or less is accepted as a period (only integers are checked).
An interval without a unit (`every 5`) is accepted and stored with the zero value of
the unit.

### RWMutex and DbSession

`RWMutex` is `sync.RWMutex` as its callers see it: `Lock` announces the writer, which
keeps new readers out, and returns when the earlier readers have left; `Unlock` lets
the gathered readers in first. `DbSession` is the session variable of package `db`
under that lock. `main` goes through `db.Init` (connect, migrate, register), serves,
and shuts down; the `refresher` exists for AWS Keyspaces only and goes from tick to
credentials, lock, close, create. Goroutines of the program (`Loops`) and REST handlers
(`Handlers`) call `StartQuery` and `Query`. A nil session makes a query panic: that ends
the process in a loop and only the handler in a REST request, where `net/http` recovers;
the read lock is then never given back (`Leaked`). The migration may also be disabled,
and Cassandra never refreshes: both are chosen in the initial state. Time is left out:
ticks may come at any moment although they are three hours apart. `DbSession` is checked
inside `ServiceLifecycle`, which implements it.

### ServiceLifecycle

`main.go` as a `phase` on top of `DbSession`'s `main`: configuration files, database,
engine (`mqtt.Init`, then the daemon), queue provider (created, then its client and
queues), REST server, ending. `engine`, `queue`, `registry` (the table of registered
services), `known` (the routes in memory), `todo` and `missing` are what the `Init`
functions leave for the parts that run later. Each action conjoins a step of
`DbSession` with what happens around it, or leaves `DbSession` alone; that the whole
refines `DbSession` is `LifeImplementsSession`. `UseProviderTooEarly` is a message or a run handled before
the provider is ready: its method calls a nil provider or client and the process ends.
`OtherReplicaRegisters` is another replica with other registrations, writing between
this one's look-up and insert.

### MqttConnection

`main` is `dstsclient.Start` and `mqtt.Init`; `step[c]` is a goroutine in which the
MQTT library runs a callback of a manager (error, up, disconnect), `step[p]` one that
publishes. `status` is the manager `connMgr` points to, `login` the user name it was
made with, `mine` the callbacks this manager raised: others belong to managers that
were replaced and may still run. `tries` counts the attempts of `retryWithBackoff`. The
token expires at most `MaxExpiries` times. Two goroutines that access the token
or the user name without a lock may leave a mixture (`"torn"`), which the broker refuses.
What the library does (attempt, connect, lose the connection, call back) is external
and modelled from the callbacks it is given.

### SigningKeys, DeviceMessages, RestApi, FrontDoor

`SigningKeys` is the look-up of a token's key by one goroutine among others: look up,
fetch, replace the table by an empty one, fill it key by key, look up again. It has no
lock; where the Go runtime would notice a map read or written during a write, the
process may end (`Fatal`, a nondeterministic outcome). `excused` records the
validations that something outside them may have spoilt.
`DeviceMessages` takes a message through envelope, token, task (for responses; the
tables are TaskDispatch's), routing table, queue URL cache, service queue and, for
configuration events, the queue of the device configuration service. `RestApi` takes a
request through route, content type, token, parameters and its operation to its answer
and counters. `FrontDoor` lets both run with one key table. Which messages and
requests arrive is chosen in the initial state.

Observations on this part. `ListTasks` returns a page state that no request can send
back, so only the first page of a consignment can be listed. Of the metrics only the
latency histogram is registered with Prometheus; the counters are kept and never
exported. An encoding that fails after the status was sent is counted as an internal
error although the client saw a success; a failing `DumpRequest` of debug logging
returns before anything is counted; a request refused for its token counts for no
operation.

## 4. What the runs show

| Run | Instance | Question |
|---|---|---|
| `dispatch_race` | 1 task, 2 replicas, 2 receives, 2 replies | safety of the whole life of a task with removals, redelivery and crashes; `TaskPromise` is implemented |
| `dispatch_live` | 2 tasks, 2 replicas, no replies | every accepted task is published or dead-lettered, every message leaves the queue |
| `removed_ghost` (violated) | 1 task | a removed task is dispatched and comes back |
| `daemon_pages` | 2 tasks, 1 replica, pages of 1 row, a day ends | a pass reads every due row once while rows come and go; a removed task is not run |
| `daemon_live` | 1 task, 2 days | a run of the day is dispatched in spite of failures |
| `run_overwritten` (violated) | 2 tasks | two tasks stamped alike share a row |
| `run_not_periodic` (violated) | 1 daily task, 3 days | never dispatched on a later day |
| `request_race` | 1 queued and 1 REST request of any of 6 forms, 2 watchers | redelivery, crashes, broadcasts and answers; `RequestPromise` is implemented; every queued request is handled or dead-lettered |
| `parse_builder` | every schedule of a language of some 3100 | accepted schedules describe one period, days exist, times are a sorted set |
| `mqtt_connection` | 2 callbacks at a time, 1 publisher, 2 attempts, 1 expiry | one manager runs, one without credentials is replaced, nobody waits in vain, publishing returns, the connection comes back |
| `front_door` | 2 messages of 4 kinds, 1 request of 5, 3 keys, 1 rotation | keys refreshed beside their users, routing, the two queues of configuration events, authorisation, counters |
| `service_life` | 1 engine goroutine, 1 watcher, 1 REST handler, 2 services | no query loses its session, nobody waits in vain, a replica that serves is complete, what may end it, queries and shutdown end |

The three violated runs are disagreements between the code and what its comments
and documents say; `findings` in `PROJECT.json` quotes them.

**Bounds.** Two replicas are enough for every race here, since all races are
between two holders of the same message or reply; daemons meet only in the tables, which the
model changes around a single one as freely as a second would (`about`); tasks do not share rows except
through the key of `scheduled_runs` (two tasks there). Broadcast tasks take part in
`dispatch_live`; that none of them gets an outcome, and that no outcome crosses from
one task to another, is a theorem for any number of tasks (`OutcomesAreTheDevicesHolds`).
Requests do not share rows either; those of `request_race` share the devices and
the watchers. `MaxReceives = 2` gives one redelivery and then the dead-letter
queue; a third receive repeats the second. `MaxReplies = 2` gives an outcome and
a contradicting one. Pages of one row put a boundary after every row. The clock
bound covers a pass on each side of a midnight. The theorems hold without these bounds.

In `front_door` three goroutines validate tokens at once, so one can empty the table
between the refresh of another and its second look-up, and a third can come between
both; three keys are one good, one that does not parse and one of another type, and one
rotation changes all of them. In `mqtt_connection` two callbacks are the smallest
number that can overlap an old and a new manager, and one expiry is enough to send
each of them through the renewal. In `service_life` two services separate one whose
look-up fails from one that is found. The symmetries used exchange replicas, tasks or
deliveries, which no definition distinguishes, and only in runs without liveness.

Deadlock is not checked where `CHECK_DEADLOCK FALSE` stands: with bounded replies,
receives and clock all work ends, and the loops then wait for ever. In `front_door` it
is checked: `Finished` is the only step where everything has been dealt with, so a
handler or request that could not go on would be reported. It is also checked for the
daemon, whose passes never end.

**Fairness.** Loops of the program are weakly fair: a goroutine with a next step
takes it, since every remote call has a timeout. The queue's timeout and redrive
steps are weakly fair: that is its service. Clients, devices and crashes have no
fairness. A goroutine that waits in `Lock` and the sender on the stop channel are
strongly fair (`sync.RWMutex` hands the lock over, `select` picks a ready case); queries,
ticks and shutdown need not come. `LifeFairness` is the fairness of `DbSession` on the
steps that contain its steps. In `TaskDispatch` and `RequestHandler` nothing else is
assumed: calls may fail for ever and replicas crash for ever, and dead-lettering is what
then ends the work. Two loops retry without limit, so their properties need more: for
the daemon a replica outside `MayCrash` exists, and a query, read or send it tries again and
again succeeds in the end; for the connection an attempt that the broker would accept,
made again and again, succeeds in the end, and so does a request for a token. Each is strong
fairness of that one call. `FrontDoor` has no liveness and no fairness.

## 5. What is proved

`TaskDispatch_proofs` proves, for any set of tasks, replicas and bounds satisfying
`DispatchAssumption` and `ReplyAssumption`:

* `TypeCorrect`: the type invariant, one step per action.
* `DispatchInvariant`: the conjunction of what relates the queue, the watchers'
  program counters and `published`. `NoLostDispatch` alone is not inductive: that a
  deletion is safe depends on the watcher having gone through publish and mark, so
  the invariant says what each value of `dispPc` implies. From it follow
  `NoLostDispatchHolds`, `DispatchIsRecordedHolds` and `QueuedTaskIsStoredHolds`.
* `OutcomeInvariant`: every reply on its way, in hand or forwarded carries an outcome
  its device reported about that task, and the handler's program counter says how many
  of the tables have it. From it follow `OutcomesAreTheDevicesHolds` and
  `ConsignmentNotAheadHolds`.
* `KeepsPromiseHolds`: `TaskDispatch` implements `TaskPromise`. The initial states
  map to initial states, and `PromiseStep` maps each action to one abstract step or a
  stutter. It needs the two invariants above: that a marked task was published, and
  that a written or forwarded outcome was reported, that both rows of a queued task
  were written before it was sent; and one more, `NewIsUnseen`: before `Schedule` has
  written a task, nobody else touches its row.
* `RowsHaveStatusInvariant` and from it the action properties
  `RemovedWhenQuietIsFinalHolds` and `OutcomeSettlesHolds`.

`DbSession_proofs` proves, for any number of loops and handlers, `SessionInvariant`
(types and `SessionInv`: who has announced itself to the lock is between `Lock` and
`Unlock`, and only there is the session closed and not yet replaced) and from it
`OneSessionIsLiveHolds`, `QueryMeetsNoClosedSessionHolds`, `SessionIsSoundHolds` and
`SessionIsSteadyHolds`. They are not inductive without the first part: that no query runs
during a refresh follows from the lock alone. `NoDeadlockHolds` is the part of
`QueriesAreServed` and `ShutdownEnds` that needs no fairness: as long as no handler has
taken the lock with it, whoever waits for the lock, or `Shutdown` for the refresher, some
goroutine can take its next step alone. `ReadersInv` carries it: a goroutine is among the
readers, or waits behind a writer, exactly between the start and the end of its query,
and `Shutdown` stops a refresher only where one was started. A waiting writer that is
neither at a step under the lock nor stopped by a reader is then impossible.

`ServiceLifecycle_proofs`: `LifeImplementsSession`, that every step of the composed
module is a step of `DbSession` or a stutter; so the theorems of `DbSession` hold in a
replica (`SessionIsSoundInLife`, `NoDeadlockInLife`). `LifeInv` says which parts are there in each phase of
`main` and where each configured service is on its way into the routes; from it follow
`ReadyWhenServingHolds` and `CrashHasACauseHolds`. Its type step uses the types of
`DbSession` through the refinement.

`SchedulerDaemon_proofs`, for any tasks, replicas, page size, quantum and clock bound:
`DaemonInvariant`. `DaemonInv` adds to the two page properties that stamps are a key of
the table and of each page, that the page state lies at or behind everything read, and
what a pass without page state has read. A page is a set of rows without rows left out
before its last one (`PageIsFirst`); that such a first and last row exist is the
well-foundedness of the naturals (`SmallestStamp`) and the finiteness of a page. From it
follow `PassCoversDueRunsHolds`, `PassNeverRepeatsHolds` and
`CompletePassHandlesDueRunsHolds`. `RemovedTaskIsNotRunHolds` needs only the types.

`MqttConnection_proofs`, for any callbacks, publishers, attempts and expiries:
`MqttInvariant`. `MqttInv` adds that nothing runs beside `Init` before the first
connection, that a cancelled connection is down, that a user name that was reset is set
again by the goroutine that reset it, and that a manager is stopped and replaced under
the write lock by one callback. From it follow `OneManagerRunsHolds`,
`AnonymousIsReplacedHolds` and `PublisherKeepsManagerHolds`. `NoDeadlockHolds` is the
corresponding part of `PublishReturns`, from `MutexInv`: who has `connMutex` stands
between its two calls, and nobody is left waiting without a writer.

`FrontDoor_proofs`, for any messages, requests, keys, services and topics:
`FrontDoorInvariant`. Four of its five properties each have a part that carries them:
`RefreshIsWhole` (an undisturbed refresh ends with every usable key of its answer),
`UrlsAreRouted` (a cached URL is that of a service with the topic; rests on
`RouteAssumption`, that services which share a topic name share an account),
`DoubledInOrder` and `TokenIsChecked`. The fifth, `CountersAddUp`, equates counters with
cardinalities: each step adds one message to those in hand, moves one from in hand to a
counter, or answers one request, and `NoAnswerYet` (a request under way has no answer)
makes the answered request a new element.

`RequestHandler_proofs`, for any requests, devices, workers and number of redeliveries:
`HandlerInvariant`. The heart of `HandlerInv` is a count, `CopiesAndReady`: the tasks
made for a device of a request and the workers that have yet to come to that device
are together no more than the deliveries. Each delivery brings in one worker, and each
task takes one away (`OneMoreOrLess`). From it follows `CopiesPerDeliveryHolds`, and with
`HandledAlone` (a REST request is one handler's) and `AnswersInOrder` (an answer under
construction accounts for the devices passed) `AnswerAddsUpHolds`; `WorkInOrder` carries
`DeletedIsDoneHolds` and `BroadcastStandsAloneHolds`. `KeepsPromiseHolds`:
`RequestHandler` implements `RequestPromise`; `PromiseStep` maps each action to one abstract
step or a stutter. Beside `HandlerInv` it needs `PromiseInv` (`PromiseInvariant`): that a
worker in the loop has tried every wanted device it has passed (`TriedInOrder`), so that
the end of the loop is the end of the request (`DoneIsTried`) although other workers died
in it; that tasks were only made for wanted devices; and that a handler at its end
holds a refusal just when nothing was wanted, which is why `AnswerStep` can show the answer
built up in the loop to be the one computed from the tasks granted.

`ScheduleParse_proofs`, for any schedules and times of day: `ParseInvariant`. It says
what the record of the builder is at each stage: a task without an error is `WellBuilt`
when its schedule is parsed, and `Schedule` adds what its checks test. One lemma per
builder call says what it makes of the period and the days (`At` leaves both alone,
whatever its binary search does with the times), and `ApplyUnitIsSound` and
`ParsedIsSound` chain them as the branches of `ParseSchedule` do. From it follow
`OnePeriodHolds` and `AcceptedDaysExistHolds`. `TimesInvariant` is the invariant of the
loop and of the search in `At` (`AtInv`), together with the types, without which it is
not inductive: `RunAtSoFar` says that the times are in order and are those taken up so
far, `SearchSoFar` that earlier times lie below the search, no earlier ones above it, and
that `exist` tells whether the first of these is the time sought. `InsertedAt` and
`InsertedInOrder` say what insertion does to a sequence. From it follow `TypeCorrect` and
`RunAtIsSortedSetHolds`.

Each inductive invariant was checked with TLC on the instance of its component before it
was proved. The assumptions are the `ASSUME`s named in the modules; TLC evaluates them
in every run.

**Only model-checked:** the liveness properties
`EventuallyPublished`, `QueueDrains`, `RunOfTheDayIsDispatched`, `RequestsAreHandled`,
`PublishReturns`, `ConnectionReturns`, `QueriesAreServed`, `ShutdownEnds` (the prover does
not handle fairness and ENABLED). The violated properties are shown by counterexamples.

## 6. What is not modelled, and what was noticed

**Not modelled.** Generated protocol code (`protos/`): encoding is taken as done or
failed. Formatting and logging. The contents of configuration files beyond what decides
a branch: `Override` has the type rules of the environment overrides, but settings
are otherwise values of `CONSTANTS`. The SQL of the migration (`schema/*.cql`) apart from
the keys of the tables, and the migration library, which is one step that succeeds or
fails. The histogram of latencies and its buckets. The MQTT library, SQS, Cassandra and
the token service are external and modelled from the calls made to them. The signature
check of a token is one predicate (`sound`).

**Noticed while modelling**, beyond the three findings; each can be read off the module
named.

* The daemon never compares `next_run` with the clock and never advances it: every
  pass of every replica dispatches each run of its day again. `daemon.go:36` speaks of
  runs "that are ready for execution" and `scheduled_run_model.go:31` of the "datetime of
  next run" (`SchedulerDaemon`).
* `NewConnection` may fail in a reconnect; the error is logged, `connMgr` is nil and the
  next publish or disconnect panics. A refused subscription is logged and not retried; the
  log call for a subscription without acknowledgement dereferences nil. Of two callbacks
  that renew the token, the slower one sets the older user name last (`MqttConnection`).
* `GetAccessToken` and the key refresh take an answer with a bad status for a success
  (`MqttConnection`, `SigningKeys`).
* A REST handler that panics in a query keeps the read lock of the session; the refresher
  and the shutdown that `main.go:96` begins then wait for ever (`DbSession`; this is
  why `QueriesAreServed` and `ShutdownEnds` except `Leaked`).
* Messages and runs may come before the queue provider is ready, and end the process
  (`ServiceLifecycle`).
* A registration that exists is never updated from the configuration. A service whose
  look-up failed in `db.Init` and that `mqtt.Init` registered after all has no route until
  the next start (`ServiceLifecycle`).
* Environment overrides of settings of type `uint16`, `int32` and `Duration` are ignored
  (`Override`). `queuemgr.Shutdown` has no caller. A signal that arrives before the REST
  server listens ends the process without the shutdown of engine and database.
