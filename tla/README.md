# hopeit.engine in TLA+

hopeit.engine runs Python microservices. An application declares *events*:
HTTP endpoints, STREAM events that consume a Redis stream, and SERVICE events
that run a generator written by the user. One `AppEngine` per application runs
them as coroutines of a single asyncio loop; several processes share the
streams through Redis consumer groups.

The modules here model the part of it where correctness depends on the order
in which things happen: coroutines that share state between two `await`s,
stops and cancellations that arrive at any time, a broker that fails, and
processes that crash. File names below are relative to `engine/src/hopeit/`
unless they begin with `plugins/`.

## The system

| Component | State it keeps | Operations | Talks to |
|---|---|---|---|
| `StreamCircuitBreaker` (`streams/__init__.py`) | state 0/1/2, failure count, back-off, a lock held during back-off sleeps | write, read, ensure group, acknowledge | wraps the stream manager of an engine; called by all its coroutines |
| Background events (`server/engine.py`) | `_event_tasks`, the stop lock of each event `_running`, `_stopping`, `_stopped` | `start_event`, `stop_event`, done callback, `stop` | routes and hooks of `server/web.py`, the user's generator through `service_running` |
| Stream consumer (`server/engine.py`) | loop position, batch, statistics, `max_events` | `read_stream`, cycle, processing with timeout, writing outputs, acknowledge | breaker, Redis plugin, event handler |
| Redis streams (`plugins/streams/redis`) | consumer groups, pending lists (in Redis) | XADD, XREADGROUP `>`, XACK, decode | Redis |
| `Server`, web hooks, job runner (`server/engine.py`, `server/web.py`, `server/job.py`) | the engines by application, the routes | start, SETUP events, stop; run one event | aiohttp, the engines, API specification |
| Requests (`server/web.py`, `server/events.py`, `app/context.py`) | one `initialized` flag per event; per request its hooks and its place | validate, authorize, read, preprocess, execute with timeout, write, postprocess, stream | API specification, engine, collector |
| Collector (`server/collector.py`) | one lock and one result per step | `get`, run concurrently | user steps |
| Steps and stages (`server/steps.py`) | the effective steps of each stage | split at SHUFFLE, choose a step by type, execute, write with a queue | user steps, streams |
| Apps client (`plugins/clients/apps-client`) | session, token, per host: failures and two deadlines; index of the round robin | start, stop, call with retries | other applications over HTTP |
| Stream batch storage (`plugins/storage/fs`) | partitions of buffered items, a lock for each | buffer, flush by size and by interval | file system |
| Log streamer (`plugins/ops/log-streamer`) | open files, last access, checkpoints, pending lines | watchdog callbacks in a thread, read, save, close inactive | file system, file storage |
| API specification (`server/api.py`, `cli/openapi.py`, `app/api.py`) | the specification, its file | create, update, register, diff | configuration, event modules |
| Dataframes (`plugins/data/dataframes`) | a database of files | save, sink by partition, load, load a range, query, scan | file system, polars |
| Configuration, authentication, data objects, serialization, logging, visualizer, command line | start-up data or none | sequential transformations and single I/O calls | libraries |

Hard behaviours: failures of concurrent calls arriving in any order at one
breaker; sleeps queued on a lock; events started, stopped and restarted while
callbacks of their old tasks are pending; shutdown called twice; cancellation
in any phase; a timeout in the middle of writing results, acknowledging or
collecting; the crash of a consumer; limits that are checked per read and not
per cycle; a start that fails half-way; objects looked up before the lock that
protects them; a thread and a loop that share tables; files written by an
earlier release.

What makes each component correct:

* breakers: their fields agree; a broker rests while a sleep runs, a host is
  shut out only for failures in a row; whoever waits gets through;
* background events: one task for an event, no lock without its task, nothing
  closed under a task, a stop that comes back;
* consumer: acknowledged means complete, at most once, exact counts, nothing
  forgotten on a normal end;
* requests: no step before the event is initialized, success means all is
  written, a timeout means nothing is written any more, an end in every case;
* collector: only final results are read, and every function ends;
* stages: the event gives what it would give unsplit;
* server: ready means complete, SETUP comes first, a job leaves nothing open,
  the API it serves is that of its events;
* storage, logs and data: what is removed from memory is on disk, what is read
  is read once, a range is read completely.

## Modules

| Module | Models | Checked with | Proved in |
|---|---|---|---|
| `BreakerPromise` | what a circuit breaker promises, without lock or tasks | – | – |
| `StreamCircuitBreaker` | class `StreamCircuitBreaker`, and `asyncio.Lock` as it uses it | `MCStreamCircuitBreaker` | `StreamCircuitBreakerProofs` |
| `EventLifecycle` | tasks, locks and shutdown of `AppEngine` | `MCEventLifecycle` | `EventLifecycleProofs` |
| `StreamConsumer` | the read loops of one STREAM event in a consumer group | `MCStreamConsumer` | `StreamConsumerProofs` |
| `AppsClient` | `AppsClient` and `CircuitBreakLoadBalancer` | `MCAppsClient` | `AppsClientProofs` |
| `BatchStorage` | `stream_batch_storage.py` of the file storage plugin | `MCBatchStorage` | `StorageProofs` |
| `Collector` | `AsyncCollector` | with `Requests` | `RequestsProofs` |
| `Requests` (extends `Collector`) | the handlers of the web server and the execution of an event | `MCRequests` | `RequestsProofs` |
| `EventStages` | `split_event_stages`, `execute_steps`, `_write_stream` | `MCEventStages`, in `MCConfiguration` | `RequestsProofs` |
| `ApiSpec` | `server/api.py` and the `openapi` commands, as operators | with `ServerStartup` | `ServerStartupProofs` |
| `ServerStartup` (extends `ApiSpec`) | startup hooks, `Server`, `run_job` | `MCServerStartup`, in `MCConfiguration` | `ServerStartupProofs` |
| `LogStreamer` | `LogFileHandler` and its service | `MCLogStreamer`, in `MCFiles` | `LogStreamerProofs` |
| `DataBlocks` | `DataBlocks` over `DatasetFileStorage` | `MCDataBlocks`, alone and in `MCFiles` | `StorageProofs` |

`MCConfiguration` and `MCFiles` each put two modules that share no state into
one run: the initial state chooses which of the two moves, and the other stays
as it began. Their product would show nothing more.

Where code is asynchronous a step is what a coroutine does between two
`await`s, which is the granularity asyncio gives. The operators marked
"Mutant" in a module are not part of it: each is a definition with a plausible
bug, and replacing the original by it breaks one named property.

### StreamCircuitBreaker

`state`, `num_failures` and `backoff` are the fields of the class. `locked`
and `waiters` are its `asyncio.Lock`: a release only wakes the first waiter, so
until that one runs the lock is free, and `write_stream`, which tests
`lock.locked()`, can pass in between. `spawned` counts back-off tasks that
`create_task` made and that have not run. `Begin`/`Finish` frame a call to the
broker; `Succeed` runs `_recover`, `Fail` runs `_handle_failure` and creates a
back-off task, `Abandon` is a call that ends in neither way (cancelled, or
another exception), `CancelWait` a caller cancelled in the queue of the lock.
Time is left out: a sleep ends some time. Seconds are natural numbers.

`BreakerPromise` has only a level, a delay, whether the broker rests, and the
operations admitted. `KeepsPromise` is the refinement; the mapping is in the
module.

### EventLifecycle

`phase` says where the coroutine of a task is: `created` (it has not run),
`delay` (start delay), `setup` and `cycle` for a read loop, `check`, `working`
and `executing` for a service whose generator is written the documented way,
`done` until the done callback has run. `running` is `_running[e].locked()`,
`cancelling` a `task.cancel()` that has not landed. `SignalStop` is the body of
`stop_event`: release the lock, or, if it is not held, cancel the task. The
stoppers are concurrent calls of `AppEngine.stop` and go through `_stop_lock`,
the first signal, the grace time, the gather, and the closing of the manager
and the connections; each may fail at every `await`, and be called again.

### StreamConsumer

Workers are processes that consume for one group. `stream` and `pending` are
the group in Redis; `status` follows each entry from `queued` through `batched`
(read, not started), `executing`, `flushing` (a batch of outputs is being
written), `acking`, to `done`, `failed`, `unknown` (a type the event does not
handle) or `lost`. `out` follows each output of an event. `seen` is a history
variable: the entries delivered to this run of the loop. A write, an
acknowledge or a read that fails or is cut off may have taken effect or not.
The breaker is inside `ReadFails`, `OutputFails` and `Ack`: a failed read comes
back as an element of the batch, a failed acknowledge not at all.

### AppsClient

`Call`, `Responds` (each possible answer) and `Retry` are `AppsClient.call`
between its awaits; `call[c].now` is the time taken once at its beginning and
used, as in the code, for every choice of a host and every failure it records.
`cb_failures`, `cb_reset_ttl` and `cb_open_ttl` are the dictionaries of
`CircuitBreakLoadBalancer`, `host_index` its round robin. `Stop` can come in
the middle of calls. Tokens are the time at which they end.

### BatchStorage

A partition is an object, and `buffer` maps keys to partitions: a task keeps
the object it looked up while it waits for its lock, which is what the finding
is about. The lock is the queue of those who want it. `phase` follows a task
through `buffer_item` (`new`, `buffering`, `signal`) and `flush` (`flushing`,
`saving`, `saved`, `done` or `failed`). `files` is the set of items written.

### Requests and Collector

`at` is where the handler of a request is, `answer` how it ended. `Collector`
has `needs` (which function awaits which), `item` (the lock and outcome of
each), `got` (what each has read) and `gather` (the state of `asyncio.gather`).
`Requests` runs it as the first step of the event and writes the results in
batches (`left`, `writing`, `written`). `hooks` says whether the event has a
preprocess and a postprocess hook, `form` how much of a multipart form its hook
has read. Each `await` may fail; the response timeout cancels whatever the
execution does.

### EventStages

An event is the sequence of its steps, each with the type it takes and the
sequence of results it gives; a stage is named by its first step, and
`NextStage` is the one after. `Outcome` follows a payload through the steps
after a position, as a recursive function of the position; `ExecuteSteps` is
what a stage, or a whole event, yields for a payload. `Written` gives the
messages with their queue and label, `Consume` is one message taken from a
stage's stream. `SplitIsTransparent` compares the streams with `ExecuteSteps`
of the steps without SHUFFLE: the unsplit event is the abstract specification.

`Passes` is its premise: stages pass on what the next takes, no step of a later
stage waits for None, none takes any DataObject. Nothing in the code checks
these; an event that does not keep them loses results when it is split.
`StagesAssumption` says of the steps that they begin with a function, have no
two SHUFFLEs in a row, and yield dataobjects or None.

A stage is identified by the position of its first step. The code names a stage
after the function of that step and looks it up by this name (`steps.py:88`,
`steps.py:347-355`), so an event that begins two of its stages with the same
function finds the first of them for both. Such events are not modelled: no
function begins two stages of an event here.

### ServerStartup and ApiSpec

`at` follows the process: files, start of each application (`start`,
`connected`, `setup`), `ready` or the `owner`'s SETUP events of a job, the stop.
`order` is that of `--config-files`, in which the applications are registered
(`engines`); `todo` is what is left of the hook that runs. Any await may raise,
`MaxFaults` times. `CreateFile` and `UpdateFile` are the `openapi` commands, run
for this release or an earlier one, before `Prepare` compares the file with
what the server computes. The operators of `ApiSpec` keep of a specification
the paths with their texts, headers and security, and the schemas with the
schemas they refer to.

### LogStreamer

One log file with its rotations. Lines are numbered as they are written; `log`
gives each a time stamp, which later lines may share, and a text, which decides
how it compares with others of the same stamp. The thread of the observer
(`watcher`) and the service (`loop`) close a file in the steps of
`close_inactive_files`: look at the last access, close, forget the file, forget
its last access (`Closing`). Each step may interleave with the loop and with
the other closer, so a file can be read after it was closed and before it was
forgotten, and the last access can be deleted twice, which raises: in the
thread the exception is logged, in the service it ends the service.

The tasks the thread asks for (`calls`) queue for the handler's lock (`queue`)
to open the file, add lines and save the checkpoint. To open is two steps,
because `open` runs in another thread: `Opens` loads the checkpoint and opens
the file that has the name then, `FileOpened` keeps it under the name and skips
what was read. A rotation and its `on_moved` between the two leave the old file
open. `SkipToCheckpoint` is lines 196 to 214 as they compare lines and stamps.
A checkpoint may expire (`CheckpointExpires`), and then the file is read from
its start; a crash loses what is in memory. `setbacks` counts what may make
lines be read again: crashes, failed saves, expiries, and closing while lines
wait for the lock.

### DataBlocks

Time is counted in hours of a year. A component of the date format is the set of
units it shows, and a directory is the set of the hours whose formatted times
are equal (`Same`). A sink saves one file for each partition, a reader searches
a range in steps of a day and loads the files it finds; both interleave. What is
searched (`Pattern`) is fixed by the first three components of the format, the
others being wildcards: with the hour among those three, a search is for one
hour. The kinds of the fields of a class decide what loading a file of an
earlier version (`NewVersion`) does: one dataset after the other fills in what
the file lacks. `LoadIsValid` has the premise `SameKinds`, that a field two
datasets of a class share is of one kind in both; nothing in the code checks
it, and without it a null that one dataset fills in is not looked at again for
another that requires the field.

## What the runs check

| Run | Instance | Shows |
|---|---|---|
| `breaker` | 2 callers, threshold 3, delays 1 to 3, 3 back-off tasks | consistency, the refinement, and both liveness properties |
| `lifecycle` | 1 stream, 1 service, 3 tasks, 2 stoppers | ownership of tasks and locks, order of shutdown, no work cut short by a first signal, stops that end |
| `service_stop` | 1 task, no stopper | finding 1 |
| `consumer` | 1 worker that is started again and again, 2 entries, 2 queues, batches of 2, 2 outputs, limits none and 1, 1 failed read | completeness, at most once, statistics, normal end, stops that end, events that settle |
| `apps_client` | 2 calls, 2 hosts, threshold 2 or none, 1 retry, clock to 4 | breakers open only at the threshold, first tokens are fresh, every host gets its turn |
| `batch_storage` | 3 items, 2 keys, 2 partitions, sizes none and 2, 1 failed save | flushes take out what they wrote, the buffer is flushed |
| `batch_loss` | 2 items, 1 key, 2 partitions, flush by time only | finding 2 |
| `requests` | 2 requests, 2 collector functions in 3 shapes of dependency, with and without hooks, 2 outputs | initialization, success, timeout, final reads, ends of requests and of functions |
| `max_events` | 1 worker, 2 entries, 2 queues, batches of 1, limit 1 | finding 3 |
| `configuration` | 3 applications, one with a plugin, 4 orders, web and job, 1 fault, 2 writes of the API file by this or an earlier release; or every event of 2 or 3 steps of the given kinds with SHUFFLE anywhere, 3 lists of queues, 3 writers | ready is complete, SETUP first, a job stops all, the API served is current; splitting is transparent, nothing is left in a stream |
| `files` | 3 lines, two of which may share a time stamp, 1 rotation, 1 setback, 1 idle time; or 2 rows, 5 hours in 3 days and 2 months, 4 formats, 2 intervals, 2 versions | lines are collected once and none before a checkpoint is missed, the checkpoint only moves on; the sink and the reader are exact, older files load when they should |
| `data_range` | 1 row, 5 hours, a format whose hour is the fourth component | finding 4 |

Why these bounds are enough for the cases that matter. Breaker: two callers are
one operation in flight and one that queues; three back-off tasks are one that
sleeps, one queued and one not started; a threshold of 3 keeps semi-open states
with different counts apart. Lifecycle: three identities allow an event to run
again while its old task waits for its callback, with the other event alive.
Consumer: two queues and two entries show both an entry per queue and a batch
of two, and two outputs a write that outlives its failed sibling; what a second
worker could do to the first is take entries away, and the theorems hold for
any number of workers. Client: the second call reports while the first waits
or retries with its old clock, and the clock passes the end of an open breaker
and of a token. Storage: an item can wait for a lock while another takes the
key of a removed partition. Requests: two first requests initialize at once,
and two functions are the shortest cycle. Startup: with three applications one
can be started, one starting and one not begun, before and after its plugin.
Log: a rotation can race the tasks of both files, three lines give each file a
first line with another of the same stamp next to it, and the thread and the
service can close the same file. Blocks: a partition can be
finer or coarser than its directory, and a range begin and end anywhere.
`MaxBackoffTasks`, `Tasks`, `MaxReadFailures`, `MaxTime`, `Parts`,
`MaxSaveFailures`, `MaxFaults`, `MaxWrites` and the `Max...` of `LogStreamer` are
bounds of the model and not of the code.

Deadlock is checked in the runs of the breaker, the lifecycle and the consumer.
The other models come to an end: every item is stored, every request answered,
the process has stopped, the clock or the log has reached its bound.

### Fairness

Breaker: the event loop runs what is ready and a sleep ends; no call to the
broker need ever return. Lifecycle: ready tasks and callbacks run, timers
fire, a cancellation lands, the generator goes on; nobody need start or stop
anything, a service need not yield, and the broker may stay away for ever
(`StreamReady` is not fair). Consumer: a read returns within its block time
(`engine.read_stream_timeout`), processing within `stream.timeout`, a loop told
to stop leaves its setup. No handler need finish, no write or acknowledge need
return: `Timeout` is what settles an event. Client: the HTTP session bounds
every request and a sleep ends; calls are only assumed, in the property, to keep
coming. Storage: tasks that can run do, a write of a file ends well or not, the
service's interval ends. Requests: the response timeout fires and what waits
for the loop runs; nothing is assumed of the client, of hooks that wait for it,
or of user functions, but that one that awaits nothing returns. All of it is
weak fairness. The other modules state safety only.

## Findings

The first two are bugs, the others disagreements between the code and its
documentation.

1. *A service that loops on `service_running` may not stop.* `is_running` is
   true while the task of the event is alive, and `service_running` asks it
   from inside that task. After `stop_event` the loop ends only at its next
   `yield`, where `service_loop` tests the lock, or by a second `stop_event`,
   which cancels. Shutdown is safe: it cancels after the grace time.
2. *An item can be appended to a partition that is gone.* `buffer_item` looks
   the partition up and then waits for its lock; a flush that holds the lock
   removes the partition from the buffer. The item goes into an object nobody
   will flush, its event ends well and is acknowledged.

3. *`max_events` is no limit over several queues.* A cycle asks every queue for
   up to `batch_size` entries (`engine.py:565`) and compares the total with
   `max_events` only afterwards, so a loop over n queues may handle n - 1 batches
   more. The docstrings say that a cycle stops "when batch_size is reached"
   (`engine.py:396-398`) and that `max_events` is a "limit for number of events
   to consume" (`engine.py:486`, `job.py:129`), the release notes "or just one"
   of `--max-events=1` (`release-notes.rst:120-122`). How far it is overshot is
   proved (`OvershootBounded`).
4. *A range of partitions is not searched completely.* The search begins at the
   from time and advances by whole days while it is not after the to time
   (`serialization/files.py:168`): a range that ends at an earlier hour than it
   begins misses its last day. And only components beyond the third become
   wildcards (`files.py:161-165`), so a format with the hour among the first
   three is searched at one hour of each day. The docstring says "Returns a list
   of Dataset found in a range of partitions" (`files.py:147`).
   `BatchIsExact` is what holds: no file twice, and none missed outside these
   two cases.

Observed while reading, and visible in the models unless said otherwise, but
not contradicting a precise statement:

* *Breaker and consumer.* `write_stream` refuses while a back-off task holds the
  lock, also when a write in flight has closed the breaker meanwhile. Opening
  needs two failures at least, whatever the threshold, and leaves the back-off
  at its initial value; concurrent failures queue one sleep each, so a pause may
  be many times the maximal back-off. An undecodable entry ends the loop, and
  entries read with it stay pending. Events lost by a crash stay in the pending
  list for ever, so the guarantee is at most once. A cycle whose reads failed
  looks empty to `stop_when_empty`. `stop_event` followed by `AppEngine.stop`
  before the event has ended cancels it.
* *Client.* A success in flight closes a breaker that has just opened, and a
  failure with an old clock can shorten the time it stays open. Retries repeat
  the token and the time of the first attempt; one that wakes after `stop`
  raises AttributeError. ServerDisconnectedError is no OSError and is not
  retried. `app_call` raises IndexError on an empty list after the host was
  counted as a success (not modelled).
* *Storage.* What is in the buffer is lost when the process stops: nothing
  flushes it at shutdown. `buffer_lock` never has to be waited for.
* *Requests.* Two first requests both run `__init_event__`. Preprocess, when it
  reads a form, and a streamed response are not under the response timeout and
  wait for the client for ever. Reading a form again after a broken-off
  iteration returns only what was read. A streamed response that fails half-way
  leads to a second response. A failing write leaves the rest of its batch
  going; after one function of a collector raises the others keep running, and
  a timeout that comes then does not cancel them.
* *Stages.* The descriptor made for a stage drops route, plug mode,
  authorization, dataobjects, setting keys and group. A message whose label is
  not one of the queues its event reads stays where it is. A step that returns
  None gives a later stage nothing, while in the same stage a step that takes
  None runs.
* *Startup.* An engine whose start fails leaves its stream manager and the
  clients already started connected; one engine whose stop raises leaves the
  later ones running; a web server whose start fails stops nothing. A job runs
  the ON_APP SETUP events of an application in itself, though the comment
  speaks of standalone ones. An exception in the stop replaces a job's result
  (not modelled: `result` keeps it), and a job refused in its preprocess hook
  ends well without a result.
* *API.* Paths of events that are gone stay in the file. An event without
  `__api__` that becomes unsecured keeps its old security, and events that say
  nothing keep headers nobody tracks any more. A path with basic and unsecured
  access is refused by the validation and served by the handler. The cleanup of
  schemas goes by prefixes of names and keeps those that refer to themselves.
  `create` does not ask for a new version, and `update` without `--api-version`
  saves none. A plugin that is not among the configuration files is a KeyError.
* *Logs.* Lines of equal time stamps are told apart by their text only: a file
  whose first line has the stamp of the checkpoint and sorts after it is read
  from its start again, and after a rotation lines of the checkpoint's stamp in
  the new file are skipped. `FirstLinesAlone` is the premise of `CollectedOnce`
  that leaves these cases out. A file that is closed while lines read from it
  wait for the lock is opened at the older checkpoint, and those lines are
  collected twice. Lines written before a rotation and not read until after it
  are lost, as are those in memory at a crash after their checkpoint was saved.
  After a rotation during an open the old file stays open, and new lines are not
  seen until it is closed. The thread and the service can both delete a key of
  `last_access`; if the service comes second it ends. Chunks
  `batch[i:i + batch_size + 1]` repeat a line (not modelled).
* *Data blocks.* Rows without a time are in no file, and an empty one is written
  for them. A reader can find a file half written. `load_batch` raises for a
  file that lacks a column, though its comment speaks of adding "missing
  optional fields using class schema" (`datablocks.py:512`): it casts and
  selects, and both fail; `load` fills in defaults, `scan` and `query` nulls.
  The pattern `name*.parquet` finds the files of classes whose name begins the
  same, and `register_database` does not drop what is cached (both not
  modelled).

## What is proved

The theorems hold for every value of the constants, under the assumptions
named in the modules (sorts of the constants, values that are told apart, and
those said below).

* `StreamCircuitBreakerProofs`: `TypeCorrect`, `Consistent`, `Refines`. Types
  and `BreakerConsistent` together are inductive: `num_failures - 1` and the
  semi-open back-off are right only because of what `ClosedState` and
  `SemiOpenState` say. The simulation of `BreakerPromise` then has one case
  per action; its `resting` and `admitted` change exactly when the lock and
  the calls do.
* `EventLifecycleProofs`: `TypeCorrect`, `TasksOwned`, `LocksOwned`,
  `ResourcesSafe`, `StopIsGraceful`. `LiveTaskOwned` and `LockHeldByLiveTask`
  are inductive with the types. For the shutdown three facts are added:
  `StoppingQuiet` (once stop was called no lock is held, and every task left
  was told to end, so none takes a lock any more), `StopperKnows` (a call that
  waits knows every living task, and one that closes has none left) and
  `ClosedIsQuiet`. `Registered` (what is registered for an event is a task of
  that event) is needed to see that a stop signal cancels the task it means.
* `StreamConsumerProofs`: `TypeCorrect`, `AcknowledgedComplete`, `AtMostOnce`,
  `NothingLeftBehind`, stated for `Safety`, which `Spec` implies. At most once
  rests on `QueuedOnce` (what the group has not delivered is at one place and
  is `queued`, so a read delivers only entries nobody has seen) and
  `StartedOnce`. Completeness rests on `Progress`, which says for each point of
  the processing which states its outputs are in and why the entry is pending;
  the point is that a cut-off acknowledge may take an entry off the pending
  list and a cut-off write may not. The normal end rests on `SeenByOne` and
  `SeenKept`: what was delivered to a loop is its own, and is settled, in its
  batch, or part of a reply that was lost.
  On top of that invariant, `StatisticsExact` and `OvershootBounded`:
  `CountedOnce` relates the totals to the cardinalities of the settled entries,
  one entry changing sides at a time; `WithinLimit` bounds what was counted,
  plus what is delivered and not done, plus what the next read may ask for, by
  `max_events` and one batch for each queue read.
* `AppsClientProofs`: `TypeCorrect`, `OpenAtThreshold`, `TokenFresh`. An open
  breaker implies the threshold because a failure can only reset a count whose
  time has passed on the clock of its call, which is not later than the real
  one, and failures are remembered for longer than a host is kept out
  (`ClientAssumption`, which the defaults of the settings satisfy).
* `StorageProofs`, about `BatchStorage`: `TypeCorrect`, `RemovedSaved`. The lock
  is the head of a queue without repetitions, so who saves and who removes is
  the only one to touch the items in between. `RemovedSaved` is about the
  partition whose lock is held; of one that has taken its key meanwhile it says
  nothing, and finding 2 is that this one can go unsaved. About `DataBlocks`:
  `SinkExact`, `BatchExact`, `LoadValid`. For the sink the invariant says that
  every file is at the place of its partition, and that each row is held by one
  file or its key is still to come. For the reader, that what has been searched
  is a union of the classes of hours that agree in the searched components, so a
  class is met first once. `BatchExact` says besides that every file of the
  range is found, on two conditions: no searched component shows the hour, so
  that a day never leaves a class, and the range does not end at an earlier hour
  than it begins, so that its last day is reached. Days and months are
  quotients, for any length of either. Loading goes by induction over the
  datasets.
* `LogStreamerProofs`: `TypeCorrect`, `CheckpointMovesOn`. `Before` is the order
  in which tasks will save: one that has left the lock to ask for it again
  queues behind all that are still to emit, and saves before them all the same.
  `LastLinesInOrder` says that what they carry is in that order, not before the
  checkpoint, and not after the end of the file that is open or being opened
  (`Readable`); `OneOpens` and `FilesInOrder` are what it takes to keep that
  through crashes, expiries, failed saves, rotations and both closers. Where
  reading begins does not matter, since a file is read to its end.
* `RequestsProofs`: `TypeCorrect`, `ReadsFinal`, `Initialization`,
  `DoneIsComplete`, `TimeoutIsFinal`. The collector's part is inductive alone.
  To it come where results are for each place of a handler, that a handler past
  its initialization has seen one end, and that an answered timeout leaves no
  running gather. About `EventStages`: `NothingLeft`, from `StreamsFit`, which
  says that what waits for a stage has a type it decodes, and the queue and the
  label of what the event was given; and `SplitTransparent`. For that one the
  invariant `SplitInv` lists what waits in the streams and what has been written
  (`Tokens`) in the order the unsplit event would have: each stream is the bag
  of the messages of its tokens, and following every token through the steps
  that are left gives the results of the unsplit event. A stage that runs puts
  its results in the place of the token it takes (`TakenAndPut`), which changes
  one stream by a difference of bags and another by a sum; that the rest comes
  out the same is `StageThenRest`, by induction over the positions from the
  last, with the lemmas about concatenation of sequences it takes (`Each...`).
* `ServerStartupProofs`: `TypeCorrect`, `JobStops`, `ReadyComplete`,
  `SetupComesFirst`. The registered engines are a prefix of the order
  (`InOrder`), the events of the hooks that have ended are done (`HooksDone`),
  and engines stop only on the way out (`Stops`). Assumed: an order names every
  application once. About the API: `FreshFile` and `ServedCurrent`, with
  `ApiInv`. Registering applications is idempotent, whatever was registered
  before: each path is the fold of what is said of it, a part that is said is
  replaced and one that is not is kept or made from the default, so a second
  pass finds everything in place; the schemas used are the largest set whose
  members are all referred to, and closed. `SchemasAssumption` says that the
  schemas an `__api__` refers to are those of dataobjects: the code does not
  check it, and one that names another class leaves a dangling reference.

In each proof module `Inv` (or `...Inv`, for a second component) is the
inductive invariant, one lemma per action or group of actions shows that it is
kept, and the last lines derive the theorems. What a recursive function computes
(`Outcome`, the folds of `ApiSpec`, the loading of datasets) is proved by an
induction stated with sets: a set of numbers that has 0 and is closed under
successor has all of them (`AllNumbers`), from the well-foundedness of `<` on
the numbers, and in the same way for sequences built with `Append`
(`AllSequences`) and for positions from the last (`AllPositions`).

Only model-checked: the liveness properties, which the prover cannot state
(fairness, ENABLED), among them that half of `KeepsPromise`; `Refines` is its
safety. `CollectedOnce` is only model-checked too: how often a line is collected
depends on where each file is opened again, and the count of setbacks that
bounds it has no simple inductive form. Every other invariant and action
property of the runs that pass is stated by a theorem.

## What is not modelled, and the plan

* `EventStages` composed with `StreamConsumer` into a pipeline that delivers at
  most once from end to end; throttling, which delays a step and no more.
* The chunks of the log streamer, and lines that are equal or written in parts;
  connection pools and trimming of the Redis plugin.
* Configuration: `replace_config_args` and the settings it substitutes, once at
  start-up, before anything runs concurrently.
* Left out for good, because they transform data sequentially or make one I/O
  call: data objects and payloads, serialization and compression, the signing
  and decoding of tokens, log formats and rates, the configuration manager and
  the visualizer's graphs, the parsing of command lines, testing helpers.
