# A verification model of pinn-connect-service

pinn-connect-service runs containerised programs ("tasks") on request. A task arrives
over HTTP with an input file, waits in a PostgreSQL table, is claimed by a worker that
runs it in a docker container over a bind-mounted directory, and ends with its result
in an object store. The service may be stopped or killed at any time; at the next start
a garbage collector sorts out what the last process left behind.

This directory holds TLA+ modules that model the life of a task through all of that, the
models a task is run from, and the process around them, TLC configurations that check
them on small instances, and theorems about them that TLAPS checks for every instance. File names below are relative to `src/`.

## 1. Inventory

What the source consists of, what each part keeps, does, talks to, and what makes it
right.

| component | source | state | operations |
|---|---|---|---|
| task store | `internal/db/query.sql.go`, `internal/repository/task.go` | table `tasks` | insert, claim (`GetNextQueuedTask`), marks, cache lookup, lists, delete |
| worker | `internal/service/task.go` | semaphore `sem`, `recoverTaskQueue`, one goroutine per running task | `StartWorker`, `processQueue`, `processTask`, `waitAndSaveTask`, `RecoverTask` |
| task API | `internal/server/task.go`, `internal/service/task.go` | requests in flight | run (the parts of the body, limits, signature), stop, delete, list by pages; status and result of a task only read |
| scheduler | `internal/service/task.go` | map `scheduled`, timers | a tick reads the tasks due soon and sets a timer for each |
| garbage collector | `internal/gc/garbagecollector.go` | one goroutine per running row, the sweep | `Cleanup`, `cleanupTask`, `cleanupOrphans`, once, before anything else |
| docker client | `internal/docker/client.go` | containers and images in the daemon, `hasGPU` | start (look for the image, pull, create, start, fall back without GPU), wait, stop, remove, inspect, list; build and remove images |
| object store | `internal/storage/minio.go` | objects under `tasks/<id>/` | upload, delete a prefix, sign a link |
| workspace | `internal/workspace/workspace.go` | one directory per task | prepare, save input, clean up |
| process | `cmd/server/main.go`, `internal/server/server.go` | the root context, a WaitGroup, the pool of connections, the listener | start, collect, serve, shut down |
| model service | `internal/service/model.go`, `internal/server/model.go`, `internal/repository/model.go` | table `models`, images | add, update, delete, build, rebuild, background image removal |
| the rest | `internal/server/health.go`, `stats.go`, `internal/sysstats`, `internal/config`, `docs/`, `migrations/`, `mock/` | none shared | pings, readings, configuration, generated code |

How they interact: every part up to the process works on the same table, containers,
directories and objects, and none of them holds a lock on a task. A row's status is the
only sign of who is at work on it. The collector hands containers that are still running
to the worker through `recoverTaskQueue`; the scheduler and the collector hand tasks over
by writing `queued`; the stop handler hands a task over by writing `stopped`, which the
goroutine looks at before it uploads. The process gives all of them one context, which
SIGTERM ends. The model service shares the daemon with the tasks: a run request copies the
image of its model into the row, and by the time the task is started that image may have
been removed or built anew.

Hard behaviours, and the property each part owes:

* **Worker.** A semaphore slot is taken at the top of each round and given back on eight
  paths, partly by the loop and partly by the goroutine; a recovered task is waited for
  without a slot; shutdown fills the semaphore while goroutines empty it. It owes: no slot
  leaks or is given back twice, one pair of hands per task, a settled row on every exit,
  an orderly drain.
* **Task store.** `Mark*` statements have different guards on the old status, or none. It
  owes: a finished task is not revived.
* **Task API.** Every handler reads, then acts in several calls. It owes: a result is
  published only if complete and stored.
* **Scheduler.** A timer reads, then writes without a condition, while the worker claims
  and ticks set timers. It owes: a timer never puts back a task that has gone on, and a
  scheduled task wakes.
* **Collector.** Runs over whatever a killed process left, in parallel with its own sweep,
  and may itself be killed. It owes: a container that survived is waited for, and a task
  that waits keeps its input.
* **Process.** A nil dereference in a goroutine kills it; shutdown gives up on a slow
  handler; a listen error is handed over on an unbuffered channel; the deferred calls
  close what goroutines outside the WaitGroup still use. It owes: an end that is orderly
  or reported as an error, and one that comes.
* **Model service.** A row and an image are changed in two calls, in an order that differs
  between requests, and a deleted model's image goes in the background. It owes: the row
  of a model names an image that is there, and no image outlives its model.
* **Docker client.** A start is three to eight calls over images others remove. It owes its
  caller one step: a running container, or an error and none.
* **Run request.** Parts come in any order and any number. It owes: a signature that stands
  for what is run, no more and no less, and limits that are set.
* **List.** A page and the count are two queries over a table that changes. It owes: no
  task hidden but for a deletion, none repeated but for a creation.

## 2. The modules

| module | models | extends |
|---|---|---|
| `TaskStore` | the table and what each statement reads and writes | |
| `Platform` | table, containers, directories, objects, time, failing calls, phase of the process | `TaskStore` |
| `TaskWorker` | the loop and the goroutines | `Platform` |
| `TaskApi` | run, stop and delete | `Platform` |
| `Scheduler` | ticks and timers | `Platform` |
| `GarbageCollector` | recovery at the start | `TaskWorker` |
| `PinnConnect` | the composition, the process, fairness, the properties | the four above |
| `TaskLifecycle` | abstract: which change of a row is allowed, and who may make it | `TaskStore` |
| `ModelService` | table `models`, images, the requests about them | |
| `ContainerStart` | `StartContainer`, call by call | `ModelService` |
| `StartOutcome` | abstract: `StartContainer` as one step | |
| `Registry` | models, images and starts over one daemon | `ContainerStart` |
| `ServerRun` | `run()`, `Server.Run`, the listener, the WaitGroup, the pool | |
| `Int32Cut` | Go's `int32(n)` | |
| `TaskForm` | the body of a run request, limits, signature | `Int32Cut` |
| `TaskList` | a client reading the list page by page | `Int32Cut` |
| `Requests` | the two above side by side | `TaskForm`, `TaskList` |
| `MCPinnConnect`, `MCRegistry`, `MCServerRun`, `MCRequests` | instances for TLC | |
| `PinnConnectProofs` | the service: the statements, types, slots, the drain | `PinnConnect`, `TLAPS` |
| `OwnershipProofs` | who has a task, what its row can be, timers | `PinnConnectProofs` |
| `LifecycleProofs` | the service implements `TaskLifecycle` | `OwnershipProofs` |
| `ContainerProofs` | containers and inputs over crashes and recovery | `OwnershipProofs` |
| `LifeProofs` | results, agents and containers in the life of one process | `ContainerProofs` |
| `RegistryProofs` | models, images and starts | `Registry`, `TLAPS` |
| `ServerRunProofs` | the end of the process | `ServerRun`, `TLAPS` |
| `RequestProofs` | the rows requests make, a reader of pages | `Requests`, `TLAPS` |

There are four specifications, cut where the code has little to share. `PinnConnect` is
the life of tasks; it takes images and models as given and uses `StartContainer` as one
step. `Registry` is what lies under that step. `ServerRun` is what lies under the phases
of the process: goroutines are only running or returned there, and borrow connections.
`Requests` is about data: a run request until its `INSERT` (what becomes of the row is in
`TaskApi`) and a reader of the list. The two share no state, so a behaviour of `Requests`
is about one of them, chosen at the start (`route`); the product of both would show
nothing more.

### State

Of `PinnConnect`: `rows[t]` is the row of a task: status, container id, path of the result and the order of
creation; status `absent` stands for no row. What never changes after the insert, the
signature and `scheduled_at`, are the constants `Sig` and `ScheduledAt`. `conts` is what
the daemon knows of each container, `ws[t]` the files of a task's directory, `store[t]`
the objects under its prefix. A result file is `full` (the program ended well) or
`partial` (it was interrupted or failed); that is all the properties tell apart, and an
object key is a pair of task and file.

`sem` is the number of values in the channel, `worker` the place of the loop and the task
in its hands, `gor` the goroutines with their local variables, `rescue` and `sweep` the
collector, `run`, `stop` and `del` the requests, `batch`, `scheduled`, `armed` and
`firing` the scheduler. All of these but the count of requests are lost with the process.
`deletions` and `restarted` are history: they record that something happened and no
action reads them.

Of `Registry`: `models[m]` is the image a row names or `Absent`, `images` the tags the
daemon has, `removing[i]` the number of background goroutines about to remove image `i`,
`req[r]` a handler and what it has read; `start[s]` and `box[s]` a call of
`StartContainer` and the containers it made. The tag the service builds for a model is
written as the model itself. `strained` and `disturbed` are history: models whose
requests overlapped or failed, and starts in which a call failed or the context ended.

Of `ServerRun`: `main` is the call `run()` is in, `listener` and `goroutine[u]` where the
goroutines are, `pool` and `conns` the pool and who holds a connection. Of `Requests`:
`body` what of a request has been read, `accepted` the rows it became; `table` the list
of tasks, newest first, `walk` the client.

### Steps

One step is one call to the database, the daemon, the object store or the file system
together with the local code up to the next call; between any two of them every other
actor may move. A program counter names the call a goroutine is about to make. A call may
fail up to `MaxFaults` times (`Fault`): a read then returns an error, a write either did
nothing or had its effect and lost its reply. A call made with a context that is done
fails without being counted (`AnsweredIn`, `FailsIn`); calls the code makes with
`context.Background()`, the deferred ones and those of the timeout branch, are not
affected by it. `StartContainer` is one step with three outcomes: it started a container,
it failed and left nothing (which takes no failing call: the image may be missing), or its
context ended or a call failed in the middle, in which case its own clean-up may have
failed with the same context and left the container (`StartCutShort`). The clean-up of a
directory may fail too, which the code logs: the directory stays (`Cleaned`). `Registry` shows that these are the outcomes there are.

`GetTaskById` returns a nil task and no error for a row that is gone, and three callers
dereference it: `Check`, `Recheck` and `Fire` then put the process into the phase
`panicked`, and `Abort` ends it. In the HTTP handler the same dereference is recovered by
`net/http`.

### Deliberate approximations

* A SIGTERM before the server runs is treated like a kill: `Cleanup` looks at its own
  context only.
* At most one stop and one delete of one task are in flight at a time.
* Errors of a call are all alike; a failed `GetImageByID` and a missing model are one.
* `MarkTaskInitializing` and `MarkTaskScheduled` have no caller and are left out.
* A task id is never used twice (it is a fresh UUID): a request that died with its
  process stays `over`.
* A panic leaves the container, the directory and the slot of its goroutine as they are,
  although the deferred calls run while it unwinds. The row is gone by then, and the
  process ends, so all that depends on them is what of a deleted task is left on the host.
* The first status of a task is computed in the step of the `INSERT`, not just before it.
  Nobody else sees the row in between, and a status that is out of date when the row is
  written is that of an `INSERT` just before the clock moved.
* An image the service built is one tagged for a model of the instance. The code goes by the
  prefix `pinn-model-` (`service/model.go:119`), so an image made elsewhere whose tag begins
  like that would be removed as well.
* No caller sets the flag `GPU` of a container (`processTask`, `service/task.go:421-427`,
  does not), so the second try of `StartContainer` is modelled with the function it is part
  of and is not reached by the service as it is.

## 3. What TLC checks

Containers and goroutines are symmetric where no liveness property is checked, and so are
models and requests in `registry`. Tasks are not: they differ in signature and schedule.

| run | instance | shows |
|---|---|---|
| `life` | 2 tasks with one signature, 1 slot, 1 stop, 1 delete, one task may time out, no fault, no crash | `TypeOK`, `CompletedServesResult`, `RunningHasAgent`, `ContainersOwned`, `TerminalNotRevived` |
| `faults` | 2 tasks with one signature, one of them in the future, 2 slots, any two calls fail | `OneRunnerPerTask`, `SlotAccounting`, `CompletedServesResult`, `TimersSound` |
| `recovery` | 1 task, 1 slot, 1 stop, two kills or SIGTERMs and one failing call anywhere, also inside recovery | `SlotAccounting`, `OneRunnerPerTask`, `DrainComplete`, `LiveContainerIsWatched`, `QueuedHasInput`, `LifecycleRefined` |
| `progress` | 1 task in the future that may never end by itself, 1 slot, 1 stop, one kill or SIGTERM | `TasksSettle`, `ScheduledWake` |
| `registry` | 1 model, 1 image made elsewhere, 3 requests of any kind, 1 start asking for a GPU, one failing call, one end of the process | `RegistryTypeOK`, `BuiltModelHasImage`, `NoImageLeftOver`, `StartIsOneStep` |
| `requests` | bodies of up to 3 parts, 2 accepted requests, words over the bytes `a` and `b`, one with a comma; a list of 5 tasks to which 1 is added and from which any are deleted, int32 from -4 to 3 | `FormTypeOK`, `HashCoversInput`, `SignatureIdentifiesRun`, `SameTaskSameSignature`, `HiddenOnlyByDeletion`, `RepeatedOnlyByCreation` |
| `server` | 1 handler, 1 task with a slot and 1 recovered one, 1 goroutine outside the WaitGroup | `ServerTypeOK`, `OrderlyEnd`, `SignalEndsProcess`, `ListenErrorReported` |

* `SlotAccounting`: the semaphore holds one value per goroutine of a claimed task plus
  those of the loop. `OneRunnerPerTask`: a task is with the loop, with one goroutine or in
  the recovery queue, never with two of them. `DrainComplete`: "all active tasks finished"
  is said only when no goroutine holds a slot.
* `CompletedServesResult`: as long as the process has not ended, a completed row names a
  complete result that is stored, unless its owner is being deleted. It fails if the
  status is not looked at after the wait, or if an upload that failed is taken for one
  that did not.
* `RunningHasAgent` and `ContainersOwned`: a row says running only while someone works
  on it, and a container runs only while someone waits for it. Both speak of the life of
  one process in which no call has failed and no shutdown has begun: a claim or a mark
  `running` may have reached the table although it returned an error, with nobody to undo
  it, and a context that is done is an error of the same kind. The second also leaves out
  tasks that time out or are deleted, where the code does leave containers behind (see
  below).
* `TimersSound`: a timer that is about to write `queued` finds `scheduled`. It rests on
  the map keeping the task until the write is through.
* `QueuedHasInput`: the sweep and the clean-ups reach only tasks that will not run again,
  whatever end of the process they follow. `LiveContainerIsWatched`: after any sequence of
  ends and starts. Both speak of behaviours in which no call has failed (`faults = 0`),
  as they do not hold otherwise: an `INSERT` whose reply is lost makes the handler remove
  the directory of a queued task, and a collector that cannot list the running tasks hands
  none of them over.
* `LifecycleRefined`: see below. `TasksSettle`, `ScheduledWake`: see fairness.
* `BuiltModelHasImage`, `NoImageLeftOver`: a model whose client waited for its answers,
  the background removal included, has the image its row names, and an image has its
  row. Where requests about one model overlap, a call fails or a client writes the tag of
  a model into another row the code promises neither, and `strained` keeps these out.
* `HashCoversInput`: whichever parts come in whichever order, the signature is made from
  the file the row names, as it lies in the directory. `SignatureIdentifiesRun` and
  `SameTaskSameSignature`: equal signatures mean equal runs, of tasks that came with one file
  and with no word that is empty or has a comma or bar in it (`Plain`), and the order of
  variables does not matter. The instance has a variable with a comma, for which equal
  signatures do not mean equal runs, so the condition is needed. `FormTypeOK` has the
  limits of an accepted row in its range, the timeout if the client's and the configured
  default are numbers an int32 holds, which no code checks.
* `HiddenOnlyByDeletion`, `RepeatedOnlyByCreation`: what a reader of all pages sees. An
  OFFSET that no longer fits ends in an error and never in a gap; a page size that does
  not fit is left out (see below).
* `OrderlyEnd`: without an error the pool and the daemon's client are closed only when no
  handler is in flight and the WaitGroup is empty, recovered tasks included, which hold no
  slot. `SignalEndsProcess`: whatever `run()` is doing and whoever holds a connection.
  `ListenErrorReported`: if Run waits by then.

### Refinements

`PinnConnect` implements `TaskLifecycle` under the mapping `status <- rows[t].status`,
`result <- rows[t].path`, and `held`, true while the loop, a goroutine, the recovery
queue or the collector has the task (`Held`). The abstract specification knows no
goroutines, calls or files: only a holder runs, completes, fails or requeues a task, a task
in somebody's hands is not claimed, a stopped or absent one never fails, and a completed
one names a result of the same signature. `recovery` checks it over crashes and a failing
call; out of routine it was checked on the instance of `life` and, with one failing call
and a stop, of `faults`.

`Registry` implements `StartOutcome` under the mapping that forgets where a start is
until it returns, and then counts the containers it left. That is what justifies one step
for `StartContainer` in `TaskWorker`.

### Bounds

Two tasks are what the races between tasks need: sharing a signature, a slot, a cached
result. One slot makes them compete and two let them run at once. Two goroutines are
enough for two tasks with one pair of hands each; with recovered tasks a second
goroutine for one task would still find a place, which is how the mutant of
`OneRunnerPerTask` is caught. The hazards found so far need at most one fault, one stop
and one delete; two faults let one part fail in the middle of making up for another. The number of containers bounds how often tasks are started: one per
task, and one more for every end of the process after which a task may be started again. Two time values separate past and future of
one `scheduled_at`. Wider instances gave the same answers and take longer than a routine
check should: `life` with two slots (2.1 million states) or two stops (1.2 million),
`recovery` with two tasks over one kill and one fault, or over two kills and no fault (0.7
million each without a stop request; with one, and two containers, 3.8 and 3.1 million),
`faults` with one failing call and a stop (1.7 million) or a delete (2.5 million, without
`CompletedServesResult`), and `recovery` over three ends of the process (1.0 million).
`progress` was also checked with two tasks that share the slot, one of them in the future,
without a stop request or a restart (0.3 million states), where each waits for the other's timeout.

One model is enough for the requests about one model to meet, and a foreign image lets a
row name something the service has not built; three requests are an add or build, a
change, and one in its way. Two models with three requests (2.7 million states) and two
failing calls (1.05 million) gave the same. The start asks for a GPU, and whether the daemon has one
is open at the beginning: without it the start goes through the calls of one that asks for
none, the only kind the service makes today, and with it through the fallback as well.
`StartImplemented` holds for both kinds. In `requests`, eight numbers put the limits of an
int32 within reach: timeouts on both sides of it, a table longer than the largest OFFSET,
and a page size that is cut. Two accepted requests are what a shared signature takes, and
words of one and two bytes what shifting a boundary between words takes. In `server` one
goroutine of each kind stands for any number, as they do not affect each other.

### Fairness

`FairSpec` assumes weak fairness for every goroutine's next step, the loop, the
collector, each handler, the scheduler's tick and timers, the clock and the timeout of a
task: the Go scheduler does not starve a runnable goroutine, calls answer or fail, and
`context.WithTimeout` fires. The loop's step into the drain has strong fairness, because
Go's `select` picks at random among ready cases, so it is not for ever unlucky between
ticker and `ctx.Done`. Nothing makes a program end, a client ask, a call fail or the
process die; therefore `progress` lets every task outlast its timeout, and relies on the
timeout alone. It does not cover recovered tasks, whose wait has no timeout: `TasksSettle`
is about the process that took the task on, `ScheduledWake` about all.

In `server`, `run()` and the listener go on when they can, a connection is given back (a
query ends), the services and, once the context is done, tasks return; these have strong
fairness, because they cannot return while they hold a connection and may borrow one again
and again. A handler may take for ever, which is what the ten seconds of `Shutdown` are for.

### What the code does and its words do not say

Five runs refute a sentence of the repository. Each states the sentence as a property; the
counterexample is a behaviour of the code.

| run | says | does |
|---|---|---|
| `v_dead_claim` | "Cleanup starts a cleanup for dead running tasks" (`garbagecollector.go:57`) | a process that ends between the claim and the mark leaves a running row without a container id, which no later start looks at |
| `v_recovered` | the status request "Returns the current status and metadata of a task" (`server/task.go:136`) | a recovered task has no deferred calls and its error is dropped: after its container failed the row stays running, with nobody at work |
| `v_delete_running` | "cannot delete running task, need to stop it first" (`server/task.go:211`) | the status is checked three calls before the row goes; the goroutine then dereferences nil |
| `v_stopped` | stop marks the task stopped (`README.md:146`) | a stop that lands between the check and `MarkTaskCompleted` is overwritten |
| `v_partial` | a failed container is an error and leaves no result: "expected error for non-zero exit code" (`service/task_test.go:854`) | if it failed while the service was down, the collector marks the task `queued`, goes on, uploads what is there and marks the task completed |

Seen on the way and not stated as findings, because no sentence promises otherwise:
filling the semaphore does not wait for recovered tasks (`wg.Wait` does); deleting a task
takes the object that a cache hit copied the key of; a task deleted while it is claimed
may upload after its artifacts were removed; a container whose start was cut short, or
whose mark `running` failed, runs on, because removal does not force; a timer whose read
fails leaves the task in the map, and no later tick sets one again; a run request that
fails after its file part leaves a directory nothing removes; `page_size=4294967296`
is LIMIT 0, an empty page of a list that is not empty; a delete request deletes the model
twice; `PUT /model` removes an image other models may share; requests whose words contain
commas or bars, or are empty, can share a signature.

## 4. What is proved

Each theorem is about `Spec` of the module it belongs to and holds for every set of tasks,
containers, goroutines, models, images, requests and handlers, every number of slots and
every bound. The proof modules build on each other as the table in section 2 says.

| module | theorem | establishes |
|---|---|---|
| `PinnConnectProofs` | `TypeCorrect` | `[]TypeOK` |
| | `SlotsAccounted` | `[]SlotAccounting` |
| | `DrainIsComplete` | `[]DrainComplete` |
| | `SlotInvariant` | `[]SlotInv`, from which the three follow |
| `OwnershipProofs` | `OneRunner` | `[]OneRunnerPerTask` |
| | `TimersAreSound` | `[]TimersSound` |
| | `OwnershipInvariant` | `[]OwnInv`, from which the two follow |
| `LifecycleProofs` | `LifecycleImplemented` | `LifecycleRefined`: `PinnConnect` implements `TaskLifecycle` |
| `ContainerProofs` | `InputsKept` | `[]QueuedHasInput` |
| | `LiveContainersWatched` | `[]LiveContainerIsWatched` |
| | `ContainerInvariant` | `[]ContInv`, from which the two follow |
| `LifeProofs` | `ResultsServed` | `[]CompletedServesResult` |
| | `AgentsAtWork` | `[]RunningHasAgent` |
| | `ContainersHaveOwners` | `[]ContainersOwned` |
| | `FinishedStaysFinished` | `TerminalNotRevived`, an action property |
| | `LifeInvariant` | `[]LifeInv`, from which the four follow |
| `RegistryProofs` | `RegistryTypes` | `[]RegistryTypeOK` |
| | `BuiltImagesStay` | `[]BuiltModelHasImage` |
| | `ImagesLeaveWithModels` | `[]NoImageLeftOver` |
| | `StartImplemented` | `StartIsOneStep`: `ContainerStart` implements `StartOutcome` |
| | `RegistryInvariant` | `[]RegistryInv`, from which the four follow |
| `ServerRunProofs` | `EndIsOrderly` | `[]OrderlyEnd` |
| | `ServerTypes` | `[]ServerTypeOK` |
| `RequestProofs` | `FormTypes` | `[]FormTypeOK` |
| | `HashIsOfInput` | `[]HashCoversInput` |
| | `SharedResultIsRight` | `[]SignatureIdentifiesRun` |
| | `SameTaskIsFound` | `[]SameTaskSameSignature` |
| | `FewHidden` | `[]HiddenOnlyByDeletion` |
| | `FewRepeated` | `[]RepeatedOnlyByCreation` |
| | `RequestInvariant` | `[]RequestInv`, from which the six follow |

That is every safety property of the passing runs.

### Assumptions

They are the named ones of the modules: `NoTask`, `NoCont`, `NoTime` and `NoPath` are not
among the things they stand for the lack of, `ScheduledAt` has its type, there is at least
one slot, the bounds are natural numbers, and `Goroutines` is finite, which `Cardinality`
needs; the tags made elsewhere are not those the service builds; the kinds of goroutines
of `ServerRun` are disjoint; the parts of a body are records of the form the decoder
makes, limits are whole numbers, and an int32 holds some positive number of negative ones.
TLC evaluates them on every run.

Every inductive invariant was checked by TLC, on the instances of the runs and on some
wider ones, before it was proved.

### Types, slots and the drain

    SlotInv == TypeOK /\ Handles /\ SlotAccounting

None of the parts is inductive alone. `TypeOK` needs `SlotAccounting`, as `sem - 1` is a
natural number only if the slot that is given back was taken, and `Handles`, as a row is
written for the task in somebody's hands only if there is one. `SlotAccounting` needs
the part of `Handles` which says that the goroutine of a recovered task never reaches the
deferred calls (where it would give back a slot it does not have) and that the loop fills
slots only while draining. `Handles` needs `TypeOK`. The proof has one lemma per part of
the next-state relation (`LoopKeeps`, `StepKeeps`, `RescueKeeps`, `GcKeeps`, `ApiKeeps`,
`SchedKeeps`, `EnvKeeps`, `ProcessKeeps`), each with one case per action. The steps on
`Holders` are four facts about cardinality: it stays, grows by one, shrinks by one, is
zero. `DrainIsComplete` is arithmetic: when the loop has filled all `MaxWorkers` slots
and `sem <= MaxWorkers`, nothing is left for goroutines to hold. The
lemmas about single statements come first: each maps tables to tables, and reads return what is in
the table.

### Who has a task

    OwnInv == SlotInv /\ Ownership /\ PathsFit

No lock protects a task, so `OneRunnerPerTask` cannot be inductive: that the task a claim
takes is in nobody's hands has to follow from its row. `Ownership` says what each reader
of a row may find: in hands it is running, stopped or absent, and in the deferred calls
also completed or failed, never queued or scheduled (`RowFits`), so it is not claimed a
second time; the collector has a task only while nobody else is at work, and finds the
status its last call left (`RescueFits`); a timer's task is in the map, has that timer
only, and is scheduled or gone (`TimerFits`). `TimersSound` is in turn what keeps `Fire`
from queueing a task in hands, and what a stop request may write rests on the request
being sent after the task was run. `PhaseFits` orders recovery before the loop, and starts
it from a process in which nobody works. `PathsFit` is about data: the key a row names is one of a
task with the same signature, which `LifecycleRefined` promises of completed rows.

`LifecycleImplemented` takes the status an action finds from `OwnInv`, and who held the
task from the program counter of the actor. Each part of the next-state relation has a
lemma; its cases say which of the few changes of a row (`BecomesRunning`,
`BecomesCompleted`, ...) the step makes, and one lemma per kind of change gives the
abstract action for it. An end of the process changes no row and lets go of all tasks.

### Containers and inputs over crashes

    ContInv == OwnInv /\ Containers

The row keeps the container id over the mark `queued`, so that the id in a row is not
always one somebody waits for. `CidFits` and `GorCid` say that whoever is at work on a task (goroutine,
recovery queue, collector, stop request) means a container started for it, and that all
but the stop request mean the one its row names. As long as no call has failed, a row goes back to the
queue only when its container has run and runs no more, and a running row whose container
runs is looked after by somebody or about to be (`CalmFits`); the input stays where it is
needed, because every clean-up follows a mark that ends the need for it or precedes the
insert (`InputFits`), and the sweep removes only containers of tasks that were not active
when it listed them and cannot have become so (`OrphansFit`).

### The life of one process

    LifeInv == ContInv /\ (~restarted => FirstLife)

Until its process ends a task is claimed once. Before that there is no container for it
(`Clean`), hence no id a stop request could have read; after it its only container is the
one its goroutine has (`AtWork`). An unfinished result file can only come from that
container, and either it was stopped, in which case the row says so before the goroutine
looks again, or it failed, in which case the goroutine does not look for a result at all
(`ResultFits`). So what is uploaded is complete, and every path that is handed on, by the
goroutine, by the cached run of the loop or by the cache hit of a request, is `Served`.
`Agents`, the part for `RunningHasAgent` and `ContainersOwned`, needs that no call failed
and that no shutdown has begun (`AllWell`).

### Models, images and starts

    RegistryInv == ModelInv /\ StartInv

Nothing keeps two requests from working on one model, so the invariant is about the models
for which that has not happened (`m \notin strained`): one request at most works on such a
model, or one background removal, and a removal meets a request only after the row is gone
(`OneAtATime`); no other row and no other request names its tag (`OwnTag`). Then row and
image are in step (`InStep`) whenever nobody is at work, and between two calls of a request
what they hold follows from its place (`Place`): a build has the image before the row, an
update has removed the image while the row still names it, the second `DeleteModel` finds
no row and so removes nothing. The proof separates what a handler does to other models
(nothing, `FitsElsewhere`, from the limits in `Touches`) from what it does to its own, one
lemma per handler.

For a start, `Current` and `Tries` give the containers it has made by its place and try: a
second try belongs to a start with a GPU, and the first container is gone by then unless
its removal failed, which is a disturbance. `Advances` says what a step may return, and
`AdvanceIsOneStep` counts the containers and names the abstract step.

### The process

`EndIsOrderly` carries in its invariant `EndInv` the order in which the end comes about:
once `Shutdown` has begun the listener does not
serve, so a request that is over is the last one; only a signal leads to `Shutdown`; when
`wg.Wait` is reached no request is in flight; and a closing without an error finds all of
this true and the WaitGroup empty, which it stays, as only one of its goroutines starts
another. The deferred calls of a failed start-up are the other way to a closing, and
`StartupOrder` says that they follow an error. `ServerTypes` needs no more than the types;
its one part with content is that a goroutine which returns holds no connection.

### Requests

    RequestInv == FormInv /\ ListInv

Of a body that is being read, `FormInv` says that the file whose name and hash are kept is
in the directory with that content, and that the task part kept has passed its checks. A
row made from such a body is `RowOK`: among others, it keeps the words of the part the
client sent, the variables sorted, and its signature is made of them (`Meta`).

The two theorems about signatures are about words and lists of any length. A signature is
the text that is hashed beside the file's content: SHA-256 is taken to map different inputs
to different values. The prover
cannot instantiate an induction theorem, so what would be an induction is an argument about
the least number for which something fails: a set of naturals that is not empty has a least
element (`Least`), because the order of the naturals is well-founded.

* Sorting. `Before`, Go's order of strings, is asymmetric, transitive and total
  (`BeforeAsymmetric`, `BeforeTransitive`, `BeforeTotal`). A permutation that sorts the
  first n words is made into one for n + 1 (`OrderOneMore`), so every list can be sorted
  (`OrderExists`) and `Sorted` is in order and has the words of its argument (`SortedIs`).
  Two lists in order with the same words are equal (`SortedIsUnique`): if the first had a
  smaller word at place i, its first i words would need i - 1 places in the second. Lists
  with every word as often in one as in the other have the same words
  (`SameTimesRearranged`), so they are sorted into one list, hence `SameTaskIsFound`.
* Joining. The recursive function in `Joined` exists (`TextExists`). A text can be cut
  after its last separator in one way (`CutAtLast`). Cut after commas, from the end, a text
  of plain words yields these words (`TextIdentifiesWords`); it has no bar in it
  (`JoinedLacksBar`), so the text that is hashed, cut after bars from the end, yields
  command, variables and model (`SignatureParts`), hence `SharedResultIsRight`. The model
  may have a bar in it; a word may not be empty, because the list of one empty word is
  joined to the same text as the empty list.

`ListInv` counts, at the place the pages have reached (`Reached`): of the rows up to this
place that were there from the start, no more are unseen than were deleted (`Missed`); the
rows shown twice, and those beyond this place that were shown and will be again
(`ToComeAgain`), are together no more than were created. An `INSERT` pushes one row over
the place, from the first kind to the second; a `DELETE` pulls one back that will not be
read; a page moves the place over rows of the table and changes neither sum. That the
OFFSET of a page is this place is modular arithmetic: the int32 of `(page-1)*size` is the
int32 of `(page-1)*LIMIT`, and as pages are read only from an OFFSET that is not negative, the
place stays below 2^32, where an int32 is the number itself or negative (`OffsetIsReached`).
When the client stops, the place lies behind the last row, so `Missed` is what
`HiddenOnlyByDeletion` counts.

### What is only model-checked

Liveness: `TasksSettle`, `ScheduledWake`, `SignalEndsProcess`, `ListenErrorReported`. The
prover has no rules for fairness and `ENABLED`.

## 5. Not modelled

Left out, and why: authentication, health, statistics and configuration are stateless
filters and readings; status, result and the list of models are single reads; the
arithmetic of the stop timeout is one line on the client's number (a negative one ends the
context before the first query, a large one overflows the `Duration`), and what an ended
context does to a request is in `PinnConnect`; CPU and memory of a container have no
counterpart here, although the code does not pass the limits of a task on
(`service/task.go:421`); generated and test code.
