# nam: a verification development

TLA+ models of the concurrent and stateful parts of nam, the TLC configurations
that check them on small instances, and TLAPS proofs of the results that matter
most for every value of the constants. References such as `orchestrator.py:484`
are to files under `src/src/nam/` (`concurrency/`, `inference/` or the package
itself).

## 1. The system

| component | state it keeps | operations | how it acts on others |
|---|---|---|---|
| `Task` (`orchestrator.py:70`) | `_settled`, `_remaining`, one lock | `ready`, `discard`, `abort`, `retry`, by the handler from any thread, and by the layer when the handler ends | hands frames to its layer's `_on_task_ready`, `_on_task_discard`, or to the scheduler for a retry |
| `OrchestrationLayer` (`:252`) | `_queue`, `_backlog` by owner, `_batch_pending_since`, three locks; for coroutine handlers an event loop in a thread of its own | `push_batch`, `pull_batch`, `_execute_batch`, `_clear_batch` | posts `pull_batch` and the handler to the balancer; polls through the scheduler; pushes to the next layer |
| `OrchestrationPipeline` (`:560`) | the chain of layers | `add_layer`, `finish` | its last layer makes the callbacks and tears windows |
| `Orchestrator` (`:691`) | interim queue, `_window_size`, `_logt`, `_last_frame` | `feed`, `_pull_window` (several at once), `_tear_window`, callbacks | pushes to the first layer |
| `OrchestrationClient` (`:612`) | none | `feed`, two callbacks, frame by frame | stands between an orchestrator and its user; its callbacks may raise |
| `LoadBalancer`, partitions, sources (`load_balancer.py`) | partitions' queues, congestion, unit weights, a wake-up event | `call`, the dispatcher thread, `shutdown` | submits to the executor |
| `Executor` (`executor.py`) | a queue of tasks and futures, worker threads | `call`, `run`, `shutdown` | runs everything above |
| `_DedicatedScheduler` (`scheduler.py`) | a heap of calls, a condition, one thread | `schedule`, `shutdown` | makes the delayed calls |
| bundler and launcher (`module_loader.py`, `launcher.py`) | a bundle and its recorded hash on disk, a watcher's last hash | build at the start, poll, rebuild at a server's start | several processes share the files |
| model exporter (`model_exporter.py`) | a cache of compiled graphs, a cache of handle pools | `make_pool`, `export_and_compile`, `infer` | blocks threads that find no handle |
| batch padding (`padding.py`) | none | `run_padded` | calls `infer` chunk by chunk |
| inference hook (`hook.py`) | a module's requested and actual device | patched `to` and `__call__` | goes to the device through the DirectML lock |
| device and DirectML backend (`device.py`, `directml_backend.py`) | two caches of the device context, one process-wide lock | lookup, `invalidate_directml_device`, `lock` | the driver may remove the device |
| data directory (`project.py:76`) | a tree of files | `sync_data_directory` at the start | crashes leave partial copies; builds on one machine share the tree |
| project loader, route discovery, router and builds, server (`project_loader.py`, `route_discovery.py`, `router.py`, `build.py`, `module.py`, `server.py`) | each build's routes, pages and navigation; who declared a path | loading every module in one order: mounted or proxied; requests | builds forward requests to each other |

What is left out is in section 6; `PROJECT.json` gives the reason by component.

**What is hard here.** Workers of one executor run every operation, so that
several pushes and pulls of one layer, several pumps of one window and several
resolutions of one task overlap, with small locks around parts of them.
Frames are resolved out of order and must pass contiguous layers in order.
Leftovers and short batches survive only because somebody polls again. Handlers
and callbacks raise in the middle of a batch. Caches in the inference code are
looked up and filled without a lock. Two processes build the same bundle or sync
the same directory, and a process may end between any two writes. One handler
call has frames of several owners, and an exception of one must not cost the
others theirs. Builds decide by themselves which modules they have, and must
agree on what a path means. `PROJECT.json` lists these under "hazards", each at
its line, with the properties that cover it.

**What makes the components correct.** A task's frames are each resolved, and
once. A layer loses and doubles no frame, keeps the order it promises and hands
over whatever is due. A window never has more than `max_window` frames in
flight, its counter is exact, and each item that is fed becomes a frame, in the
order fed. Together these give a caller what `FrameLifecycle` says. The threads
below lose no wake-up, do not oversleep, and realize every call that is due. A
recorded hash is not ahead of its bundle, while builds do not meet. Handles come back to their pools. A
module runs where it was last asked to. A synced directory mirrors its source.
A sharded project answers as one process would.

## 2. Modules

Each module has its VARIABLES, `Init`, one action per step between two lock
operations (or two reads of unlocked state), `Next` and `Spec`. Most take a
`setup` at `Init`: how the component was made and what its users do, from the
CONSTANT `Setups` (`DataSync` calls these `machine` and `Machines`, and begins the
names of its specification with `Sync`). A run thereby covers several kinds of use at once. The
conditions a property needs are conditions on the setup, inside the property.
Definitions whose comment begins with "Slip:" are mistakes a programmer could
make; nothing uses them but the mutants that show that each property can fail.

| module | models | actions and code |
|---|---|---|
| `TaskResolution` | one `Task` | A call is `Begin`, `Settle` (`_settle_once`), then `Take` (the first call, which does not look at what others claimed) or `Claim` (later calls and every retry, under the lock). `HandlerReturns` and `HandlerRaises` are `_execute_batch`. |
| `Layer` | one layer, at the grain of its locks | `PushStart`, `PushSplit`, `PushPut`, `PushDone` are `push_batch` under its capacity lock; `PullStart`, `PullGet`, `PullGot`, then `PullPost` or `PullWait`, `PullPutBack`, `PullAgainLater` are `pull_batch`, which takes frames without that lock. `Region` is `_ensure_batch`; `DiscardUpstream` advances backlogs; `RetryPosted` pushes a frame again; `ClearBatch` is `close()`. |
| `Window` | one `Orchestrator` | `FeedPut`, `FeedDispatch`; `PumpLimit`, `PumpReserve`, `PumpCollect` (or `PumpRaises`), `PumpFeed` are `_pull_window`; `Ready`, `Discarded`, `Tear`, `AbortTear` are how frames end. |
| `Pipeline` | layers, windows and resolutions together | One step per frame for what the three modules above split up: `Start`, `Admit`, `Begin`, `Forward`, `Discard`, `Advance`, `Retry`, `DropSilently`, and the finish layer's `FinishCall`, `FinishTear`, `FinishAbort`. |
| `FrameLifecycle` | what a caller is promised (abstract) | An item waits, is in flight, and ends once; `Pipeline` implements it through the mapping `Promised`. |
| `Dispatch` | balancer and executor | A call: `Construct`, `Post`, `Notify`. The balancer's thread: `BalancerTests` ... `BalancerLoops`. A worker: `WorkerTests` ... `WorkerRealizes`. |
| `DelayQueue` | the scheduler | `ScheduleFor`, `SchedulePush`; `_run` is `Tests`, `FindsDue`, `SleepsUntilCall`, `SleepsOn`, `Wakes`, `Calling`. |
| `Scheduling` | `DelayQueue` and `Dispatch` composed | The callback of a due call is a call of `Dispatch`, made on the scheduler's thread. |
| `Bundles` | bundles, launcher, watcher, servers | A build is `Hashes`, `SkipsBuild` or `Rebuilds`, `Reads`, `Writes` or `Fails`, `Records`; processes end between any two, and two of them may build at once. The sources have a new version with every edit (`edits`), whose `text` may be that of an earlier one; hashes tell only texts apart. `beside`, `mixed` and `missed` are history: which builds met, and whether a later one has made up for that, or for a failure at the start. |
| `HandlePool` | pools of inference handles | `make_pool`; `LooksForGraph` ... `ReturnsPool` are `export_and_compile`; `CallsInfer`, `GetsHandle`, `PutsHandle`. |
| `BatchPadding` | `run_padded` | `Chunk`, `InferChunk`, `Join`, one chunk a step. |
| `Inference` | both composed | `run_padded` with `ExportedModel.infer` as its function, beside other threads. |
| `DeviceHook` | one hooked module and the DirectML lock | `Checks`, `Placed`, `Settles`, `Enters`, `Ran` are a call; `To`, `Resets`, `Moved` are `to()`; `Tensor`, `Copied`, `CopyFails` a tensor's copy, which is tried again; `AsksForLock`, `MakesLock`, `GetsLock`, `Acquires` the lock. |
| `DeviceContext` | the cached answer to what "cuda" means | Each read or write of the two caches is an action; `Removal` is the driver's. |
| `Devices` | both composed | A call, `to` or copy that is not given its device looks it up (`LooksUp`, `Answers`, `Raises`), while others invalidate what is cached. |
| `DataSync` | the data directory, and the processes that sync it | Two loops per directory (`FirstLoop`, `SecondLoop`), a stack of calls per process, removals and copies file by file, which fail where another process was first; `Crash`, `EditsData`, `ModuleWrites` around them. |
| `Execution` | `_execute_batch` for batches of several owners, in a layer and in the finish layer | `Handles` makes a task for an owner's frames; `Readies`, `Discards`, `HasRetried`, `Returns` (with all frames, some or none), `Raises` are the handler; `Rejoins` is a retry's push into a later batch; `Tells`, `TellingRaises`, `Advances` are `_on_task_discard`; `Finishes`, `FinishRaises` the finish handler; `Awaits`, `Helps`, `Resumes` a coroutine on the layer's event loop. |
| `Api` | what a caller of a sharded project is promised (abstract) | A request gets an answer of the whole project, or fails. |
| `Shards` | builds that load modules and proxy requests | Loading is `Skips`, `Refuses`, `Proxies`, `Mounts` or `FailsToMount`, module by module, then `Opens`; a request is `Sends`, `Handles` or `Forwards`, `CannotForward`, `TimesOut`, `Replies`. It implements `Api` through the mapping `Whole`. |

`Layer`, `Window` and `TaskResolution` are the fine-grained views; `Pipeline`
takes each of their operations as one step and adds what only the whole shows;
`Execution` opens up one handler call, which `Pipeline` takes frame by frame.
`MC...` modules give small sets and setups for TLC; `...Proofs` modules hold the
theorems.

## 3. Runs

| run | module | what it asks | bounds |
|---|---|---|---|
| Tasks | MCTaskResolution | do overlapping calls resolve each frame, and how often | 3 calls and the layer's own, 2 frames of the batch and one foreign; sync and async |
| Layers | MCLayer | no frame lost, doubled, overtaking or stranded | 2 owners, 2 workers, `max_batch` 2, up to 3 frames; four setups: two owners with discard and retry; contiguous with a discard ahead; `min_batch` 2; `close()` |
| Windows | MCWindow | bound, account, order, chain, and that nothing is left behind | 4 items, window 2, two pumps; plain, a `None` first, everything raising |
| Pipelines | MCPipeline | does the whole implement `FrameLifecycle` | 2 layers and the finish layer, up to 4 frames of one owner, or 4 of two; four setups: a retry behind a contiguous layer; discards in contiguous ones; an owner that drops frames and raises; a retry that lets others overtake |
| Batches | MCExecution | does each owner hear of each frame, once; does every batch end | one batch of 2 owners with 2 frames each; or two batches with one frame each; one to three workers. Eight setups: faults of handler and callbacks, in layers shared or not; a coroutine handler; handlers that leave frames out and have some retried, synchronous and asynchronous; retries out of two batches |
| Scheduling | MCScheduling | is every due call run and realized; does shutdown end the threads | 4 calls of three roles (2 delayed), one worker, weights up to 2, two ticks |
| Bundles | MCBundles | hash and bundle, over failures, restarts and builds that meet | 2 edits, the last a revert or not; 2 failures of any builds, 1 relaunch, 2 server restarts |
| Inference | MCInference | rows in, rows out, through shared handles | sizes 1-5 and 0-12 rows alone; with 3 threads sizes and rows up to 2; 1 failed compilation |
| Devices | MCDevices | one thread at the device, the device last asked for, effective invalidations, calls end | 2 threads, 2 removals, 1 failure of the driver; five cases: all kinds of calls with CUDA and without; no lock made before; removals; overlapping invalidations |
| Projects | MCShards | does the sharded project answer as one process; do requests end | 3 builds (a web build, a worker, the whole), 3 modules, 4 paths, 2 requests, 3 hops, 1 crash; seven projects: the usual one, missing addresses, circular ones, failing modules, three kinds of conflicts |
| Data | MCDataSync | a mirror whatever a crash left | three machines. One process: a directory in a directory, 3 names, 2 contents, with edits; two processes: 2 names, 1 content, no edits; two processes among edits and module writes: 1 name, 1 content edited |
| PipelineDropped | MCPipeline | violation, see below | 1 owner, 2 frames, 1 layer |

Why the bounds are enough to be of interest: two owners show what one owner does
to another, two workers or pumps every race between two of the same operation,
three indices a frame with both a predecessor and a successor, `max_batch` 2 and
window 2 a limit that is reached while more is waiting. Three calls of a task
are a first one and two later ones that race. In `Data` a name can change from
file to directory at the top and inside one. Weights of two make a source's
weight change while its tasks run. In `Projects` three hops are one more than
a project needs whose references are right, and a circle fills them. The
`Scheduling` run has one worker: two make it too long for a routine check, and
the balancer's and scheduler's races, which it is about, do not depend on it.
`CHECK_DEADLOCK FALSE` is set where the system may come to rest once its inputs
are used up.

What the passing runs show, by property:

- *Tasks.* `ClaimsAreDisjoint`, `RaiseResolvesEverything` (what a raising handler
  did not resolve is resolved by the abort), and `ManualResolutionWins` for
  synchronous handlers.
- *Layers.* `EveryFrameInOnePlace`, `NothingOvertakes`, `QueueWithinCapacity` for
  `min_batch` 1, and `DueIsPosted`: once a frame and its predecessors have come,
  it reaches the handler, over full queues, short batches, retries and another
  owner's close.
- *Windows.* `WindowBound`, `WindowAccounting`, `FramedInFeedOrder`, and
  `FedIsFramed`: the hand-over between a pump that leaves and an item that
  arrives loses nothing.
- *Pipelines.* `LifecycleSpec` is refinement: safety and liveness of
  `FrameLifecycle` for the items of owners whose handlers return what they do
  not discard, discard in order, and do not retry in contiguous layers, beside
  an owner that does none of this. `WindowMatchesFlight` and `OrderAtGates`
  relate windows, layers and outcomes. `HandlersHaveUserdata`: finish clears the
  userdata of a predecessor, and no handler of a layer has that frame still. It
  says nothing of the predecessor's own `on_ready`: batches of the finish layer end
  in any order, and the table below has what comes of it (`UserdataStays`).
- *Batches.* `EveryFrameIsHeard`: when the last execution with a frame has ended,
  its client has heard of it, its slot of the window has come back, and the layers
  behind know of it if it was discarded, whatever handlers and ready callbacks raise
  and have retried (no discard callback may raise). A frame that its handler left,
  neither returned nor resolved, is excepted: an asynchronous layer's may still be
  resolved later, a synchronous layer's never is (run PipelineDropped). `HeardAtMostOnce`: a client whose own ready callback does
  not raise hears of a frame once, also if a discard callback of its own or of
  another does. `BatchesEnd`: workers that are blocked on a coroutine come free,
  if there are more of them than batches or the coroutines do not need one.
- *Scheduling.* `CongestionIsOutstanding`, `NoLostWakeup`, `NoOversleep`,
  `DueIsRealized`, `ShutDownStops`. The scheduler's thread itself may miss a
  shutdown that comes between its test and its wait; it is a daemon thread, so
  the process ends regardless.
- *Bundles.* `RecordedNotAhead`, unless builds of both processes ran at once, one of
  them wrote the bundle, and none by itself has been recorded since (`mixed`).
  `BundleConverges`, with reload and no reverts: the bundle catches up with the last
  edit, or builds have met in that way, or the build at the start has failed and none
  has gone well since (`missed`), which the watcher does not notice. The table below
  has what happens in the cases left out.
- *Inference.* `OneOutputPerRow`, `WorkersNeverWait`, `PaddedRunEnds`.
- *Devices.* `OneThreadAtDevice` when the lock was made first, also while copies
  are tried again; `RunsWhereRequested`; `InvalidationIsEffective` and `CallEnds`,
  when invalidations do not overlap with calls; lookups race with each other and
  with removals. A module is moved only while no call of it is under way, as
  torch itself requires. A context that was lost stays with a module that was
  placed on it, until somebody moves the module.
- *Projects.* `ServesAsMonolith` is refinement of `Api`: whichever build is asked
  and whichever it forwards to, the module answers that would in one process. It
  rests on all builds loading all modules in one order, included or not; that
  the routes of a syntax tree and those of its router may come in different
  order does not matter, since the build that owns the module routes again.
  `VerdictIsShared`: a conflict between two modules stops every build.
  `OneHop`: where references are right and imports do not fail, one forwarding is
  enough. `RequestsEnd`: circles end by the timeout. `LandingIsServed`.
- *Data.* `Mirrored`, `FailsOnlyIfTouched`, `SyncEnds`, of one process among people
  and modules, of two that sync at once, and of two that do so among people and
  modules. Excused from `Mirrored` are the builds in `touched`: since their launch a
  tree was edited or written by a module, or a sync beside theirs ended early, or they
  were launched beside a sync that had missed an edit. `FailsOnlyIfTouched` excuses those
  that synced beside another one, too (`overlapped`).

`Dispatch` and `HandlePool` have a specification of their own, `Spec`, which
`DispatchLimits.cfg` and `PoolLimits.cfg` use; the runs Scheduling and Inference
take the same actions in their compositions.

### What the code does and its documents say otherwise

One run is expected to end in a violation.

- *PipelineDropped.* `feature_unified_concurrency.md:154-156`: "Anything in the
  original batch that isn't in the returned list is discarded".
  `_resolve_sync_handler_result` (`orchestrator.py:385-395`) forwards the rest
  and does not call `_on_task_discard` for these: `on_discard` is never called
  and the frame's slot of the window is not given back.

What holds only under the conditions of a passing run is named at the end of its
configuration, with the CONSTANT to change for TLC to find the property violated
beyond them. Six further configurations, `*Limits.cfg`, are for those that need
another bound or specification; each begins with a comment that says which
property TLC finds violated, and what to change for the others. TLC has found
each of these violations:

| configuration | property | what happens | the document |
|---|---|---|---|
| TaskLimits | `EachFrameResolvedOnce` | the first call settles the task, and takes its frames in a second step without looking at what a late call has claimed (`orchestrator.py:112-128`) | `tests/test_task_concurrency.py:47`, "never_double_forwards" |
| TaskLimits | `ImplicitRetryNeverWarns` | an implicit retry reads `_remaining` before it claims (`:178`) | `tests/test_task_retry.py:338`, "should never trigger the already-resolved warning" |
| TaskLimits | `ForeignFrameIsSilent` | a frame of another batch is reported as already resolved (`:104`) | `feature_unified_concurrency.md:246`, "still filtered out silently" |
| Layers | `QueueNeverOvershoots` | too small a batch is put back beside what was pushed meanwhile (`:491`) | comment at `:509-515`, pushers must not be "jointly overshooting _queue_max" |
| Layers | `EveryFrameInOnePlace` | the room is then negative, and `batch[:room]`, `batch[room:]` take from the end (`:529`) | comment at `:528`, "without overlapping" |
| Layers | `DueIsPosted` | with `yield_after` 0 a short batch is put back for ever (`:487`) | `DEV_MANUAL.md:227-228`, "before running anyway" |
| Layers | `DueIsPosted` | a discard ahead of an undecided predecessor leaves the backlog where it is (`:331`) and is forgotten, so that later frames wait for the discarded one for ever | `DEV_MANUAL.md:231-233`, later frames "aren't stuck waiting forever" |
| Layers | `DueIsPosted` | a retried frame of a contiguous layer comes back behind the layer's backlog, is never admitted, and is pushed again for ever (`:375`) | `feature_unified_concurrency.md:259-263`, "re-enters this layer's queue exactly like a fresh frame" |
| WindowLimits | `ItemsAreFramed` | a `None` item ends its pump's loop (`:772`) | `feature_unified_concurrency.md:290-291`, "Each item you feed becomes a frame" |
| WindowLimits | `RoomIsExact` | a wrapper that raises leaks the reserved slots (`:774`) | `feature_unified_concurrency.md:310-312`, items get in "as slots free up" |
| WindowLimits | `FramesFit` | a raising `on_ready` tears the window twice (`:594`, `:456`) | `feature_unified_concurrency.md:291-292`, "caps how many frames can be in flight" |
| PipelineLimits | `KeptItemsEnd` | frames behind a dropped one never start (`:395`) | `feature_unified_concurrency.md:310-312` |
| PipelineLimits | `UserdataStays` | a successor's tear clears a frame's userdata before its own callback: with several workers, or when a lighter later batch goes first (`:592`, `load_balancer.py:184-212`) | `feature_unified_concurrency.md:89-91` |
| PipelineLimits | `LeavesInOrder` | batches of a contiguous layer end in any order (`:502`) | `feature_unified_concurrency.md:105-107`, "only leaves this layer once every frame before it" |
| PipelineLimits | `OneCallback` | `on_ready` raised, so `on_discard` is called, too (`:456`) | `orchestrator.py:619-624` |
| DispatchLimits | `CalledIsRun` | a source whose role is none of four names has no partition, and its calls raise (`load_balancer.py:182`) | `DEV_MANUAL.md:218`, "free-form label" |
| DispatchLimits | `WorkersSurvive` | a `SystemExit` in a task ends its worker (`executor.py:97`) | comment at `executor.py:98-102` |
| DispatchLimits | `GpuLeavesAWorker` | all that is drained goes to the executor at once (`load_balancer.py:228`) | `feature_unified_concurrency.md:99-100` |
| BundleLimits | `ReusedIsCurrent` | two processes build at once, or an edit after hashing is reverted later (`module_loader.py:92-98`) | `feature_reload.md:11-12` |
| BundleLimits | `NeverAhead` | a slower build beside another writes older sources over what the other has recorded (`module_loader.py:92-98`, `:120-122`) | none; expected of a record |
| BundleLimits | `AlwaysConverges` | builds that meet, a build that fails at the start (`:100`, `:137`) or a revert leave a bundle that no poll finds stale | `feature_reload.md:6-8` |
| BundleLimits | `RebuildsOnlyChanges` | a build that fails at a poll is tried again while the sources rest (`module_loader.py:120`) | `feature_reload.md:6-8` |
| PoolLimits | `ModelSizeIsParallellism`, `PoolSizeIsParallellism` | a raced-for pool is built twice; with parallellism 1 there are two handles (`model_exporter.py:179`, `:92`) | `feature_inference_acceleration.md:71-74` |
| Devices | `OneThreadAlways` | two first users of the lock can make one each (`directml_backend.py:74`) | `directml_backend.py:69-71` |
| Devices | `NextCallIsFresh` | a lookup that began before the invalidation stores the lost context again (`device.py:140`) | `device.py:119-121`, "will request a fresh device context" |
| Devices | `LookupsFindDevice` | the cache is read again after the test, and may be `None` (`device.py:141`) | `device.py:129-137` |
| Devices | `CallRecovers` | a placed module stays on the device that was removed (`hook.py:42`) | `device.py:120-121`, "required to recover from a TDR" |
| Devices | `TensorsFollowModule` | after an invalidation tensors go to the new context, the module's parameters stay in the old one (`device.py:169`) | `device.py:148-154`, "consistent with wherever that module's parameters actually live" |
| Batches | `ClientsAreIndependent` | a discard callback that raises leaves `_on_task_discard` before the next owner's turn (`orchestrator.py:295-306`) | `DEV_MANUAL.md:292-293`, clients are "independent" |
| Batches | `HandlersComeBack` | coroutines wait for a worker, and all workers for coroutines (`orchestrator.py:249`) | comment at `orchestrator.py:242-247` |
| Projects | `RootIsServed` | the template's own root route comes first and redirects to `/<id>`, where nothing is (`template/app.py:11`) | `server.py:127`, landing "still goes somewhere" |
| Projects | `RequestsDoNotCircle` | where an import failed a proxied route behind it may match, and lead back (`project_loader.py:259`) | `project_loader.py:208`, "exists identically" |
| Projects | `PathsAreReusable` | two modules with one path stop every build (`project_loader.py:55`) | `DEV_MANUAL.md:131-133`, "can freely reuse the same sub-path"; on the other hand paths that differ only in the names of their parameters are not found to conflict, which `tests/test_project_loader.py:66-80` calls a known gap: paths of `Shards` are such strings |
| Projects | `ServesAsMonolith` | a route that is not declared by a literal path is there in the build that owns it only (`route_discovery.py:35`) | `feature_sharding.md:135-138`, "an identical result" |
| Data | `RunsWithItsData` | one of two builds finds a directory that the other is still copying, and starts without the rest (`project.py:95`) | `project.py:147-150` |
| Data | `LaunchesSucceed` | one of two builds copies or removes what the other was about to (`project.py:84`, `:100`) | none; expected of a launcher |

## 4. Fairness

Weak fairness of the steps of a thread says that a thread that can run, runs.
Strong fairness is used where a step can be disabled again and again:

- *Layer*: workers take from one first-come, first-served queue, and a call that
  polls goes to its end, so every call has its turn; a pull that is between two
  of its steps and needs a lock gets it.
- *Window*: the first layer's queue drains, so a pump that polls finds room in
  the end. That it does is what `Layer` shows.
- *HandlePool*, *Devices*: `queue.Queue.get` and `threading.Lock` do not
  promise to be fair; that a waiting thread is not passed over for ever is an
  assumption about the operating system.
- *Execution*: the loop serves its coroutines in turn (strong fairness, as it is
  busy with another between two awaits), idle workers take up what is queued, and
  the scheduler pushes what is to be retried.
- *Shards*: handlers answer, the network carries replies and a client's timeout
  comes. Builds are not assumed to start or to stay up.
- *DataSync*: a process that syncs goes on.
- *Bundles*: the watcher polls every few seconds; builds are not assumed to
  succeed, but there are only so many failures.

Time passes (`Tick`, `YieldPasses`), waits with a timeout return, and handlers,
tasks and inferences end. Nothing is assumed of users: no call, feed, edit or
move has to happen.

## 5. Proofs

All theorems are about the whole specification, for all values of the constants
that satisfy the modules' named ASSUMEs.

- `HandlerProofs`, of one task: `TypeCorrect`, `LateCallsNeverOverlap`,
  `RaisingHandlerLosesNothing` and `WarningsAreTrue` rest on one invariant,
  `Inv`: what a call has claimed is gone from `_remaining` (so no later claim can
  overlap), a frame is gone from `_remaining` only because some call handed it
  on (so an abort finds the rest), and calls hand on and warn only when they
  end. `SynchronousHandlersResolveOnce` and `ManualWins` add `SyncInv`: with
  one call under way at a time only the very first can take frames without
  claiming them, all others being idle then, and the return value comes last.
  None of the properties is inductive without these parts.
- `HandlerProofs`, of whole batches: `EveryFrameHeard` (`EveryFrameIsHeard`) and
  `HeardOnce` (`HeardAtMostOnce`). All but the coroutines' comings and goings are
  steps of one kind (`Moves`): an execution goes on, owners of some of the frames
  it holds hear of an outcome, and slots are counted out for these and at most for
  the other frames of a callback that raised; or frames that no execution has are
  queued again (`Rejoins`). `ExecutionInv` says of each frame that it is with its
  execution, on its way back to one or left, or its owner has heard (`FateInv`); that who hears
  of a frame loses it by the same step, so nobody of one still held has heard of
  it (`OnceInv`); and that a discarded frame has advanced the backlogs behind or
  is among those of the `discard()` under way (`AdvancedInv`). The first and the
  last hold only if no discard callback raises, as `ClientsAreIndependent` shows.
- `LayerProofs`: `CapacityKept` (`QueueWithinCapacity`). The invariant: one worker
  holds the capacity lock; what is queued, what it has accepted and the room it
  still has are together no more than `max_batch`; and with `min_batch` 1 no pull
  is ever putting frames back. Pulls beside it then only make room. With larger
  batches the last part fails, and so does the theorem.
  `FramesStayInOnePlace` (`EveryFrameInOnePlace`) for `min_batch` 1 or contiguous
  layers: each frame upstream, waiting, queued, in a worker's hands, posted or
  dropped is in one of these places and once in it (`PlaceInv`). The slices of
  `push_batch` overlap only if the room is negative, which `CapacityInv` excludes in
  the first case, while a contiguous layer takes no more than the room by a loop
  that a negative bound ends at once. `NoFrameOvertakes` (`NothingOvertakes`) for
  contiguous layers without retries: all of an owner's frames up to its backlog have
  been let in or discarded (`ReachedInv`), and a step that lets frames in lets in a
  run of indices that follows on from it (`RunOfFrames`).
- `PipelineProofs`: one invariant, `PipelineInv`, for any chain of layers, owners,
  frames and workers. `StageInv` and `ReturnInv` tie a frame's stage to where it is
  and to how it was resolved. `WindowCountsTheFlight` (`WindowMatchesFlight`) is
  inductive with these: each step starts one owner's frames, ends them, or leaves
  its flight alone. `NoneOvertakesAtGates` (`OrderAtGates`) is what `GateInv` comes
  to: a gate has passed exactly what its backlog counts, discarded frames aside.
  `UserdataIsThere` (`HandlersHaveUserdata`): a frame loses its userdata to a
  successor that the finish layer let in, whose gate it had then passed itself, or it
  was discarded (`BlankInv`, from `GateInv`); so no handler has it. `PipelineKeepsThePromise`: every step is one of
  `FrameLifecycle` or a stutter, which is the safety half of `LifecycleSpec`; the
  other half is liveness. That proof found the mapping `Promised` written with cases
  that overlapped; TLC took the first one, as was meant, and the text now says so.
- `WindowProofs`: `WindowSizeExact` (`WindowAccounting`) and `WindowBounded`
  (`WindowBound`): an index is used once and its frame is in one place, so the
  frames outstanding and the reserved slots can be counted, their number is
  `windowSize`, and reservations keep it within `MaxWindow`. `FramesAreChained`
  (in every setup) from `ends = logt - 1`: the newest frame is always the last
  index given out. `FeedOrderKept` where every item can be framed: frames made
  and items left over are together what was fed.
- `InferenceProofs`, of `BatchPadding`: `EveryRowOnce` (`OneOutputPerRow`) and
  `OnlyTheRestIsPadded`, for every batch size, array and model. The invariant
  gives each chunk's rows by its number and the result by the chunks joined.
- `InferenceProofs`, of the composition: `EveryRowOnceFromPool`: each step of `Inference` is a step
  or a stutter of `BatchPadding`, so the result is right through a shared pool.
  `NobodyWaits` (`WorkersNeverWait`) counts: a pool has as many free handles as it
  was filled with, less those that threads hold of it (`PoolInv`), so that a
  thread which holds none finds one while there are no more threads than handles.
  It fails for a pool whose handles could come back to another one, which is why
  the invariant speaks of each pool by itself and not of their sum.
- `SchedulingProofs`: a step of `Scheduling` is a step or a stutter of `Dispatch`,
  and of `DelayQueue`. `WakeupsAreNotLost` (`NoLostWakeup`) rests on `AllSeenTo`:
  unless the event is set or the balancer is about to clear it, each posted task
  has a caller that will set the event, or the drain is yet to come to its
  partition. `CallsAreNotOverslept` (`NoOversleep`) needs that a call is due before
  `Forever`, which a sleep without calls stands for. `CongestionNeverDrifts`
  (`CongestionIsOutstanding`): every step changes a partition's congestion and its
  outstanding tasks together, by the weight of the one task it puts in or takes out
  (`MovesTogether`), and no outstanding task's weight changes (`WeighedInv`), since
  each is in one place of balancer, queue and workers (`HandsInv`, `OneHandInv`). The
  sum of the weights is the number of their units (`Units`), which can be counted
  where a sum over a set of tasks would need an induction.
- `DevicesProofs`: `DeviceIsExclusive` (`OneThreadAtDevice`) from `LockInv`: where
  the lock was made first every thread uses it, and who is at the device holds
  it. `InvalidationsTakeEffect` (`InvalidationIsEffective`) from `FreshInv`: no
  cache and no thread has a context from before the last invalidation, which
  holds only as invalidations have the module for themselves (`AloneInv`).
  `ModelsRunWhereRequested` (`RunsWhereRequested`) from `TargetInv` and `WhereInv`:
  wherever a thread is going, it goes to the device last asked for, or to the one
  every lookup finds while the driver works (`CleanInv`); a `to()` goes by itself
  (`ScopeInv`).
- `ProjectProofs`, of `Bundles`: `HashNeverAhead` (`RecordedNotAhead`), for any edits,
  reverts and failures, and any builds at once. The invariant orders the versions that
  a build has hashed, read and written by the step it is at (`InOrder`), says that
  builds which meet are known to (`Apart`), and that what is recorded is not newer than
  what a build by itself is about to write (`InPlace`).
- `ProjectProofs`, of `Shards`, for any modules, builds, references, requests and
  crashes. `Fit` says what a build has when it has taken up some of the modules: it
  takes each in its turn (`InTurn`), its claims are the declared paths of all modules
  that parse (`Claims`), its routes are in the order of their modules (`Ordered`), and
  whatever has none failed at its import (`Complete`). So two builds that are up have
  the same claims, which is `VerdictShared` (`VerdictIsShared`); and their navigation
  lists all modules (`Paged`), which is `LandingServed` (`LandingIsServed`). The route
  a request gets is that of the first module that has one for it, of those that could
  be imported (`FirstMatch`). `Apt` carries that over hops: a reply is one that the
  whole project would give, hence `AnsweredAsMonolith` (`ServesAsMonolith`: each step
  is one of `Api`, or a stutter) for every project in which a router has no route that
  its syntax tree does not show (`Shown`), the condition of the line on
  `ServesAsMonolith` in the table of section 3; and `HopsOnce` (`OneHop`), as the
  second build takes the request to be for the module that the first did. Lemma
  `Least`, that a set of numbers has a least one, is the library's well-founded
  minimum at `<` on `Nat`.
- `ProjectProofs`, of `DataSync`, for any tree of files, any number of builds that sync
  it, any crashes, edits and writes: `DataTypes`, `MirrorsSource` (`Mirrored`) and
  `FailsOnlyAmongOthers` (`FailsOnlyIfTouched`). Neither property is inductive: each
  speaks of the end of a sync, of which only the loops that led to it know. `SyncInv`
  has these parts.
  - *Calls.* A process that syncs has a stack of calls, each for a directory in that of
    the call below it (`StackInv`), of which only the innermost can be in its second loop
    (`LoopInv`). Its job is a removal or a copy, never both (`JobInv`).
  - *Trees at rest.* While nobody but syncs changes a tree, a sync's directories stay
    directories, what it removes is wrong and what it copies is the source's
    (`StableInv`). So whatever any of the syncs does to the copy puts a path right and
    leaves the others as they are (`SyncWrites`), and many syncs can be argued
    about one step at a time.
  - *What the loops have done.* A path is good if the copy has it as the source does, or
    a copy under way will see to it (`Good`). What a first loop has been through is
    not wrong any more, and good throughout if it is a directory (`Cleared`); what a
    second loop has been through is good with all that is below it (`VisitedInv`). That
    is an induction over the tree, done without one: `Under`, the paths below a path, is
    the least set that is closed under being in one, and each use of an induction is a
    set that is closed, too (lemma `UnderInduction`).
  - *Who runs.* When a build's outermost call returns, all paths are good, and stay so
    while the other syncs end well (`RunningInv`); when none is left, good is the same
    as equal, which is `Mirrored`.
  - *Nobody else.* A sync that is alone finds all that it listed (`ItemsThere`), removes
    whole trees (`RemovesWhole`) and copies to where nothing is (`CopiesNew`), so nothing
    can fail.

  Each part was first checked by TLC, on one to three processes and directories up to
  three levels deep. The proof also corrected the model, where what a copy does had been
  too simple for several writers: `copytree` makes the parents that are missing
  (`MakesDirectory`), `copy2` puts a file into a directory that has taken its place
  (`CopiesInto`), a file that was removed while it was copied stays removed (`FillsFile`),
  and what cannot be copied is skipped with all that is below it (`CannotCopy`).

Assumed are the modules' ASSUMEs alone: what is named there of sizes, names and
setups. Cardinalities need finite sets of owners, workers, pumps or threads. Of the
tree of files it is assumed that every path is below the root (`DataPathsAssumption`).

Only model-checked: the liveness properties (`DueIsPosted`, `FedIsFramed`,
`LifecycleSpec`'s second half, `BatchesEnd`, `DueIsRealized`, `ShutDownStops`,
`BundleConverges`, `PaddedRunEnds`, `CallEnds`, `RequestsEnd`, `SyncEnds`), as the
prover has no rules for fairness and ENABLED. Every safety property that a passing
run checks is a theorem.

## 6. Not modelled

- *DirectML's operators* (`directml_backend.py:192-484`): numerical functions
  without state.
- *Exporting and compiling a model* (`model_exporter.py:33-64`, `:101-130`): calls
  to torch and OpenVINO. `HandlePool` has them succeed or fail.
- *Priorities, aging and statistics of the load balancer*: a partition is drained
  in any order, which includes every one that priorities and the clock lead to.
  Congestion is a number of units instead of a float. Nothing reads the
  statistics.
- *Entry points of frontends, build commands, environments, arguments, static
  files and middleware*: they are set once, and read.
- *Reading configurations, module.yaml and syntax trees*: pure functions. What a
  syntax tree shows and what a router has once imported are parameters of
  `Shards`, and so is who is said to have a module.
- *Method and path templates*: which of them match a request is a parameter.
- *`Executor.callops`, `is_context`, `set_clock`*: the system does not use them.
- *The template and the examples*, but for the template's root route.
- *A build command that outlives its launcher*: esbuild runs in a shell of its own,
  and may write the bundle after a launcher that was killed. In `Bundles` it ends
  with it.
- *Headers and bodies of proxied requests*: an answer is the module that gave it. The
  proxy passes on a `content-encoding` header beside a body that httpx has decoded,
  and one of several headers of a name (`project_loader.py:28-31`, `:115-162`), so `ServesAsMonolith`
  speaks of who answers and not of every byte.
- *Hops that go on after their caller has given up*: in `Shards` an outer timeout ends
  the request for its caller; that a build behind it still works on it is not tracked.
- *A `window_listener`* has no steps of its own: that it raises is covered by a ready
  callback that does, in `Window`, and by callbacks that raise at the last frame, in
  `Execution`.

## 7. Plan

The order of the modules was from the core outwards: `TaskResolution`, `Layer`,
`Window`, the composition `Pipeline` with `FrameLifecycle`, the threads under
them (`Dispatch`, `DelayQueue`, `Scheduling`), the inference code and the
processes; then batches of several owners and coroutine handlers (`Execution`),
the composition `Devices`, the sharded project (`Shards` with `Api`) and several
processes in `DataSync`. What is left:

1. An abstract specification of one layer (frames come in order, each is handed
   over once) that `Layer` implements, and from it the layers of `Pipeline`.
2. A sharper `FailsOnlyIfTouched`: of two syncs at once one can fail only where both
   remove, or both copy, the same item.
3. Larger instances: two workers in `Scheduling`, two crashes in `Projects`, three
   threads in `Devices`.
