# chaosblade-exec-python in TLA+

Specifications of the fault-injection agent in `src/src/chaosblade`, small
instances of them for TLC, and proofs for TLAPS. Paths below are relative to
`src/src/chaosblade`; "the documentation" is `src/README.md` and `src/doc/en/design.md`.

## 1. The system

The agent lives inside the Python process it disturbs. Three kinds of threads
meet in it:

* **application threads** call library functions (redis, requests, mysql, ...)
  and import modules;
* **the HTTP thread** serves management requests, one at a time (`HTTPServer`);
* **the main thread** starts and stops the agent.

| Component | State | Operations |
|---|---|---|
| status manager (`common/center/status_manager.py`) | uid -> StatusMetric (model, hit count) | register, remove, lookups, unload; increase, increase below a limit, decrease |
| injector (`common/injection/injector.py`) | the global switch | inject: snapshot, compare, count, look up the executor, run, roll back |
| interception (`spi/enhancer.py`, `plugins/default_enhancer.py`, `bootstrap/enhancer_factory.py`) | none | before_advice; the synchronous and the asynchronous wrapper |
| create and destroy handlers (`service/handler`) | none of their own | create with undo, lazy load of a plugin, destroy by uid, destroy by target and action |
| monkey patcher (`bootstrap/patcher.py`) | identifier -> PatchRecord | apply, remove, remove_all |
| import hook (`bootstrap/import_hook.py`) | queue of pending patches, `_installed`, its place on `sys.meta_path` | find_spec, wrapped loader, register_pending, install, uninstall |
| agent life cycle (`bootstrap/agent.py`, `common/center/*`, `bootstrap/plugin_loader.py`) | started or not; ModelSpecs, plugin beans, listener | start (which may fail), stop, restart |
| executors (`executor/*`) | direct executors: workers, memory | delay, return value, exception; cpu, memory, process |
| models and specs (`common/model`, `spi`, `plugins`) | immutable | parsing, predicates, aliases, argument extraction |
| read-only handlers (`service/handler`) | none | status, list, health |
| plugins (`plugins/*`) | declarations | point cuts, actions, what an extractor reads off a call |
| server and dispatch (`service/server.py`, `service/dispatch.py`) | the handler table; the serving thread | merging of query and body, routing, answers; shutdown |
| configuration (`config.py`) | the settings | load: file, then environment |
| command line (`cli.py`) | `sitecustomize.py` | attach, detach; start, status, spec |
| service provider interfaces (`spi`), exceptions and transport (`common`) | none | abstract classes; interruption of a call, Request, Response |

How they interact: a *create* request registers an experiment and, the first
time for its target, patches the plugin's point cuts or queues them for the
import of their module. A patched call runs the wrapper, which asks the status
manager, takes a snapshot of the experiments of its target, counts a hit on the
first that matches and runs the executor. *Destroy* removes the registration;
calls that hold the StatusMetric keep it. *Stop* shuts the server down, removes
the patches, takes the hook off the path and unloads the managers, while calls
and imports go on.

What is hard here: nothing but the individual dictionaries is locked, so calls
work on snapshots that requests and stop() have made stale; patching is
decided in three separately locked places; imports run under Python's own locks;
and stop() removes things that threads are still using. stop() itself runs in a
signal handler, on top of whatever the main thread is doing. What a client asks
for passes through many hands (query and body, the parser of the create
handler, the extractors of the plugins, the injector, an executor, one or more
wrappers) before a caller sees it. PROJECT.json lists each hazard at its line.

## 2. Modules

| Module | Models | Remarks |
|---|---|---|
| `StatusManager` | the registry and its counters | operators, one for each critical section |
| `Injector` (extends it) | a patched call, one process per application thread | a step wherever shared state is read or written |
| `ChaosAgent` (extends it) | handlers, start and stop; composes everything about experiments | `Spec`, `FairSpec` |
| `FaultPlan` | what the engine promises, abstractly | `ChaosAgent!Plan` is the refinement mapping |
| `MonkeyPatcher` | wrapping and restoring | |
| `ImportHook` (extends it) | the hook inside Python's import, one process per module | |
| `PatchLifecycle` (extends it) | lazy load by requests, start and stop; composes everything about patches | `Spec`, `FairSpec` |
| `PatchPlan` | what patching promises, abstractly | `PatchLifecycle!Plan` is the refinement mapping |
| `DirectInjection` | the executors that need no patched call, under create, undo, destroy and stop | `Spec`, `FairSpec` |
| `Plugins` | the seven plugins: what they declare and extract | operators |
| `Matching` (extends it) | from a request to a Model, from a Model to the calls it matches | operators |
| `ActionExecutors` (extends it) | delay, return value, exception: flags to effects | operators |
| `Service` (extends it) | requests and answers, patched calls and what their callers get | `Spec` |
| `Shutdown` | stop() in a signal handler and at exit, with the locks as state | `ShutdownSpec` |
| `SiteCustomize` | attach, detach and their file | `SiteSpec` |
| `Configuration` | loading the settings | `ConfigSpec` |
| `MCChaosAgent`, `MCPatchLifecycle`, `MCDirectInjection`, `MCService`, `MCHost` | instances for TLC | `MCHost` puts the last three side by side |
| `ChaosAgent_proofs`, `ChaosAgentPlan_proofs`, `PatchLifecycle_proofs`, `DirectInjection_proofs`, `Service_proofs`, `Shutdown_proofs`, `Host_proofs` | proofs | `Host_proofs` is about `SiteCustomize` and `Configuration` |
| `SequenceLemmas` | what these need of sequences, induction and loops | extended by `Service_proofs` and `Host_proofs` |

### Experiments: StatusManager, Injector, ChaosAgent

A StatusMetric is an object with an identity: a thread keeps it after its
experiment is removed, and a uid that is used again gets a new one. The objects
are numbered in the order of creation (`created`), which is also the order in
which Python's dict iterates them; `experiments` maps a uid to its number,
`model` and `count` belong to the object. A model is a record of what the
injector can tell apart: target, action, the argument values its matchers accept,
`effect-count`, `effect-percent` (each may be absent or something `int()`
rejects), and the verdict of the predicate. Comparing a model with a call reads
nothing another thread can change, so the loop of `inject` is one step
(`MatchFirst`) from the snapshot to the first match.

`pc` follows a call through the code:

    outside -> advised -> enabled -> matched -> counted -> running -> outside
                                        |                     |
                                        +----> failed <-------+

`advised` lies between `exp_exists` and the read of the switch, `matched` after
the snapshot, `counted` after `_limit_and_increase`, `running` in the executor,
`failed` in `except Exception`. `Bypass` covers an enhancer that gives up or
raises, and the switch being off. A call for whose target nothing is registered
changes nothing and is not a step.

The HTTP thread is `request` (where the current handler is) and `todo` (the uid it
has registered, or those it still has to remove); the main thread is `main`.
`effects`, `leaked` and `window` are history variables: the faults a metric
caused, the hits it counted and dropped, and what was in force during a call.

### Patches: MonkeyPatcher, ImportHook, PatchLifecycle

A *point* is the point cut of one plugin bean. `attr` says how many wrappers are
around its function (or that it does not exist yet), `patches` what the record
would restore. `imports` follows each module through Python's import: the walk of
`sys.meta_path`, `find_spec` (under the global import lock, `importLock`), the
module body, and `_apply_pending`. `onPath` counts the hook on `sys.meta_path`;
two copies are possible after a restart. Python's import machinery is modelled
from how the hook uses it and marked as external: the walk takes the hook from
the head of the list without a lock, and each finder is called under the
import lock. The handler goes through `add`, `register_pending` and the queue in
three steps, since each is locked for itself. A bean is a point and a number: the plugin
manager appends its beans at every start() and drops them in stop() only, so after
a start() that failed each point has several (`copies`), and one create adds them one
after the other. `pending` is a set, in which two queued beans of one point are
one: a loader hands both to the patcher, which refuses the second as already applied.
`Frozen` are the points on types that refuse `setattr`; with one of them a plugin can
fail to load (`Abort`).

`promised` and `author` are history variables: what an import found queued, and
who applied a patch.

`PatchPlan` sees three things of all this: the stage of the agent, the functions
that may be wrapped (`PlanAsked`: those of loaded targets, and those in a queue
or in the hands of a loader, whichever run of the agent put them there), and
what a caller of each function meets (`PlanShape`: nothing yet, the original, or the
wrapper of a request or of an import).

### Direct executors: DirectInjection

`CpuBurnExecutor` keeps one flag (`running`), one list (`workers`) and as many
threads (`life`, `owner`) as it was asked for; `MemoryFillExecutor` keeps one
list of chunks, of which the number matters (`allocated`). `phase`, `uid`,
`left` and `doomed` follow the handler through create_injection, the undo of a failed create
and the sweep of a destroy, which joins the workers one after the other. A
worker looks at the flag between two cycles: `EndBurn` is that look when the flag is
reset, and a look that finds it set changes nothing. `overlong` holds the workers whose
cycle is longer than the two seconds of a join, the only ones a join can time
out on. `fresh` is a history variable: the burns created since a destroy last
reset the flag. No plugin of the project uses these executors yet, so the model takes
one executor of each kind, as an ActionSpec would hold it.

### What clients and callers see: Plugins, Matching, ActionExecutors, Service

The modules above say how threads meet inside one request or one call; these say what
goes through them, so here a request (`Serve`) and the advice of a call
(`Advise`) are one step each. An application is a record: `calls`, the patched
functions it calls, each from inside the one before it, and `requests`, what its
client may send. Texts are strings that are only compared; what Python makes
of them (`lower`, `int`, `float`, `json.loads`, `re.fullmatch`) is given by
constants. A request goes through `Params` (the body over the query, values that
are no text through `str`), `CreateCode` (the checks in their order), `ParseModel`
and `LazyLoadPlugin`, which chooses the wrapper of each point: asynchronous only
if the coroutine function can be seen (`ChooseWrapper`). Adding the beans of a target
fails (`Fail`) when one of them is at a point of `Frozen` whose module is there: the
registration is undone, the target stays loaded, and any of the other beans may have
been added before. `Succeed` and `Refuse` are the other two ends of a create. Direct
injection and pre_create, which no plugin has, are left to `DirectInjection` and
`ChaosAgent`.

A call carries its arguments, of which the extractors read what they know to
read, and `facts`, what is true of it for a reader of its source: the properties
compare faults with the facts, not with what was extracted. `stack` holds the
calls in progress. `Advise` draws one of the outcomes of `Inject` (jitter, percentages);
`Leave` hands the result of a wrapper to its caller: to the application as `seen`, or to the
original of the call around it, which decides what comes of it. That original lets an
exception through (`LetThrough`) or ends by itself, with a value or an error of its
own (`ResumeOriginal`, as SQLAlchemy's `execute` does with what a cursor returned).
`trace` remembers what the advice of each call did, `own` what each original ended with by itself, `late` which points were patched by the import of their module, and an
experiment its request (`asked`) and its faults.

### Around the agent: Shutdown, SiteCustomize, Configuration

`Shutdown` has the four kinds of locks as state: who is in a section
(`section`, `http`, `using`), and where each stop() on the main thread is
(`stops`, innermost last, since a second signal interrupts the first handler).
`shutdown()` waits for `serve_forever`, which waits for the request it serves,
which may wait for a lock or for the body its client has announced.

`SiteCustomize` follows commands through look, read and write. `write_text` is two steps
more: it opens the file, which empties it (`EmptyFile`), and writes at the beginning
of whatever is there when it closes it (`CloseFile`), so an attach or an edit in between
is overwritten, wholly or in part; a file that another detach has removed meanwhile takes what is
written with it (`CloseRemoved`). A write may leave any beginning of what it should
have written, which is a command that died. `exposed` and `overlapped` are history
variables: the lines nobody answers for, and whether a write went over another.
`Kept` is the loop of the code over the lines, with `Keep` as its body. The user may add lines at any time.

`Configuration` applies the items of the chosen file one by one, then the
environment. An item that raises ends the file: one whose key is an attribute
every object has and that cannot be set (`__class__`, `__dict__`, `__weakref__`); a variable that does not parse
is skipped.

## 3. Properties and runs

Every property has a mutant: a definition with a plausible mistake under
which TLC finds the property violated in the same run.

**agent_rules** - two threads, two uids, four kinds of models (a limited rule, a
percentage, a rule that does not match, a rule `int()` chokes on), two
registrations, so that one uid can be reused or two rules compete.
`HitsAccountedFor`: hits are faults, calls in progress or known leaks.
`StatusIsExact`: nothing a client can see has leaked. `OldestRuleWins`.
`UndoIsOwn`: a failed create takes back only itself. `ImplementsPlan`: the
refinement. `Inductive` is the invariant of the proofs.

**agent_contention** - three threads after the two hits of one rule:
`LimitRespected`, and the refinement under contention.

**agent_liveness** - `StopCompletes`; `RemovedFadesOut`: after a destroy, calls
already matched may still run their fault, but from some moment on none does.

**patch_drivers** - one target with drivers in two modules (as mysql has), two
starts, the second after a stop() or after a failed first one. `LoadedIsNotForgotten`:
each point of a loaded target is patched, queued
or in a loader's hands, unless one of its points refuses `setattr` (the code forgets the
rest of such a target). `PromisedIsPatched`: an import that found a patch in the
queue applies it. `ImportsEnd`: an import that has come to the hook ends with its
module in place, so the hook always finds its way off the path and back; only a
stop() that uninstalls it meanwhile may break an import. `StopEnds`: a stop() ends.

**patch_frozen** - two beans in one module, one unpatchable, beside another
target, and restarts over the beans of a failed start. `WrappedOnce`: at most one
wrapper, and the record restores the original. `LeftoversAreImported`: a patch that survives remove_all was put there
by an import, never by a request. `ImplementsPatchPlan`: the refinement.

**direct** - two uids over one executor with two workers: any create may fail
half way, any worker may outlast its join. `BurningIsListed`: a burning worker is
on the list or was given up. `DestroyQuiets`: when a destroy has returned, only
workers it gave up on burn. `FreshBurnIsFull`: a burn has all its workers until
the next destroy of a burn. `RequestsEnd`: no request hangs on a slow worker.
`BurnFadesOut`: without another create, every worker ends, given up or not.

**service** - an application for each of the seven plugins: a limited and jittering
delay for redis; exceptions, also with an alias, for requests; a coroutine function of
httpx, imported before or after the experiment; a SQLAlchemy execution, once with a
statement whose `str()` raises, that calls a MySQL cursor; a cursor of one MySQL driver over
one of another, on a class that refuses `setattr`; a Kafka producer around a consumer
of two topics; gRPC. Their clients send good requests and bad ones.
`FaultsAsAsked`: a call that meets a fault is one the client described,
whatever became of the parameters and arguments on the way. `LimitKept`: a
text in `effect-count` limits the faults. `HitsAreFaults`: what status reports is
the number of faults, but for delays that do not wait. `CallerSeesFault`: no wrapper
changes what reaches the caller of nested calls. It is what the outermost original
to end by itself ended with, or a fault injected into a call that every original
around it let through; only a value returned for a coroutine function that was patched
by its import becomes a TypeError.
`RefusedLeavesNoRule`: a request answered with an error changes no experiment, and
no patch either, unless it is a create that fails while beans are added: then its
target counts as loaded, and points of this target, and of no other, may be patched or queued.
`DestroyIsByName`: experiments leave only by a destroy that names them
in the words of their create, the alias or the name; and all of them do.

**host** - three parts that share no state, one at a time (`part`).
`UserLinesSurvive`: each line a user wrote is in the file, or in the hand of a detach that has
emptied it and will write it back. Excused are lines written while a command is
running or behind a hook torn by a death, those that a detach had yet to write when it died, and
those in the hand of one detach when another read the file. `HooksAreWhole`: a piece of a
hook stands behind its marker, as long as no write has gone over what another command or a
user put into a file that was just being written (`overlapped`); once one has, a "del" without its marker
may be left, which no detach finds. `PrecedenceHolds`: environment over file over default
for each setting, also where a file breaks half way. `RequestsEndFirst`: no
request runs beside remove_all or unload, however many signals arrive.
`StopEndsOrIsStuck`: a stop() that has begun ends the process, or the main thread
waits for ever for a lock it holds itself, or for a request that waits for such a
lock or for a client that stalls. These deadlocks are in the code, and the property says there are no others.

Four runs show where the code does not keep what its documentation says:

* **patch_missed_import** - a module whose import starts before its patch is queued
  and ends afterwards is never patched, although the create succeeded
  ("ImportHook automatically applies patches the first time a module is
  imported").
* **patch_survives_stop** - an import under way during stop() patches after
  remove_all ("Restore all original methods").
* **patch_zombie_hook** - find_spec puts the hook back on `sys.meta_path` after
  uninstall() ("Remove from `sys.meta_path`").
* **direct_shared_flag** - destroying one burn ends another that stays registered
  ("Destroy a single experiment by uid").

Other places where the models follow the code and its documentation says something
else, without a run of their own:

* A simple exception name has to be one of a built-in exception, any other raises
  RuntimeError (`ResolveExceptionClass`); the manual of the HTTPX plugin names
  `ConnectError` and `TimeoutException`.
* Texts are compared as a whole (`MatchesKey`); the manual of the MySQL plugin lets
  the matcher `sql` hit a statement that contains it.
* Jitter is only added (`Delay`); the manual of the Redis plugin subtracts it as well.
* A value injected into a coroutine function patched by its import becomes a
  TypeError (`Awaited`), and a SIGTERM may leave the process waiting for itself
  (`Stuck`): `CallerSeesFault` and `StopEndsOrIsStuck` name these cases and exclude all others.

### Bounds

`MaxRegistrations` = 2 bounds the StatusMetric objects ever created: two suffice
for a stale object beside its successor, and for an older rule before a
newer. `MaxHits` stops new calls once a count has reached it; it is at least the
largest limit, so limits are hit with every thread in flight.
`MaxCompareIterations` is 2, which the two registrations do not exceed.
`MaxStarts` = 2 allows a restart over what the first run left behind.
Two workers suffice for one that was given up beside a new one, and for a burn
that gets only one of the two it asked for; `MaxSize` = 2 is what they can
serve, and `Memory` = 1 makes a fill run short.
Symmetry is used for threads and uids in the safety runs only.
A count is followed up to two hits for `service`, one beyond the limits its
clients set, and two experiments live beside each other. `LongestSleep` = 5 stands
for what `time.sleep` accepts. For `host`, three commands let two race while
a third repairs, three default files put a missing and a broken one before a good one, and two
signals interrupt a stop() by another.
Deadlock is not checked for `host`, where the process exits and stop() may hang, for the patching side, which stops when every module is
imported and the starts are used up, nor for the direct executors, whose stop() is final.

### Fairness

Weak fairness of each thread inside a call (Python's scheduler; executors end,
which holds for the three the project ships), of the current
handler, of a stop() that has begun, of each import that has begun, and of
each worker that may look at its flag. At the end of the process the
HTTP thread and the main thread run on, as far as their locks let them; a client
need not send the body it has announced. Nobody has to
call, create, destroy, import, start or stop.

## 4. Proofs

All theorems hold for every value of the constants: any number of threads, uids,
registrations, models, modules, points and restarts. They assume only what the
constants' ASSUMEs say.

`ChaosAgent_proofs` shows type correctness, then `HitsInv`: `HitsAccountedFor`
alone is not inductive, because the floor in `decrease` would hide a hit taken
back twice; it needs that a call holds a metric exactly in the right steps
(`CallsInv`) and that a rule `int()` rejects never counts (`MetricsInv`). The lemmas `HoldersMove`,
`CountingMove`, `ReleaseMove`, ... say how a step moves one thread into or out of
the set of holders, which is what the cardinality in the invariant is about.
`StageInv` ties experiments, requests and ModelSpecs to the life cycle and gives
`StatusIsExact` and `UndoIsOwn`.

`ChaosAgentPlan_proofs` adds `WindowInv` (what a call has seen covers what it can
meet) and proves the refinement: every step of `Next` is a step of `FaultPlan`
or leaves its variables alone. `FaultPaidFor` is the core: a call in `running`
holds a hit, so the faults so far are below the budget.

`PatchLifecycle_proofs` proves six invariants together: `AttributesInv`
(an attribute exists exactly when the body of its module has run, and `WrappedOnce`),
`HandlerInv`, `LeftoverInv`, `QueueInv`, `PromiseInv`, `LoadedInv`.
`PromiseInv` follows a promised point through queue, batch and record;
it needs that remove_all never has on its list a point whose module is still
being imported (`PatchedIsExecuted`). `PatchRefinement` follows from the six: every step is
one of `PatchPlan` or invisible to it. `ImportImplements` uses `AttributesInv` (a
module body never runs over a wrapper, and what a loader drops is wrapped already
or can never be); `RequestImplements` uses `HandlerInv` (a request
works on beans of a loaded target, before the patches are listed); `RemoveImplements` that the record
holds the original; `StageImplements` uses `LeftoverInv` when a stop() is over.

`DirectInjection_proofs` proves `FlagInv` (flag, list and workers agree: while the
flag is set everything listed burns, while it is reset and nobody joins the list
is empty) and `FreshInv` (the workers of a fresh burn and those it has yet to start
make up what it asked for). `FreshBurnIsFull` needs both: the first says that the listed
workers burn, the second that there are enough of them.

`Service_proofs` proves every property of the run `service`, for any
applications, requests and meaning of texts.

* `CallerSeesFault` and `RefusedLeavesNoRule`. The invariant of the first has
  three parts: `PatchesOK` (a coroutine function has a synchronous wrapper only
  if it was patched late), `StackOK` (no call but the innermost is decided, by a fault
  or by an original that ended by itself) and `TopOK` (the innermost call ends with, or has got from the
  call it made, what the outermost decided call from there on was given: `EndsAs`). The third is
  what `Leave` moves from one frame to the next. `RefusedLeavesNoRule` needs that
  a create which passes its checks is answered 200 or fails in the lazy load of a
  target that is not loaded (`FailedCreate`).
* `TypeOK`, `LimitKept`, `HitsAreFaults` and `DestroyIsByName` follow from
  `TypeInvariant`. `RegisterOK`, its part about the experiments, says what none of
  the properties says: uids are unique, the model of each experiment is what
  its create parses to (`Described`), its hits are its faults and its idle
  delays, and an experiment whose limit `int()` rejects has none. `LimitKept`
  needs `LimitsReachModel`: the limit the injector reads is the one the client
  wrote, for no plugin declares it as a flag. `HitsBounded` ties the counts to
  the depth of the calls: the bound in the type invariant is not inductive without
  it, as a nested call may hit an experiment that its caller has hit.
* `FaultsAsAsked` adds `FramesAsAsked` and two facts about operators:
  `ExtractedIsTrue` (each of the seven extractors tells only facts of the call)
  and `ConditionsAreMatchers` (a parameter that is no flag and no limit is
  among the matchers of its experiment).

`Host_proofs` proves `UserLinesSurvive` and `HooksAreWhole` for any number of
commands and lines. Neither is inductive: a detach writes back what it read
long ago, and the file is empty in between. `FileOK` says that all that must survive
stands in the file outside its hooks (`Safe`), or that a detach has emptied it; `CommandOK`
that what a command has read is well formed, that it is `Safe` for a detach which has yet to write it back,
and that an attach which is to create the file, or has, has nothing to lose. `JoinedIsText` and `RestIsText` are
about a write over what others have put there. `KeptIsOutside`
says what the loop of detach computes. `PrecedenceHolds` has `ConfigInvariant`:
some number of items is applied, none of them raises, the rest is what
follows, and each setting has the value of the last of them that names it.

`SequenceLemmas` has the induction these need. The library's induction theorems
take an operator and cannot be used, but the order of the naturals is well
founded (`NatLessThanWellFounded`), and with `WFMin` a set of naturals has a
least element: `InductionUpTo` is induction for what a set holds of. A lemma about
functions, `LoopExists`, gives that a loop, written as a recursive function, is the function its
equation describes; it is a tool of the proofs about `Remove` and `Kept` and says nothing
of the program by itself. That is why `Remove` and `Kept` are recursive functions:
of `SelectSeq` and the folds nothing can be proved.

What the proofs assume of constants: `ServiceAssumption` (an application calls
something; its calls are at points some plugin patches and are `Truthful`, which
says of each kind of argument what `facts` has to contain, as the extractors
read it off the call: it defines the facts, and no extractor is mentioned in it);
`MatchingAssumption` (`int()` yields integers, and the `-regex` keys are no
matcher that a plugin declares or extracts, as in the source); `SiteAssumption` (a line of the user's
is none of the hook's); `ConfigurationAssumption` (a file is a sequence of items).

`Shutdown_proofs` proves type correctness with `OneHolder` (a lock has one holder) and
`RequestsEndFirst` for any number of signals and patches. Each frame of `stops` has to
satisfy it, since an interrupted stop() may go on at any time.

Every safety property that a run checks is a theorem. Only model-checked are the
liveness properties, which are out of the prover's reach: `StopCompletes`,
`RemovedFadesOut`, `ImportsEnd`, `StopEnds`, `RequestsEnd`, `BurnFadesOut` and
`StopEndsOrIsStuck`. The refinements are proved for safety, which is all that
`FaultPlan` and `PatchPlan` have.

## 5. Not modelled

* `BaseException`s such as SystemExit arriving inside `inject`; after-advice, which no
  plugin registers.
* A negative `effect-count`, which behaves like 0.
* HTTP itself: headers, sockets, requests that are no HTTP; logging, and the locks of its
  handlers.
* Modules that are not found, whose body raises, or that are removed from
  `sys.modules`; two points on one attribute, which no two plugins have (the order of
  remove_all would matter then).
* `ProcessKillExecutor`, which keeps no state; what a restart would do with the
  workers of an old executor. stop() leaves them burning (`Unload`).
* start, status, spec and main of `cli.py`, which parse arguments, call and print;
  the generated specification of the models.
* Entry points of other packages; the interfaces in `spi`, which are abstract; a
  second agent in one process; `DispatchService.unload`, which nothing calls.
* Custom matchers, which no plugin of the project registers, and the hooks
  pre_create and pre_destroy, which no ModelSpec has: a failing one is a failing
  create or destroy in `ChaosAgent` and `DirectInjection`.

Some hazards have no property that would catch them, with the reason in PROJECT.json. Some are in
the models, where a property names them as what the code does: a target whose
load failed and is forgotten, an import that uninstall() breaks with a ValueError or that walks past the absent
hook, the TypeError of a coroutine function, an alias that a destroy does not match, a
client that stalls the server, delays that count without waiting, a consumer's topics
joined to one text, workers that outlive stop(), a hit that is given back too late (the
limit is a maximum). Others are not: a second agent, and the cap on a delay that is
declared and never read.

## 6. Plan

1. The composition of `PatchLifecycle` with the experiments of `ChaosAgent`: a call
   reaches a wrapper only where one is. `FaultPlan` and `PatchPlan` are its
   two halves; `Service` has that composition without the interleavings.
2. An abstract specification of the direct executors, with the shared flag made
   explicit, that `DirectInjection` implements, and the proof of it.
