# Voyd: specifications, model checks and proofs

Voyd compiles to WebAssembly. Everything concurrent about a running Voyd program happens in its
JavaScript host, `packages/js-host`: runs are scheduled cooperatively on the event loop, each run
has a tree of tasks whose code calls the host and is called back by it, and capabilities such as
the HTTP server bring requests, timers and failures from outside. Two other parts are concurrent: the
language server, which analyses a project again while it is being edited, and the browser runtime
`packages/vx-dom`, which keeps a page, its listeners and the program's model in step. The compiler is
sequential, but one of its analyses is a fixed point whose result depends on an order: the inference
of effect rows. This directory specifies these parts in TLA+, checks the specifications with TLC on
small instances, and proves the most important properties of the host, of the language server, of the browser
runtime and of effect inference with TLAPS for every value of the constants.

Contents: [inventory](#inventory) · [modules](#modules) · [runs](#runs-and-bounds) ·
[fairness](#fairness) · [proofs](#proofs) · [divergences](#where-the-code-and-its-documents-differ) ·
[limits](#abstractions-and-limits) · [plan](#plan)

Paths below are relative to the repository's root; "the spec" is `docs/specs/runtime-event-loop.md`
and "the proposal" is `docs/proposals/event-loop-runs-and-tasks.md`.

## Running the checks

    tlc -workers 2 -config MCRunScheduler.cfg MCRunScheduler.tla     # and likewise each .cfg below
    tlapm RunSchedulerProofs.tla                                     # and the other proof modules

`PROJECT.json` lists the components, the runs, for every property a plausible bug that the run
would catch (`mutants`), the source lines of every definition (`map`), the hazards, and the theorems.

## Inventory

### Modelled

**Run scheduler** (`packages/js-host/src/runtime/scheduler.ts`).
*State:* the map of active runs with their status (waiting, ready, terminal), the ready queue, the
external event queue, the `pumpScheduled` and `isPumping` flags, the budget used in this tick.
*Operations:* `startRun`, the handle's `cancel`, `schedulePump`, `pump` (drain the external events,
serve ready runs up to `budgetPerTick`, drain again), the settling of a step's promise,
`finalizeRun` with the `onRunFailed` observer.
*Interactions:* it calls the run's `start()` and `step()` and the observer; all of them are foreign
code that may start and cancel runs, on this scheduler, before they return.
*Hard:* re-entrancy in the middle of a loop, promises that settle after a cancellation, coalesced
wake-ups, the budget.
*Correct when:* a live run has exactly one place (a queue, a call, or a promise) and so is stepped by
one party at a time and never forgotten; it settles once and is not stepped afterwards; the ready queue
is fair; queued work has a pump.

**Task runtime of a managed run** (`packages/js-host/src/host.ts`, `runEffectfulManaged`).
*State:* the task records (state, owner, detached, waiters, pending effect and resume value, pending
completion, claims and capabilities, observers), the run's ready queue, the resolver an idle run is
parked on, the public and the final outcome.
*Operations:* spawn, wait, yield, cancel, take_value, failure_message, any other effect with its
handler, completion and cancellation of a task, `observeTask`, `run.cancel`, and the step (`wakeRun`).
*Interactions:* the program calls the host (to spawn, cancel, take a value) and the host resumes the
program (`resume_effectful`) *inside* those calls, whenever a task that somebody waits for ends. The
scheduler steps the run and takes its outcome.
*Hard:* the call stack alternates between program and host to any depth, so that every loop of the host
may be interrupted by code that changes what it loops over; handlers' promises may settle after their
task has gone; failures of children must reach someone.
*Correct when:* continuations are resumed once; a task's end has one observer; an owner ends after its
children and not with a value over an unobserved failure; the run is not parked while it has work;
its outcome settles once.

**HTTP server capability** (`.../adapters/default/capabilities/http-server.ts`).
*State:* per server the pending responses with their watchdog timers, the accept queue, the waiting
`accept` calls, the open request bodies; in the wrapper the registered requests, the remainders of
chunks that were too long, and the bodies being read.
*Operations:* the request handler (with or without buffering the body), `accept`, `readRequest`,
`respond`, `startResponse`, `writeResponse`, `finishResponse`, `close`, the response timeout, the
client's disconnection, the server's `close` event.
*Interactions:* clients, timers, the program's tasks (several at once), run clean-up, `node:http`.
*Hard:* the same request is completed by five parties; what follows an `await` runs after any of
them; the wrapper learns of an accepted request a microtask later than the source.
*Correct when:* each request is queued, accepted and released once and in this order; whoever completes
it gives back its slot, body and queue entry; an open response always has a watchdog; bodies arrive
whole, once and in order.

**Analysis coordinator** (`packages/language-server/src/server/analysis-coordinator.ts`, with the
incremental analysis of `project.ts` and of the compiler's `modules/semantic-analysis.ts`).
*State:* the revision, the open documents, the files changed at each revision, the core and navigation
caches per package configuration, the analyses in flight, the package configurations resolved so far.
*Operations:* `updateDocument`, `removeDocument`, `handleWatchedFileChanges`, `getCoreForUri`,
`getNavigationForUri`; an analysis that begins, reads a file, fails, is cancelled, succeeds.
*Interactions:* the editor and the file watcher on one side, requests for diagnostics, definitions, renames
and completions on the other; analyses read the disk through an overlay of the open documents.
*Hard:* edits arrive while an analysis awaits its files; what an analysis reuses comes from an entry of some
older revision; closed documents and watched files get their revision only after an `await`.
*Correct when:* an answer describes the texts of the moment, whatever was reused; what a cached entry has
wrong is found again in the change history; requests end.

**VX mount** (`packages/vx-dom/src/browser.ts`, `mountRuntimeApp`; `app-runtime.ts`; the registry of
`packages/js-host/src/retained-callbacks.ts`).
*State:* the model of the program, the chain of promises that messages and releases queue on, the active
subscriptions and their listeners, delays, mappers that wait for their last use, the lists of callbacks to run
after the commands, the retained callbacks.
*Operations:* mount, dispatch of a message by the user, a listener, a runner or a command, applying a step
(frame, subscriptions, commands), `render()`, `dispose()`, failure at each of these.
*Interactions:* the program retains the callbacks of every step and the host releases them; runners of
subscriptions and executors of commands are asynchronous and may dispatch before they return.
*Hard:* a callback is released while listeners, delays and queued messages may still name it; a message that
is dispatched inside a step queues behind that step; subscriptions are replaced across awaits.
*Correct when:* what can still be called is retained, and is released once; each subscription has one listener
and the record that can dispose it; no step overwrites what another has written; messages are handled.

**VX DOM renderer** (`browser.ts`, `createVxDomRenderer`, `patchChildren` and what they call).
*State:* the current frame, the nodes in the page, the handlers of the program the page holds.
*Operations:* render, hydrate a page of the server, detach, dispose, and each of them failing half-way.
*Interactions:* frames come from the mount; the page may refuse an update; handlers belong to the program.
*Hard:* children are matched by key, by index or not at all, while the nodes move under the loop that
matches them; a refused frame must give back its own handlers and keep those it shares with the old one.
*Correct when:* the page shows the frame, the program holds its handlers and no others, and children that keep
their key keep their node.

**Effect inference** (`packages/compiler/src/semantics/typing/inference.ts`, `typing/effects.ts`,
`typing/expressions/effect-handler.ts`, `call.ts`, `lambda.ts`, `effects/effect-table.ts`).
*State:* the effect row of every signature, the rows of expressions (which outlive a pass), the functions
whose return type is not known yet, the generic bodies typed in this pass, the rows recorded for code generation.
*Operations:* the relaxed passes (`runInferencePass`), the strict pass (`runStrictTypeCheck`), typing of a
function, of an expression, of a generic body in the middle of its caller, and every diagnostic about effects.
*Interactions:* all functions of a module read each other's rows while these still change; code generation
compiles a function with an empty row as one that cannot suspend.
*Hard:* mutual recursion, handlers that raise again what they handle, callbacks whose tails stand for the
effects of whoever is passed, generic bodies that are typed only when called.
*Correct when:* the passes end; the rows are a solution; what is accepted performs what its row says and what is
rejected deserves it, in whatever order the functions stand.

### Not modelled yet

| part | state and operations | why it is hard | standing |
|---|---|---|---|
| completion cache, export index, fallback contexts of the analysis coordinator; diagnostics scheduler (`packages/language-server/src/server/`) | caches per revision, exports per file, a debounce timer | a refresh from disk racing an edit; a publication that outlives `dispose` (`diagnostics-scheduler.ts`:30) | planned first |
| run resources (`host.ts`:1122-1139, 1431-1485, 2990-2996) | pool of transport buffers, clean-ups per run | a buffer that is pooled again while late code still uses it (:2993) | planned |
| scopes of retained callbacks (`retained-callbacks.ts`:112-204) | tokens per scope, claim, dispose | a release that fails half way | planned |
| component state and render passes (`app-runtime.ts`:173-192), explicit hosts (`syncSubscriptions`), attributes, properties, text and focus of the renderer | dirty components; diffs of records | rendering repeats until no component is dirty, five times at most (:181) | planned |
| standalone detached tasks (`host.ts`:2999-3028) | a run of its own and a 60 s clean-up timer | observation racing the timer | planned |
| effect dispatch loop (`runtime/dispatch.ts`), deterministic runtime | one handler at a time; a virtual clock | order of timers and tasks | planned, small |
| of effect inference: speculative typing, several instances of a generic function, methods and overloads, rows of imported modules | scopes of rows that are undone, instance keys | an instance typed in a probe stays cached when the probe's rows are undone | planned |
| the rest of the compiler, SDK, CLI, test runner | large trees, sequential | batch transformations; nothing concurrent, inputs far too large to enumerate | left out |
| HTTP client, timers, files and other adapters | none of their own | one call, one answer | left out |
| host boundary, transports | none | pure conversions | left out |
| language server features, standard library, manuals, VS Code extension, site | none or Voyd source | what library code does to the host is modelled as the program's moves | left out |

## Modules

| module | what it is |
|---|---|
| `RunContract` | abstract: what the host promises of a run. At most one step at a time, a value only by a step, one outcome, never left |
| `RunScheduler` | `scheduler.ts`, statement by statement where foreign code can interrupt it |
| `RunSchedulerProofs` | its theorems |
| `TaskRuntime` | `runEffectfulManaged`: the tasks of one run |
| `TaskRuntimeProofs` | its theorems |
| `HttpExchange` | abstract: what a server owes a request and its client |
| `HttpServer` | the Node source and the transport-safe wrapper of one server |
| `HttpServerProofs` | its theorems |
| `AnalysisCoordinator` | the analysis cache of the language server, for one project |
| `AnalysisCoordinatorProofs` | its theorems |
| `VxMount` | `mountRuntimeApp` with the program and the callback registry behind it |
| `VxMountProofs` | its theorems |
| `VxDom` | the renderer: matching, reuse, handlers, hydration |
| `VxDomProofs` | its theorems |
| `EffectInference` | the passes of effect inference over a program of a few functions |
| `EffectInferenceProofs` | its theorems |
| `SequenceFacts` | lemmas about queues and stacks, induction up to a number, and loops as recursive functions, for the other proof modules |
| `MCRunScheduler`, `MCTaskRuntime`, `MCHttpServer`, `MCAnalysisCoordinator`, `MCVxMount`, `MCVxDom`, `MCEffectInference` | the instances TLC runs |

Operators named after a mistake (`FinalizeRunAgain`, `RoomOverrun`, ...) stand directly above the
definition they corrupt. No specification uses them; they are the bugs the properties are tried on.

### RunScheduler

JavaScript is single-threaded, so a state says who is on top of the call stack. `pump` is `off`,
`drain` (in `processExternalEvents`) or `serve` (in the ready loop); `callee` is the foreign function
the pump is calling (`step()` or `onRunFailed`), and `starts` is the stack of `start()` calls, which can
nest. A scheduler function that calls nothing foreign is one action; one that does is split at the call.
`CallStart` / `StartReturns` / `StartThrows` are `startRun`; `Cancel` is the handle's `cancel`; `PumpTask`,
`DrainEvent`, `DrainDone`, `ServeReady`, `ServeDone` walk through `pump`; `StepReturns`, `StepThrows`,
`ReportReturns` are the returns of foreign code into it, and `StepSettles` is a step's promise, which
settles between two tasks. `resolved` and `reported` record the calls of `resolveOutcome` and
`onRunFailed`, so that a second call is visible. A budget below one is normalised by the code to one;
the assumption `BudgetAssumption` says just that.

### TaskRuntime

`stack` is the chain of calls, innermost first: program segments (`vm`), effect handlers (`handler`),
and the host functions that can be interrupted by program code, each with its place in the function
(`effect`, `complete`, `settle`, `cancel`, `cancelAll`, `apply`, `owner`). Only the innermost call moves;
when the stack is empty the event loop takes a turn: a step of the run, a promise that settles, or a
call of the host. A loop over children or tasks is a frame that remembers how far it came (`from`), so
that tasks spawned by code the loop called are met, or missed, exactly as in the code. Values and error
texts are abstracted to the kind of the outcome; what a task can name is the set of handles it `knows`,
which grows by spawning; with `SharedHandles` any task may name any other, as programs that put a handle in a
`SharedCell` of the standard library can. The sink of unhandled failures (`onUnhandledTaskFailed`) is foreign code that may
cancel the run or observe tasks before it returns, as a handler may.

Two properties need a hypothesis where handles are shared, about tasks that come back after they were cancelled, which the code allows
(number 3 [below](#where-the-code-and-its-documents-differ)). `ChildrenStaySpec` is `Spec` without the steps that bring back a
cancelled child of an owner that has ended with a value (`ChildStaysCancelled`); `NothingLateSpec` is `Spec` without those
that, once the host has been told how the run ended, bring any task back or let the code of an ended task spawn
(`NothingLate`). Everything else stays: tasks that cancel themselves or are cancelled while they complete, code of ended tasks that
runs on, and tasks that come back at any other moment.

### HttpServer

One action per handler up to its first `await`, and one for what follows it. `AcceptReturns` and
`ReadReturns` are microtasks: timers and sockets (`Timeout`, `Arrive`, `Disconnect`, `ServerClosed`) wait
until none is left (`NoMicrotask`), the program's own calls do not. `record` keeps the pending response
object after it has left `pendingResponses`, because late continuations still hold a reference to it.
`client` is what the other end has seen. A body is a number of pieces of `maxChunkBytes`, and a chunk that
arrives is one or two of them, so that `remainder` is used. `streaming` is `stream_request_bodies`, chosen
in `Init`. `node:http` is external: it may refuse a head, fail a write, whether the client is gone or still waits
for its head, and emits `close` after the last connection has ended.

### AnalysisCoordinator

One action per operation up to its `await` and one for the rest: `RemoveDocument` / `DocumentRemoved`,
`WatchedFilesChange` / `WatchedFilesChanged`. `Ask` is a request from `resolveUriContext` on. An analysis is a
record in `coreInFlight` that is `starting` (it awaits the export index), then reads one file per action
and ends in `RunFails`, `RunSucceeds` or, as soon as it looks at a revision that has moved, `RunIsCancelled`.
The promises that wait for it, and the navigation index that is built from it, resolve in the same turn of the event
loop, so `Again` (the waiting requests ask once more) is part of those actions. The disk is the only asynchronous
party. A text is a value of `Text`; an entry records for each module the text it was parsed from (`graph`) and the
one its semantics were computed from (`semantics`), which differ when a graph is loaded anew and its semantics are
reused. Whether the changed modules import what they did, which decides if the graph is reused, is left open.
`Unsettled` are the files whose change on disk the watcher has not reported, or whose closing or report
still waits for the disk: of those the coordinator cannot know.

### VxMount

A process is a message, the mount's own first step (`Mount`) or one call of `render()` (`Repaint`), and `pc` says
where it is in `applyRuntimeStep`. JavaScript runs to the next await: `turn` holds the process that is between
two awaits, and nothing else moves until it awaits or ends. `chain` is the promise `queue`: steps and releases,
one at a time; the first step and `render()` are not on it, as in the code. `BeginStep` / `EndStep` are the
program's `step`, which reads the model before it awaits and writes it after; `Apply` paints; `RemoveGone`,
`Replace`, `Keep`, `Start`, `Started` are `syncRuntimeSubscriptions`, where every disposal and every start of a
runner is awaited; the commands are `message`, `delay` and `execute`. A subscription is a key and a signature.
All subscriptions of one step share the step's mapper, all its commands another; a release names the callback,
and `retained` is the registry. A runner of a key in `Eager` dispatches while it starts, one in `Deferring`
puts its first message on the list that `runCommands` runs at its end. Errors come at each call that can
throw. A frame is the set of messages its model accounts for.

### VxDom

A frame is a sequence of children with a key or none, a tag, and whether they listen; a node in the page has a
tag and the handlers that listen on it. `PatchLoop` is the loop of `patchChildren` as a function over the new
children: at each child it matches (`Match`), inserts, patches or replaces, and moves the node to its place (`Turns`,
one turn per child), and at the end the nodes nobody has used are swept away (`Sweep`).
`Render` and `Hydrate` apply a frame, or throw half-way with an arbitrary part of the page changed (`broken`).
`skewed` records that the loop has diffed a node against the description of another one, which the code can do
(see the [observations](#observations)).

### EffectInference

A program is a sequence of functions in source order, and a function the sequence of its expressions in the
order typing finishes them, operands first: `perform` an operation, `invoke` a callback, `call` a function, a
`block`, a `try` with clauses, `resume` its continuation. A lambda is represented by its body. `frames` is the
stack of bodies being typed: one, unless a call enters a generic body (`Enters`). `TypeExpression` types the
next expression of the innermost body: it computes the expression's row from the rows of its operands and
the signature of the callee *as it is now*, composes it with what earlier passes have put into the table, as
`setExprEffect` does, and only then enters a generic callee. `EndFunction` and `EndGeneric` differ as in the
code: only the first reports a new row as a change of the pass. A row is a set of operations, closed or with a
tail variable, which is named for what has created it; `Compose`, `Bindings`, `Merge` and `Apply` follow the
code, with the tails they forget. `Performed` is the reference: the least set of what functions perform, from
the program alone.

### How they fit together

`RunScheduler` implements `RunContract` whatever the steps it calls do, and `TaskRuntime` is one such run: `turn` is
what is left of the scheduler there (the run is to be stepped, parked on a promise, or settled). A step of the
run begins only when none is in progress and the run has not settled, which is what the contract promises it. So the two
are checked separately. `HttpServer`'s tasks are arbitrary:
every operation is enabled for every request whose handle the program has, in any order, so it holds
under every schedule the first two allow. `VxMount` hands its frames to the renderer that `VxDom` specifies:
to the mount a frame is painted or refused, and what the refused frame's handlers become is `VxDom`'s
`HandlersAccounted`. The program behind the mount is a run of `TaskRuntime`, of which the mount sees
one call and one answer per step. `EffectInference` stands apart: it decides which of a program's functions
may suspend in the runs the others describe.

## Runs and bounds

All passing runs are exhaustive. `CHECK_DEADLOCK FALSE` stands in every configuration because each system
really stops: runs end, tasks may wait for each other, servers close.

| run | instance | states | shows |
|---|---|---|---|
| `scheduler` | 3 runs, 2 steps per tick | 45,567 | `OneToken`, `WorkHasPump`, `SettledOnce`, `NoOvertaking`, `ContractSpec` (the scheduler implements `RunContract`), `ContractServed` (no ready run starves) |
| `tasks` | 2 tasks, shared handles | 23,685 | `OneObserver`, `OneShot`, `DetachedReported`, `OwnersComplete` (no owner waits for children that have all ended), `LateAnswersIgnored` (a task that is over stays so), `RunEnds` (a run whose tasks have ended ends), `QueuedIsPolled` (a queued task is polled) |
| `tasks_three` | 3 tasks, own handles | 3.01 million | `FailureKept` (no failure of a child is lost), `DoneMeansDone` (what the host is told is the end) |
| `http` | 2 requests, 1 slot, 1 waiter, 2 readers | 458,533 | `TypeOK`, `SlotsWatched`, `QueueLive`, `BodyOwned`, `BodyInOrder`, `ExchangeSpec` (the server implements `HttpExchange`), `EveryResponseEnds` |
| `analysis` | 1 module, 2 texts, 2 configurations, 2 requests, 2 revisions | 382,472 | `TypeOK`, `HistoryKept`, `CoreAnswersFresh`, `RequestsAnswered` (every request is answered or told of a failure) |
| `vx_mount` | 2 messages, 2 subscriptions, one failure, `render()` or `dispose()` | 1.51 million | `CallbacksOutliveUses`, `ReleasedOnce`, `OneListenerPerKey`, `SettledAsAsked`, `NoStepLost` |
| `vx_live` | the same without failures, with commands of every kind | 375,108 | `MessagesHandled`: a message is handled unless a step waits for its own |
| `vx_dom` | 3 frames of up to 3 children, 3 keys, 2 tags | 28,051 | `TypeOK`, `FrameShown`, `HandlersAccounted`, `IdentityKept` |
| `effects` | 3,584 programs of 3 or 4 functions, 2 operations | 106,629 | `RowsSolve`, `VerdictRight`, `CallbacksCovered`, `InferenceEnds` |
| `vx_message_command`, `annotations_hold`, `child_failure_lost` | as `vx_live` with one kind of command; the programs with generic functions; 2 tasks, shared handles, `Spec` | | violated: see [below](#where-the-code-and-its-documents-differ) |

The type invariants of the scheduler, the task runtime, the mount and effect inference are not among the runs' properties: they are proved.

Why these bounds suffice:

- **Scheduler.** No counter needs a bound: runs are stepped for ever and the state space is finite. Three
  runs and two steps per tick leave work over at the budget, let one run be cancelled while it is queued
  behind another, and let a `start()` nest in a `step()`. Two runs that
  keep coming back fill a tick by themselves, so the third would starve if the queue were not fair.
- **Tasks.** `MaxTasks` bounds the tasks ever spawned. Three give every shape the code distinguishes: a
  chain (a grandchild, a detached ancestor) and two siblings, attached or detached, one waiting for the
  other while the owner completes or is cancelled. Shared handles add the task that waits for or cancels itself, its owner or its own
  waiter. Two tasks are enough for that, for liveness, and for the run that fails. All the safety properties are proved for any
  `MaxTasks`, with shared handles and without; those of `tasks` hold for three tasks with their own handles under TLC as
  well. The properties of `tasks_three` do not hold with shared handles unless a hypothesis is added
  ([proofs](#proofs)); with it TLC finds no error for three tasks and shared handles either, in 21.7 million states
  (`FailureKept`, `SPECIFICATION ChildrenStaySpec`) and 20.9 million (`DoneMeansDone`, `NothingLateSpec`), each five to six minutes.
- **HTTP.** `MaxPieces` and `MaxWrites` bound body pieces and chunks. Two requests for one slot reach the limits;
  one waiter lets a request meet a waiter or find none. The requests differ on purpose: the first has a
  body of three pieces, enough for a chunk with a remainder and one more native read, and the second a
  streamed response of two chunks, enough for one write in progress when another fails. Two readers
  compete for one body. There is no symmetry, so none is declared.
- **Analysis.** `MaxRevision` bounds the changes, `MaxIncrementalRuns` is the code's own limit (100 there, 1 here, so that it
  is reached). Two revisions are enough to overtake an analysis, to join one, to reuse an entry twice with
  different changes, and to leave the entry of the other configuration behind while the history is cut. At most one event of the
  watcher, one closing per file and one unreported change per file are under way. Who waits for what does not depend on the number of
  files, so liveness needs one module only. The safety properties are proved for any modules and imports; with two modules, one of
  which imports the other (`File <- Files`, `Dependents <- Importers`, `SPECIFICATION Spec`, `SYMMETRY Symmetry`, which is sound there since
  texts, configurations and requests are only compared), TLC finds no error in 2.86 million states.
- **VX mount.** `MaxMessages` bounds the messages ever dispatched, `MaxTrouble` the failures and calls from outside. Two
  messages and the first step make three steps: one that starts a subscription, one that changes or drops it while a
  message of its listener is queued, one that brings it back. The two lists of `ChangingConfigs` differ in
  a signature and in a key; one key is eager and one deferring, so runners dispatch at every place they can.
  One trouble per behaviour reaches every error path; what two could do together after one has ended the
  application is not looked at. The theorems about the mount hold for any bounds, lists and failures.
- **VX DOM.** Three keyed children are the least with a middle one to insert before, remove and swap; two tags make
  a kept key change its element; an unkeyed child is matched by index. Three frames follow one another so
  that what one leaves behind meets the next. Keys are only compared, so the run declares them symmetric.
- **Effect inference.** Every program of three families is checked from start to end: three functions that call
  each other in any order, handle, raise again, annotate or leave their return type to be inferred; four
  functions of which two are generic, between a caller and what it calls; three functions with callbacks that
  are called, passed on, wrapped in a lambda or handled. Two operations distinguish what is handled from what is
  not. The theorem holds for all programs without generic functions.

## Fairness

- **`RunScheduler`.** Weak fairness of `PumpTask`, `Pump` and `Returns`, and of each start's return: the event loop runs
  the tasks that were queued with `scheduleTask`, and functions that were called return or throw.
  Nothing is assumed of a step's promise, which may stay pending, or of anybody starting or cancelling runs.
- **`TaskRuntime`.** Weak fairness of the step, of the host's own functions, and of the return of program segments
  and handlers: synchronous code that was called ends. Promises of handlers may stay pending for ever,
  so `RunEnds` speaks of runs whose tasks have all ended. Tasks that wait for each other park the run for
  ever; the runtime has no deadlock detection and the documents promise none.
- **`HttpServer`.** Microtasks run, and a timer that stays set fires (`WF_vars(Timeout(r))`). The watchdog is an idle
  timeout, refreshed by each read and each write that succeeds, so a client and a program that keep
  transferring may postpone it: `MaxPieces` and `MaxWrites` bound how often. With unbounded bodies
  `EveryResponseEnds` is a statement about responses that are not kept alive for ever, and the bound is its
  premise. Clients, the program, bodies and writes are not fair.
- **`AnalysisCoordinator`.** Weak fairness of each analysis by itself (`AnalysisOf(c, n)`): a read of a file ends, with
  success or not, whatever other analyses do. A single fairness of all analyses together is not enough:
  one that fails again and again could keep another from moving. Edits are not fair; `MaxRevision` ends
  them, and that is the premise of `RequestsAnswered`, since a request is preempted as long as edits arrive.
- **`VxMount`.** Weak fairness of `Machine`, the moves of the program, the runtime and its promises: runners, executors
  and timers settle in the end, each of the few processes being blocked by no other for ever. User, listeners,
  failures, `render()` and `dispose()` are not fair. A single fairness is enough, since every
  move of the machine brings a bounded number of messages closer to their end.
- **`EffectInference`.** Weak fairness of `Next`: the compiler is a sequential loop, which goes on while it can.

## Proofs

The theorems hold for every value of the constants that satisfies the named assumptions of the modules:
any set of runs, any budget of at least one step, any number of tasks, any limits of the server
(`BudgetAssumption`, `TaskAssumption`, `HttpAssumption`; `Run`, `Request` and `Reader` may even be infinite); any project,
texts, configurations and requests of the language server (`AnalysisAssumption`: each file is
among its own dependents); any number
of messages and failures, any subscription lists and commands (`BoundsAreNatural`, `ConfigsAreLists`); any frames;
any programs whose expressions come after their operands and whose calls name functions of the
program (`ProgramsAreOrdered`), with names that binding has resolved, an argument for each parameter
and a handler for each continuation (`ProgramsAreResolved`): the compiler types only what binding has accepted; and finitely many
effect operations (`OperationsAreFinite`). Nothing else is assumed, but for the three theorems about the callbacks of the mount, which have
`KeysAreIdentities` as a hypothesis: entries of one list that share a key describe the same listener. The documentation asks
it of programs (`vx.md`:598), `NamedListeners` has TLC evaluate it for the lists of the runs, and without it the
statements are false (see the [observations](#observations)).

**Run scheduler.** `TypeCorrect` and `NoLostWakeup` need no strengthening: `TypeOK` and `WorkHasPump` (with
`TypeOK`) are inductive. For `SettlesOnce` and `SettledRunsRest` the invariant is `SettledInv == TypeOK /\ SettledOnce
/\ Known`, where `Known` says that the calls in progress are of runs that were started: without it the
return of a call could settle a run that was never in the map. `OneTokenAlways` takes
`TokenInv == SettledInv /\ NoRepeats /\ \A r : TokenOf(r)`: the queues have no repetitions and each run has its
token exactly where its status says, which is what makes the counting of `OneToken` inductive. From
`TokenInv` follow `ServedInOrder` (nobody enters the ready queue before a run that waits in it) and the
refinement `KeepsContract`: each action maps to a step of `RunContract` or to a stutter, and the case that needs
the invariant is the run that is cancelled while a step of it is on the stack or pending.

**Task runtime.** `TypeCorrect` is more than types: `Typed(n)` says that every id held in a record, in the
ready queue or in a call in progress is one of the `n` tasks there are, so no lookup fails however many
tasks are spawned in the middle of a loop, and that a terminal task has an outcome. `OneObserverAlways`
uses it with `Claims`, which ties the capability claim of a task to its waiters and its observer.

`OneShotAlways` rests on one thread of control: `Threads` says that the code of a task is in one place at most, a call in
progress, the ready queue, a handler's promise, or the waiters of one other task, and `Requests` that a task among
somebody's waiters has its request. Neither is inductive without the other, because what resumes a
waiter takes it out of one place and puts it in the next in the middle of a loop over waiters, with program code
in between. A task of which there is no thread is `Gone`: it never acts again.

`DetachedAlwaysReported` follows the records instead of the stack: `RecordsLast` says what a step can do to the record of
another task (nothing that undoes an observation, a claim or a report), and `Told` that a detached failure has been reported,
has been seen, or is about to be reported by the call that ended the task (`Settling`). It holds
with ends that change, too: each end is reported anew.

`LateAnswersAlwaysIgnored` follows from what a step can do to the state of a task (`StatesStay`): only a call in progress of the
task's own code, or the end of a task it waits for, brings it back. `Due` says what lets a step make a call: none of it
holds of the code of a task that is over, so a late answer finds it terminal, in `applyContinuation` as in `completeTask`. `OwnersAlwaysComplete` has the
invariant `Completed`: a task that waits for its children has one that lives, or one whose end has still to be told (`Telling`, a call
on the stack), or `maybeCompleteOwner` of it is about to run; so with an empty stack it has one that lives.

`FailureAlwaysKept` is a theorem of `ChildrenStaySpec`. A task that has ended by itself stays ended (`EndStays`) and is gone
(`EndedGone`), whatever comes back elsewhere, so it spawns nothing; only cancelled tasks come back. `ChildrenDone` then holds: an owner
that has ended with a value has only children that have ended, and none of which a failure was overlooked. A completing task
whose cancellation overwrites its end (see the [observations](#observations)) is no exception: the statement is about what the record keeps.

`DoneAlwaysMeansDone` is a theorem of `NothingLateSpec`: `Done` says that once the host has been told, nothing blocks the root, and
after the last step nothing lives; `RootApart`, that nothing but the host cancels the root. That descendants of a detached task do not block is kept because ownership is fixed at the spawn
(`AncestorStays`, `AncestorInherited`).

Both hypotheses are needed, each conjunct of them, since TLC refutes the statements without it: `FailureKept` by `child_failure_lost`;
`DoneMeansDone` of `Spec` with two tasks and shared handles, where a detached task cancels itself, the final outcome is set, and the task
yields and is queued again; and with three and shared handles, where the code of a cancelled task spawns after the host has been told.

**HTTP server.** `SlotsAlwaysWatched` and `BodiesAlwaysOwned` share the invariant `SlotInv`: `SlotsWatched` and
`BodyOwned`, the types of the records, that a failed write has completed its response, and that a request in
`pendingResponses` is past its upload. The last is what shows that registering a request never collides with
a slot that exists, and the one before it that `finishResponse` after a failed write leaves no body behind.
A step that touches one request disturbs no other (lemma `OneRequest`), so there is one lemma per handler.
`TypeCorrect` adds `Carried`, the types of what the queues, the wrapper and the reads carry, with their limits.
`OrderInv` adds the place of each request: `Lines` (the accept queue has no repetitions, requests wait only
while no accept does) and `Place`, which says for each stage of a request where it is, and that it is nowhere else. `QueueAlwaysLive` and the
refinement `KeepsExchange` follow from it: the stage `PhaseOf` of a request in `HttpExchange` moves as that
specification says, or not at all. `BodiesInOrder` has the invariant `Body`: one task at most reads a body, there is no remainder
meanwhile, and the chunk that is on its way, or else the remainder, follows what the program has got and ends with what the client
has sent.

**Analysis coordinator.** `TypeCorrect` needs `Books`, the types with two facts about what is under way: every change that
has begun can still be given its revision (`Bounded`), and an analysis has read, or will read, every file or all that the
entry it starts from has wrong (`Formed`). For `HistoryAlwaysKept` the invariant is `CacheInv`: what an entry has wrong of a
settled file has been registered after the entry's revision and is still in the history (`Accounted`); an analysis that has not
begun, and is not stale, starts from the entry that the cache still holds; one that has begun has read right, and has from its
entry right, what it does not analyse again (`Fresh`); and there is one analysis of a context and a revision at a time.
The second is the one that pruning needs, since it looks only at the cache and not at the analyses in flight.
`AnswersAlwaysFresh` follows from the same invariant: of an entry of the current revision nothing has been registered since.

**VX DOM.** `HandlersAlwaysAccounted`: `HandlersAccounted` alone is not inductive, since the renderer releases what it
believes it has retained. The invariant `Agreed` adds that its own record, the program's registry and the handlers of
the current frame are one set. It is preserved because a refused frame gives back exactly what it alone has introduced.

`FrameAlwaysShown`, `IdentityAlwaysKept` and `DomTypesHold` are about the loop of `patchChildren`, which is a recursive function,
and so need induction. The library's induction theorems take a formula as a parameter, which the installed provers cannot
instantiate; `SequenceFacts` states induction for sets instead (`UpTo`: a set that contains 0 and with each number its successor
contains all up to `n`), derives it from the well-foundedness of the naturals, and shows that a loop given by its step is the
function it seems to be (`LoopExists`, and of the model's loop `LoopIs`). The loop invariant has three parts, each kept by one turn whatever
`Match` has found (`Put` is what a turn does to the nodes): `Shaped`, no node is twice in the page, the used ones are those at
the places the loop has passed, and the others are as they were; `Shows`, the used ones show the new children, while nothing is skewed;
`Keeps`, the children that keep their key have their node. The sweep takes what is not used, which is then all that follows
the last place (`SweptIs`). Between frames the invariant is `DomInv`: the types, `FrameShown`, that keys are not repeated, and that a page which is new
listens to nothing.

**VX mount.** `AlwaysTypeOK` needs `Typed`: where each process can be, which callbacks a step owns, that a list being
worked off is part of one the program returned. For `EveryStepCounts` the invariant is `InOrder`: at most one message of
the chain is past its turn, it is the head's, its model is up to date with the program's from the moment it was
read, and whatever is behind it has written nothing yet; `early` excuses the one overlap there is, of the
first step with a message dispatched meanwhile, and even then nothing written is lost. `OneListenerAlways` builds on it:
`Solo` says that listeners of a key are numbered by the step that started them and never meet, and `Known` that each is
on record or on its way to it, which holds because only one step at a time brings subscriptions in line.

`CallbacksAlwaysOutlive` and `ReleasedOnceAlways` have one invariant, since either needs the other: a callback released twice would
have been missing in between. `Safely` adds to the three above `Held`, as long as nothing overlapped the first step and the
application is not disposed. It begins with the releases under way (`Dues`): each is of a callback that is retained, none is
due twice, and what a message comes through is not released before its turn. A callback that is retained and not yet due is `Good`,
and there is a conjunct for each user of one: the frame in the page or about to be (`Painted`), the mapper of a step that has still
to bring its list in line (`Wished`), the records (`Mapped`), a disposal under way (`Dropping`), and the commands and
delays (`Lifted`); a step that has not begun has none (`Unborn`). The case with an argument of its own is a record that the current step has already
taken over. When a later entry has another signature, `Replace` disposes it, and with the last record of a mapper the mapper goes; so the record
must fit what the step has still to do (`Fits`), and that is where `KeysAreIdentities` is used.

`SettledAlwaysAsAsked` is the other direction, that nothing is kept for longer. `Settling` says that what a step has brought in line is on record as
it described it, and the rest is in `todo` (`Asking`); that between steps the records are the last list (`Answered`); that each record has its
listener (`Heard`); and, unless a step has failed, that each good callback is one somebody needs (`Counted`, `Needs`). When all is quiet the only needs left are those of the page and of the records.

**Effect inference.** `RowsAlwaysSolve`. The invariant is `Solves`: in a relaxed pass that has changed nothing yet, every
expression typed in it is settled (typing it again would find nothing new and report nothing), so when such a
pass ends all are; in the strict pass everything is settled from the start, hence nothing moves and the rows are
recorded as they are. The step that needs an argument is `TypeExpression`: it changes the row of one expression, on
which no settled one depends, because operands precede what they are operands of (`ProgramsAreOrdered`, lemma
`ContributionKept`), and which is settled itself afterwards, because composing twice is composing once
(`ComposeAbsorbs`). The theorem stops at generic functions for a reason: with them the statement is false
(number 2 [below](#where-the-code-and-its-documents-differ)).

`RowTypesHold` is for all programs, generic functions included. What an expression contributes is a row (`ContributionRow`), which
takes induction again for the two folds over operands and arguments (`ComposeAllIs`, `MergeAllSubstitution`). The invariant `RowTypes` adds
`Nested`: only the outermost body is of a function that the pass itself came to, so when its end moves the pass on, no body is left open.

`VerdictAlwaysRight` and `CallbacksAlwaysCovered` compare the rows with `Performed`, what the functions of the program do. Two facts
make that reference usable. What an expression performs is defined by recursion over operands, which come first, so the recursion has one solution
(`RecursionExists`, `PerformsIs`); and the rounds end at a fixed point: an operation that nobody new performs in one round nobody new ever
performs, and there are only as many rounds as situations (`PerformedClosed`, by cardinality). The invariant is
`Claims`, whose parts are the directions of the statements:

- *No row claims too much.* In a program without callbacks every row and every expression names only operations that are performed
  (`RowsSound`): they start empty or as declared, and what typing adds is performed if the operands' rows are (`ContributionSound`). This
  holds in the middle of a pass and for generic functions, too. It makes every refusal just: an operation outside the annotation
  is performed (`UnacceptedWrong`), and so is the one that a handler leaves out (`RefusedWrong`).
- *Tails stand for callbacks.* In a `Simple` program the row of a function or of one of its expressions has no tail or that of the
  function's own callback, with the operations the callback declares (`TailsOwn`).
- *No row claims too little.* This is no invariant, since a pass that has just begun has empty rows; it follows once the rows solve the
  equations, from `RowsSolve` and `TailsOwn` (`DoneIsSolved`): by induction over rounds (`RoundBound`) and, inside a
  round, over operands (`EffectsBound`), what is performed is within the row or by a callback it has a tail for. The case
  with an argument is the call that passes a callback on, where the substitution has to name what the callback of the callee does (`CallBounds`).
  Without callbacks that is the rest of `VerdictRight` (`SolvedRight`), with them it is `CallbacksCovered` (`SolvedCovers`).

Generic functions are excluded from the last part only, as in the properties.

**Checked by TLC only.** Liveness and everything about `ENABLED` (`ContractServed`, `RunEnds`, `QueuedIsPolled`,
`EveryResponseEnds`, `RequestsAnswered`, `MessagesHandled`, `InferenceEnds`), which the installed provers do not support. All invariants and action properties of the
passing runs are theorems. The observations below are TLC's.

## Where the code and its documents differ

Each is a run whose one property states the quoted sentence, and TLC's counterexample is a behaviour of
the code.

1. **A message command can stop an application** (`vx_message_command`; `browser.ts`:1806). The command awaits
   `dispatchQueued`, which puts its message behind the current item of the chain; when the step that returned
   the command is itself that item, each waits for the other, and no message is handled again. Only commands
   of `init`, which is not on the chain, get through. `packages/reference/docs/vx.md`:405: "Return commands from
   `init` or `step`"; `packages/std/src/vx/command.voyd`:60: "Creates a command that dispatches a typed application message."
   `MessagesHandled` is what holds: nothing else stops the chain.
2. **A function declared pure can perform effects** (`annotations_hold`; `call.ts`:6508). The row of a generic body is
   written into its signature without telling the pass that something has changed, and a call takes its callee's
   row (:6013) before the body is typed (:6113). With `outer(): ()` before `caller()` before a generic `lift` that performs an
   operation, and no return type to infer, one relaxed pass is all there is, and the strict pass checks `outer`
   against the still empty row of `caller`. A chain of two generic functions even leaves `caller` recorded as pure.
   `packages/reference/docs/types/effects.md`:186: "When a functions effects are explicitly annotated, voyd will automatically error
   if any additional unhandled effects are forwarded from the function." `RowsSolve` and `VerdictRight` hold without generic functions.
3. **The failure of a child can be lost** (`child_failure_lost`; `host.ts`:2821). When the code of a task has its own task cancelled (by a
   handle it found in a shared cell, or by cancelling one whose waiter cancels it), the task ends, and an owner that has returned
   completes with its value. The code goes on, and when its next effect is handled by a promise the task becomes `"waiting"` again,
   because the state is written without another look (likewise :2734 and :2744). The promise's rejection (:2847) then
   finds a task that is not terminal, and `completeTask` (:2435-2441) fails it: a failed child that nobody has observed, of an owner
   that ended with a value. The proposal, :618: "Unobserved failure of an attached child must fail its owner before the owner can
   complete successfully"; :609: "Cancellation is terminal and idempotent." A cancelled task comes back in other ways, too: when its code
   cancels it and then waits for another task or yields (:2734, :2744), when it does so in the segment that a handler's answer resumes
   (:2576), and when it is cancelled by code that is resumed while `completeTask`, failing the task, cancels its
   children (:2443-2468). `FailureAlwaysKept` shows that a failure is lost only when a cancelled child of an owner that has ended with a
   value comes back in one of these.

### Observations

More of this kind was met while modelling. Where a definition is named it is in the module, and the named configuration shows the
behaviour when the definition takes the place of its properties.

- **A handler can undo its task's end, too** (`CancelledIsTerminal`, `MCTaskRuntime.cfg`; `host.ts`:2821): one that cancels its own run and then
  returns a promise leaves its task `"waiting"`, and the rejection completes the cancelled task as failed.
- **A completing task that is cancelled ends twice** (`CancelledIsTerminal`, `MCTaskRuntime.cfg`; `host.ts`:1990). A completing task has a live child, so
  `cancelTaskById` cancels that child first, and its end completes the owner (:2256-2258, :2352-2377), with a value or a failure,
  of which its waiter, its observer, the sink and its own owner are told; then :1991-1998 write `"cancelled"` over it. It takes no shared
  handle and no handler: `task::cancel` of a completing task, the failure of its owner, or `run.cancel` is enough. `FailureKept` and
  `DoneMeansDone` hold all the same, but whoever was told first was told of another end than the record keeps.
- **Code of an ended task runs** (`EndedStaysSilent`, `MCTaskRuntime.cfg`; `host.ts`:2002). `run.cancel` ends the root first; when it comes to
  the detached task the root was waiting for, `cancelTaskById` resumes the root's code, and checks its state only
  afterwards. The proposal, :612: "Late completions for cancelled tasks must be ignored."
- **A waiter that traps is stranded** (`NobodyStranded`, `MCTaskRuntime.cfg`; `host.ts`:2014). If a waiter traps when it is told that the task it
  awaited was cancelled, the error is swallowed and it stays `"waiting"`; `completeTask` fails such a waiter (:2484). The proposal,
  :593: "A task runs until return, failure, cancellation, or suspension."
- **A client can be left without an answer or a watchdog** (`WaitingIsWatched`, `MCHttpServer.cfg`; `http-server.ts`:1248). `respond` releases the
  slot and the timer before it writes the head, and `node:http` throws for a malformed one; a `writeResponse` that fails
  before the head is out clears the timer as well (:1289). The spec, :275: "Accepted requests not started
  before `response_timeout_millis` receive a host-managed `500` and are released."
- **A failed write can hold its slot for ever** (`StalledIsReleased`, `MCHttpServer.cfg`; `http-server.ts`:1289). It clears the timeout and leaves the
  response pending until `finish_response`, which a program that trapped never calls. `packages/std/src/http/server.voyd`:30: "Maximum idle time
  before an unanswered or stalled response is released." `SlotsWatched` and `BodyOwned` say what does hold: a completed
  response keeps its slot only after a failed write.
- Also in the server: with buffered bodies the pending requests may exceed `max_pending_requests`, which is compared
  before the body is read; a buffered body that finishes after `close` registers a request that only the watchdog
  ends; the wrapper may keep the registration of a request that is accepted while the server closes; a read
  served from the remainder does not refresh the watchdog.
- **Navigation answers with positions of an older text** (`NavigationAnswersFresh`, `MCAnalysisCoordinator.cfg` with `Files` and `Importers`, `Kind = {"core",
  "navigation"}`, one context, one request and `MaxIncrementalRuns = 2`; `analysis-coordinator.ts`:851). `getNavigationForContext` builds the index of the modules that the last core analysis recomputed,
  and takes the others from the index in its cache, of whatever revision that is; the result is cached as current. The method returns an
  index only `if (runRevision === this.#revision)` (:403). Core answers are right (`CoreAnswersFresh`): their merge goes
  through the change history. A request that is preempted by a change of `package.json` asks again in the configuration it
  had resolved before.
- **Keys do not keep identity on insertion** (`KeysKeepIdentity`, `MCVxDom.cfg`; `browser.ts`:884). A keyed child without a counterpart in the old
  frame takes the node at its index, whatever key that was rendered for; from `[a]` to `[b, a]`, `b` gets `a`'s node and `a` a new one.
  `packages/reference/docs/vx.md`:241: "Keys preserve DOM and component identity when items are inserted, removed, or reordered." `IdentityKept` is what holds.
- **A page may show something else than its frame** (`FrameShown` without `Whole`; `browser.ts`:894). From the same lines: after such a
  theft a node is diffed against the description of another (`[a, b]` to `[b, c]`: `c` gets the node of `a`, diffed against `b`), and
  what only `a` listened to stays on it. `FrameShown` and `IdentityKept` speak of the pages to which this has not happened
  (`skewed`), so they do not guard against it. And `replaceChild` on a detached node throws when a new key comes before a kept one
  whose tag changes.
- **An application that is disposed may keep listeners** (`DisposedIsSilent`, `MCVxMount.cfg` with `SharedConfigs` and three keys; `browser.ts`:3031-3039).
  The record is cleared before the disposals, so a mapper shared by three subscriptions is released more than once, the
  registry's error ends the loop, and what is left keeps its listeners. `vx.md`:624: "The runtime cleans up timers and browser listeners when a
  subscription disappears or the app is disposed."
- **Two subscriptions of one step under one key** release the mapper they share (`CallbacksOutliveUses`, `MCVxMount.cfg` with a list of two entries of one
  key and different signatures; `browser.ts`:2992-3004). The second entry replaces what the first has just started; no other record holds the
  mapper at that moment, so it is queued for release, and the listener started next reports to it. `vx.md`:598
  excludes it: "Every subscription needs stable identity. Use a key that names the logical listener". `KeysAreIdentities` is that sentence.
- **A message during `init`** overlaps the first step's own synchronisation (`early` in `VxMount`): a key may be started twice. A `render()`
  that is not queued may paint a frame older than the one in the page (:668-671).
- **Effect rows that are too small** (the conjuncts of `Simple`, dropped one by one, show them in `CallbacksCovered`). Composition keeps only the left of
  two tails, while `docs/proposals/effect-table.md`:124 speaks of "a combined row that includes all operations of both operands"; a function annotated
  with a closed row may call an open callback, whose tail is forgotten by `constrain`; a function annotated `(open)` gets a tail that its
  callers never bind; an open callback that is passed on where another row is expected gets a fresh tail, or none, and its own effects are lost.
- In the other direction, a `try` over a row with a tail is not checked for unhandled operations, and a lambda that calls a function whose row is
  still empty is refused for a callback that requires an operation of it.

## Abstractions and limits

- **Run scheduler:** nothing is left out but the values of outcomes.
- **Task runtime:** values, frames and transport buffers are not represented, nor are errors of the
  boundary itself (a malformed frame). An effect handler is any host code: it may cancel the run, observe
  tasks, throw, return at once or return a promise. A program segment is any code: it may spawn, cancel and
  take values as often as the bound allows, and end in any way.
- **HTTP server:** one server; its id, generations and payloads are not represented, since a request has one
  identity for ever and ids are never reused. Requests that arrive on kept-alive connections after
  `close`, the Web source for Deno and Bun (`http-server.ts`:1353-1645, a near copy of the Node source), and
  listening errors are left out. Whether `node:http` accepts a head is nondeterministic.
- **Analysis coordinator:** one project and one entry file; files come and go only as texts, so a module's
  imports are fixed (`Dependents`) and the incremental analysis may still be told to load the whole graph. The
  completion cache (:422-550), which merges like the navigation cache, the export index, and the fallback context for
  files outside the module graph (:596-609) are left out. `RunFails` stands for any error of a read.
- **VX mount:** which runner or executor it is matters only for when it dispatches. Subscriptions of one step share a mapper and
  its commands another, as `owned` mappers do; explicit hosts, component state and the interplay of `render()` with the list of
  callbacks after commands are left out. A frame is the messages it shows.
- **VX DOM:** one level of children, since children of children are patched by the same functions on their own nodes. Attributes,
  properties, styles, text and focus are left out; listeners stand for what is diffed by name.
- **Effect inference:** one module, each generic function at one type. Module lets, methods, overloads, default arguments, `finally` (composed as a
  block is), effect arguments and rigid tails are left out, as are speculative typing and the index of generic calls, which undo what
  they do to rows. A diagnostic ends the compilation, as `emitDiagnostic` throws.

## Plan

1. The rest of the language server: the completion cache and the export index in `AnalysisCoordinator` (a document
   that is reopened while its closing waits for the disk), `DiagnosticsScheduler` with the publication loop, and
   what the navigation cache does keep.
2. `RunResources` and `CallbackScopes`: ownership of buffers and callback tokens over the ends of
   `TaskRuntime`; theorem: a buffer is owned by one run at a time.
3. Component state with its render passes on top of `VxMount`; explicit hosts; nested children and attributes in `VxDom`.
4. In `EffectInference` speculative typing with its scopes of rows, instances of a generic function at several types, and the
   rows of imported modules (`linking.ts`); the dispatch loop, standalone tasks and the Web HTTP source in the host.
5. Proofs: with generic functions, what does hold of their rows after the strict pass; with several callbacks, the part of
   `CallbacksCovered` that composition leaves intact.
