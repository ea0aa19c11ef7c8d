# Formal models of fulcro

TLA+ models of the packages of fulcro, with TLC configurations that check them
on small instances and TLAPS proofs of what matters most for every instance.
Sources are named relative to `src/packages/`.

`PROJECT.json` maps every definition to the lines it models, names the property
and the mutant behind each check, and lists the hazards the properties are for.

## 1. The system and its parts

fulcro is a set of TypeScript packages: run-time libraries, and compiler plugins
that rewrite calls of these libraries from the types of their arguments.

### parallel

| part | state | operations | talks to |
|---|---|---|---|
| worker pool, `pool/index.ts` | the promise of the current set of workers, the sets being retired, the chain of runs, `closed`; per worker `busyWith` and `alive`; per run what it handed out, got and failed with | `map`, `stream`, the consumer's `next` and `return`, abort of a run's signal, `close` | its workers by messages and events |
| worker script, `worker/entry.ts` | the loaded task, the message in hand | load, run a task, reply | the pool |
| backends, `backend/node.ts`, `backend/browser.ts` | the listeners on a thread | `post`, `listen`, `terminate` | the platform's threads |
| task scope, `task/index.ts`, `task/queue.ts` | the counts of running and outstanding tasks, the waiting queue and its head, the first failure and whether it was reported, `closed` | `spawn`, `cancel` of a task or scope, `join`, async dispose | cancellation |
| cancellation, `cancellation/index.ts` | per source its signal, handlers and the source it follows; one module-level queue of propagations | `cancel`, `onCancelled`, release, `dispose`, creation under a parent | handlers, which may call anything |

*Hard:* every await is a place where another run, an abort, a `close` or a
worker's death may come; events and replies arrive in queues; a worker dies or
fails to load at any time; termination takes time; a handler re-enters the
operation that called it.
*Right when:* runs are served one at a time in order; a result reaches the run
that asked for it; no run waits for something that cannot come; a closed pool
has no thread and starts none; a scope honours its limit, outlives its tasks,
and reports its first failure exactly to those who must hear; a cancellation
reaches all that follow.

### collections

| part | state | operations |
|---|---|---|
| concurrent mapping, `functions/concurrency` | what was pulled, what runs, what has arrived, the first failure, a parked loop | the consumer's `next`/`return`, the source's and the selectors' answers |
| sequences and async sequences, `collections` | a generator's locals: windows, sets of keys seen, buffers for sorting; of a memoized one a cache and an iterator shared by its traversals | the operators, one pull at a time |
| ranking, `functions/ranking` | a heap of the best `count` elements | `offer`, `drain` |
| transformer | none | rewrites `cast<T>()` and `ofType<T>()` |

*Hard:* selectors settle in any order while the source is pulled and the
consumer is slow or leaves; a loop parks on a promise somebody must resolve; an
operator must give the same whether its source is empty, shorter than a count,
full of equal keys or endless; a signal is aborted between two elements.
*Right when:* results come in the promised order, within the promised buffer,
once; the traversal ends and nothing is left running; every operator gives the
elements its definition names, holding and asking for no more than it must.

### memory

| part | state | operations |
|---|---|---|
| pool allocator | the free list, each block's generation | `allocate`, `deallocate`, dispose |
| stack allocator | the frames open, their marks, the offset | `allocate`, `enter`, leaving a frame |
| managed allocator | a lazily made region, the frames and their marks, the size ever wanted | `allocate`, `enter`, leaving a frame in any order |
| arena and fixed buffer allocators | an offset (and chunks), a generation | `allocate`, `reset` |
| ownership, borrows, views, pointers | per storage its owner, a generation, whether the borrow is exclusive; per view what it was cut from | `own`, `move`, `borrow`, `borrowMutable`, dispose, `subview`, access |
| linear memory, native pointers, storages | a view of a buffer that growing detaches | access, growth |
| transformer: flow walk and ownership rules | facts along the paths of a program | one pass over a syntax tree |

*Hard:* bytes are handed to a new holder while the old holder still has a
handle; disposals repeat and come in any order; a buffer is replaced under a
pointer; analysis must take every path the program can take.
*Right when:* no byte belongs to two live allocations, nothing is lost, a dead
handle stays dead, an access reaches the bytes it names or is refused, the
analysis reports what some path misuses and nothing else.

### types

| part | operations |
|---|---|
| integers, `integer`, `bigInteger` | arithmetic of fixed width in three overflow policies, carried by a number or a bigint, shifts, casts, powers, roots, bytes |
| fractions, decimals, floats | exact, or rounded once; parsing, printing, bits |
| vectors, matrices, complex numbers, quaternions | componentwise and products |
| structs, `struct` | layout, views over bytes, nesting; the same arithmetic at the level of types |

*Hard:* the ends of ranges, minus one times the minimum, shifts by the width,
ties, subnormals, exponents at their limits, padding.
*Right when:* a result is the mathematical one, rounded once, or the refusal
that is due; what is written is read back.

### transform-core, reflect, functions, errors

| part | state | operations |
|---|---|---|
| program host, `transform-core/src/program` | overlays, versions, a cached program | a file handed over by a bundler, edits on the disk |
| driver, `transform-core/src/transformer` | the refusals of a file | analysis, rewriting, one report |
| tests and explanations from types, `transform-core/src/structural` | the names of the functions made for recursive types | `is`, `as`, `ofType`, `cast` |
| `reflect` | none | `constantOf`, `defaultOf`, `keysOf`, `pathsOf`, `sizeOf`, `alignOf`, `layoutOf`, `offsetOf`, `typeOf`, `nameOf`, `pathOf` |
| `functions` | of `createEquals` the pairs being compared | deep equality with rules; small helpers |
| `errors` | none | construction of errors from a catalog |

*Hard:* a program kept over edits; recursive types; constants that read each
other; values that contain themselves.
*Right when:* what is transformed is what was handed over; a test says yes to
the values of its type and to no other; a constant computed early is the value
it would have had; equality is an equivalence.

## 2. The modules

| module | models | runs |
|---|---|---|
| `WorkerPool` | pool, worker script, both backends | `pool_node`, `pool_live`, `pool_exit_zero_hang` |
| `RunQueue` | what the pool promises of its runs | as the property `ImplementsRunQueue` |
| `TaskScope` | task scope and queue | `task_scope` |
| `Cancellation` | cancellation sources and tokens | `cancellation` |
| `MapConcurrent` | `mapConcurrent` | `map_concurrent` |
| `Allocator` | the contract in `allocator/index.ts` | as the properties `ImplementsAllocator`, `OthersImplementAllocator` |
| `PoolAllocator`, `StackAllocator`, `ManagedAllocator`, `ArenaAllocator`, `FixedBufferAllocator`, over `Bump` | the five strategies | `allocators` |
| `Ownership`, `Views`, `NativeMemory` | handles and borrows; views and pointers; typed pointers over bytes that move | `memory` |
| `SyncSequences`, `AsyncSequences`, over `Ranking` | every operator, as what its generator does with an element | `sequences` |
| `SequenceMeanings` | what every operator means, of its source as a whole | the reference of `sequences` |
| `Traversal` | pipelines of operators being pulled | `sequences` |
| `Memoized` | a memoized sequence and its traversals | `sequences` |
| `IntegerTypes`, `Composites`, `Decimals`, `Floats` | the numeric types | `values` |
| `Calculator` | a program that computes with one of them; then, as their reference, what the operations mean | `values` |
| `Structs` | structs, and the arithmetic of their types | `values` |
| `ObjectGraphs` | deep equality; the literals `constantOf` writes | `values` |
| `FlowWalk` | the flow walk and the ownership rules; then, as their reference, the paths code can take | `compiler` |
| `StructuralTests`, `Explanations` | tests, explanations, defaults and paths written from types; then, as their reference, which values are of a type | `compiler` |
| `ConstantEvaluation` | `constantOf`: proof, assembly, evaluation | `compiler` |
| `ProgramHost` | overlays, versions, program, driver | `compiler`, `stale_program` |

`WorkerPoolProofs`, `TaskScopeProofs` and `CancellationProofs` hold the proofs
about the modules they are named for, `CollectionProofs` those about
`MapConcurrent`, `SequenceProofs` those about `MCSequences`, `AllocatorProofs` those
about the contract and its strategies, and `MemoryProofs` those about `Ownership`,
`Views` and `NativeMemory`; `ProgramHost` ends with its own.
`MCWorkerPool`, `MCAllocators`, `MCMemory`, `MCSequences`,
`MCValues` and `MCCompiler` put modules side by side and give TLC their
constants; the initial state picks the one that moves, and what is not looked at
stands still.

### WorkerPool

One step is one stretch of JavaScript between two awaits, or one thing a
thread does.  A run starts at most one set of workers, so a set is named by the
run that started it.  The correspondence:

* `pc[r]` is the await run `r` is suspended at: in the chain (`queued`), in
  `ready()` (`awaitMembers`, `awaitRetire`, `awaitStart`), in the loop of
  `run()` (`parked`, `woken`, `yielded`), in its `finally` (`cleanup`).
* `Call`, `CalledOff`, `Release` are `process()` with `turnAfter`; `TakeTurn`,
  `MembersReady`, `Retired`, `Started` the segments of `ready()`; `Enter` the
  prologue of `run()` with its first `dispatch`; `Resume`, `Pull`, `Return`,
  `CleanedUp` the rest of it; `Abort` the signal's listener.
* `Hand` is the body of `dispatch()`, which marks a member busy before it posts to
  it; in `PostThrows` a post throws in the middle of it, nothing is undone, and the
  `finally` block (`Leave`) decides by what is marked.
* `SpawnSome`/`SpawnAll`, `StartFulfils`, `StartFails`, `StartRejects`,
  `RetireWith`, `RetireSettles` are `start()`, `enlist()`, `retire()`; `Close`,
  `CloseStarted`, `CloseTerminated`, `CloseSettles` are `close()`.
* `ThreadLoads`, `ThreadAnswers` are the worker script; `ThreadDies`,
  `ThreadExitsZero`, `ThreadStops`, `Deliver` the thread under the backend.
  `mail` holds what a thread sent and the pool has not heard; delivery goes to
  every listener the code has registered at that moment.
* `Faults` says what may go wrong in a run of TLC.  A message carries, besides
  the position the code sends, the run it was posted for, which only the
  properties read.

Values, transfer lists and error texts are abstracted away.

### TaskScope, Cancellation, MapConcurrent

`TaskScope` has one step per synchronous call (`Spawn`, `CancelTask`,
`CancelScope`, `Join`, `Dispose`) and per promise reaction.  `Finish` does
everything the code does when a task ends: it starts the next and counts the
task out, which may wake the wait that `End` (the code's `end`) parked.  The queue is the array of `queue.ts` with its head and its
cut; `COMPACT_AFTER` is a constant, 1 in the run so that cutting happens at
once.  A handler that calls back into the scope while it is being called off is
left out.

In `Cancellation` the call stack is explicit: a frame per `abort` in progress,
per draining loop, per handler.  Whenever a handler is on top it may make any
call.  A reason is named by the source whose own `cancel` gave it.

In `MapConcurrent` the engine's queue of microtasks is explicit, because whether
the loop may park for ever depends on the order of two jobs: the one that
resumes the loop and the one that takes a finished task off the set of running
ones.  The source, the selectors and the consumer settle their promises between
any two jobs.

### Memory

`Allocator` is the contract: bytes reserved for a live allocation are nobody
else's, and one released never lives again.  Each strategy maps its leases to
it.  A refused call throws before it changes anything, so a refusal is a guard
that does not hold; zeroing of bytes is left out.  A region of the managed
allocator is named by its size, as two of them never have the same.

`Ownership` numbers handles and views as they are made: a handle is one value of
`own` or `move`, a view a borrow or a view of a storage.  `Views` cuts views from
views the way `region` does, from the source itself where the code flattens and
through the view where it does not; an array may shrink underneath.
`NativeMemory` has a backing that puts a new buffer in place of the old one, and
the cached typed array with which a pointer or a byte storage reaches it.

### Sequences

An operator is a function of its parameters, the state its generator keeps and
what its source answered, to a new state, what it yields and whether it is
through.  `Traversal` pulls pipelines of these, one demand at a time, so that
what was asked of the source before an element was given is visible; the
asynchronous operators of `AsyncSequences` are looked at by a signal after every
element.  `SequenceMeanings` says what each operator gives without any of this.
Elements are small values with a key (two of them share one), of which one is
`null`.  `Memoized` has two traversals take turns over a source that changes.

### Numbers, structs, values

The types are parameterised by what the code takes from JavaScript: the word of
its bitwise operators, the radix and the limits of a decimal, the bits of a
fraction and of the engine's double.  `Calculator` holds a value and an operand
and applies any operation, writing and reading among them; the end of the module says of each what its result must
be in terms of the numbers alone.  A decimal in radix four with two digits has every
case of ten with thirty-four; only the literal constants differ.

`Structs` registers types in any order, lays them out, and writes and reads
views; the arithmetic of sizes is also done on text and tuples, as TypeScript's
checker does it.  What is asked of the types (`Tell`) and what is written (`Write`)
come after all declarations.  In `ObjectGraphs` a heap of objects that hold each
other stands for the values compared and written, which is a step of `MCValues`.

### Compiler

`FlowWalk` is the walk of `memory/src/transformer/flow` over trees of code, with
joins and two rounds of a loop; the reference at its end takes every path by
itself and joins nothing.  `StructuralTests`
writes a test from a world of types, as a tree of checks and the functions that
stand for recursive types, and says what it answers of a value; the end of
`Explanations` says which values are of a type.  `ConstantEvaluation` proves the names a call
reads constant, assembles their declarations in dependency order and runs them.
`ProgramHost` hands files over while they are edited on the disk.  Syntax trees
have the kinds of nodes that the code tells apart, and no text.  In `MCCompiler` an
input is made up step by step, one step compiles it (`Compile`), and, of a type,
another one runs what was written on some value (`Ask`).

## 3. What the runs check

| run | bounds | shows |
|---|---|---|
| `pool_node` | 2 runs of 2 elements, 2 workers, load, task and clone failures, deaths, silent exits while loading, one run with a signal and a consumer that may break off | runs never mix, none is stranded, dead workers are not reused, `close` leaves no thread and starts none |
| `pool_live` | 3 runs (2, 1, 0 elements), 1 worker, load and task failures, deaths, one run with a signal | every run settles, and `close`; the pool implements `RunQueue`, also with a run called off in mid-queue |
| `task_scope` | 4 tasks, limit 2, one join, one disposal | limit, order of starts, closing, the failure's way; every task settles, every caller is answered |
| `cancellation` | every forest of 4 sources, 2 handlers that may call anything | nothing is stranded, reasons come from above, handlers are called, the stack stays flat |
| `map_concurrent` | 4 elements, limits 1 to 3, both orders | order, bound, completeness, the first failure, cleanup; every ask is answered |
| `allocators` | pool: 2 blocks of 2; stack: 5 bytes; managed: requests of 0, 1 and 2 bytes; arena: chunks of 2, 2 resets; fixed buffer: 5 bytes; each 4 allocations, 3 frames | no byte lost or shared; each implements `Allocator` |
| `memory` | 4 handles and 4 borrows or views of a storage; 3 nested views or pointers over at most 2 elements; 2 typed pointers over 3 buffers of at most 3 bytes | who may use what; an access stays inside its window; what ended stays ended |
| `sequences` | all operators over all sources of up to 3 of 4 elements, with arguments they refuse among theirs, rankings over 5; pipelines of 2; 2 traversals of a memoized one | elements, declared counts and aborts are right; nothing is read or held early; traversals agree |
| `values` | integers of 3 and 4 bits on a word of 4; fractions of parts up to 3; decimals of 2 digits in radix 4; floats of 2 fraction bits; matrices of 3 shapes; structs of up to 3 fields nested once; 3 objects | results exact or rounded once, or refused; bytes, text, fields and literals read back; equality |
| `compiler` | 21 shapes of code with 4 holes and 6 fillings, loops of 2 rounds; 51 types, one of more levels than may be tested, values of depth 2; files of 3 declarations; 4 files, 3 edits | the flow walk reports exactly what a path misuses; tests, explanations, defaults, paths and constants are right; the host transforms what it is given |

Why these bounds are enough for the cases that matter:

* Two runs make a second one find a set, a dead set, a set being retired, or none;
  the third makes a queue with a middle.  Two workers make one fail while the other
  loads or works.  Two elements make a run that has handed out and not got.
* Four tasks under a limit of two leave two waiting, so that one can overtake, be
  withdrawn, or be cut out of the queue.  Four sources make a chain with a branch;
  two handlers make one cancel within the other.  Four elements under limit three
  make two results wait for an earlier one.
* Four allocations give each block or byte an old holder and a new one, three
  frames one between two others.  Four handles let a storage be moved twice and a
  view of a borrow be owned in its turn.
* A heap shows what is wrong with it only after it evicted twice, hence five
  elements for the rankings; for the other operators three elements have a first, a
  last and a middle, with equal keys and `null` among them.
* Widths of three and four bits lie below and at the width of the word, where the
  code's branches differ; two digits have ties, carries out, and digits of which
  only a sticky one remains; two fraction bits have subnormals and infinities.
* Four holes are a borrow, a move, a use and one thing between any two; recursion
  in types goes through objects, arrays and unions, and through two types that
  contain each other; three levels under `MAX_DEPTH` (12 in the code) leave types
  within it, at it and beyond it; three declarations form chains,
  diamonds and circles.

`Count`, `Runs`, `Frames`, `Allocations`, `MaxResets`, `MaxHandles`, `MaxViews`,
`MaxThings`, `MaxBuffers`, `MaxPointers`, `MaxItems`, `MaxTypes`, `Rounds`, `Depth`
and `MaxSteps` are the only bounds on otherwise unbounded behaviours.
`CHECK_DEADLOCK FALSE` throughout: all of these may come to rest when nobody calls
them, or when everything has been asked.

A property often speaks of several parts of a module; its conjuncts are named
definitions of their own, and the comment before it says what they are.

### Fairness

* Pool: promise reactions run, threads load, answer and stop when told,
  events arrive: while one of these can happen, one does (`PoolFairness`), and
  which is left open.  Nothing makes a thread die, a caller abort or close, or a
  consumer read on; the property excuses a run for a consumer that never does.
* Task scope: reactions run, and works settle, which a scope can only wait for.
* `mapConcurrent`: jobs run, the source and the selectors settle.  Nothing is
  assumed of the consumer.
* Everything else is synchronous or driven by its caller; only safety is checked.

Only weak fairness is used.

## 4. What the runs found

Two runs are expected to end in a violation; each is a disagreement between the
code and what its comments say.

* `pool_exit_zero_hang` - on Node a worker that exits with code 0 reaches no
  handler, so the run waiting on it hangs (`parallel/src/backend/node.ts:33`).
* `stale_program` - a file edited on the disk before it is handed over is
  transformed as the program knew it: `update` takes content that matches the disk
  for no change and leaves the version alone
  (`transform-core/src/program/index.ts:122`, `:276`).

Elsewhere, too, the documentation promises more than the code does.  The
properties below say exactly what the code does, the cases included in which that is
not what is written, and their comments quote both:

* `FirstFailureEndsIt` - a selector fails while the source is being pulled.
  `docs/concurrency.md:126-128` lets the traversal end with the first error and start
  no further work; if the pull then throws, the traversal ends with that error
  (`collections/src/functions/concurrency/index.ts:149`), and if it gives an element,
  a selector is started on it (`:156`).
* `AbortIsHeard` - `docs/async-sequences.md:179-183` lets no element be pulled after an
  abort and every call reject with the signal's reason, and the comment at
  `async-sequence.collection.ts:154` says the signal is looked at before each pull.
  The code looks after an arrival (`:506-508`): one more element is pulled, and when
  the source ends instead the call resolves.
* `ReadsOnlyWhatItMust` - by `docs/testing.md:70` pulls stop at the element that
  settled the answer.  Four operators pull one that cannot matter (`ReadsOn`): `zip`
  pulls an element of the left although the right has ended
  (`sequence.collection.ts:1360`, against the comment at `:1363`), `intersect` and
  `intersectBy` read on when every element of the other was found, and `join` reads
  a sequence although the other is empty.
* `IsExact` - `docs/sequences.md:249-250` and `docs/reflect.md:509-511` have types
  tested to any depth, those that contain themselves included.  A type of more levels
  than `MAX_DEPTH` is refused (`transform-core/src/structural/index.ts:94`, `:406`),
  and one that refers to itself when the circle is entered at a union (`:444` comes
  before `:489`).  Literals are among what is covered (`docs/sequences.md:249`,
  `:303-304`); a `bigint` literal and a template literal are tested by `typeof` only,
  and so is every literal that `ofType` or `cast` is given itself.
* `ReportsAreTrue` - by `docs/reflect.md:170` a default is always a valid value.  It is
  not below `MAX_DEPTH` or where a required property closes a circle, as `null` is put
  there (`defaultOf/index.ts:68`); of an intersection it is `null`, of a class or an
  indexed type an object that need not be one of the type.  `HasDefault` names these.
* `LiteralsReadBack` (in `WhatIsWrittenIsReadBack`) - `transformer/literal/index.ts:9-11`
  promises a value equal to what the run-time would have produced.  An object without
  a prototype is accepted and written as `{}`, which has one (`:150`).

What the passing runs leave out, in the guards, fault sets and preconditions of the
modules, are cases in which the code does not do what the property says:

* *Pool.*  A worker that dies after its `ready` while its siblings load is handed
  an element, and the run hangs (`pool/index.ts:348`).  `start()` spawns outside
  its `try`: if constructing the second worker throws, the first is in no list
  (`:249`).  In a browser a terminated worker emits nothing, so a run in progress
  when `close` is called never ends (`:584`).  A worker that exits with code 0
  while it loads leaves the start it is part of waiting for ever: `pool_node` has it
  (`exitsInStart`), for safety only.  `diesInStart`, `spawnThrows`, `exitsZero` and the
  browser are in no passing run, although the module says what happens then: of
  these faults the runs show nothing but the hang after exit code 0, while the proofs
  that need no hypothesis (section 5) cover all of them.
* *Cancellation.*  A `cancel` called from a handler of another cancellation returns
  before the sources that follow have been cancelled (`cancellation/index.ts:29`),
  and a source created there under a cancelled one starts live.
* *Memory.*  A typed pointer into a resizable buffer that is transferred away is
  refused by the platform rather than by the pointer (`nativePointerTo`, `:305`).
* *Sequences.*  A `null` element is taken for no element by two of the operators
  (`sequence.collection.ts:949`, `:1011`); a traversal of a memoized sequence whose
  source failed goes on behind the failure (`:1766`).
* *Numbers.*  A fraction with the minimum as its numerator has no negation
  (`fraction/index.ts:293`).
* *Flow walk* (`NotFollowed` and `TakenForMore` in `MCCompiler`).  Missed: a throw
  from the middle or the end of a `try`, a `finally` after a `return`, a labelled
  `break`, the test of a loop when it is run last, and what only a third round
  does; a join of two loans keeps the owner of the first.  Refused although right: an
  owner that is given a new value while an old loan is about, and what follows a
  `do` that always runs.
* *Types.*  An explanation of a recursive type calls a function that is not
  declared; of a global class the shape is explained; `pathsOf` does not return on
  an array type that names itself; `keysOf` of an array lists its methods.
* *Constants.*  Constants that read each other in a circle make the evaluation
  recurse without end; a constant whose contents are changed later is computed as
  it was.
* *Host.*  Of a file edited so that it mentions no utility the program is not told.

## 5. What is proved

TLAPS checks the following for every value of the constants that the modules'
named assumptions allow: any number of runs, workers, tasks, sources, handlers,
elements, blocks, bytes, handles, views, pointers and layouts.  Each safety property rests on one inductive
invariant, `IInv` unless another name is given, that TLC agreed with on a small
instance before it was proved.

### The worker pool

The invariant is built in four layers, each inductive given the ones before.

* *Types.*  `TypeOK` is not inductive by itself: a step indexes `alive` and
  `busyWith` by the set a run uses, so `TypeInv` adds that a run in `ready()` or
  in the loop has one (`HasSet`): `TypeCorrect`.
* *The chain.*  `Chain`: the runs are queued once each, and whatever stands before
  a run that has begun has released its place.  From it at most one run is in
  service (`OneRunIsServedHolds`, of the pool's image in `RunQueue`).
* *Sets.*  `SetsInv` adds that a set is started once (`StartsOnce`), that each
  thread that lives belongs to a set someone holds, awaits or terminates
  (`InHand`), and that each failure has a listener (`Tended`):
  `CloseLeavesNoThreadHolds`.
* *Runs.*  `PoolInv` adds the place of every element: at most one message, task
  or reply stands for it (`TokensInv`), what is marked free has none (`IdleFree`),
  and what a run keeps it handed out, once (`RunsInv`): `SetsAreSoundHolds`,
  `ResultsAreOwnHolds`.  These hold whatever fails, the faults that the passing
  runs leave out included.
* *Waking.*  `WakeInv` adds why a parked run will be woken: a worker has a task of
  its, is being stopped by somebody who tells, or has sent something
  (`ParkedForSomebody`, `WokenForSomething`), and somebody listens (`StartsAlive`,
  `ListenerHears`): `NoStrandedRunHolds`.

`ClosedStartsNothingHolds` is an action property, by cases on the step: all but
`SpawnSome` and `SpawnAll` leave unborn threads unborn, and those two need an open
pool.  `ImplementsRunQueueHolds` is the refinement: every step of the pool is one
step of `RunQueue`, or leaves what `RunQueue` sees as it is, whatever fails.

Two of these have a hypothesis besides the constants' assumptions, because the
code needs it:

* `CloseLeavesNoThreadHolds`: constructing a worker does not throw
  (`"spawnThrows" \notin Faults`).  `start()` spawns outside its `try`
  (`pool/index.ts:249`), so the workers before the one that throws are in no list
  that `close` could go through.
* `NoStrandedRunHolds`: `Orderly`, which is Node, no exit with code 0 while a
  worker is up, and no death while siblings load.  In each of the three cases a
  run really waits for ever (section 4).

`PoolAssumption` also says that `None` is not a message, which in the code is the
difference between `undefined` and an object.

### Task scope, cancellation, concurrent mapping

* `TaskScopeProofs!NoTaskOutlivesTheScopeHolds`, `FailureEndsTheScopeHolds` - a
  scope closes over no task; its first failure stands, calls off what there is and
  what comes, and is told.  The invariant: the counter is the number of unsettled
  tasks (`Counted`), a scope called off has called off each of them (`CalledOff`),
  who waits waits once and was told nothing (`Told`).
* `TaskScopeProofs!QueueIsServedHolds` - room is used, in the order of the calls.
  Here the queue's head and its withdrawn entries matter: a finite set of places
  that somebody still waits for has a first one, and that one `pump` starts.
* `CancellationProofs!NothingStrandedHolds`, `HandlersHearHolds`,
  `ConstantDepthHolds` - the explicit stack and the loop over queued propagations
  reach whatever follows.  The invariant: a source that follows a cancelled one is
  cancelled, or is still listed by a frame of the stack or by the loop's queue
  (`FollowersAreTold`), likewise a handler that has not been called
  (`HandlersAreTold`); everybody is listed once (`ListedOnce`); parents are older
  than children (`ParentsAreOlder`), which is why a step only ever reaches down
  (`StepsComeFromAbove`, `ReasonComesFromAbove`); and the stack has its shape
  (`StackInv`: one loop, no abort directly on an abort).
* `CollectionProofs!HandsOverInOrderHolds`, `EndsCleanlyHolds` and the action
  property `FirstFailureEndsItHolds`.  The invariant: a position not pulled has no
  task and one that is not over still counts as running (`TasksAreCounted`); each
  settled task has at most one job in the queue, and no job deletes a task that is
  not over (`JobsSettle`); results arrive once, and without a failure of every
  task that is over (`ResultsArrive`); what was handed over, then what is waiting,
  is what arrived (`OrderIsKept`).  That the loop ends only when everything was
  handed over is then counting: as many results as positions.  The bound on what
  is pulled needs that no ask is out when the loop fills (`CountsAgree`).
* `SequenceProofs!RepeatsTheSameHolds` - the traversals of a memoized sequence
  give the same elements, however their turns interleave and the source changes.
  The invariant (`MemoInv`): each was given a beginning of what was read, and one is
  told of the end only when it was given all of it and nothing more is to be read.
* `SequenceProofs!AbortIsHeardHolds` - of what arrives after the signal was
  aborted, a method of an asynchronous sequence looks at one element and fails.  The
  invariant (`HearInv`): a method goes on, and nothing of it was seen yet, or it is
  through, and only while it goes on is a stage before it asked (`MethodStands`); so
  nothing arrived late, or one element that made it fail (`Failed`).  It needs of
  each of the methods that what it does with an element, or with the end, is either
  its answer or to go on and yield nothing (`MethodsAnswerOnce`).

### Memory

* `AllocatorProofs!ContractSeparates` - what keeps the contract never has a byte in
  two live allocations, nor one both live and released.
* `AllocatorProofs!TypeCorrect`, `EveryBlockIsSomewhereHolds` - no block of the
  pool is lost or handed out twice.  Besides the property, no lease is of a later
  generation than its block (`NoLeaseFromTheFuture`), without which giving back
  could revive one.
* `AllocatorProofs!PoolImplementsAllocator` - the pool refines `Allocator`, with
  bytes as arithmetic on block numbers.
* `AllocatorProofs!StackImplementsAllocator` - the stack refines `Allocator`, for
  any alignments.  What a frame holds ends below the mark of every frame above it
  (`LeasesEndBelow`), without which leaving a frame could hand on bytes that live;
  the frames open are the live ones, each once.  `StackStands` adds that the stack
  keeps no byte it does not need: the offset is where something live ends, each
  mark where something below it does, and they rise (`MarksStand`).
* `AllocatorProofs!FixedBufferImplementsAllocator`, `ArenaImplementsAllocator` -
  a reset gives everything back at once, by generation.  Nothing is of a later
  generation than the present; what is of this one ends below the offset, in the
  arena in a chunk up to the current one (`FixedInv`, `ArenaInv`).
* `AllocatorProofs!ManagedImplementsAllocator` - the managed allocator refines
  `Allocator`, spills only what its region has no room for, and gives the region back
  with the last frame.  Leaving frames out of order is what makes it hard: each kept
  frame found the region no further than those above it did (`MarksRise`), and holds
  nothing above where they found it (`LeasesStand`).  What was wanted is at least
  what was taken, as rounding up is monotone (`RoundedFurther`); so a region made
  for the peak serves the same program without spilling.
* `AllocatorProofs!OnlyTheDeadAreGivenBackHolds`, `OthersImplementAllocatorHolds` -
  the same of the specification the run checks, whichever strategy moves.
* `MemoryProofs!OneWriterHolds`, `LentByTheOwnerHolds` - views of one storage that
  are in force are all shared or all of one borrow, and were lent by the owner there
  is.  No view is of a later generation than its storage (`ViewsOfThePast`), and the
  flag `exclusive` says of the generation that lasts whether it has one borrow or
  readers only (`ExclusiveIsAlone`).
* `MemoryProofs!OwnershipIsSoundHolds`, `WhatEndedStaysEndedHolds` - the same through
  views of views, however many: what two of them have in common is found by going
  down from each.  What has an owner is a storage or a view that may write, who may
  write was cut from a borrow that may, and below every view lies a storage
  (`LayersInv`).  A generation only rises, hence nothing comes back.
* `MemoryProofs!HitsTheBytesThereAreHolds`, `NothingStaleIsReachedHolds` - a typed
  pointer or byte storage reaches the bytes that are there now, or is refused.  A
  memory reads the last of its buffers and the others are detached, a resizable
  buffer is one for ever (`BuffersStand`); a pointer into an allocation does not lie
  before it (`PointersStand`), which the code does not test when it is used.
* `MemoryProofs!AccessStaysInsideHolds` - a view is a window on what it was cut from,
  however deep it is nested and whatever became of the array.  The invariant
  (`ViewsInv`): a thing is made of what was there before it and writes only if that
  does; a view begins where its source is read from, or was cut within a view of the
  same source.  That every element reached lies inside is an induction over what was
  made before, by way of a set of numbers (`Induction`, `CellsAreInside`).
* `ProgramHost!TransformsWhatItIsGivenHolds`, `ColdRunBuildsOnceHolds` - the two
  halves of what the run `compiler` checks of the program kept between
  recompilations that are not about the trees.  Between two calls the program is up
  to date (`ProgramIsCurrent`): each of its files has the version the host would
  answer and, if recorded, the recorded content; otherwise what was on the disk when
  no file was edited since.  A change therefore has a version no program has seen,
  or a root none has, and is always built.  What is recorded on a cold run is no
  root before (`RecordedOnce`), which bounds the builds.

The named assumptions are `AllocatorsAssumption`, `MemoryAssumption`,
`SequencesAssumption` and `CompilerAssumption`: capacities and sizes are numbers, alignments and elements
take at least a byte, the two markers for a frame are not frames, there is a buffer and a byte
of it, an array, a storage and a reference differ and are no numbers, as the views are, and
allocations are named by what is not a number; a pipeline is one or two operators
that its kind of sequence has, and sources are sequences; what a tsconfig lists
is on the disk, imports are of files there are, and no program is none.

### Only model-checked

* Every liveness property: fairness and `ENABLED` are beyond the prover.  What
  safety can say of them is proved where it matters: nobody is stranded
  (`NoStrandedRun`, `QueueIsServed`, `NothingStranded`).
* What recursive definitions compute, that is the sequences (`YieldsWhatItMeans`,
  `ReadsOnlyWhatItMust`), the numbers, the literals and what the compiler makes of trees:
  `RECURSIVE` operators and the library's induction theorems are beyond the prover,
  and these are compared with their meanings over bounded inputs.  Where an argument
  needs only the first member of a finite set, or induction over a set of numbers, as
  those of the task scope's queue and of nested views, it is proved.

## 6. What is not modelled

`PROJECT.json` lists each part with its reason.

* `errors`: the construction of errors from a catalog, which keeps no state.
* The escape analysis of memory's transformer, and its rules for what is declared
  without a name.
* `reflect`: the descriptions `typeOf` writes, and `nameOf` and `pathOf`, which
  print what the checker answers.
* Of the numbers: powers of a decimal that are logarithms and roots of an
  approximation, single precision (the engine rounds it), conversions from values
  of the wrong kind, the text of integers.
* The methods of structs, which are the program's own functions; the sources
  `range` and `repeat`; the encodings of single elements in a byte storage.
* Syntax trees and printing: what the plugins write is modelled as the checks and
  values it stands for.
* `tools/`, `tests/`, `docs/` and the examples are not part of the product.
