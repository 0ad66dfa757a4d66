# A TLA+ model of quickjs-rs

`quick-js` (`src/src`) is a Rust wrapper around the QuickJS engine
(`src/libquickjs-sys/embed/quickjs`). This directory holds TLA+ modules that model
both, TLC configurations that check them on small instances, and proofs, checked
by TLAPS, for instances of any size.

A script is an actor of its own. The models let it take any step that its
references allow; what the engine and the wrapper do in answer follows the code.

## The system

Apart from workers and `Atomics.wait` everything runs on one thread. What makes
the code hard is control that comes back: script calls Rust callbacks, callbacks
call into the engine, jobs queue jobs, converting an argument runs script that
changes what was just looked at, freeing an object frees others, and almost every
engine call can fail.

| Part | State | Where |
|---|---|---|
| Promises, async functions, job queue | promises with two reaction lists, pairs of resolving functions, `job_list` | quickjs.c |
| Promise combinators, generators, modules | counters, request queues, module records | quickjs.c |
| Event loop of the wrapper | `__promiseResult`, `__promiseValue`, `self.context` | bindings.rs |
| Counts and cycle collector | counts, marks, three object lists, `gc_phase` | quickjs.c |
| Context life | `context`, `callbacks`, contexts and jobs of the runtime | bindings.rs, quickjs.c |
| Value conversion, host calls | references that Rust owns, nested activations, the pending exception | bindings.rs, lib.rs, callback.rs |
| Objects, shapes, proxies | properties, hidden classes in a hash table, fast and slow arrays | quickjs.c |
| Map, WeakMap and iterators | records in a list and a hash table, weak chains | quickjs.c |
| Buffers, views, typed arrays | buffers, the lists of their views, cached lengths | quickjs.c |
| Binary objects | the list of objects met, bytes | quickjs.c |
| Compiler and interpreter | code, labels, scopes, block environments; operand stack | quickjs.c |
| libbf, libregexp, libunicode | pure algorithms | libbf.c, libregexp.c, libunicode.c |
| Workers, Atomics, poll loop | pipes, ports, waiters, timers, handlers | quickjs-libc.c, quickjs.c |

How they interact: `eval` runs a script, attaches two handlers to the promise it
returned, and executes jobs until one of the handlers ran. `call_function`
converts its arguments, calls, converts the result. A callback is a function
object whose data points to a boxed closure in `callbacks`. A context is a
garbage-collected object in a cycle with its own built-ins, so only a collection
frees it. `JS_FreeRuntime` asserts that nothing is left. The source of a script is
compiled, optimised and interpreted; regular expressions and numerals in it go
through libregexp and libbf, names and case through libunicode. Workers are
engines of their own that exchange binary objects through pipes and share memory.

The places where each part could go wrong are listed with their lines under
"hazards" in `PROJECT.json`.

## Modules

Composition is by `EXTENDS`: `EventLoop` adds the wrapper's loop to the engine of
`PromiseMachine`, `HostCalls` uses the conversions of `Marshal`, `TypedArrays` the
heap of `ArrayBuffers`, `Proxy` the operations of `Objects`, `Compiler` emits the
code that `Bytecode` runs. The `MC` modules put components that share no state side
by side in one run; a variable (`area` or `part`) says which of them a behaviour is
about.

| Module | Models | Built on |
|---|---|---|
| `PromiseMachine` | promises, async functions, jobs | |
| `EventLoop` | `eval` and `resolve_value` | `PromiseMachine` |
| `Generators`, `Combinators`, `Modules` | generators and async generators; `Promise.all` and relatives; ES modules | |
| `ManagedHeap` | what memory management promises (abstract) | |
| `RefCountGC` | counts and cycle collector | implements `ManagedHeap` |
| `ContextLifecycle` | `ContextWrapper` and the runtime behind it | |
| `Marshal`, `HostCalls` | the two conversions; `call_function` and callbacks | |
| `PropertyStore` | objects with properties of their own (abstract) | |
| `Shapes` | hidden classes | implements `PropertyStore` |
| `Objects`, `Proxy` | property operations; proxies | |
| `OrderedMap` | what walking over a Map promises (abstract) | |
| `Collections` | Map, WeakMap, iterators, `forEach` | implements `OrderedMap` |
| `ArrayBuffers`, `TypedArrays` | buffers and views; operations on elements | |
| `BinaryObject` | `JS_WriteObject`, `JS_ReadObject` | |
| `Bytecode`, `Compiler`, `ScriptSemantics` | interpreter; code generator and optimiser; the meaning of a program (reference) | |
| `BigFloat`, `BigDecimal`, `NumberSemantics` | libbf in binary and decimal; exact rational arithmetic (reference) | |
| `CharRange`, `RegExpEngine`, `RegExpSemantics` | sets of code points; libregexp; a matcher after the standard (reference) | |
| `UnicodeTables` | the tables of libunicode, written and read | `CharRange` |
| `Workers`, `OsLoop` | message pipes, wait and notify; `js_os_poll` | |
| `...Proofs` | theorems, see below | |
| `MC...` | instances for TLC | |

"map" in `PROJECT.json` gives the lines each definition stands for. A helper whose
lines lie inside those of the definition that uses it is not listed again.

### PromiseMachine

The engine's functions are operators from an engine state `S` (`promise`, `func`,
`job_list`) to the next one, named after the C functions; an action is a call of
one of them by script, or one job. A pair of resolving functions is one record,
because both share `already_resolved`. `held` tells whether script has the pair.
A reaction job whose handler is script pushes a frame on `running`; the frame
later returns or throws. With `Reentrant` jobs also run while a frame is open, as
they do when a callback evaluates script. Values are told apart by what `then`
does: absent, script, throwing, or a promise.

### EventLoop

Adds the wrapper's variables and a stack of activations. `LoopRunsJob` and
`LoopRunsHandler` are one iteration of the loop, split by whether the job is one
of the wrapper's own handlers. `LoopFindsNoJob` is the iteration that stores NULL
in `self.context`. `LoopRunsFailingJob` is the iteration whose job ends with an
exception. Nested evals need a callback that reaches the `Context` (through an
`Rc`, a static or a thread-local). `LoopReadsResult` answers with an internal error
when the promise was fulfilled with, or rejected for, `undefined`.

The two variables are globals, and `is_promise` only looks whether `then` and
`catch` are objects. So script may set the variables (`Written`), and an object that
passes for a promise (`Lookalikes`) is given the handlers. `meddled` records that
either happened during a wait. Not modelled are real promises whose own `then` or
`catch` was replaced, and scripts that redefine the globals as accessors.

### Generators, Combinators, Modules

One generator, one combinator, one program. The generator's body, the iterator of
a `yield*` and the `then` of an element are script and may call back at any time.
An async generator is its queue of requests, its state and what it awaits. A
program is a graph of modules of which one per import may fail to load or throw;
failed modules stay as the code leaves them.

### RefCountGC and ManagedHeap

One step per loop iteration of `free_zero_refcount`, `gc_decref`, `gc_scan` and
`gc_free_cycles`. `Values` are objects that JavaScript values can be; `Auxes` are
`JSVarRef`, `JSShape`, `JSAsyncFunctionData` and `JSContext`, whose counts are
dropped by code of their own. Finalizers and mark functions visit the same
references. An auxiliary object refers to values only.
### ContextLifecycle

`life` is the wrapper and its runtime; contexts are numbered in order of
creation, `refs` counts the references that the wrapper has. The references that
form the cycle are not counted: a context is freed by a collection when nothing
outside the cycle refers into it (`Rooted`). Reading a dangling list entry may
crash or not (`ub`). The failures inside `JS_AddIntrinsic...` are not modelled;
`JS_NewContext` ignores them. After a failed `add_callback` the model gives the
next closure the same number; nothing calls the first one, so this is harmless.

### Marshal and HostCalls

The recursion is a stack of frames, and `ctl` is what the innermost activation
does next or got. `rt.owned` is the bag of references that Rust code owns. Each
engine call has a failing alternative that leaves an exception pending. Rust
values, script values and names are small sets that hold each case the code
distinguishes: nested containers, zero bytes, unpaired surrogates, small and big
BigInts, dates, symbols, throwing getters, an object that contains itself.
A getter throws or returns; it does not change the object being read. A date goes
to a script cut to whole milliseconds. Back comes the same date, the epoch for an
invalid one, and a panic for one that chrono cannot represent.

### Objects, Proxy, Shapes, PropertyStore

`Objects` has the representations the code tells apart (fast and slow arrays,
arguments, strings, getters, autoinit properties, holes left by deletion) and the
operations on them as operators from a heap to a heap and an answer. `Proxy` runs
each operation with a trap that answers anything. `Shapes` has the hash table of
shapes, sharing, cloning, growing, deleting and compacting, with allocations that
fail; `ImplementsStore` maps it to objects that share nothing.

### Collections and OrderedMap

Records, the list in insertion order, the hash table with its growth, the chains
of weak records, and iterators and `forEach` frames that stand on a record while
script changes the Map. An object goes with its last reference, and the collector
finalizes in any order. A number is a key in two spellings, int and double; keys
that are the same must hash alike in both.

### ArrayBuffers and TypedArrays

A heap of buffers and views with the list of views of each buffer and the cached
count of each view. Converting an argument may detach any buffers. Operations are
operators from a heap, as the code's functions are, with checks and conversions
in the order of the code. A constructor reads the prototype of its target
(`js_create_from_ctor`), which may detach buffers or throw. `js_dataview_constructor`
looks at the buffer again afterwards, `js_typed_array_constructor` does not: a view
remembers with what buffer it was made (`made`), and `Late` views, made on a buffer
that was detached in between, are the one exception of `BuffersExact`.

### BinaryObject

Writer and reader over a word of a few bits and LEB128 numbers of few bytes, with
object references, functions, modules, BigInts in binary and decimal, atoms and
the line number table. The reader runs in another runtime with other atoms. A typed
array is made by its constructor, which refuses one that is not aligned or not
inside its buffer.

### Bytecode, Compiler, ScriptSemantics

The compiler's functions emit instructions and patch them as the code does, and
`resolve_variables`, `resolve_labels` and `compute_stack_size` follow. An operation
that may run user code is an event whose outcome the environment chooses. The
reference gives the sequence of events that the language prescribes. Programs are
sloppy and have no classes: refusals of strict mode and private names do not occur.

### BigFloat, BigDecimal, NumberSemantics

Limbs have two or eight bits and wrap as C integers do; decimal limbs have one or
two digits. Results are compared with exact rationals rounded once. The square root
of one limb and the tables of logarithms are modelled by what they compute.

### RegExpEngine, UnicodeTables

The regular expression compiler's code generation and the backtracking machine
with its stack of states, checked against a matcher by continuations. The Unicode
tables are written as `unicode_gen.c` does, with short runs and blocks so that
every length code is used, and read as `libunicode.c` does. A pattern is a sequence
of tokens: the lexing of classes and escapes, the Annex B reading of a hyphen next
to a class escape, and the limits of 65535 ranges, 255 captures and 255 stack slots
are left out.

### Workers, OsLoop

Pipes with one byte that says "not empty", ports, the counts of pipes and shared
memory; the list of waiters with timeouts and spurious wakeups; timers, descriptor
and signal handlers in `js_os_poll`. Each critical section is one step. Clearing the
bit of a signal is two steps, a load and a store, because the signal handler may run
in between. `js_os_timer_mark` is a collection that frees a timer's object. Signal
handlers that run in a worker's thread are not modelled.

## Failures that the code does not handle

`failed` (in `ContextLifecycle`), `missed` (in `Marshal`), `nested`, `failures` and
`meddled` (in `EventLoop`), `made` (in `ArrayBuffers`), `swept` and `lost` (in `OsLoop`)
are history variables. They record failures the code has no answer
to. Each property names the ones it does not survive, and so holds under all
others, in any number and order. The names are:

- `leftover_jobs`: `reset` while jobs wait. The jobs keep raw pointers to dropped
  closures and bring the old context back (bindings.rs:897, :998).
- `reset`: no memory for the new context in `reset`. The old one is freed twice
  (bindings.rs:900).
- `class_proto`: no memory for `class_proto`. The context block is freed while on
  `gc_obj_list` (quickjs.c:2108).
- `zero_name`: a callback name with a zero byte. The function object is never
  freed, and the assertion of `JS_FreeRuntime` fails on drop (bindings.rs:743).
- `empty_queue`: the loop finds no job (bindings.rs:1000).
- `zero_key`, `no_utf8`: returns that skip a free (bindings.rs:172, :431).
- `zero_text`: a string cut at its zero byte (bindings.rs:426).
- `builtin`: `Date` or `BigInt` replaced by script; an assertion in Rust panics.
- `bigint64`: `JS_NewBigInt64` fails unnoticed (bindings.rs:238).
- `far_date`: a date out of chrono's range; `timestamp_millis` panics and what Rust
  owned is leaked (bindings.rs:477).
- `nested`, `failures`, `meddled`: an eval inside another one, a job that ends with an
  exception, script that sets the result variables or gets the handlers.
- `made = "detached"`: a typed array made on a buffer that reading the prototype has
  detached (quickjs.c:52769).
- `swept`: a collection frees the object of a waiting timer and, because
  `js_os_timer_mark` reports it, the timer's function; the loop may call it
  (quickjs-libc.c:1906).
- `lost`: a signal that arrives between the load and the store of
  `os_pending_signals &= ~mask` (quickjs-libc.c:2150).

A value nested too deeply for the native stack ends the process (`stack_overflow`);
no property excludes it.

## Runs

| Run | Module | Shows | Distinct states |
|---|---|---|---|
| `promises` | `PromiseMachine` | settle once, no orphan, no lost reaction, order, adoption; queued reactions run | 58,404 |
| `event_loop` | `EventLoop` | two evals in a row or nested, a failing job, script that interferes: own outcome, no stale handler, eval ends | 1,363,634 |
| `heap` | `RefCountGC` | counts, C assertions and pointers in every loop; refinement of `ManagedHeap`; complete collections; every loop ends | 319,178 |
| `host` | `MCHost` | ownership, round trip, exceptions and termination of host calls, with values nested or cyclic; the life of contexts under every failure | 367,881 |
| `async` | `MCAsync` | generators, combinators and modules keep their protocols; requests are answered | 35,764 |
| `objects` | `MCObjects` | shapes implement `PropertyStore`; property operations follow the language; proxies keep their promises | 35,996 |
| `language` | `MCLanguage` | compiled programs do what the language says; numerals and decimals are exact | 385,036 |
| `libraries` | `MCLibraries` | libbf rounds once; Unicode tables are read as written | 85,315 |
| `data` | `MCData` | Maps under walks, finalizers and collections; regular expressions; binary objects; buffers and views | 659,410 |
| `threads` | `MCThreads` | messages, pipes and shared memory; no lost wakeup; timers and handlers | 254,318 |

Two runs show disagreements between the code and what its documentation or
comments say; each is a finding in `PROJECT.json`.

- `eval_nested`: an eval inside a callback runs the handler of the eval around it,
  takes the result variables that it set for its own, and returns the value of the
  other promise.
- `reset_jobs`: a job that waits across `reset` calls a dropped closure.

### Bounds

- Three promises and three pairs are enough for a promise that adopts another one
  that itself has a reaction, and for an async function that awaits.
- `event_loop` has two promises and six pairs: one promise per eval, a handler
  pair for each, and two for the scripts. One failing job is enough for a stale
  handler to meet a second eval; one write and one object that passes for a promise
  are enough for script to interfere. What follows a nested eval or an interference,
  of which the properties say nothing, is explored with two pairs only
  (`SmallWhenDisturbed`).
- Three values, one auxiliary object and three references give every shape of
  cycle that the collector's loops tell apart: self-loops, two- and three-cycles,
  chains into and out of a cycle, through an auxiliary object or not. Values are
  symmetric; the properties are invariants, step properties and a refinement that
  treat them alike.
- `host` has one call with two arguments and one callback of arity one, so that
  arity errors occur on both sides, and a stack of four activations, so that cyclic
  and deep acyclic values overflow it. Three contexts, three callbacks and two jobs
  allow two resets with a callback in each context and jobs of two contexts.
- `async`: re-entry three deep, four requests with two awaits, three elements,
  three modules in cycles, chains and diamonds.
- `objects`: two objects of two names with room for four shapes, so that sharing,
  cloning, growing and compacting all happen; heaps of three
  objects that hold every representation, with chains of prototypes; one call on each, since the properties are about one call.
- `language`: about 4400 programs, each construct nested in each other one, with
  up to four events; limbs of eight bits and two digits.
- `libraries`: limbs of two bits, so that carries, cancellations and corrections
  of quotient digits happen between limbs of every small operand.
- `data`: four records with a hash table that grows at three, a number in both
  spellings, one iterator and one `forEach`; three buffers and four views; patterns of up to two quantifiers.
- `threads`: a worker with a pipe each way, three agents on two cells; a poll
  loop with two timers, one descriptor and one signal, and one with a timer and two
  signals.

A bound appears in the guard of the action that would exceed it; only `MaxDepth`
of `Marshal`, the size of the native stack, is a behaviour (`stack_overflow`).

### Deadlock

Scripts may stop calling, programs end and the numbers of calls are bounded, so
only the runs `heap` and `libraries` check deadlock.

### Fairness

- `promises`: script that the engine called returns, and the embedder keeps
  running jobs. The second is what `resolve_value` does.
- `event_loop`: the loop of `resolve_value` keeps running, and handlers return.
  Nothing is assumed of the evaluated script.
- `host`: conversions go on and scripts return.
- `async`: C code runs on, bodies end or yield, awaited promises settle.
- `threads`: every thread is scheduled, callbacks return, the loop runs, time
  passes.

`heap` needs none: `FreeingEnds` says that each iteration brings its loop closer to
its end.
## Proofs

All theorems hold for every value of the constants, under the assumptions named in
the modules: the bounds are natural numbers, there is room for one context, script
values are not promises, elements have one, two, four or eight bytes. Each rests on
an inductive invariant; each function of the code gets a lemma on what it does to a
state that satisfies it, and the actions follow.

### Promises settle once, and none is orphaned (`PromiseMachineProofs`)

`TypeOK`, `SettledOnce` and `PendingHasRight`. Type correctness means that no reference
among promises, pairs, reactions, jobs and frames dangles. A *right* to settle a
promise is a pair that was never called or a queued thenable job. Every right is
for a pending promise, no promise has two, every pending promise has one, and the
frames on `running` name existing pairs (`IInv`). `SettledOnce` alone speaks of rights
only; what makes it inductive is that it follows a right through its changes:
calling a pair turns its right into a settled promise or into a thenable job,
running that job turns it into a fresh pair, and settling is safe because no other
right exists.

### Order, adoption, no lost reaction (`PromiseSoundProofs`, `PromiseOutcomeProofs`)

`ReactionsInOrder`, `OutcomesAgree` and `NoLostReaction`. The invariant `Sound` adds to
the rights:

- lists and queued jobs of one promise are in the order of registration, and a
  reaction job carries the outcome of its promise;
- a promise that follows another one can be settled only by the reaction that
  `js_promise_resolve_thenable_job` registered with that one; everything else that
  may call a pair (the capability of a reaction, an async function, script, a frame)
  has one that is *free*, whose promise follows nothing (`RoleOK`, `PairRoles`);
- a pair that script does not hold is called already or waits in both lists of a
  pending promise, in a job or in a frame (`Served`).

`OutcomesAgree` is not inductive without the roles: an outcome passes through a
thenable job, a reaction and a second pair, and each of them must be the only one
that can act. `Sound` has the frames as parameters, so that the lemmas on the
engine's functions (`PromiseSoundProofs`) serve steps that push and pop frames
(`PromiseOutcomeProofs`).

### What eval returns (`HandlerProofs`, `EventLoopProofs`)

`EvalReturnsOwnOutcome` and `NoStaleHandler`, for any number of calls of `eval`, on top
of `Sound`. `p.then(ok).catch(err)` makes a promise `d`, settled by the pair `c`, between
the promise `t` that is waited for and the capability `e` of `catch`. While an
activation waits (`Calm`, for some `c`, `d` and `e`):

- the handler `ok` is nowhere but in the fulfil list of `t` or in a job of `t`, `err`
  nowhere but in the reject list of `d` or in a job of `d`, and no other reaction
  calls `c` (`Placed`);
- `d` is rejected only if `t` is, with the same reason (`Verdict`);
- a settled promise has no reactions left (`EmptySettled`).

`HandlerProofs` shows that every step of the engine keeps this until a handler is
called; `EventLoopProofs` adds the calls of `eval`.

So the handler that runs reports on `t`, and it is the last one: `t` and `d` are
settled by then, and a second job of either handler would break the order of
registration or contradict the outcome it carries. After it, and between calls, no
handler is left anywhere, which is what the next call needs (`Phase`). That the
loop does not wait again for the value of a fulfilled promise is `Final`, a part of
`Sound`. The invariant speaks of executions that were not disturbed: no eval inside
another, no job that failed, no script that set the variables during a wait or was
given the handlers.

### Combinators and generators (`AsyncProofs`)

`CombinatorsExact`: `remainingElementsCount` is the number of created items whose value
is not yet in its place, plus one while the loop runs (`CombInv`). Functions may be
called more than once and after the result is settled; the invariant therefore
bounds the count in general and fixes it where no function was misused.
`GeneratorsExact`: the generator is executing exactly while one call waits for its
body (`GenInv`); an async generator's state says what is on the C stack, which jobs
are queued and whether the head of its queue is served (`AGInv`).

### Buffers and views (`ArrayBuffersProofs`)

`BuffersExact` with the types of the heap: a view lies inside its buffer, cached
counts agree with lengths and offsets are aligned, a typed array of a detached
buffer is empty unless it was made on it while being constructed (`Late`), and the list of a buffer holds exactly its views. `BuffersIInv` adds
what a collection in progress leaves to finalize (`Garbage`): a view may outlive its
buffer only as garbage.

### Contexts and closures (`ContextLifecycleProofs`)

All properties of `ContextLifecycle`. The inductive invariant says, of a wrapper in
use and the failures `X` so far (`Good`):

- no context is dangling, and neither `class_proto` nor `reset` is in `X`, since
  both end the wrapper;
- unless jobs were left over, the wrapper has one reference to the newest context
  and none to others (`Owned`), every function of the current context has its
  closure, and every waiting job is of the current context and calls a closure
  that is kept (`Wired`);
- unless a name was no C string, no function object is lost (`Unlost`).

`DiesOnly` says which failures must have come before each way to die. Neither is
inductive without the other: a drop asserts nothing only because the counts were
exact, and the counts stay exact through a collection only because the owned
context is rooted.

### Only model-checked

- Liveness: `QueuedReactionsRun`, `EvalFinishes`, `CallFinishes`, `RequestsAnswered`,
  `EventsHandled`. Fairness and `ENABLED` are outside the prover.
- Everything that rests on recursion over data, which the provers cannot induct
  over: `ProgramsAgree`, `NumeralsExact`, `ArithmeticExact`, `UnicodeExact`,
  `RegExpsExact`, `WrittenObjectsRead`, `ViewOperationsExact`, `ModulesExact`,
  `ObjectsFollowRules`.
- Properties of states that the code's functions build by folding over lists, whose
  effect for lists of any length would need such an induction: `CountsExact`,
  `HeapSafe`, `HeapRefinement`, `CollectionIsComplete` and `FreeingEnds` of `RefCountGC`
  (an object's references are dropped by a fold, and counts are sums over the
  heap), `ShapesExact` and `ImplementsStore` (resizing and compacting), `MapsExact` and
  `MapWalksInOrder`, `FailuresHandled` and `RoundTrip` (bags of the references of a
  stack), `DeliveriesExact`, and `WaitsExact` (waiters are filtered out of a list).

## Where the code differs from what one might expect

The models follow the code. Where it departs from the language or from its own
comments, the reference definitions and properties name the case and leave it out,
or follow the code. The cases met:

- *Wrapper*: a promise fulfilled with `undefined` is reported as an internal error,
  because `property` takes `undefined` for a missing property; a promise that
  nothing settles ends in a NULL context; an object with a zero byte in a property
  name is never freed; see also the list of failures above.
- *Binary objects*: a SharedArrayBuffer that is refused leaves its parent marked;
  holes of arrays become `undefined` and named properties of arrays are dropped; the
  flag for bytecode must agree between writer and reader.
- *Typed arrays*: `set` between overlapping views of different classes copies in
  place (comment at quickjs.c:51276); `lastIndexOf` does not find negative elements
  of an Int8Array; the constructor does not look again at the buffer after
  `js_create_from_ctor`.
- *Compiler*: `continue` in a `for (let ...)` shares the binding; `yield` inside an
  expression under `finally`; the receiver of `(o?.m)()`; `delete d?.x`; `delete
  super.x` reads the property before it throws; a `finally`
  left by `break` keeps the value of the `try`; scopes left by an exception do not
  close their captured variables.
- *Objects* (`CutUnderWalk`, `HiddenSetter`, `LosesValue`, `GrowsInVain`,
  `RefusesInvalidLength`): the list of
  properties may be compacted while `set_array_length` walks it; a writable property
  of a prototype hides one further up that forbids the assignment; the value of a
  property that was not instantiated is lost when its writable flag is changed; an
  element may be refused after the length has grown; an invalid length is refused
  without a RangeError if the length is read-only. Proxies refuse more than the
  language for fixed writable properties and check less in `getOwnPropertyDescriptor`
  ("not complete check").
- *Collections and asynchronous code*: `js_map_clear` under a walk; the two
  functions of an element of `Promise.allSettled` have an `alreadyCalled` each; a
  `yield*` delegate that re-enters its generator; module cycles of which one member
  fails to load.
- *libbf*: a numeral whose exponent overflows is zero or infinity in every rounding
  mode; decimal division at infinite precision; printing in a radix that is no
  power of two.
- *libregexp* (`RepeatedCapture`, `EmptyIteration`, `UncheckedLoop`, `UpperCaseClass`):
  captures inside a quantified group are kept from one iteration to the next;
  iterations that consume nothing are ended differently, and lazy loops do not look
  for them; classes with upper-case letters under both `i` and `u`.
- *Threads*: a waiter whose time is up before it gets the mutex may be counted by a
  notify and still answer "timed-out"; a signal between the check and `select` waits
  for the next event, and one behind a signal that is raised for ever waits for ever.

## Not modelled

- The lexer and the grammar of scripts: the syntax tree stands for the tokens.
- Classes, destructuring, `with` and direct eval in the compiler.
- `Array.prototype`, `String`, `Math`, `Date`, `JSON` and `Reflect`: sequential library
  code over the operations of `Objects`.
- The number theoretic transform and the transcendental functions of libbf, except
  the rounding loop that the latter share.
- Radix prefixes and `BF_ATOF_EXPONENT` in `bf_atof`.
- The contents of the Unicode tables; error exits of libunicode and libregexp for
  want of memory (that of `unicode_script` jumps to itself, libunicode.c:1067). A
  database whose case mappings the tables cannot hold (`Encodable` of `MCLibraries`).
- The adder of the Map constructor is the built-in `set`: its lookup, its call and
  the closing of the iterator are left out.
- Files, processes and terminals of `quickjs-libc`, the tools `qjs` and `qjsc`.
- The typed accessors of `JsValue`, the console, the error types, the bindings and
  the build script: data and declarations, without state.
- The byte counters of the allocator. The models let the allocations they name
  fail at any time, which covers the memory limit. Failing allocations inside
  `JS_EnqueueJob` are not modelled (`fulfill_or_reject_promise` ignores them).

`PROJECT.json` lists every part.
