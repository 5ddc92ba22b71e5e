# A verification development for nari

nari is a dynamic language: a compiler to bytecode, a stack VM, a method JIT and
a trace JIT, a mark-and-sweep collector, asynchronous I/O on a small thread
pool, a debugger that speaks DAP, a language server and a formatter. This
directory holds TLA+ modules that model its stateful core, TLC configurations
that check them on small instances, and theorems that TLAPS checks for every
instance. Paths below are relative to the repository; line numbers are those of
the commit the modules were written from. `PROJECT.json` maps every definition
to the lines it stands for, and lists components, runs, hazards and theorems.

    tlc -workers 2 -config MCGCHeap.cfg MCGCHeap       # a run
    tlapm GCHeapProofs.tla                             # a proof

## 1. Inventory

| Component | State | Operations | Interacts with | What is hard | What makes it correct |
|---|---|---|---|---|---|
| **Collector** `src/gc.cpp`, `src/gc.h` | registry `tracked_objects`, `gc_index/gc_est/gc_marked/gc_tracked` of every header, usage and targets, `collection_requested`, `enabled` | track, untrack, mark_value, sweep, collect, force_collect, enable, thresholds | called by every allocator; asks the VM for roots; the VM collects at safe points | marks and indices that outlive a collection, the in-place partition, counters with clipped estimates | nothing reachable is freed, all garbage is, a due collection is asked for |
| **Heap values and roots** `src/core_types.*`, `src/runtime.cpp` | objects, arrays, functions, delegates, strings, handles, capture cells, temporary and async roots | allocators, stores, captures, `collect_gc_roots` | collector, VM, JIT, builtins | references kept in places no root provider lists | every place the program can read from is a root or hangs off one |
| **I/O thread pool** `src/io.h` | `work_queue`, `completed_queue`, `pending_count`, `stop`, four workers | submit, pop_completed, has_pending, shutdown | script thread, accept thread; callbacks run on the script thread | condition variables, two locks and two atomics, operations that wait for peers | no operation is lost or delivered twice; shutdown drains and returns |
| **Network server, process exit** `builtin_net_createServer` in `src/builtins/core.cpp`, `~ScriptRuntime` in `src/runtime.h` | accept thread, its operation, `g_shutdown_requested` | listen callback, accept loop, signals, destructor | pool | three threads that end in some order | one accept at a time; a signal ends the process, unless a silent peer keeps a worker |
| **Timers, intervals, handles, event loop** `src/builtins/core.cpp`, `collections.cpp`, `src/runtime.h`, `src/bytecode/bytecode.cpp` | `pending_timeouts`, `active_intervals`, async roots, `HandleData`, the native stack | set_timeout, set_interval, clear_interval, yield, `.await`, `.ready`, timer loop | pool, VM, collector | callbacks run in the middle of native calls and call them again | counts match, callbacks are rooted while needed, cleared intervals are silent |
| **Debugger** `src/debugger.*`, `src/dap/dap_server.cpp` | breakpoints, step mode and anchor, `stopped`, last stop | should_stop, publish_stop_and_wait, continue, next, step in and out, pause, disconnect | VM thread and DAP thread | a handshake between two threads and a client | what the client was shown holds; nothing is lost; disconnect ends |
| **VM errors and unwinding** `src/bytecode/bytecode.cpp`, `src/jit/jit_helpers.cpp` | call frames, `native_catch_stack`, `overflow_jmp`, `jit_call_depth`, `jit_captures_raw`, temporary roots | panic, runtime errors, depth limit, `__nari_catch`, longjmp | every builtin that calls back | state saved in C++ frames that a longjmp skips | a jump lands in a live frame, the innermost boundary catches, what was saved comes back |
| **VM instructions** `src/bytecode/bytecode.cpp`, `bytecode.h` | operand stack, call frames with their open cells, globals | about 150 opcodes | everything | variables that live in a slot, a cell and a global at once; frames used again; objects with several holders | a program prints what it means |
| **spawn, Spawn.all/race/any** `bytecode.cpp`, `core.cpp` | handles of spawned calls | OP_SPAWN, awaiting several handles | event loop | which handle answers first | results belong to their handles |
| **Bytecode compiler** `src/bytecode/bytecode_compiler.cpp` | scopes, constants, captures, pending jumps of each loop | one case per node | parser, VM | break and continue through captures, short circuits that leave a value behind, copies of globals | code does what the tree says; jumps land, slots balance |
| **Verifier, serializer** `bytecode_verify.h`, `bytecode_serializer.h` | worklist of heights; sections of a file | verify, read, write | loader | heights that must agree at joins, iteration whose height depends on a branch | verified code never under-runs its stack, and compiled code is verified |
| **Shapes and property caches** `src/core_types.*`, `src/runtime.cpp`, `bytecode.cpp`, `collections.cpp`, `jit_helpers.cpp` | tree of shapes, fields, dictionary mode, lazy fields, seven caches | get, set, spread, freeze, literals, JSON, results, traps | VM, both JITs, builtins | a cache that names a shape the object has left, or a slot under another name | what a program sees is an ordered map |
| **Method JIT** `src/jit/asmjit_jit.*`, `jit_helpers.*` | native code per function, call counts, the background compiler | count calls, compile, publish, invoke, leave | VM, collector, optimizer | code that takes over between two calls; slots, cells and registers that hold the same variable | a program prints the same from native code, whenever it takes over |
| **Trace JIT** `trace_jit*`, the recorder in `bytecode.cpp` | heat of back edges, the recording, traces | count, record, compile, enter, leave | VM | a recording that starts or is given up anywhere; variables in registers, ways out in the middle of an expression | a program prints the same through its traces |
| **IR and optimizer** `src/jit/ir*` | blocks of instructions and their values, for one function | build from bytecode, `optimize()` with its passes, infer types, lower | method JIT | passes that track slots and values by hand, in rounds, each on what the others left | same meaning before and after |
| **Lexer, parser** `parser.cpp`, `parser/lexer.*` | position, interpolation stack, the literals of a block | next token, parse, simplify every block | compiler, LSP, formatter | where a statement ends, what literals a variable keeps, loops that become assignments | the tree means what was written, simplified or not |
| **Module resolver** `parser/module_resolver.*` | loaded set, import stack | resolve, load | parser | cycles, vendored packages | each file is loaded once |
| **FFI** `ffi.cpp`, `builtins/ffi.cpp` | libraries, closures, struct layouts | open, call, callback | VM | callbacks from foreign threads | layouts agree with C |
| **Language server** `lsp/lsp_server.cpp` | documents and versions | open, change, query | parser | results for an old version | answers match the version |
| **Standard library, formatter, REPL, tools** | mostly none | functions on values | | | sequential |

Status and reason for every one are in `PROJECT.json`, "components".

## 2. Modules

| Module | Models | Uses |
|---|---|---|
| `ScriptHeap` | abstract: what a script may count on, a heap in which nothing is ever freed | |
| `GCHeap` | the heap a script builds, the root set, and the mark phase one object at a time; `Sweep` as one step | implements `ScriptHeap` |
| `GCHeapProofs` | the proofs about it, the refinement included | `GCHeap`, `TLAPS` |
| `GCRegistry` | `track`, `untrack`, the thresholds, and the sweep's partition one swap at a time | |
| `GCRegistryProofs` | the proofs about it | `GCRegistry`, `TLAPS` |
| `AsyncIO` | abstract: what asynchronous I/O promises the script's thread | |
| `IOThreadPool` | the pool, one critical section or atomic access per step | implements `AsyncIO` |
| `TcpServer` | a server and the end of the process | extends `IOThreadPool` |
| `IOThreadPoolProofs` | the proofs about the pool, its refinement of `AsyncIO` included, and about the server | `TcpServer`, `TLAPS` |
| `EventLoop` | the script's thread with its stack of native calls | the pool as `AsyncIO` |
| `EventLoopProofs` | the proofs about it | `EventLoop`, `TLAPS` |
| `DebugController` | the VM thread's hook and the DAP thread | |
| `DebugControllerProofs` | the proofs about it | `DebugController`, `TLAPS` |
| `Unwind` | how panics and errors leave loops, compiled code, builtins and catching calls | |
| `UnwindProofs` | the proofs about it | `Unwind`, `TLAPS` |
| `PropertyValues` | the values of properties, what `Ok` and `Err` return | |
| `PropertyStore` | abstract: objects as ordered maps that can be frozen | `PropertyValues` |
| `Shapes` | objects with shapes, maps and lazy fields, and every cache of a property | `PropertyValues`; implements `PropertyStore` |
| `ShapesProofs` | the proofs about it, the refinement included | `Shapes`, `TLAPS` |
| `Syntax` | syntax trees, as the parser hands them over | |
| `Source` | reference: how a tree is written down, as tokens | `Syntax` |
| `Simplify` | what the parser computes of a tree: folding, literals in place of variables, loops, dead code | `Syntax` |
| `Parser` | tokens to trees | `Simplify` |
| `Compiler` | trees to bytecode | `Syntax` |
| `Verifier` | what a chunk must satisfy, and the height of the stack at each instruction | |
| `IR` | the method compiler's representation: blocks, values, phis, and how it is built from bytecode | extends `Verifier` |
| `BlockPasses` | the passes of the optimizer within a block | extends `IR` |
| `Optimizer` | the passes over the graph of blocks, and `optimize()` that repeats them all | extends `BlockPasses` |
| `NativeCode` | types, the last rewritings, and the code that the lowering emits | extends `Optimizer` |
| `VM` | the machine, one action per kind of instruction of bytecode and of native code | extends `Verifier` |
| `VMProofs` | the proofs about it and about `Verifier` | `VM`, `TLAPS` |
| `Trace` | the trace compiler: hot edges, recording, the steps and exits of traces | extends `VM` |
| `Language` | reference: what a tree means, by an evaluator that knows no bytecode | `Syntax` |
| `Programs` | families of programs | `Syntax` |
| `Toolchain` | from a syntax tree to verified code: written down, parsed, compiled, verified, made native; and what it means | instances of `Source`, `Parser`, `Compiler`, `Verifier`, `NativeCode`, `Language` |
| `CompiledPrograms` | the programs of the runs, through the tool chain; apart, so that TLC computes them once | `Toolchain`, `Programs` |
| `Nari` | what came out of the tool chain runs, in the machine with its traces, against `Language` | `Trace`, `Toolchain` |
| `MC*` | the instances TLC checks | |

The composition follows the code. `TcpServer` adds an accept thread and a
destructor to the real pool, because who shuts down what, and when, is the
question there. `EventLoop` is about what callbacks do to each other and needs
only the promise of the pool, so it calls `AsyncIO`'s actions; the run `io_pool`
shows that the pool keeps that promise.

### GCHeap and ScriptHeap

`Object` are addresses and may be used again. `fields`, `captures` and `cell`
are what `mark_value`'s switch follows: an object's children, a function's
capture cells and what a cell holds. `roots` folds the operand stack, globals,
temporary roots and the receiver of native calls, all of which
`collect_gc_roots` lists; `frame_cells` are the captures of active frames, kept
apart because the code handles them apart: they are listed by the provider the
VM installs. `borrowed` are the cells that `call_user_function_stack` moves into
a C++ local while compiled code runs; no provider lists them. The script is
free: allocation, stores, loads, captures, calls and returns in any order.

`BeginCollection`, `MarkRoot`, `MarkChildren` are the loop of `collect` over the
roots and `mark_value`'s worklist; `Sweep` removes the unmarked part of the
registry, clears the marks of the rest, and deletes. A `RegexObj` is dropped from the registry
but the delete switch (`gc.cpp:351`) has no case for it, which the model keeps:
it stays in `allocated` for ever. One thread runs script and collector, so the
script makes no step while `phase = "mark"`. When a collection starts is left
to any safe point. Three constants name what takes the code off the plain path:
`GcEnableCalls`, `Compiled`, `OutOfMemory`. After a use of freed memory the model
goes on as if the bytes were intact; `NoDangling` has been violated by then.
Left out: profiling, prefetching, and `closure_env`, a member that no code fills.

`ScriptHeap` has the same operations and no collector. Its state is what is in sight: after every
operation (`Becomes`), objects and cells that the script cannot reach any more are forgotten, and a
new object takes any address that is out of sight. The mapping (`Visible`, `VisibleCells`) cuts the heap of
`GCHeap` down to what is reachable; `ImplementsScriptHeap` says that then every step of
the script is its operation and every step of a collection a stutter.

### GCRegistry

The vector with every header's `gc_index`, `gc_tracked`, `gc_est`. `Track` is
`track()` with the request it may raise, `Untrack` the swap-remove (nothing in
the repository calls it at this commit; it is modelled because it is the other
mover of entries). A sweep is `StartSweep`, `KeepLive` and `SwapGarbage` until
`EndPartition`, then `FinishCollection`, which also computes the next targets.
Estimates are small numbers with `EstMax` in the role of the 32-bit limit of
`gc_est`. The registry is modelled with the collector enabled: what disabling
does to marks is `GCHeap`'s subject.

### IOThreadPool and AsyncIO

A worker is at `lock` (about to test the predicate with the mutex held),
`waiting`, `run`, `publish`, `decrement` or `exited`. `submit()` is three steps
(count, push, notify), `shutdown()` three as well. `cv.wait` may wake for no
reason. Operations are of three kinds, by how they end: those that end by
themselves; `PollOp`, which poll for a peer 100 ms at a time and look at `stop`;
`BlockingOp`, which stay in `recv()`, in a blocking `send()` (`io.h:718`) or in
`curl_easy_perform` (`io.h:999`) until a peer acts, whatever `stop` says. When an
operation has ended, its flag `completed` is set without a lock (`RunDone`,
`io.h:1023`), then it is queued (`Publish`), then uncounted (`Decrement`).
`has_pending()` is two steps, since it reads the count and takes the lock of the queue
only when that is zero; it is part of the pool's interface, though at this commit
the timer loop calls `has_pending_timers()` instead (`runtime.h:707`). The refinement maps `submitted` to
the operations handed over, `completions` to `callbacks \o completed_queue`, and
`delivered` to how many callbacks the script's thread has taken. The stub pool for builds
without threads is left out.

### TcpServer

`AcceptTop`, `AcceptSubmit`, `AcceptWait` are the accept thread; `ScriptEnds`,
`DestroyPool`, `PoolDestroyed`, `JoinAccept` the end of the program;
`YieldShutsDown` the shutdown that `yield()` performs for a signal. A signal may
come at any moment. The accept thread goes on when it sees the flag `completed` of its
operation (`Wakes`), so it may submit the next accept before a worker has queued the
last. `PollOp` are the accepts, so its size bounds the connections; the reads of a
connection are among `BlockingOp`.

### EventLoop

`stack` is the stack of native calls: `yield` and the loop of the program
(`steps`), `process_completed_io`, `fire_due_intervals`, an `.await`. On top of a
`callback` or `tick` the script runs again and may do everything it can do
elsewhere, also yield and await. A failure in a callback ends the callback, not
the loop that called it (`over`, `BackFromBuiltin`). `past` stands for the
clock: the intervals whose `next_fire` has passed. Left out: the early return of
`fire_due_intervals` on a pending throw, because panics belong to `Unwind`;
spawned calls.

### DebugController

The VM thread asks before every instruction (`TestEnabled`, `ShouldStop`), and
publishes, announces and waits. The DAP thread obeys a client that only sends
what its state allows: it resumes and steps a program that it was told is stopped and
pauses one that it believes is running; it may disconnect or hang up at any moment.
Files are folded into lines, since the code compares the two together. A program
is any walk over places. Synthetic frames are not modelled: nothing pushes them.

### Unwind

`native` is the C++ stack, reduced to the frames that save something: `run()`
itself, an interpreter loop (`call_function_value_span`, or the one compiled code
starts), an activation of compiled code, a builtin that calls back under
`GcTempRoot`, a `call_function_value_catching`. `overflow_jmp` is the height of the
frame that called `setjmp`. An error leaves in several steps: `ctl = "leave"` is
`execute_instruction()` returning false, `"jump1"` and `"jump4"` are the two
longjmps. `AfterBuiltin` is what interpreter and compiled code do when a builtin
returns (`push_builtin_result`, `jit_runtime_call`), whether it set `throw_flag` or
`has_error`. `skipped` is a history variable: a longjmp has skipped C++ frames. The compiler
never emits `OP_SETUP_TRY`, so `dispatch_throw` finds no handler. `phase = "main"` covers the
program and `start()`, which `run()` calls under a second `setjmp` of the same kind.
Left out: the jump that makes every loop leave on shutdown, and helpers of the JIT that
save other state of their own.

### Shapes, PropertyStore

A shape is the list of its property names: extensions are remembered by the registry
(`core_types.cpp`), so equal lists are one shape, and comparing lists is comparing
pointers. `obj` is what an `ObjectObj` holds: shape and fields, or keys and map once
`kDictModeThreshold` is passed, `lazy_field_mask` and its context, `field_mask`. There is
one action for each way to a property (`GET_PROPERTY` with `prop_ic`, the stub and the
static caches of the JavaScript helpers, `CALL_METHOD`, the traps of a delegate, the site
of an object literal, the JSON parser, results made from a template), and for what
changes an object under them: extension, freezing, promotion to a map, death
and reuse of its address. Building a literal or a JSON object takes several steps. A
behaviour uses one family of operations, since the caches of different families never meet:
without this the product of all caches is out of reach. The mapping `Seen` forgets
everything but names, values and `frozen`; `building` objects are not visible yet.
The spread of one object into another (`OP_OBJECT_SPREAD`) is left out: it reads fields and
stores them by name, through no cache.

### Source, Parser, Simplify, Syntax, Compiler, Verifier, VM, NativeCode, Trace, Nari

Every program starts as a tree, and `Source` writes it down: parentheses only where the table of
`docs/04-operators.md` needs them, statements with and without semicolons, on one line and
on several. `Parser` is the recursive descent of `parser.cpp`, one operator per function,
and what it reads is the text, so that `RunsAsWritten` is about precedence, the ends of
statements and the lookahead for arrows and loops as well. Tokens carry what the parser asks of
them: their kind, their text, and whether a line begins with them. After an error the parser sees the
end of the input; no program of the runs has one. `Simplify` is what `parse_block` does when a block is
complete (`prune_dead_code`, `optimize_block`, `propagate_consts`) and
`parse_expression` to every expression (`fold_expr`); functions and the top level go through it once
more at the end. Left out: the lexer, types, classes, enums, objects, modules, interpolated
strings, spawn and await, error recovery, the limit of 256 nested expressions, folding
of floats and of what overflows.


`Compiler` has one operator per case of `compile_expr` and `compile_stmt`. Its context is
`CompilerContext`: the code so far, scopes, `const_locals`, captures, the loops with their
pending jumps. Jump offsets count instructions where the code counts bytes. Captures
are numbered in the order of their names, as the code walks a `std::set`. `Verifier` is
the data flow of `verify_stack_flow` with the range checks of `verify_function`. `FlowStep` is
one turn of its worklist, and `FlowAfter` as many turns as there are instructions: no instruction
enters the worklist twice. The code verifies bytecode only; the model works out
the heights of native code in the same way (`NativeForm`), to have something to
compare its stack with.

A frame of `VM` is a `CallFrame`: `inline` and `open` are `inline_upvalue` and
`open_upvalues`. `Enter` is `call_user_function_stack`, with the packing of rest
arguments. `ProgramsAssumption` says of what the machine may be given that it is verified,
and of the right kind where the verifier does not look: operands are typed (`OperandsTyped`),
`ITER_NEXT_KV` has the jump behind it that its two outcomes are made for, and no code that is
reached runs off its end (`WellFormed`). TLC evaluates the assumption on every run
of `Nari`, so it holds of what the compilers emit there. Arrays, and strings made by `@`, are
objects of `heap`; constants of the program are shared and immutable. One thread runs the machine, so its steps are deterministic
(but for one register of a trace, and for when native code takes over),
and the nondeterminism is the program: `Programs` is a sequence of chunks with the trees
they come from, and an initial state picks one.

`IR` is what `ir_build.cpp` makes of a function: blocks, instructions numbered as values,
phis where paths that left something on the stack meet. `Optimizer.Optimize` is
`optimize()`: the passes in their order, again and again until nothing changes or
`MaxRounds` is reached; each pass is an operator of its own, so that one can be
followed, and made wrong, alone. `NativeCode` infers the types, folds negations, marks the
concatenations that may be done in place, and lowers: the result is again a list of
instructions, which the machine runs as it runs bytecode, with slots for variables and an
operand stack. A function that the code refuses to compile has no native code. In `VM` a
function that was called `JitThreshold` times runs as native code from some later call on, or
never: the background thread publishes the code at a moment that nothing fixes. Only
calls go over, never a loop in its middle. A call from native code may find an old value in the
first local behind its arguments. A trace recorder that follows a call
follows interpreted code; the loops of `Programs.CallingLoops` therefore run
without native code (section 3 says what the code does otherwise).

`Trace` adds what the trace compiler does around an instruction. `Interpret` is
`execute_instruction` with `trace_record_step` behind it; a jump back is one of
`HeatEdge` (`edge_heat_`), `PassEdge` (something is being recorded), `FinishRecording`
(`TraceRecording` is complete and compiled), `EnterTrace` and `RefuseTrace` (the guards).
`recorder` is `trace_recorder` with its modes, `types` is `type_vstack`, `traces` what
`g_trace_jit` has compiled. `run` is a trace that runs: `regs` are its registers, `operands`
the operands, which an `AsmVEntry` ties to the registers of variables; there is one action for each
kind of step, and `Leave` is `emit_flush_and_ret` with the pushes of a side exit. What is
abstracted from is machine code: a step of the trace is what its instructions compute.

`Language` was written from `docs/` and the comments of the tests, as the reference to
compare with: lexical scope, a fresh binding for each iteration, immutable strings.
It shares no definition with compiler and machine. Its equality with them is
`RunsAsWritten`; a difference is either a mistake of the models or a disagreement of code
and documentation, and those met are listed below. The sentence covers traces and native code too.

Left out of the language: floating point and int48 overflow, objects (their
properties are `Shapes`), classes, destructuring, interpolation, variant
patterns, `spawn`, strict mode and the JavaScript helpers. Of the traces: floats,
objects, `math`, division, the exit on shutdown, and the compilation of the function when its
recording fails. Of native code: arrays of integers and unboxed numbers, floats, objects,
the register tier with its speculation and its hoisting of array headers, direct calls from
one compiled function to another (they are calls), `fuse_tostring`, and the estimate whether a
trace would pay. In the machine, errors end the program (`Unwind` has what they do otherwise).

## 3. Runs

`PROJECT.json` gives each run's properties, and for each property a mutant: a
definition that ends in a plausible bug, written next to the right one
(`ScannedFields` beside `Scanned`), with which TLC finds the property violated.

Passing:

| Run | Instance | Why it is enough |
|---|---|---|
| `gc_heap` | two addresses, one regex address, one cell; no escape from the registry | two addresses make every cycle, chain and reuse the loop can tell apart; the third hangs off them and tests the delete switch; the proofs cover every size |
| `gc_disabled` | two addresses, one cell; `__gc_enable`, compiled calls, failing `push_back` | an object that escaped and one it refers to |
| `gc_registry` | four objects, estimates 1 and 2, limits 0 and 3 | every pattern of live and garbage with a swap, and both ends of the inner loop |
| `io_pool` | two workers, two threads, one operation of each kind | more work than workers; peers can hold both of them |
| `server` | two workers, two accepts, the listening operation and a read of a connection | an accept is under way while the pool stops, and another after it; a silent client may keep one worker while the other goes on |
| `shapes` | one object at a time, four names, a threshold of four; places of all names in one cache collide | an object passes through every representation and leaves its caches to its successor; the names are those with getters, traps and templates |
| `programs` | some six hundred programs in families: pairs of operators on literals and on variables, literals that are hidden or changed, loops that only count; every kind of loop, captured variable, use in a closure, way to leave; every nesting of short circuits over null, 0 and 1; every list of arguments; hot loops with branches, inner loops, arrays, calls and closures | each family is a product over the places where the compiler takes another path; `TraceHotThreshold` is the code's, and the hot loops run 10 to 14 times, so that a trace is recorded, entered, left on every side, and entered again by a second call; `JitThreshold` is 1, so that native code may take over from the second call on, at every one that follows |
| `event_loop` | one timeout, one file, two intervals, native calls four deep | two intervals due in one batch; an await in a callback in an await |
| `unwind` | four call frames, six C++ frames, two calls out of compiled code, two builtins | a catching call within a catching call, compiled code that calls interpreted code that calls back, and the depth limit inside each |
| `debugger` | two lines, three frames, four instructions | a step that calls, returns and recurs |

Violations, each a disagreement between the code and what a comment says of it:

- `gc_compiled`, `NoDangling`: `call_user_function_stack` moves `frame.captures` into a
  local while compiled code runs (`bytecode.cpp:875`), and overwrites the callee slot;
  a captured object that nothing else refers to is freed at a safe point of that code.
- `programs_traced`, `RunsAsWritten`: the first conditional jump of a recorded iteration is
  taken for the one that leaves the loop, and for one that was not taken
  (`bytecode.cpp:3509`; `trace_jit.h:77` says so of the step). The back edge of an inner loop
  that runs two, four or eight times gets hot at its end; the recording then begins with the
  test that leaves the inner loop, and goes round the outer one. The trace leaves where
  the iteration went on, and goes on where it left: the sum printed is 50 and not 55.

The models contain further behaviour that a reader of the docs may not expect,
which no run states as a property:

- An object allocated under `__gc_enable(false)` is in no registry. The first later
  collection marks it and no sweep clears the mark (`gc.cpp:293`), so the next
  collections do not visit its children (`gc.cpp:113`) and free what it refers to:
  with `GcEnableCalls`, `NoDangling` does not hold. `RegisteredAreUnmarked` does.
- The callback of an operation keeps a raw pointer to a handle that is no root
  (`core.cpp:414`, whose comment at line 412 says otherwise); a program that drops the
  handle, or awaits the only reference, lets a collection free it first.
- `disconnect` disables the debugger and clears `stopped` (`dap_server.cpp:1039`); a VM that
  already decided to stop sets it afterwards and waits with nobody left to resume it,
  although the comment speaks of letting it wind down.
- A swept `RegexObj` leaks (`gc.cpp:351`).
- As many silent peers as workers hold up every timer, and a single one holds up
  `shutdown()`, hence also a process that was signalled: a `recv()` (`io.h:696`), a
  `send()` to a peer that does not read (`io.h:718`), an HTTP transfer, which has no
  timeout (`io.h:999`). The destructor closes the server sockets only, and after it has joined
  the workers (`runtime.h:412`). `OperationsEnd`, `ShutdownReturns` and `SignalledExit`
  therefore assume that this does not go on for ever.
- A server whose program ends without a signal never ends: an accept that is submitted
  after the pool has stopped never completes, and the destructor joins the
  thread that waits for it (`core.cpp:675`). `SignalledExit` is about a signal.
- A callback that yields lets an interval be fired within its own callback, and
  a second time for one deadline, since the batch is a snapshot (`core.cpp:275`).
  `TicksNestByYield` says that nothing but `yield` does this.
- A panic does not always end the program (`builtin_panic` is documented to "unwind to
  the top of the program"): after `run()` has cleared `overflow_jmp`, compiled
  callbacks go on after it; and an interpreted runtime panic inside `__nari_catch`
  ends its loop only, since the catching call forgets the error
  (`bytecode.cpp:3825`). `ErrorEndsMain` says where errors do end it.
- A longjmp past compiled code leaves `jit_captures_raw`, the temporary roots and
  `jit_call_depth` as they were (`jit_helpers.cpp:1273`), so compiled code that goes on
  after it may read the captures of another closure. The jump is in `Unwind`; no property
  says that they come back then, since they do not. `SavedStateReturns` is about behaviours
  without such a jump, and `JitDepthCovers` shows that the depth errs on the side that is safe.
- A breakpoint does not fire again when the program comes back to its line from
  another one: `same_pos` compares with the place of the last stop (`debugger.cpp:165`).
- After a callback has failed, the callbacks after it still begin
  (`runtime.h:724`), although the docs speak of aborting the program.
- An await on an operation that waits for a peer outlasts a requested shutdown
  (`bytecode.cpp:2260`), because only `yield` and the destructor stop the pool.

Programs do the following too; those of the passing runs keep clear of it:

- `x = x @ e` extends a string in place whoever else holds it (`bytecode.cpp:1249`), once `x`
  holds a string that an append made: after `let t = s; s = s @ "c"`, `t` has the `c` as well,
  although strings are immutable (`docs/03-data-types.md:41`).
- In main, `x++` and `s = s @ e` change the local and not the copy that functions read as a
  global (`bytecode_compiler.cpp:913`, `:1917`); closures that assign a variable of main do not
  change the copy either, a `let` in a block of main overwrites the global of the same name,
  and main does not see what named functions assign (`docs/06-functions.md:492` says that
  they may).
- A self tail call keeps the open cells of its frame, so closures over a parameter see the
  next call's argument or not, by whether it was captured; and it is compiled for any
  call of the function's own name, also when a local hides it (`bytecode_compiler.cpp:1994`).
- A `let` that hides a `const` is still a constant (`bytecode_compiler.cpp:507`). The variable of a `for` or of a
  `match` stays visible behind it. `let x = x` reads what the slot held before.
- The parser reads `a ? b : c ? d : e` as `(a ? b : c) ? d : e` (`parser.cpp:3870`), although
  `docs/04-operators.md` gives the other meaning under "Nested ternary", and `a ** b ** c` from the left.
- A line that begins with `(`, `[` or `-` continues the statement before it, also after `return`.
- A variable whose declaration gives it a literal is that literal before the declaration too, and
  the last one if it is declared twice (`parser.cpp:2165`); the search for what changes it does not look at
  the arms of a match, spread elements, default values, named functions and the second
  variable of a `for` over pairs.
- An empty loop sets its variable to the end also when it would not have begun, and declares it no
  longer; a loop that only counts leaves its assigned variable as it was (`parser.cpp:2388`, `:2446`).
- `a[-1]` reads null, `a[-1] = v` writes the last element (`bytecode.cpp:2052`, `:2126`).
- `get_or_create_cell` (`bytecode.h:574`) gives the place `inline_upvalue` to any local once it
  is free, also to one that has its cell in `open_upvalues`. A loop whose closures capture
  the variable of the loop and one from outside that follows it in the order of names empties
  the place at the end of each iteration; closures made before and after that no longer share the
  outer variable (`tests/expect_pass/test_loop_closure_capture.nari:9` says they do).
- Traces (`trace_jit_asmjit.cpp`, `bytecode.cpp:3006`): a captured variable that a trace keeps in
  a register is stored in its slot and not in its cell; a side exit in the middle of an
  expression loses the operands below it; `a = i++` leaves the old value in the register that
  `i++` overwrites; numbers that leave 48 bits, elements that are no integers and division
  by zero are not guarded; a closure that fails its guard ends the loop silently
  (`:1868`); an inlined function is not guarded against a new value of its global; and a recording whose
  loop ends first stays open, so that no other loop is traced until its jump
  is met again.
- The array of an indexed access is put in the register for the side exit behind the bounds check
  (`trace_jit_asmjit.cpp:1577`, `:1638`): an exit in the first pass of a trace reads a
  register that nothing has set. `TraceIndex` allows any value there; the
  arrays of the programs are left in later passes only.
- With native code, a loop that is being recorded and calls a function that is native by then: the
  recorder enters the callee (`bytecode.cpp:3018`) and waits for an interpreted `OP_RETURN` that
  never comes, so that what follows is recorded at the wrong depth (`:3219`, `:3337`) and the
  trace goes round for ever. TLC finds this when `CallingLoops` are given native code.
- The optimizer of the method compiler tracks slots by hand, and some of its passes do not
  know every instruction that changes or reads one (`ir_opt.cpp`): `propagate_slot_consts`
  says that no other instruction modifies a slot, but `StrAppendSlot` does, and so do the stores that
  an earlier round fused; local value numbering removes a store that lies within what it
  replaces (`[x + (y + 1), x + ++y]`); `eliminate_dead_stores` does not count `StrAppendSlot`
  as a read. The type inference does not look at captured slots, types a global that
  is read before its assignment, and takes a constant of the pool for the identity of the
  join. A self tail call stores parameters in their slots while an open cell stays. What
  programs would need for these lies outside the families that run.
- The verifier accepts any conditional jump behind `ITER_NEXT_KV` (`bytecode_verify.h:262`), although only
  `OP_JUMP_IF_FALSE` agrees with the heights that it enters the two ways with, and code that
  jumps or runs right behind its end (`:82`). The compiler
  emits neither; `WellFormed` is where the proofs need to know.
- `CALL_SPREAD` of what is no array is reported after two operands were taken, with no result in their
  place (`bytecode.cpp:1970`), and the number of its arguments is cut to eight bits.
- Jumps longer than 32767 bytes: a forward one is reported and keeps its placeholder
  (`bytecode_compiler.cpp:230`), a backward one is not checked (`:1890`).
- `eval` appends names to the chunk that runs (`bytecode.cpp:3994`); the caches that are
  sized by the number of names (`bytecode.cpp:405`) are not made longer.

### Fairness

Fairness is stated where a thread has nothing to decide. `IOThreadPool`: weak
fairness for each worker, each `submit()` under way and `shutdown()` (the operating
system runs them); none for peers, spurious wakeups or the script. `TcpServer`:
the same with the accept thread and the destructor. `GCHeap`: the
collection runs to its end before its caller goes on. `DebugController`: both
threads run; the client need not do anything. Deadlock is not checked where the
system really stops: a program that has ended, a pool that was shut down, a
session whose client is silent. `Nari`: the thread of the machine keeps running, in the
interpreter, in native code or in a trace.

## 4. Proofs

`GCHeapProofs`, for every set of objects and cells:

- `TypeCorrect`, without a hypothesis.
- `InductiveInvariant`, `Spec => []IInv`, under the hypotheses
  `GcEnableCalls = FALSE`, `Compiled = FALSE` and `OutOfMemory = FALSE`: the
  script does not switch the collector off, no compiled closure runs, and the registry never
  fails to grow.
- Under the same hypotheses, `NeverDangling` and `MarkIsPrecise` follow from `IInv`,
  and `SweepExact` is the action property.
- `RefinesScriptHeap`, also under them: the refinement of `ScriptHeap`. `ReachClosed` and `ReachLeast` characterise
  what is in sight; two graphs that agree on a closed set show the same (`SameSight`). For
  each operation the proof names a set that holds everything reachable afterwards,
  and on which the heap and the abstract one agree (`Shows`). A new object is
  out of sight because `IInv` has all that is in sight allocated, and a sweep does not show
  because everything in sight is marked (`CollectorHidden`).

`NoDangling` is not inductive: it says nothing of a collection that is under
way. `IInv` adds that everything reachable is registered and the three colours:
an object is white (unmarked), grey (marked, in the worklist) or black (marked,
scanned), and black objects refer to marked ones only. When worklist and pending
roots run dry no grey is left, the marked objects are closed under references and hold the
roots, hence contain what is reachable; conversely only reachable objects are
ever marked. Between collections nothing is marked. Reachability is the least
closed set, defined without recursion so that both directions follow from
set reasoning. The first two hypotheses cannot be dropped: the run
`gc_compiled` is what happens without the second, and without the first an
unregistered object keeps its mark. An object that a failed `push_back` left
unregistered is in the same position.

`RegisteredUnmarked` needs none of the hypotheses: whatever escapes the registry, no entry
of it carries a mark between collections, because the sweep clears the marks of all it keeps.

`GCRegistryProofs` (for every set of objects, estimates and limits):

- `IndexCorrect`: each registered header knows its place; `PartitionCorrect`:
  the loop invariant of the two-pointer partition; `SweepCorrect`: a finished
  sweep leaves exactly the marked entries, and reports as many removed objects as it removed.
- They rest on one invariant, `RInv`: the registry holds no object twice, the
  indices are right whenever no sweep is under way, the entries before
  `live_count` are marked and those from `garbage_begin` on are not. A swap of two
  entries is a bijection on places (`SwapPermutes`), so a sweep loses nothing.
- `UsageCorrect` and `AskedInTime` rest on `CInv`, about the counters: usage is the sum of the
  estimates in the headers of what is registered and of what did not fit them; and without a memory limit
  a collection is asked for only after `collection_threshold` objects. The sum is a fold over a set. That it does not depend on the order, and
  what one element more or less does to it, is shown without an induction theorem: of the sets
  for which it fails take one of the smallest size (`WFMin`), and look at one element less.

`IOThreadPoolProofs` (for any finite sets of operations, workers and submitting
threads, at least one worker):

- `PoolInvariant` is the inductive invariant `PInv`. Its heart is `OnePlace`: an
  operation is in the hands of one submitting thread, at one place of the queue,
  or with one worker, and only the worker that has published it and not uncounted
  it yet holds a completed one. `Accounted` adds that every operation ever submitted is in one
  of these places or completed. Without `OnePlace` the count cannot be proved exact:
  removing an operation from one place would not show that it leaves the set.
- `CountExact` follows: `pending_count` is the size of that set. `NeverHidden` needs one
  conjunct more, `Asked`: between the two tests of `has_pending()`, everything that had been
  submitted when it was called is in `completed_queue` or taken, and stays there,
  so when the second test finds the queue empty the script has every answer.
- `WakeupsKept` is a counting argument beside it: as long as a worker waits, each queued
  operation has a worker on its way to the lock or a notification still to come.
- `ShutdownDrains` needs one more conjunct, `LeftBehind`: a worker exits only once
  the pool has stopped, with nothing queued but operations that came too late.
- `Implements`: initial states map to initial states; `Publish` maps to
  `Complete`, `PopCompleted` to `Deliver`, `BeginSubmit` to `Submit`, and
  every other step is a stutter (`RefinedStep`).

About `TcpServer`, in the same module (for any number of connections and workers): `ServerIsPool` says that the
server with its accept thread and the destructor behaves, as far as the pool is concerned, as
`IOThreadPool` allows, so all theorems about the pool hold of it. `OneAccept` uses
them: the accept thread goes on when it has seen the flag `completed`, which says that
the operation has ended, queued or not, and which nothing resets (`FlagsStay`); so at
most the operation it waits for lacks the flag (`AcceptInvariant`).

`DebugControllerProofs` (for any lines, frame depth and length of the program):
`StopHolds`, `NoStopIsRepeated` and `StepsLand` follow from `Handshake`: a stop
that is being announced has been published and is of the present place; a client
that believes in a stop is right as long as the session lasts; while a step is
under way its anchor is the depth of the last stop; and nothing has stopped or
steps before the entry stop.

`EventLoopProofs` (any timeouts, operations and intervals, native calls of any depth):

- `LoopInvariant` is the inductive invariant. Its heart is `StackOK`, what may lie on
  what in the stack of native calls, with the fact that an operation's callback lies on it
  at most once. `Called(stack) \subseteq Delivered` ties the stack to the pool,
  `Rooted` the roots to both.
- `CountedExactly`, `RootedWhileNeeded`, `EndsOwingNothing` are parts of it or follow.
- `TicksNest` follows from the stack alone: between two ticks of one interval lies a
  frame of `yield`, since intervals are fired by the steps of a yield or of the main loop, never
  by those of an await. `ClearedIsSilent` is an action property: the batch that
  `fire_due_intervals` collected is tested again at each tick.

`UnwindProofs` (any depth limit, any number of C++ frames and calls out of compiled code):

- `UnwindInvariant`, `UInv`: every C++ frame keeps what was current when it began, hence
  what is current is what the innermost one began with (`IntactInv`); and the script's
  frames never fall below the height that a C++ frame found (`StackInv`). `MainInv` is about
  the main program, where only builtins and catching calls may stop an error.
  `CapturedOnItsWay` and `JumpsSomewhere` say where the state of a pending error comes from.
- `JumpsToLiveFrames`, `BoundariesMatch`, `DepthNeverWraps`, `StateReturns` (for programs
  without a skipped frame, as the property says) and `NoPanicLeftOver` follow from it.
- `CatchBalances` and `ErrorIsFinal` are action properties: a catching call leaves as many
  call frames as it found, and an error that nothing guards ends main.

`ShapesProofs` (any objects, names, accessors, threshold, cache sizes, and places that collide
in any way):

- `ShapesInvariant`: the inductive `IInv` has a part for objects, one for templates, one for what
  is being built and one for every cache. `Coherent` alone is not inductive. A lazy field is
  backed by a template, which must have the same name in that place (`ObjOK`, `TemplateOK`);
  and a cache must be true of the shape that it names, whether any object has that shape now or
  not, since the next object may get it.
- `ObjectsStayCoherent` and `CachesTellTheTruth` follow.
- `RefinesPropertyStore`, the refinement: every operation, through whichever cache, on an object in
  whichever representation, is an operation of `PropertyStore` or is not seen.
  `View(ob)` is what the program sees of an object, the fields that are put off included, and
  `FieldSetView` says that `set_field` is `Put` on the view, also when it creates a shape, promotes to a
  map or makes a lazy field; it is followed by one lemma for each action. An object that is being
  filled is not visible yet, so the proof needs one conjunct more, `FillingOK`: what has been
  filled is the literal of the first keys, each once, with the value that comes with
  it last. `PropertyStore` says what a literal is by what the result satisfies
  (`IsLiteral`), not by the order in which it is built, so that the two
  descriptions are independent. The empty literal is assumed to be one of `Literals`: a
  new object is one.

`VMProofs` (any programs that `ProgramsAssumption` admits, any limit of calls, and native code that takes
over at any call):

- `VerifierSound`, about any code whose jumps stay in range: if `StackFlow` accepts it, no
  instruction that is reached underflows, and every way on leads to an instruction with the
  height found there. The invariant of the worklist is that an instruction has a
  height if it is in the worklist or settled, with all its successors; each step settles one, so that as
  many steps as there are instructions are enough, whichever is taken first.
- `MachineInvariant`: `VMInv` is inductive for `Interpreted`, the machine with bytecode and native code and without
  traces. `StackHeights`, `StackAsVerified`, follows from it.

`StackAsVerified` alone is not inductive. A `RETURN` needs to know what the frame below waits for (`Waits`:
all that the verifier expects but the result, counted up to the base of the next frame). The
branch behind `ITER_NEXT_KV` needs the boolean that was pushed (`Branches`), since two heights are
right there and the verifier skips that instruction. And a call needs to know that what it
calls is a function of the chunk, so `Typed` follows values through the stack, cells, objects and
globals: a closure has a function of the chunk and cells that were made, a reference an
object that was made. Cells that frames hold, open or captured, exist as well (`FrameSet`); no step loses
one. There are lemmas for what the steps do alike (`StateStep`), and one for each kind of
instruction. Since every instruction of `Execute` is covered, no instruction takes from the
stack what its frame has not put there, in any program that is verified.

The assumptions are those of the modules on their constants (`HeapAssumption`, `PoolAssumption` and so on):
sets are finite where the code has finitely many, limits are positive numbers, and names that stand for
nothing are none of the others. TLC evaluates them in every run.

Only model-checked:

- the liveness properties (`CollectionEnds`, `OperationsEnd`, `ShutdownReturns`,
  `SignalledExit`, `ResumeIsHeard`, `Finishes`), which need fairness and ENABLED;
- `RunsAsWritten`: parser, compilers and reference are recursive operators over trees and
  code, which the provers cannot reason about, and the claim is an induction over programs;
- `StackAsVerified` while traces run. It is no theorem of all verified programs: a side exit in the middle of an
  expression loses operands (section 3). The run `programs` checks it on programs whose traces
  keep clear of that.

Every other property of the passing runs is a theorem; where it has hypotheses, they are named above.

## 5. Plan

1. Done: collector, pool, server, event loop, debugger, unwinding, properties, and the core
   of the language from text to output, with its traces and its native code; the proofs of every safety
   property but `RunsAsWritten`, of the verifier and of the machine's frames and cells, and of the refinements of
   `AsyncIO`, `PropertyStore` and `ScriptHeap`.
2. Next modules, in this order: objects, interpolation and destructuring in the
   language and its parser; the lexer; floats and objects in
   `Trace` and `NativeCode`; `ModuleResolver`; `Spawn` (handles of spawned calls, added to
   `EventLoop`); `LspDocuments`.
3. Abstract specifications: `AsyncIO`, `PropertyStore`, `ScriptHeap` and `Language` (written); the compiler as an
   implementation of `Language`, statement by statement, needs it without recursive operators.
4. Proofs: which traces keep the heights of the verifier, hence `StackAsVerified` with
   traces under a hypothesis on what is recorded.

## 6. Not modelled, and why

Register allocation and encoding in the JITs (machine code), the register tier of the method JIT with its
speculation, pure I/O (embedded files, REPL,
command line, profiler formats), platform macros and build tools, vendored
libraries. Of the language, its traces and its native code, what section 2 says. Data races on plain `bool`s
(`completed`, read by the accept thread) are treated as atomic accesses, each a step of its own.
