# Formal model of the JTS C wrapper (`src/libjts`)

This directory holds TLA+ models of the C interface to the JTS geometry library
(`src/libjts/jts_c.cpp`, `jts_c.h`, `jtstest.c`), with TLC configurations and
TLAPS proofs.

## 1. The system

`jts_c.cpp` is a gcj/CNI shim. It exports `extern "C"` functions that call the
Java JTS classes compiled by gcj. Its parts are these.

| Part | Code | State | Operations |
|------|------|-------|------------|
| Runtime lifecycle | `initJTS`, `finishJTS` (jts_c.cpp:95-128) | `jtsGeomFactory` (NULL until the first initJTS, never reset), `NOTICE_MESSAGE`/`ERROR_MESSAGE` (NULL until initJTS, overwritten by every initJTS), the host threads attached to the VM | initJTS: if the factory is NULL, create the VM, **attach the calling thread** and build the factory; then always store both callbacks. finishJTS: detach the calling thread only. |
| Call boundary | every `JTS*` function (135-721) | none of its own; it reads the statics | `try { Java call } catch (Throwable *t) { ERROR_MESSAGE(StringToChar(t->getMessage())); return sentinel; }`. The sentinel is 2 for `char` results, NULL for pointers and 0 for `int`. `JTSSetSRID`, `JTSGeomTypeId` and `JTSversion` have no try. The five polygon/collection getters cast the handle unchecked. |
| StringToChar (728-737) | | GC heap | Copies a Java string into `Jv_AllocBytes(len)` and writes `buf[len]`. |
| Static codecs (681, 697, 712) | | one `WKBWriter`, `WKTReader` and `WKBReader` per process | They are shared by every calling thread. |
| Tester `jtstest.c` | `main`, `do_all`, `notice`, `log_and_exit` | | A sequential driver: init, version, then n rounds of conversions, operations and predicates. |
| `jts_c.h` | | | Declarations, and the contract: call `initJTS` first, and the error handler is called on exceptions. |

How the parts interact:
- Every wrapper reads the process-wide callbacks and relies on the calling thread being attached.
- Any host thread can call `initJTS` and `finishJTS` at any time.

The behaviours a unit test hardly reaches:
- two threads interleaving at the factory test;
- init after finish;
- a call before init;
- exceptions with a null message;
- calls on the wrong geometry variant;
- error sentinels that coincide with legitimate values.

## 2. Modules

### `JtsC.tla` (lifecycle and call boundary)

The constant `Threads` is the set of host threads.

| Variable | Code |
|----------|------|
| `factory` | `jtsGeomFactory # NULL` |
| `handlers` | whose callbacks `NOTICE_MESSAGE`/`ERROR_MESSAGE` hold: the thread whose initJTS assigned them last, or `NoHandlers` before any initJTS. The two statics are assigned by the same pair of statements, so one value covers both. `Registered` means the callbacks are non-NULL. This assumes a host passes non-NULL `nf`/`ef`, as the header requires. |
| `attached` | the threads attached to the VM |
| `pc[t]` | inside `initJTS` after the factory test |
| `inited[t]` | t has returned from initJTS and not called finishJTS since. This is a ghost variable for the header's contract. |
| `last[t]` | the outcome of t's last call: function group, return kind, whether the arguments were well formed, ok/error/undefined, and the value returned |
| `crash` | the process died: where, why, and whether the call was well formed by a thread in the inited state |

Actions:
- `InitJTSCheck` / `InitJTS`: initJTS, split at the unlocked test on line 103 so that two threads can interleave there.
- `FinishJTS`: finishJTS.
- One action per group of wrappers with the same control flow:
  - `JTSPredicate`: the eleven char predicates and RelatePattern;
  - `JTSRelate`;
  - `JTSisRing`;
  - `JTSGeomOp`: the ten pointer operations and GeomType;
  - `JTSIntGetter`: GetNumCoordinate and GetSRID;
  - `JTSCastGetter`: the five unchecked-cast getters;
  - `JTSSetSRID`;
  - `JTSGeomTypeId`;
  - `JTSConverter`: the four WKT/WKB functions, which call `NOTICE_MESSAGE` first;
  - `JTSPolygonize`;
  - `JTSversion`.

Shared helpers model the shared code:
- `TryCall`: a try block. A detached thread crashes.
- `CatchThrowable`: the catch block.
  - A null message makes `StringToChar(NULL)` throw out of the handler.
  - A NULL `ERROR_MESSAGE` is a call through NULL.
- `Crash`: the process dies inside the wrapper. Most deaths happen in `StringToChar`, where the null message is dereferenced.
- `UntriedCall`: a call with no try.
- `UndefinedCall`: a method called through the wrong vtable. It either crashes or returns an arbitrary value.

What is abstracted:
- Geometries are reduced to a type name and emptiness (`Handles`).
- The Java library is an oracle:
  - with a NULL receiver it throws a NullPointerException whose message is null;
  - otherwise a library call may throw an exception with a message, and a getter returns.
- Predicates and operations take their arguments from `{NullHandle, AnyGeom}`, because only NULL-ness decides their path.
- `JTSversion` has no try, so the model makes it crash on a detached thread. The code returns `"UNDEFINED"` before any initJTS (line 628), so this is harsher than the code. No property depends on that call succeeding before initJTS.

A crash ends the process. No action is enabled afterwards, so the configurations set `CHECK_DEADLOCK FALSE`: a crashed process really does stop.

`ThreadsAssumption` asks for a non-empty set of threads, none of which is the string `"none"` that `NoHandlers` stands for. `MCJtsC.tla` instantiates `Threads` with two model values and declares the thread symmetry. The symmetry is sound because no definition distinguishes threads.

### `JtsTester.tla` (jtstest.c composed with `JtsC`)

`JtsTester` EXTENDS `JtsC`. The tester is one host thread, `Main`. Each wrapper call of the tester is a `TryCall` step of `JtsC` for `Main`, conjoined with what the tester does with the result. So the wrapper's state (factory, handlers, attachment, crash) and the tester's state change in the same step, as they do in the process.

| Variable | Code |
|----------|------|
| `cmd` | `argc`, `atoi(argv[2])` and the input file's contents, fixed for a run |
| `mline` | where `main` is: before initJTS, version, argument parsing, loop, `do_all`'s fopen, its body, returned |
| `line` | the index of the next `do_all` statement, in the table `Program` (lines 97-189) |
| `i`, `n` | main's loop counter and round count |
| `env` | the locals `g1 g2 g3 ptr uptr`, each `"undef"`, `"set"` or `"NULL"` |
| `exitCode` | -1 while running, otherwise the process status |
| `ccrash` | the process died in C code: printHEX reading a NULL buffer, `string s = NULL` in JTSRelatePattern, or vasprintf on missing varargs |
| `bad` | the tester printed or accepted a value that no call computed |

Actions:
- `MainInitCheck`, `MainInit`: initJTS.
- `MainVersion`: the JTSversion call.
- `MainArgs`: `usage`, `atoi`, and `if (!n) n = 1`.
- `MainLoop`: the for loop, and `return i`.
- `DoAllOpen`: fopen, with exit(1) on a missing file.
- `DoAllStep`: one statement of the body.
- `DoAllNullPattern`: the NULL pattern crash.
- `DoAllReturn`: the end of do_all, then `i++`.

The error handler `log_and_exit` receives the exception message as its format string, so the model abstracts a message to what `vasprintf` makes of it:
- `"text"`: it prints and calls exit(1).
- `"empty"`: vasprintf returns 0 and the handler returns to the wrapper, which returns its sentinel.
- `"percent"`: a conversion specification, for which vasprintf reads varargs that were never passed. This is undefined behaviour: an exit or a crash.

An allocation failure (-1) leads to the same undefined outcome.

`printHEX` and the unassigned `size` after a failed `JTSGeomToWKB` are part of the toWKB step. `notice` only prints.

`MCJtsTester.tla` sets:
- one thread;
- all three input files;
- argc 1-3;
- counts -1, 0 and 2, which give no round, one round and two rounds.

Two rounds are enough to show that the loop repeats; more rounds only repeat the same states.

Abstraction: the statement `uptr = NULL` after line 108 is left out. `uptr` is not read again until the next round assigns it.

### `SharedCodecs.tla` (the static converters)

`JTSGeomToWKB`, `JTSGeomFromWKT` and `JTSGeomFromWKB` each construct one function-static codec (lines 681, 697, 712). g++ guards that construction, so the construction itself is safe. Afterwards every thread uses the same object with no lock.

The JTS codecs keep their cursor in a field:
- `WKTReader.read` stores a new `StreamTokenizer` in `tokenizer`;
- `WKBReader` points `dis` at the bytes;
- `WKBWriter` resets `byteArrayOS`.

The model follows this structure:
- `cursor[c]` is that field;
- `Bind(t)` is the call up to `r->read(...)`;
- `Step(t)` reads one element through the field;
- `Finish(t)` returns what the thread assembled.

Every thread is taken to be attached to the VM. A wrapper of `JtsC` crashes on a detached thread, and initJTS attaches only the thread that creates the factory (the `second_thread_unattached` finding). So the race needs a host that attaches its other threads itself.

The constants are `Threads`, `Data` and `Steps`, the number of elements one conversion reads. The per-step behaviour of the Java methods is modelled from their documentation, since that code is not in src/.

## 3. Runs

| Run | cfg | Expect | Shows |
|-----|-----|--------|-------|
| `jtsc_contract` | `JtsC.cfg` | pass | 2 threads, any interleaving of init, finish and every wrapper (943,845 distinct states): `ContractCallsNeverCrash` holds. |
| `second_thread_unattached` | `JtsC_InitializedThreadsAttached.cfg` | violation | t1 runs initJTS; t2 runs initJTS, takes the skip branch and is not attached. |
| `null_message_escapes` | `JtsC_NoExceptionEscapes.cfg` | violation | A predicate is called with NULL, and the NullPointerException escapes the catch block. |
| `unchecked_cast` | `JtsC_WrongVariantGetsSentinel.cfg` | violation | A collection getter called on a Polygon is undefined behaviour. |
| `int_sentinel_ambiguous` | `JtsC_SentinelOnlyOnError.cfg` | violation | GetNumCoordinate on an empty geometry returns 0 without an error. |
| `callbacks_replaced` | `JtsC_RegisteredOnce.cfg` | violation | t1 and t2 both run initJTS. t2's assignment replaces t1's callbacks, so t1's later errors reach t2's handler. |
| `tester_output` | `JtsTester.cfg` | pass | Text and `"%"` messages, on which log_and_exit never returns, and every command line and input (822 states): `WrapperNeverCrashes` holds. |
| `tester_status` | `JtsTester_Status.cfg` | pass | All three kinds of message (1,779 states): whenever main returns, its status is the round count mod 256 (`ReturnsRoundCount`). |
| `tester_exit_status` | `JtsTester_ExitStatus.cfg` | violation | argc 3 with a count of -1: no round runs, and main returns 0. |
| `tester_empty_message` | `JtsTester_EmptyMessage.cfg` | violation | An empty message makes log_and_exit return. `JTSEquals` then returns 2, and the round-trip check passes. |
| `tester_format_string` | `JtsTester_FormatString.cfg` | violation | A malformed input whose parse error contains `%` makes vasprintf read missing varargs. |
| `shared_codec_race` | `SharedCodecs.cfg` | violation | Two attached threads, two inputs, two steps. One thread rebinds a static codec while the other is reading it, and the reader returns a value "mixed" from both inputs. |

On `shared_codec_race`: TLC's shortest trace goes through the `WKBReader` of `JTSGeomFromWKB` (line 712). The `WKTReader` (697) and the `WKBWriter` (681) race the same way.

### The properties

`ContractCallsNeverCrash` (JtsC): a call by an inited thread with well-formed arguments never dies of a NULL callback, an escaped exception or an unchecked cast. It is not a claim that such a call never crashes:
- A crash for want of a VM attachment is exempt. `second_thread_unattached` shows that such a crash does happen.
- It rests on the oracle `LibRaises`, which lists the exceptions the Java library raises: a null message only for a NULL receiver. A library method that threw a null-message exception on a valid geometry would escape as well.

Its mutant `FinishJTSClearingHandlers`, a finishJTS that also resets the callbacks, breaks it.

`RegisteredOnce` (JtsC, an action property) is checked by a violation run. It states spec.md's reading of the callbacks as one-time process-wide configuration: once registered, no step changes them. The code assigns them on every initJTS (lines 118-119), so a second thread's initJTS replaces the first thread's handlers.

The tester's properties:
- `WrapperNeverCrashes` (jtstest.c): no wrapper call of the tester dies. It is checked with text and `"%"` messages. Its mutant `LogAndExitReturning`, a handler that always returns, breaks it, because a NULL result then reaches the next call.
- `ReturnsRoundCount`: when main returns, its status is `(IF n > 0 THEN n ELSE 0) % 256`. Its mutant `MainLoopInclusive`, the loop test written `i <= n`, breaks it, because main then returns n+1.
- `OutputFaithful`, `TesterNeverCrashes` and `ExitStatusReportsResult` are what the tester's own printing, its error handling and its `return i` suggest. The violation runs show how each fails.

`OwnDataOnly` (SharedCodecs): a conversion returns its caller's own data or an error, as spec.md §5 says of independent operations.

Why two threads are enough: every failure here needs at most two threads, one that initialises and one that arrives second or finishes. The arguments cover NULL, every geometry type and both emptiness values.

No liveness property is checked, and no fairness is assumed:
- The wrapper has no waiting or retry. Every call either returns or crashes in one step.
- The tester's loop runs a count fixed before it starts, and each round is straight-line code.
- No step waits on another thread, so there is no liveness hazard to check.

## 4. Proofs

### `JtsC_proofs.tla`

All proofs hold for every `Threads` allowed by `ThreadsAssumption`.
- `InitIInv`: `Init => IInv`.
- `NextIInv`: `IInv /\ [Next]_vars => IInv'`. It has one step per action, each resting on the helper lemmas:
  - `ReturnStep`, `CrashStep`, `CatchStep`, `TryStep` and `UntriedStep` state what a wrapper must pass to each helper for the invariant to be preserved;
  - each action step proves those side conditions for its own arguments.
- `Invariance` (a lemma): `[]IInv`.
- Theorems:
  - `TypeCorrect`;
  - `ContractCallsSafe` (`[]ContractCallsNeverCrash`).

Why the invariant needs strengthening: `ContractCallsNeverCrash` alone is not inductive. `IInv` adds three things:
- `HandlersRegistered`: once any thread is inited, some thread's callbacks are registered. A finishJTS never clears them, and an initJTS only replaces them with non-NULL ones.
- The typing, including `handlers \in Threads \cup {NoHandlers}`.
- `ErrorIffSentinel`, which relates a wrapper's result to its catch block.

A `nullHandler` crash of an inited thread is excluded only through `HandlersRegistered`.

### `JtsTester_proofs.tla`

All results hold for every input, every argc, every round count and every set of host threads.

`NoWrapperCrash` (`[]WrapperNeverCrashes`) assumes `HandlerNeverReturns` (`"empty" \notin Messages`): no message formats to the empty string, so `!vasprintf` is never true and log_and_exit never returns to a wrapper. A `"%"` message is allowed: vasprintf then reads missing varargs, and the process exits or crashes in C, but nothing returns.

The property alone is not inductive. It is strengthened to `CInv`, which adds four facts:
- No local is ever `"NULL"`, so no NULL handle reaches the library and the pattern crash is unreachable.
- After main's initJTS, `Main` is attached and `handlers = Main`. Main runs initJTS's creating branch, since no thread has created the factory before.
- `pc` is typed.
- A C crash happens only when a `"%"` message can reach the handler.

Its lemmas:
- `InitCInv`;
- `NextCInv`, with one step per tester action;
- `CallSafe`, for a wrapper call of do_all;
- `CInvFrame`, for the steps that touch only main's variables;
- `ProgramArgs`: every statement reads two locals;
- `AlwaysCInv`.

TLC checked `CInv` before it was proved.

`ExitStatusIsRoundCount` (`[]ReturnsRoundCount`) needs no assumption. When main returns, its status is `(IF n > 0 THEN n ELSE 0) % 256`, so 256 rounds exit 0 just as a count of -1 does. Its invariant `CountInv` has two parts:
- `RefInv`: `cmd` is typed, `i` and `n` are integers, both are 0 until the arguments are parsed, and a round is entered only with `i < n`.
- The loop invariant of `for (i=0; i<n; i++)`: inside the loop `0 <= i <= RoundCount`, so `i = RoundCount` when the test fails.

`CallKeeps` states that a wrapper call leaves `cmd`, `mline`, `i` and `n` alone, whatever the handler does. TLC checked `CountInv` with all three kinds of message before it was proved.

### Only model-checked

- `OwnDataOnly`;
- the violation runs, which are counterexamples found by TLC.

Liveness would be out of TLAPS's reach here anyway.

There is no abstract lifecycle specification for `JtsC`:
- An abstraction with an atomic initJTS is not implemented. Its check of `jtsGeomFactory` and the rest of it are separate steps, so two threads can both take the creating branch and both attach.
- An abstraction that hides attachment only restates `ContractCallsNeverCrash`.

## 5. Not modelled (yet)

- **StringToChar's overrun.** It writes `buf[len]` one byte past `Jv_AllocBytes(len)`. This is a byte-level fact about the collector's allocation granularity, which is not in src/. The models treat strings as values.
- **The GC contract of `jts_c.h`.** The collector is not in src/.
- **The JTS library.** It is Java outside src/. It appears as an oracle in `JtsC` and as the cursor field in `SharedCodecs`.

## 6. Plan for further work

1. **`IntersectionMatrix`**: the DE-9IM string from `JTSRelate` and its match with `JTSRelatePattern`, modelled from the library's documented behaviour.
2. **An abstract spec for the shared converters**, with `SharedCodecs` refined to it once a rebinding is made visible in the abstract state.
3. **Compose `SharedCodecs` with `JtsC`**, so that the codec race is reached only by threads the host attached itself.
