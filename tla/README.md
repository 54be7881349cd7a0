# rkllm-rs: a TLA+ model of the wrapper around librkllmrt

`rkllm-rs` is a safe Rust wrapper around Rockchip's `librkllmrt`, a C library
that runs language models on an NPU. The wrapper is small, but it stands
between several threads, an async runtime and a library that calls back
through raw pointers and C structs. This project models what the wrapper does
there, from the search for the library to the last callback of a run, checks
it with TLC on small instances and proves the safety of the session, of its
lifecycle, of the streams, of the search and of what crosses the boundary for
every instance with TLAPS.

Paths below are relative to the repository; `session.rs` and its siblings are
in `crates/rkllm/src/`.

## The system

| component | state it keeps | operations | hard part |
|---|---|---|---|
| Session (`session.rs`, `error.rs`) | the library handle, `n_batch`, boxed hooks, `run_lock`; per run a `CallbackState` on the caller's stack | `run_llm`, `run_llm_batch`, eight maintenance calls, `abort`, `is_running`, `Drop` | interleaving, panics across C, raw userdata, destruction |
| Chunk stream (`stream.rs`) | a channel receiver and a `JoinHandle`; the blocking task holds an `Arc` of the session and the sender | `run_llm_async(_buffered)`, `poll_next`, `close`, drop | back-pressure below the lock, cancellation, order of the ends |
| Outputs (`output.rs`) | borrowed views of the library's results | `CallState`, `Control`, `Output`, `Chunk` | lengths that come from C |
| Builder and constructors (`builder.rs`, `session.rs`) | a borrowed `Param` and the hooks until it is consumed | `tokenizer`, `embedding`, `open_library`, `linked`; `with_api_and_hooks` | partial failure, order of destruction |
| Hooks (`hooks.rs`) | the caller's tokenizer and embedding closures, in a box whose address the library keeps | the two trampolines | panics across C, lengths from both sides |
| Init and run parameters (`param.rs`, `infer.rs`) | optional settings | setters; overlay over the library's defaults; `scratch`, `as_raw` | which value wins, null against unset |
| Inputs (`input.rs`) | owned prompts, tokens, embeddings, images | constructors, `as_raw` | length products, a tagged union |
| Library search (`rkllm-sys/src/find.rs`) | a lazy iterator: candidates left, identities seen | `find_library_path` | priority and duplicates on a disk that changes |
| Raw bindings (`rkllm-sys/src/bindings/`) | the open library and its function pointers | `RkllmRuntime::new`, `from_library`, dispatch | a library that lacks a symbol |
| Stand-in (`fake_runtime.rs`) | what it was told of init, inputs, hooks and cache calls | the `RkllmApi` | batches that end at staggered steps |
| Examples (`crates/rkllm/examples`, `examples`) | what their closures collect | the closures and hooks | final callbacks, widths |

A run goes: caller → `run_batch` (checks, `run_lock`, `CallbackState`) →
`rkllm_run` → `trampoline`, on the same thread → the caller's closure → a
`Control` back to the library → ... → `rkllm_run` returns → the panic resumes
or the status is checked → the lock is released. A stream puts that whole
chain on a blocking thread of tokio, with a closure that sends each chunk into
a bounded channel. The parts interact through the lock, through the `Arc` of
the session, through the userdata pointer and through the channel.

What makes each part correct:

* Session: one lock-taking call in the library at a time, `abort` and
  `is_running` excepted; a callback only reaches the closure of its own run,
  and not after it panicked; the panic reaches exactly its own caller; poison
  stops nobody; the lock always comes back; no results are read beyond those
  written; no use after destroy.
* Constructors and hooks: what the library is given at init stays valid until
  the handle is destroyed, wherever the session is moved; a failed build leaves
  nothing behind; batch sizes and token counts agree on both sides of the C
  boundary.
* Parameters and inputs: each setting reaches the library as it was made, and
  one not made stays the library's; the library reads the inputs it was given,
  in order, and nothing past the end of a buffer that was accepted.
* Outputs and closures: a slice is the library's buffer and no longer than it;
  what a closure collects is what the library said, for each entry.
* Library search: best first, each file once, nothing hidden; a runtime is
  resolved as a whole or does not exist.
* Stream: chunks in order, none lost to `close`, all before the end; the end
  is the run's own result and comes once; closing or dropping stops the run
  at the next chunk and releases the lock; a detached task is an ordinary
  user of the session and lets go of it in the end.

## Modules

| module | models |
|---|---|
| `RkllmSession` | a built session shared by `Threads`: all its calls, the trampoline, `Drop`, and the library as environment |
| `SerialSession` | what a session promises: calls are refused or served one at a time, with no lock, library or pointer in sight |
| `ChunkStream` | streams over a session; extends `RkllmSession` |
| `SerialStreams` | what streams promise their consumers: runs served one after another, chunks in order and at most a capacity ahead, and a verdict at the end |
| `SessionLifecycle` | several sessions from builder to drop over one library, with their hooks |
| `LibraryContract` | what a C library that calls back asks of its users: when a handle is made and destroyed, when hooks and library may go away |
| `FindLibrary` | the search for the library and opening what it found |
| `Params` | `Param` and `InferParams`, and the C structs made from them |
| `Inputs` | `Input` and `ImageInput`; extends `Params` |
| `Outputs` | `CallState`, `Control`, `Output`, `Chunk`; extends `Inputs` |
| `FakeRuntime` | the repository's stand-in for the library; extends `Outputs` |
| `ClientProgram` | a program over all of these, from the first builder call to the last callback |
| `MCRkllmSession`, `MCChunkStream`, `MCSessionLifecycle`, `MCFindLibrary`, `MCClientProgram` | instances for TLC |
| `RkllmSessionProofs` | the theorems about `RkllmSession` |
| `RkllmSessionRefinement` | the proof that it implements `SerialSession` |
| `SessionLifecycleProofs` | the theorems about `SessionLifecycle` |
| `ChunkStreamProofs` | that `ChunkStream` implements `RkllmSession`, and the theorems about what a consumer gets |
| `ChunkStreamRefinement` | the proof that it implements `SerialStreams` |
| `FindLibraryProofs` | the theorems about `FindLibrary` |
| `ClientProgramProofs` | the theorems about what reaches the library: images, inputs, settings, and what hooks answer |
| `ClientAnswersProofs` | the theorems about what comes back: slices, answers, and the types of `ClientProgram` |

### RkllmSession

State and code: `pc`, `call`, `code` and `outcome` are a thread's position in a
method, what it called, the status it got and what it returned. `lock` and
`poisoned` are `run_lock`. `frame[t]` is the `CallbackState` on the stack of
`t`'s `run_batch`: absent, clean, or with a panic stored. `userdata` is whose
frame the library passes to the trampoline, `arg` the slice the closure was
given. `holders` and `destroyed` are the `Arc` and the handle. `unwound` is
history and no action reads it.

| action | code |
|---|---|
| `RunLlm`, `RunLlmBatch`, `StringCall`, `RangeCall`, `PlainCall` | the checks before the lock, each a refusal or a place in the queue |
| `LockRun` | `lock_run`, which ignores poison |
| `EnterRun`, `FinishRun` | `run_batch` before and after `rkllm_run` |
| `TrampolineNull`, `TrampolineRefuses`, `TrampolineCalls` | the three ways through `trampoline` |
| `ClosureReturns`, `ClosurePanics` | `catch_unwind` around the closure |
| `EnterOp`, `ReturnOp`, `FinishOp` | a maintenance call under the lock |
| `Abort` | `abort`, from outside or from a closure |
| `CloneSession`, `DropSession` | `Arc::clone`, and `Drop` for the last owner |

`is_running` has no effect; it is the operator `IsRunning` that properties
use. The library (`StartRun`, `MakesCallback`, `ReturnRun`) is external. It
may take time between the call of `rkllm_run` and having a run in flight,
passes one raw state of `RawStates` per callback, passes a null result or a
null userdata whenever it likes, makes at most one final callback, returns any
status at any point, and stops generating once a callback asked for a pause
or `abort` was called.

A panicking closure must not leave a thread stuck in the model, but a
re-entering one does: std's mutex is not re-entrant. `Reentrant` names the
threads whose closures may do that (`wedged`).

### ChunkStream

Every stream names the thread of its blocking task. The tasks take the actions
of `RkllmSession` between the start and the end of their run, and
`SendChunk` and `SendFails` are its `ClosureReturns` with the `Control` the
closure in `stream.rs` returns. `close` keeps the queue and `drop` empties it.
A consumer that got `Pending` waits (`waits`) until what it waits for wakes
it. When the run returns, the task drops its `Arc`, then its sender, and then
its result becomes visible: three steps, as the closure's captures are
dropped before tokio stores the result.

tokio is external: the channel refuses chunks once closed and keeps those it
holds; a task that never started is dropped when the runtime shuts down. Its
semaphore is abstracted to one atomic step: a `blocking_send` that got its
permit before `close` counts as sent before `close`. The closure of a task
does not panic, because nothing in it can.

### SessionLifecycle

`RkllmSession` starts with a session that was built; `SessionLifecycle` shows
how it comes to be and how it ends, and calls `session` all the time in
between. `asked` and `supplied` are the `Param` and the builder, `raw` and
`nBatch` the batch size in the raw parameters and in the session. `mapped`,
`box` and `handle` are its three resources: the open library, the boxed hooks
and the library's handle. `registered` and `target` are what the library
was told at init, and `hook` and `told` a hook in progress and its last answer.

| action | code |
|---|---|
| `AskZero`, `AskBatch` | `Param::n_batch` |
| `Supply` | `tokenizer` and `embedding` of the builder |
| `OpenLibrary`, `OpenFails` | `open_library`, `new_with_library` |
| `Prepare`, `CallInit`, `InitReturns` | `with_api_and_hooks` before, at and after `rkllm_init` |
| `TokenizerCalled`, `EmbeddingCalled` | the trampolines up to the closure |
| `TokenizerReturns`, `EmbeddingReturns`, `HookFails` | what they answer |
| `DropSession`, `DestroyReturns`, `CloseLibrary`, `FreeHooks` | `Drop`, then the fields in order of declaration; after a failed init the locals in reverse |

The library may call a registered hook at any moment from the call of
`rkllm_init` to the return of `rkllm_destroy`, with any lengths and with
arguments that are not sound (null, no UTF-8, misaligned). It has no hook in
flight when either of the two returns, a failed init leaves no handle, and
a runtime that leaves `n_batch` at 0 reads one result. A closure that panics,
answers `None` or answers `false` is one action, `HookFails`: the trampolines
treat the three alike. A linked session has no library to close. One hook at
a time per session is modelled; hooks share nothing but the box they read.
The other settings of `Param` follow the same overlay and are in `Params`.

### FindLibrary

A place stands for the path of the library in a directory. `disk` says which
file is at each place, `rest`, `entry` and `seen` are the iterator that
`existing` builds, `yielded` the paths it gave out so far. `chosen`, `mapped`
and `table` are the path that was opened, the library that is mapped and where
each function pointer of `RkllmRuntime` leads.

| action | code |
|---|---|
| `NotAFile`, `IsFile`, `Canonicalize` | one turn of the filter in `existing`: `is_file`, then `canonicalize` and the insertion |
| `OpenFound`, `OpenByName` | `RkllmRuntime::new` on the path yielded last, or on `LIBRARY_NAME` when nothing was found |
| `FromLibrary`, `SymbolMissing` | `from_library`, all symbols or an error |
| `DropRuntime` | the runtime is dropped |
| `DiskChanges` | another program: a library is installed, linked or removed |

A turn of the iterator is two steps because it looks at the disk twice. A
library that is mapped while its file is replaced stays the old one. The table
is read through three layers, as a call is: `Forwarded` (a reference, `Box` or
`Arc`), `Dispatch` (the trait) and `Method` (the inherent method). The three are
the identity, because what they abstract, several hundred uniform lines, is:
that a forwarder passes to the method of its own name is not checked.

### Params, Inputs, Outputs, FakeRuntime, ClientProgram

The first three are operators: a builder is a record, a builder method an
operator from record to record or to `Failed`, and `ApplyTo`, `RawInfer`,
`AsRaw` and `ToChunk` are the conversions across the boundary. Texts are
values, a buffer is the sequence of its elements, a buffer of the library the
number of its floats; lengths are bounded by `UsizeMax`, and products wrap or
are refused as in the code. The eighteen settings of `Param` are one operator
with a name as its argument, because their methods differ in nothing else. The
nine numbers of a `Sampling` travel together and are one value. `started`
keeps the path and the `InferParams` a program began with and `asked` the
settings it made since, for the properties only.

`FakeRuntime` is the stand-in the tests use: `rkllm_run` starts (`RunStarts`),
calls back once per step (`CallbackAnswers`) and ends with a final callback.
`ClientProgram` adds the program: builder calls in any order, `OpenSession`
with or without a hook of the examples, inputs, then `run_llm`,
`run_llm_batch` or a stream, cache calls, and the drop. `CallsBack` is one
callback: the stand-in's results, the slice the trampoline makes of them, the
closure's collection and the control it returns, chosen freely. Where a real
library may differ from the stand-in the difference is chosen freely too: its
defaults, hidden states or logits with any lengths, and a run that fails with
a null result. The closures are those of `batch.rs`, `tokenizer-hook.rs` and
`stream.rs`; `chat.rs` and `embedding-hook.rs` do a part of the second. The
program is one thread: `RkllmSession` and `ChunkStream` have the others.

## Runs

| run | instance | question |
|---|---|---|
| `session_batch` | 2 threads, one founder, batch 2, all five states, 2 calls each, budget 2, one re-entering closure | all safety of the session, where its calls may stand still, and that it implements `SerialSession` |
| `session_live` | 2 callers and a watchdog that keeps calling `abort`; one caller's runs have no token budget | the lock comes back, every call returns, and `abort` ends a run nobody else could end |
| `lifecycle` | 2 sessions, symmetric; batch sizes 0 (refused) and 3 over defaults 0 and 2; lengths -1, 0 and 3 | resources, hooks and sizes from builder to drop, and that it honours `LibraryContract` |
| `stream_safety` | 1 stream beside 1 caller that also calls and runs | the task is an ordinary user of the session; cancellation |
| `stream_pair` | 2 streams, 1 caller, capacity 2, symmetric | delivery, ends, where the two may stand still, and that it implements `SerialStreams` |
| `stream_live` | 1 stream, 1 caller, budget 3, capacity 0 asked for | cancelling releases the lock without a consumer; with one, streams end and the session is freed |
| `loading` | every disk of 4 places with links, 8 environments, one change, one place that cannot be canonicalized, one library that lacks a symbol | the search and what is opened |
| `program` | 2 choices, 2 inputs, 2 calls, batch sizes 0 to 2, two sets of defaults, runs begun with `InferParams::new` and with its `Default`, `UsizeMax` 511 | data across the boundary |
| `abort_stalled`, `found_is_opened`, `default_history`, `generated_ids` | as above | four places where the code does not do what is said of it |

Bounds. Two threads are enough for every pairwise race over the lock, the
library's single run and the `Arc`; two calls per thread reach a call after
a panic, after poison and after another thread's call. Batch size 2 with lengths
1 and 2 has both sides of each length check. A budget one larger than the
capacity fills a channel and blocks its closure. The proofs lift the
safety of the session to any number of threads, calls, results and callbacks.

In `lifecycle` two sessions share a library, so
that one closes it while the other uses it; a length below zero, an empty one
and one that is not a whole number of floats take every branch of the
trampolines; a batch size equal to no default tells the two apart.

In `loading` the four places are the working directory (a bare name), a
directory, a system directory that opens a library of an older SDK, and `/lib`,
which may link to it; `/lib` is also the place that cannot be canonicalized.
One change suffices to come between any two looks of the iterator, and between
the last look and the opening. In `program` a choice is a setting, an unusual input, a
hook or a failure of the library; two of them reach every setting made twice
and every pair of settings, an unusual input in either place of a batch, and
every setting under a failing run. The stand-in's three chunks give batch
entries that stop at different steps. `UsizeMax` is small so that 23 times 23 wraps
around to 17, which divides a buffer of 17; both sides of the width check and of
the end of the table are among the embedding files. The prompts are symmetric.

`CHECK_DEADLOCK FALSE` stands where the system may stop for good: a
re-entering closure waits for itself, and streams that all ended leave nothing
to do.

### Fairness

`Fairness` is weak fairness of each thread's next step inside a call: the
scheduler runs it, the library answers, a closure returns. Nothing makes a
caller call, abort, poll, close or drop. The mutex is not assumed fair:
`LockRun` is weakly fair only, and `CallsReturn` holds because competitors make
at most `MaxCalls` calls; with endless competition it would not hold, nor does
std promise it. A consumer's polls are not fair either: the two properties of
`stream_live` that need a consumer say so (`ConsumerFairness => ...`), and
`CancelReleasesLock` does without. In `session_live` the watchdog is fair while
a run without a budget holds the lock, because one that aborts once may come
too early: between `lock_run` and the start of the run. `FindLibrary` and
`ClientProgram` are sequential and state no fairness.

### Hazards that became properties

Calls of one session wait for each other. `CHECK_DEADLOCK FALSE` in
`session_batch` is there for re-entering closures only: `StallsOnlyReentered`
says that nothing else, a panic, poison, a pause or an owner that leaves among
it, makes all calls stand still.

Two streams over one session wait for each other. `StallsOnlyUnread` says what
that means here: the session stands still only when the run that holds the lock
has an open stream with a full channel whose consumer is free to poll and
does not. A consumer that awaits another stream first is in that case, and
the documentation of the buffer leaves it to the caller.

`EachFileOnce` holds on a changing disk in the sense a caller needs: no two
paths that could be canonicalized were the same file when they were looked at.
`yielded` keeps the file that was at the path at that moment.

### What the violations show

* `abort_stalled`: a run blocked on a full channel is not stopped by `abort`;
  it needs its consumer.
* `found_is_opened`: the candidate for the working directory is a bare name.
  `is_file` finds it there, `dlopen` looks for it elsewhere, so the library
  that is opened is another one than was found, or none.
* `default_history`: `InferParams::default()` is derived and does not keep the
  history, where its documentation says it does. `InferParams::new` does.
* `generated_ids`: the tokenizer example takes the token id of the final
  callback, which carries only statistics, for a generated token. It shows
  with the repository's stand-in, which leaves that id 0; what `librkllmrt`
  puts there is not documented.

Read but not checked by a run, since they contradict words alone: a null result
while generating reaches a batch closure as one output, where
`run_llm_batch` promises one per entry; the comment in `poll_next` that says
the task has finished when the channel ends, on which the code does not
depend; and the documentation of `Param::ignore_eos_token` (`param.rs:147`),
which says the opposite of its name. An image with no floats at all is
accepted by `ImageInput::new`, because 0 divides evenly: it is one of the
inputs of `program`, and what protects the library there is the caller who
compares `embed_dim`.

## Proofs

`RkllmSessionProofs` and `RkllmSessionRefinement` prove every property of
`session_batch`, for any `Threads`, `NBatch`, `Budget`, `MaxCalls` and
`Reentrant`. The assumptions are those named in `RkllmSession`:
sets of the right kind, at least one founder, `NBatch` positive.

The argument is one inductive invariant, `SessionInv`.
Neither mutual exclusion nor the soundness of userdata is inductive: both need
that a thread holds the lock exactly between `lock_run` and the end of its call
(`LockInv`), that a `CallbackState` lives exactly while its run does and
remembers its panic (`FrameInv`), and that the library's run in flight belongs
to the one thread inside `rkllm_run` (`RunInv`). `HolderInv` counts the `Arc`
exactly, which gives `NoUseAfterDestroy`. The preservation proof has one step
per action, and one per conjunct the action can disturb;
`PanicReachesCaller` then follows from the invariant at a single step.

`SessionImplementsSerial` maps a thread's place to its stage, the closures that
run to `fed` and the stored panics to `broken`. `HolderIsServed` draws the
consequence of `SessionInv` that every action needs: whoever holds the lock is
the only one served, fed or broken. Entering the library is then a `Serve`, a
callback a `Feed`, its return a `Digest`, the end of a call a `Complete`, and
the steps of the lock, the library and `abort` show nothing. A re-entering
closure is still being fed.

`OnlyReentryStalls` needs one invariant more, that a thread is wedged only by
its own re-entering closure. By `LockInv` somebody is past `lock_run` whenever a
call waits, and every place past it but `wedged` has a next step.

`SessionLifecycleProofs` proves every property of `lifecycle`, for any
`Sessions`, `Batches`, `Defaults` and `Lens`, from the named assumptions that
batch sizes are bytes, lengths are integers and an unset value is no number.
`LifecycleInv` says that the stage of a session decides what it owns
(`OwnershipInv`), that the library knows exactly the supplied hooks, by the
address of their box, and has one running only while it has the session
(`HookInv`), and that the raw parameters already carry the size asked for when
init is called (`RawInv`). `SessionIsWhole`, `HookFindsItself` and `NothingLeft`
follow from it; `BatchAgrees` and `TokensWithinRoom` are conjuncts of it.

Those are about states; `ContractHonoured` is about the order of steps.
`LibraryContract` sees who holds the library open, whose hooks are in memory,
who is inside init or destroy, whose hook runs, and the handles. `OpenLibrary`
and `Prepare` open and lend, `CallInit` and `DropSession` begin a call that
`InitReturns` or `DestroyReturns` ends, and `FreeHooks` and `CloseLibrary` take
away what `OwnershipInv` shows nobody can reach any more, after a failed init in
the one order and after a drop in the other. No invariant is added.

`ChunkStreamProofs` proves the safety properties of the streams, for any
`Streams`, `Buffer` and the constants of `RkllmSession`, from two assumptions:
the blocking tasks are threads that did not build the session, and the capacity
asked for is a natural number. `StreamsImplementSession` comes first: every step
of a stream is a step of the session or leaves it alone, so everything proved
about `RkllmSession` holds with streams too (`StreamsOutlived` states it for
the `Arc` that a task holds). `StreamInv` then has one part for each thing that
a stream is made of:

- `TaskInv`: what the blocking task has got to decides where its thread is and
  whether its sender lives;
- `ChannelInv`: the chunks received and those queued are the ones sent, each at
  its place, and a dropped channel is closed and empty;
- `EndInv`: an end was seen only after the task was over and every chunk was
  received, and it is the task's result;
- `LateInv`: one refused chunk has stopped the run, so that while the task is
  still in the library only its final callback can come;
- `WakerInv`: a consumer that waits has nothing to read, and what it waits for
  is still to come.

Streams are proved apart from each other: `StepCases` says that a step is of
one stream or of none, and `Elsewhere` that it leaves the others as they are.
`DeliveredInOrder`, `EndsWithResult` and `CancelledAtNextChunk` follow.

`StandstillIsUnread` is `StallsOnlyUnread` with the guards of the steps written
out (`MayStep`), since the prover does not know ENABLED: TLC was asked on the
instance of `stream_pair` and found `MayStep` to be `ENABLED SessionStep`, as it
found `MayAdvance` to be the enabled calls on that of `session_batch`. The proof
follows the lock. An unfinished task that cannot step is in its run
(`CallInv`: a queued one may still make its call, and makes no other), so
somebody holds the lock and cannot step either; that is a stream's closure
without room, and `BlockedRunUnread` shows with `EndInv` and `WakerInv` that
its consumer may poll and is not waiting for a wake-up.

`ChunkStreamRefinement` proves `StreamsKeepPromise`: to their consumers the
streams are `SerialStreams`. `PhaseOf` maps a stream, `RunOf` the place of its
task: waiting until its `rkllm_run` is entered, served until `run_batch`
returned, over until the result is visible, then the verdict. `EnterRun` is
`Serve`, which nobody else is at that moment because the served run holds the
lock (`ServedHoldsLock`); `SendChunk` is `Make`, a refused chunk of a generating
run is `Refuse`, `FinishRun` or a refused call is `RunEnds`, and the end of the
task, or its cancellation, is `Judge`. A poll that gets something is `Receive`
or `End`. The lock, the wakers, the `Arc`, the sender and the handle show
nothing, nor do the threads that are no stream's. `FreshInv`, a stream that does
not exist yet is not closed, is all that `StreamInv` lacked.

`FindLibraryProofs` proves all four properties of `loading`, for any `Disk`,
`Opaque`, `Environments`, `Exports` and `MaxChanges`, from the assumptions that
`Absent` is no place and that the lists of directories are sequences of
strings. `RuntimeIsWhole` is inductive once the status is known to be one of
three. `EachFileOnce` is not: `SearchInv` adds that every yielded file is among
the identities seen unless its path could not be canonicalized, and
`CanonicalizeStep` is the one step that needs it. `BestFirst` speaks of a disk
that did not change. Its invariant, `OrderInv` with `RestInv` (what is to come is
a suffix of the candidates), says of the candidates already looked at that what
was yielded is among them, best first, and that each of them that is a file was
yielded under a path at least as specific (`BestSoFar`). `CandidatesInOrder`
shows that the list goes through the six classes of places in order, whatever
the environment repeats, and `RankOfCandidates` that a new candidate therefore
ranks no better than those before it.

`ClientProgramProofs` and `ClientAnswersProofs` prove the seven properties of
`program`, for any settings, inputs, hooks, defaults, results and `UsizeMax`.

`ImagesFit`: `AcceptedImageFits` is the arithmetic. An accepted product of the
counts did not overflow, is not zero and divides the length, so the width
`embed_dim` reports, a wrapped product notwithstanding, multiplies back to the
length. `InputsInv` says that the program holds only inputs a constructor
returned, which every step keeps.

`HooksAnswerWhole` and `SeenIsAsked` follow from `ProgramInv`: what the hooks
answered is what they make of the encoding and the table the session was opened
with (`HooksInv`), the batch size read back is the library's own (`OpenInv`), and
a run in flight was handed the program's own inputs in their order (`RunInv`).
`RowIsWhole`, `TokenizeIsWhole` and `InputIsRead` are about the operators: a row
of the table is there unless the file ends before it, a number of ids reported
is the whole encoding, and what is read through `as_raw` is the input.

`ParamsAsAsked` compares the library's settings with the whole history of
builder calls. `AskedInv` says that each builder holds the value its field was
given last (`LastIn`) or what it began with (nothing; for a run, to generate,
with the history exactly after `InferParams::new`), that the session was opened
with it and that the run was started with the `InferParams` as they still are.
The path, the mode and the history are compared like every other setting, as
the numbers the header gives them. `AppendAsked`
carries it: one more setting is the last of its field and changes no other.

`SlicesInBuffer` and `AnswersComplete` are about all callbacks of a run.
`SliceIsBuffer` is the arithmetic of `checked_len` for every pair of signed
lengths. `CollectTold` says what each of the three closures (`batch.rs`,
`tokenizer-hook.rs`, `stream.rs`) adds in one callback, and `AppendTells` that
an answer that tells the history still does when both get the next text.
`AnswersInv` adds what makes that inductive: a run in flight has not reported its
end, and its answers have their shape (`RunShape`). `ProgramTypeOK` needs all of the
above and the types of the builders, the bounds, the stand-in's state and the
collected ids (`SetupTyped`, `BoundsTyped`, `FakeTyped`, `GeneratedTyped`).

The assumptions are the named ones of `Params`, `Inputs` and `ClientProgram`,
and say what Rust's types say: `None` and `Err` are none of the values they
stand beside, setters take numbers, a file is no longer than a `Vec` can be,
ids, layers and ranges are numbers, the chunks of the stand-in are UTF-8 and
their ids fit an `i32`. TLC evaluates each of them, and checked `SessionInv`,
`LifecycleInv`, `StreamInv`, `CallInv`, `OrderInv`, `ProgramInv`, `HeardInv`,
`AnswersInv` and the typed parts on the states of the runs before they were
proved.

Only model-checked: `StallsOnlyUnread` in the form with ENABLED, the liveness
properties, both out of the prover's reach, and the four disagreements, which
are counterexamples. No module declares a RECURSIVE operator, and nothing here
needs an induction over data.

## Not modelled

The statically linked flavour of the bindings has nothing to resolve at run
time. The calls the stand-in ignores, and the tests. Of the examples, argument
parsing, printing and the image preparation of `qwen2-vl`, which is arithmetic
on pixels and calls of another library. Build scripts and tools are input and
output. What a *paused* run keeps, and what `clear_kv_cache_ranges` does to
it: nothing in the repository says what the library does there. Whether
`Input::embeddings` has as many floats as its `n_tokens` needs: the crate does
not compare them and the stand-in does not read them. Nor does it read token
ids, the values of embeddings or `enable_thinking`, so `SeenIsAsked` says of
such inputs that their role and their tag arrive and no more. The row size in
bytes of `embedding-hook.rs:184` is multiplied unchecked there and exact in
`LoadTable`; a width so large that it wraps is refused by the hook itself, which
compares the width with the one wanted.

## Plan

1. `RkllmSession`, `SerialSession`, `ChunkStream`, the first proofs: done.
2. `SessionLifecycle` and its proofs, and the proof that `RkllmSession`
   implements `SerialSession`: done.
3. `FindLibrary`, and `Params`, `Inputs`, `Outputs`, `FakeRuntime` composed in
   `ClientProgram`: done.
4. Proofs about `FindLibrary` and `ClientProgram`: done for every property of
   `loading` and `program`.
5. Proofs about `ChunkStream`, that it implements `RkllmSession` included: done,
   `StallsOnlyUnread` without ENABLED.
6. `SerialStreams` and `LibraryContract`, and the proofs that `ChunkStream` and
   `SessionLifecycle` implement them: done.
7. Left: shorter proofs where a lemma can be shared, and the statically linked
   flavour should it ever resolve anything at run time.
