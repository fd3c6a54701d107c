# A verification development for DejaView

DejaView records a guest running under QEMU as a trace of function calls, shows
the trace in a browser or in VSCode, and replays the recording up to a slice of
the trace to debug it there. It is built on Perfetto, whose trace processor, UI
and tracing service it contains. This directory holds TLA+ modules of the parts
where several actors, callbacks or long sequences of calls meet, TLC
configurations that check them on small instances, and TLAPS proofs of the most
important properties for every instance. Paths below are relative to the
repository.

## The system and its inventory

| Part | Where | State here |
| --- | --- | --- |
| Recording: tracer of the QEMU plugin | `src/qemu_plugin/tracer.*`, `vmi.*` | `Tracer`, proofs |
| Recording: hooks, disassembler, symbolizer | `src/qemu_plugin/` | planned (hooks); pure decoding (others) |
| Replay: QMP server | `src/trace_processor/qemu/qmp_server.cc` | `QMPServer` |
| Replay: Qemu, Gdb, debugger tab | `src/trace_processor/qemu/`, `ui/src/core_plugins/debugger_tab/` | `DebugSession` |
| RPC between UI and trace processor | `ui/src/trace_processor/`, `src/trace_processor/rpc/`, `src/base/http/` | `RpcChannel` |
| Periodic task on the task runner | `src/base/periodic_task.cc`, `unix_task_runner.cc` | `PeriodicTask`, `Ticker`, proofs |
| VSCode extension | `vscode-dejaview/src/extension.ts` | `UiProvider`, proofs |
| Slice tracker of the importer | `src/trace_processor/importers/common/slice_tracker.cc` | `SliceTracker`, proofs |
| Shared memory buffer | `src/tracing/core/shared_memory_abi.cc` | `SharedMemoryABI`, proofs |
| Arbiter and trace writer | `src/tracing/core/shared_memory_arbiter_impl.cc`, `trace_writer_impl.cc` | `SharedMemoryArbiter`, `TraceWriter` |
| Trace buffer | `src/tracing/service/trace_buffer.cc` | `TraceBuffer`, `TracePath` |
| Tracing service | `src/tracing/service/tracing_service_impl.cc` | `TracingService`, proofs; `TracePath` |
| Tracing client API | `src/tracing/internal/tracing_muxer_impl.cc` | `TracingMuxer`: the producer side |
| IPC, trace sorter | `src/ipc/`, `src/trace_processor/sorter/` | planned |
| Importers, SQL engine, metrics | `src/trace_processor/` | not modelled: decoding and data processing |
| Protozero, profiling, redaction, C API, tools | `src/` | not modelled: encoding, offline conversion, wrappers |
| UI frontend and widgets | `ui/src/` | not modelled: rendering and view state |

How they interact: the guest's calls and returns reach `Tracer`, whose file the
importer (`SliceTracker`) reads back into slices. `UiProvider` starts the trace
processor for a file; the page it shows talks to it over `RpcChannel`. The
"Debug" button of a slice sends a request through that channel to
`DebugSession`, which drives QEMU through `QMPServer`; the poller of
`QMPServer` is a `PeriodicTask`. Apart from these, a traced process writes
packets through `TraceWriter` and `SharedMemoryArbiter` into shared memory, whose
words both sides change as in `SharedMemoryABI`; the service copies them into a
`TraceBuffer` that the consumer reads (`TracePath` composes them), while
`TracingService` sets up, flushes and stops the data sources that write them,
which `TracingMuxer` runs.

## Modules

**`Tracer`** (`MCTracer` bounds it). State: the members of class Tracer, the
packets serialised so far and what is on disk. Actions: `LogCall` and `LogRet`
(the queue, the backtraces, the switch that closes and re-opens slices, the
begin event that a short call takes back) and `WriteToDisk`, which may fail to
open or write only a prefix. Members the constructor does not initialise start
with any value. Timestamps are subtracted modulo `TsMod`, as unsigned integers
are. The process that VMI finds is an input; when it is looked up again is not.

**`QMPServer`** and **`DebugSession`**. `QMPServer` has the server's flags, the
two directions of the socket and QEMU. A message on the socket is two halves, so
that a read that returns at most `ReceiveMax` of them (1024 bytes in the code)
can end inside one. `DebugSession` extends it with Qemu, Gdb, the requests of
the page and its debugger tab. A request is served with `send_mu_` held; a
callback made meanwhile locks it again, which `stuck` records. QEMU's side is
external: it answers commands in order, replays, stops at the count it was
told to seek, and may exit. The error `QEMU failed to start` is not modelled, as
`Subprocess::Start` always leaves the process running.

**`RpcChannel`**. Pages, their websockets and the one Rpc of the server, with its
counters, its receive buffer and its current connection. Each request method of
`engine.ts` enqueues in its queue or slot; responses are matched by order, as in
`onRpcResponseMessage`. A large request may be sent in two frames. A connection
may break from message `BreakFrom` on, and a page may be closed.

**`PeriodicTask`**. The object, its delayed tasks by generation, its timer and
watch, the polls that are posted, and the stack of calls under way: a task may
call `Start`, `Reset`, or destroy the object. It is shown to implement
**`Ticker`**, an abstract task that ticks from Start to Reset.

**`UiProvider`**. The maps of the provider for one document, the calls that
await a port, and the processes with their events. One panel exists at a time,
as the editor is registered without support for several per document.

**`SliceTracker`** (`MCSliceTracker` gives it labels). The slice table and the
stack of each track; `Begin`, `Scoped` and `EndEvent` are the entry points, each
with the whole of `StartSlice` or `CompleteSlice` and of `MaybeCloseStack`. What
the importer feeds it is an assumption in two guards: `Fits` and `Encloses` say
that the events of a track nest or are disjoint; disjoint ones may touch.

**`SharedMemoryABI`**. The layout word of each page and the headers of its chunks.
Every load, store and compare_exchange of a word that the other process may access
is an action of its own, on the side of the writers (under the arbiter's `lock_`,
but for the count of packets) and of the service, which moves chunks that were
committed and scrapes those that were not. Accesses are sequentially consistent.

**`SharedMemoryArbiter`**, **`TraceWriter`**, **`TraceBuffer`**. The methods of the
three classes as operators on records, so that the actions of **`TracePath`** are
one call or task each: a writer starts, continues or ends a packet or flushes, the
arbiter's tasks run, a commit reaches the service, the service scrapes one page
after the other, the consumer reads, another producer commits. A session's mode
(direct patching, overwriting or discarding, scraping) is a constant of each
behaviour. `MCTracePath` names the modes. Bytes are counted in `TraceBuffer` only,
in units of a record's header; whether a chunk has room is a choice.

In all of these the writers have the policy kDrop: when no chunk is free they drop.
Under kStall, the default of `CreateTraceWriter`, `GetNewChunk` would release `lock_`,
sleep or flush and try again, and on the task runner's thread it would commit
synchronously once half of the memory awaits a commit. That
loop and these commits are not modelled, so nothing here, `NobodyHangs` included, says
that a stalled writer gets its chunk.

**`TracingMuxer`**, **`TracingService`**. `TracingMuxer` is the producer side: the
slots of a data source, its pending flushes and its late answers. `TracingService`
has the sessions, consumers and producers, the calls on their way to each
producer, and every delayed task. Each call, task and answer is an action. As a data
source has one slot, the test of `SetupDataSource` whether another slot has the same
configuration is left out.
`MCTracingService` chooses two kinds of session.

## Runs that pass

| Run | Shows | States |
| --- | --- | --- |
| `tracer` | the queue reads as the backtraces; `back()` is defined; a return takes back its own begin event; tracks are announced once; names are interned in whatever prefix was written | 176,210 |
| `debug_one_by_one` | the thread never locks a mutex it holds, no input reaches a null debugger, a replay arrives, for a user who waits for one replay to end | 25,885 |
| `debug_anytime` | the debugger starts at its target only; when all is quiet, the server and the cursor have the guest's count | 816,589 |
| `rpc_channel` | responses match requests across reconnections past message 1; idle means quiescent until messages are lost; requests are answered unless the connection broke | 39,114 |
| `periodic_task` | one trigger, no early tick, implements `Ticker` with its liveness | 21,603 |
| `ui_provider` | one backend per document; the loader goes away once a process serves | 350,429 |
| `slice_tracker` | slices nest, those of one depth follow each other, a complete duration changes only to 0 and only of a slice that touches one below it, on both kinds of track | 374,682 |
| `trace_path` | packets are read whole and in order; a loss within one read is flagged; a flush has committed what it promised; nothing that was committed and not overwritten is forgotten; the ring and its index agree; no commit looks like an ABI violation | 322,789 |
| `shm_abi` | no chunk has two holders, is attributed to the wrong writer, or is left behind; the CHECKs hold; every sequence of accesses that was begun ends | 366,186 |
| `tracing_service` | DCHECKs hold; no instance of a producer that is gone; consumers and sessions agree; a session that waits for stop acknowledgements is owed one; a session with a duration has its end scheduled; the start is announced; a flush succeeds only if it was acknowledged | 769,017 |

Every property of a passing run has a mutant in `PROJECT.json`: a plausible bug
in one definition that TLC reports as a violation of that property.

## Runs that find a disagreement

Each checks one property that a comment, a document or an assertion of the
repository states and that the code does not keep; `PROJECT.json` quotes it.

- `debug_stuck` (`NeverStuck`): "Debug" while gdb is open locks a mutex its thread
  holds.
- `trace_scrape` (`DchecksHold` of `TracePath`): a chunk scraped before the one that
  precedes it is joined with it although it was read, and a DCHECK of `ReadAhead`
  fails.

No run keeps the following, which the same modules show when a configuration is
changed as described:

- `DebugOneByOne.cfg` with `ReceiveMax = 3`: `ReplayArrives` fails, as a QMP message
  cut by the end of a read is dropped and the poller stays inhibited.
- `DebugOneByOne.cfg` with `DebugStartsDebugger` as the property: it fails, as
  `last_icount` is static and a replay to the count reported last is not noticed.
- `RpcChannel.cfg` with `BreakFrom = 0`: `ResponsesMatch` fails, as a loss right after
  the first message is not noticed: a sequence number of 0 excuses any other.
- `RpcChannel.cfg` with `IdleMeansQuiescent` stated of replays too: it fails, as the
  server's notifications, which answer no request, decrement the count of pending ones.
- `RpcChannel.cfg` with two pages: `FramingIntact` fails, as the rest of a request
  never comes when its page is closed.
- `PeriodicTask.cfg` with the invariant `RunningTaskExists`: it fails, as the first,
  immediate call of a task is not made on a copy.
- `UiProvider.cfg` with the invariant `NoOrphan`: it fails, as an editor closed while
  a port is awaited leaves a process behind.
- `UiProvider.cfg` with `MayFail` and `MayHide` FALSE and `EndsUpShowingTheApp`: it fails, as the end
  of a killed process replaces the restarted app by an error page.
- `SliceTracker.cfg` with `OnlyPendingTruncated`, the DCHECK of `MaybeCloseStack`: it
  fails, as a complete event at the very end of a complete slice is put on the stack
  above it when a pending slice is between them. With a slice from 0 to 5, one begun
  at 3 that has not ended and one from 5 to 8, an event at 6 cuts the third, which was
  complete, to 0; an event at 9 instead cuts the second to end at 5 and leaves the
  third, its child, outside. `SlicesNest` and `DurationsAreFinal` name these two cases
  and say that there are no others.
- `TracePath.cfg` with the property `LossIsFlagged`: it fails, as a packet of size zero
  at the end of one read resets `last_read_packet_skipped`, and the next read returns
  the packet after a loss without a flag. `LossIsFlaggedInPass` is what holds.
- `TracingService.cfg` with an invariant like `SuccessIsAcknowledged` that does not
  excuse a later acknowledgement: it fails, as a flush that a data source handles at
  once acknowledges an earlier one that another call still handles.

The passing runs exclude exactly these cases, by a constant (`DebugWhileOpen`,
`ReceiveMax`, `BreakFrom`, one page) or in the property
(`IdleMeansQuiescent` and `RequestsAnswered` speak of connections that have not
broken, the former outside replays; `SlicesNest` and `DurationsAreFinal` of slices
that do not touch), so that they show what holds otherwise.

## Bounds

- `tracer`: two processes, two functions (one ends a process's turn, one starts
  the tracing), queue of 5 and depth 2: enough for two switches with re-opened
  slices and a taken back event. The proofs need none of these.
- `debug_*`: two or three counts and two requests: a replay can be before, at and
  past its target, and overtake the one before. Eight half-messages of backlog
  hold every answer and event that can be under way; `ReceiveMax = 8` reads
  them all at once, `3` cuts one.
- `rpc_channel`: two connections of a page and three requests: a reconnection before,
  between and after them, and an old connection that the server closes after the new
  one has become current.
- `periodic_task`: six generations, two polls and two nested calls: a stale
  trigger of each kind, and a task that restarts itself from inside a restart.
- `ui_provider`: two panels, three processes and two changes of the file: two calls
  awaiting a port at once, with a third process to replace.
- `slice_tracker`: four slices, three timestamps, and stacks of at most 3 in place
  of 255: an enclosing slice, two that overlap in it, one that is too deep. The two
  names of slices are symmetric: no definition tells one from the other.
- `trace_path`: one writer of two or three packets of up to two chunks, two pages of
  shared memory and a ring of four records, which the other producer's chunks, twice
  as long, wrap: the shared memory runs out, a packet is overwritten between its
  fragments, chunk ids wrap, and a patch arrives late.
- `shm_abi`: two writers, one page of two chunks and three attempts, one more than the
  interference that two chunks allow. Chunk ids 0 and 1 make an id come back.
- `tracing_service`: two producers, only one of which notifies, one consumer, one
  session, one slot of a data source, one pending flush: each limit is reached.

`CHECK_DEADLOCK FALSE` is set where a bound, QEMU, the user or the end of a trace
stops the system; `shm_abi` has no such end and deadlock is checked there.

## Fairness

- `DebugSession`: the task runner runs what is ready, QEMU executes and answers,
  the browser delivers. Nothing makes the user, gdb or an exit of QEMU happen.
- `RpcChannel`: connections open and close, frames and messages are delivered.
- `PeriodicTask`: delays elapse, timers expire, the task runner runs what is
  ready and tasks return; it does not assume that reads of the timer fail.
- `UiProvider`: ports are found, processes print, killed ones die, and the events
  of Node's loop are delivered.
- `SharedMemoryABI`: whoever holds `lock_` and the service's thread keep running.
  Writers need not write.

All of it is weak fairness: each of these stays enabled until it happens.

## Proofs

Each proof module extends the module it is about; the constants have the types and
bounds of that module's ASSUME, which TLC evaluates in every run. Every theorem
about a state follows the same argument: an inductive invariant `IInv` holds
initially, each action keeps it, and it implies the property. TLC confirms each of
these invariants on the instance of the component's run. A leaf that
names `Zenon` is pure first-order reasoning; the others go to the SMT solver, which
is given arithmetic and sequences in steps of their own.

**`TracerProofs`**: all properties of the run, for any processes, functions,
timestamps and queue. `QueueReadsAsBacktrace` speaks of a queue read from its start,
so the lemmas show what reading does at the end of a queue: an event appended, the
events of a switch appended, the last one taken back. Reading is a recursive
function; the facts about it are proved by taking the smallest index at which they
would fail (`SmallestElement`). The invariant adds to the types that what the reader
sees is the backtrace of `prevTrack`, and that a track left with open calls has end
events in the queue, without which `back()` of the empty queue is not excluded.
`TracksAreAnnounced` needs that the cached process, and every track with open calls,
are announced (`AnnounceInv`); `NamesAreInterned` rests on an invariant of the loop
in `WriteToDisk` (`Wrote`): so far, every iid in use is interned, and nothing that
was written is changed.

**`PeriodicTaskProofs`**: `OneTrigger`, `TicksAreDue`, and that `PeriodicTask`
implements `Ticker`'s safety part under the mapping of the run. `OneTrigger` alone is
not inductive: a trigger of a later generation could already exist. The invariant
adds that no trigger is newer than the current generation, that a watch exists only
with a timer, and that a destroyed object has no task.

**`SharedMemoryABILemmas`**, **`SharedMemoryABIProofs`**: all invariants of `shm_abi`,
for any number of writers, pages and chunks. The invariant says who holds what
(`Held`) and that every chunk is held (`Accounted`), what was loaded before a
compare_exchange (`Loaded`), whose a header is while it is being stored or cleared
(`Headers`), and what a scrape may rely on (`Scraping`). `ChecksHold` and
`NoChunkIsLost` need a count (`Budget`): an attempt to change a word fails only
because the other side changed another chunk of the page, which it can do twice per
chunk at most while this one stays as it is. Hence the assumption
`RetryAttempts > 2 * (NumChunks - 1)`; the code has 64 attempts and pages of at most
14 chunks. The first module has the invariant and the steps of the producer, the
second those of the service and the theorems.

**`TracingServiceLemmas`**, **`TracingServiceProofs`**: six of the seven invariants of
`tracing_service`, for any finite set of producers and any
number of consumers, sessions and calls. The states of a session's instances go with
its own (`InStep`); one that waits has an instance that is stopping and a timeout
(`Waits`); who owns it is consistent with its being detached (`Owned`); its start is
announced (`Announced`); and its end is a timer, a flush or a posted callback
(`Ends`). The first module has the invariant and that the methods of a session keep
it; the second the calls that go through several sessions, the actions and the
theorems.

**`SliceTrackerProofs`**: all properties of `slice_tracker`, for any tracks, labels, timestamps, number of slices and depth
limit. That slices nest is not inductive without the stacks: `Path` says that a
stack is a path of the tree, `Descend` that whatever came later on the track than a
slice of its stack lies in it, and `Over` that what has left the stack is complete and
over. `MaybeCloseStack` is a loop, a recursive function in the model; its invariant
`Closing` says how much of the stack is closed, which rows may have changed so far, and
that they end inside what is left. A complete slice may be on the stack above one that
it touches and outlasts: `Hidden` says that it is then separated from it by a pending one, so that
whatever cuts it cuts it to 0. Nothing is assumed but what `Fits` and `Encloses` say of
the events of a trace. The DCHECK of `MaybeCloseStack` is not among the theorems: it
does not hold, as said above.

**`UiProviderProofs`**: `OneBackend`, for any number of panels, processes and changes of
the file. It is inductive with the types of `backend` and `proc`, although several calls
may await a port at once: `startTraceProcessor` kills the process it replaces in the step
that spawns another, and a 'close' event removes no entry but that of its own process,
which no longer runs.

Only model-checked, and why:

- all liveness (`ReplayArrives`, `RequestsAnswered`, `LoaderEnds`, `NobodyHangs` and the
  fairness of `Ticker`): it needs ENABLED, which is out of the prover's reach;
- `TracePath` and what it composes: its reads and patches are RECURSIVE operators,
  with which the prover loses its SMT backend;
- `SuccessIsAcknowledged`: the order of the calls in an inbox comes out of
  `FlattenSeq`, a fold over sequences that would need induction over data;
- `DebugSession`, `QMPServer` and `RpcChannel`: a read handles a batch of messages by
  `FoldLeft`, with the same obstacle.

## Plan

1. `QemuPlugin`: the per-vCPU call flag and the callbacks, composed with
   `Tracer`: an interrupt between a call and its landing, and the uninitialised
   `m_inhibited`.
2. IPC host and client with disconnections, between `TracingService` and its
   producers; cloned sessions and incremental state clearing.
3. An abstract stream of packets that `TracePath` implements; startup writers and an
   arbiter that is not bound yet.
4. `TraceSorter`, checked against a sort of what was pushed; `ProtoRingBuffer` at
   the byte level, refining the buffer of `RpcChannel`; the thread pool.
5. Proofs: `SuccessIsAcknowledged` with the inboxes stated as functions.
