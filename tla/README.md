# OPC_SERVER in TLA+

A verification development for the Modbus to OPC UA gateway under `src/`: TLA+
modules translated from the C++ source, TLC runs on small instances, and TLAPS
proofs for every value of the constants. `PROJECT.json` maps each definition to
the lines it models and lists components, runs, mutants, findings, hazards and
theorems.

## The system

A gateway process polls Modbus devices and serves their registers as OPC UA
variables; clients write variables and the gateway writes the registers.

Several kinds of thread meet. The OPC UA thread accepts client writes at any
time and runs the event loop. The strand of an endpoint runs ticks, completions
and posted flushes one handler at a time, but a poll is many handlers, and a
flush inside a handler blocks on the transport. The TCP transport has a worker of
its own that completes operations in the background. The reactor's workers run
the strands, and the main thread starts and stops everything. So a write can
arrive, be flushed and be confirmed between any two steps of a poll, any
transaction can fail half way, and values reach the store, the counters, the
history and the address space on different threads. Around the gateway are the
project file with the tool `opc-map`, the sidecar `opc-monitor` and a vendored
JSON library that reads and writes all of their data.

## Modules

| Part of the code | Modules | What they model |
|---|---|---|
| `core/dispatcher.cpp`, writes | `WriteLedger`, `WriteQueue` | the promise to a client; `enqueue_write` and `flush_writes` step by step |
| `core/dispatcher.cpp`, polls; `app/server_runtime.cpp`, ticks | `EndpointRuntime` | tick, poll chain, posted flushes, transport, TagStore entries and client writes of one endpoint; composes `WriteQueue` |
| blocking polls, runtime doctor | `PollOnce` | `--once` and `--runtime-doctor`, with a clock that may be set back |
| `adapters/modbus_tcp_transport.cpp` | `ModbusPort`, `TcpTransport` | the contract of `IModbusTransport`; socket, strand of the worker, deadlines, aborts, byte stream |
| `adapters/modbus_udp_transport.cpp` | `UdpTransport` | one datagram per request over a network that loses, delays, repeats and reorders |
| `adapters/modbus_protocol.cpp`, frame log and replay | `ModbusCodec`, `RegisterBank`, `ModbusExchange` | every PDU and frame byte by byte; direct access to the tables of a device; whole operations and the journal of them |
| `core/translator.cpp`, data source of `adapters/opc_ua_server.cpp` | `TagPath` | a value from registers to a client and back |
| `core/tag_store.cpp`, diagnostics of the server | `TagDiagnostics` | publish, subscribers, stale sweep, counters, gauges, nodes |
| `adapters/ring_historian.cpp`, `sqlite_historian.cpp` | `Historian` | ring, queue, transaction, requeue, replay, restart |
| `adapters/asio_reactor.cpp` | `Reactor` | workers, strands, repeating timers, signals, stop |
| `app/server_runtime.cpp`, `app/application.cpp` | `Lifecycle`, `Startup`, `Cli` | start and stop beside the threads they leave running; options and project to a listening server; the command line |
| `adapters/opc_ua_server.cpp` | `UaServer` | address space, binding, event loop, session hooks |
| `tools/opc-monitor` | `Monitor` | command queue, session, reconnect, subscriptions |
| `project/*`, `core/runtime_index.cpp`, `tools/opc-map` | `ProjectLoad`, `OpcMap` | file to bindings; the tools over a file that is edited |
| `Lib/Json/json.hpp` | `JsonGrammar`, `JsonLexer`, `JsonParser`, `JsonEscape`, `JsonNumberText`, `JsonRoundTrip`, `JsonStore`, `JsonValue`, `JsonIterator` | reading, writing, values on the heap, loops |

`MC*` modules give small instances. Several put parts side by side in one run:
the variable `about` (or `used`, `groups`) says which part a behaviour is about,
and the others rest in their initial state. `*Proofs` modules hold the theorems;
those about the codec are in `ModbusCodec` itself.

### How state and actions correspond to the code

**WriteQueue.** `write_queue` is `write_queues_[endpoint]`; `batch`, `index`,
`group_end` and `flush` are the locals of a running `flush_writes` and where it
is; `bound` says the endpoint has a transport; `accepted` numbers the writes;
`confirmed`, `rejected` and `sent` are history. A pending write is its tag, its
number (standing for its value) and whether `Translator::encode` will accept it.
Each action is one critical section or one blocking call: `flush_take` is the
swap under the lock, `requeue_from` the insertion under the lock, `flush_write`
puts a group on the wire, `flush_write_ok` and `flush_write_fails` are the two
ways it comes back. Adjacent coil writes of one unit form one group.

**EndpointRuntime.** `chain` is the poll in progress, `strand` and `strandq` what
the strand does and has queued, `ua` the OPC UA thread inside
`data_source_write`, whose enqueue, post, `get` and `publish` are separate steps.
`dev` are the registers, with the number of the write that set each, so that a
TagStore entry shows which write it reflects. `backoff` and `age` are the
distance of `next_reconnect_ms` and `last_poll_ms` from now. The transport is
reduced to the port's contract; a write that is reported as failed may have been
executed. `mixed` says that the connection may hand an operation the answer of
another one: a write was issued beside a read, or an answer did not decode and the
connection stayed open. Until it is opened again a read may then succeed with any
value and a write may be confirmed that was not executed. `publish_quality`'s `get` and `publish` are one step on the strand: it
replaces the quality only, and so does the OPC UA thread. Ticks that find a poll
in flight or a backoff are stutters.

**TcpTransport.** A frame is two cells of the stream, header and body; `waiting`
are the operations pending on the socket, `strand` the handlers that are ready,
`armed` the deadlines. The deadline, an error and `close` abort what is pending.
Hosts resolve to one address. The blocking calls are the asynchronous ones with a
caller that waits.

**TagDiagnostics.** Every locked section is one step; `publish` stores under the
lock and notifies after it, handler by handler. **Historian.** `record` is two
steps, ring and queue; a flush takes the queue, opens the transaction, inserts and
commits or fails; a sample is its number. SQLite is external: a transaction is all
or nothing, and a second BEGIN on the connection fails. **Reactor.** A use of a
`steady_timer` is two steps, so that two threads at one timer would be seen; asio
is external. **Lifecycle.** A step that uses a destroyed object records it.
**UaServer**, **Monitor**. open62541 is external: any call may fail and a session
may end at any time; session ids are numeric or not. **Startup.** Every stage may
fail, before the session hooks are installed, after it, or while tags are bound. **ProjectLoad.** A file is
a record of lists; an integer field is the set of its value, empty when it is
missing or of another type. **TagPath.** Bytes have a parameter size and doubles
are exact fractions, so that TLC goes through every register. **Json.** Scaled
constants: integers of 16 bits, a string buffer of 20 bytes for 512, grisu2 for
16-bit integers and 9-bit significands; `strtod` is external. A float that is not
finite is written as null, and so is read back as null.

## Runs

Every cfg checks one question about a part; `PROJECT.json` has a mutant for every
property, a plausible bug under which the run finds the property violated.

| Run | Checks | States |
|---|---|---|
| `endpoint` | `NoGoodInBackoff`; `PollsInOrder`: one poll at a time, each after the writes before it; `EndpointConverges`: polls end, and after the last error and write the endpoint stays connected and, unless its connection is mixed, the store holds what the device holds; `ImplementsWriteQueue`, with its fairness | 406 thousand |
| `tag_diagnostics` | `CountersAreTallies`, `CountersFollowStore`, `NodesCurrentUnlessDirty`, `NodesReachStore`, `HistoryInOrder` | 752 thousand |
| `field_data` | `HotIsLast`, `SamplesKept`, `Drains` (historian); `BankSpec`: frames implement direct access to the tables; `JournalReplays`: which journals load, and what their replay returns; `ValuesSurvive`: write back what was read, read back what was written | 131 thousand |
| `ua_side` | `QueueSound`: waiting writes are the youngest in order, none is reported twice; `EveryWriteSettles`; `ImplementsLedger`; `AddressSpaceTrue`, `SessionsVetted`, `ServedAsAsked`, `MonitorAgrees`, `MonitorGoesOn` | 595 thousand |
| `runtime` | `HandlersSerial`, `OneRound`, `TimerAlone` (reactor); `RuntimeReleased`, `RuntimeGoesOn` (life cycle); `AnswersMatch` (UDP); `TcpOrderly`: one continuation per operation, a deadline for each attempt, own answers for a single caller; `EndsOrStranded`: a TCP operation ends unless its read is left without a deadline; `ImplementsPort` | 202 thousand |
| `project` | `LoadSound`: groups, names, devices and unit ids of an accepted project agree, and what is polled for each tag; `ToolsAgree`: how the findings of doctor, the node set and the drafts compare with the server; `PassHonest`: after a pass of `poll_once` tags are fresh or not Good | 483 thousand |
| `json` | `ReadExact`, `WrittenExact`, `LoopExact` against the grammar and reference definitions; `OwnedOnce`: every heap node has one owner; `ImplementsStore` | 822 thousand |
| `write_queue_drop` | `NoSilentDrop` | violated |
| `tcp_overlap` | `OwnAnswer` with two callers | violated |
| `tcp_silent` | `Completes`: every TCP operation ends, whatever the device does | violated |
| `frame_replay` | `ErrorsReplayed`: a recorded Modbus error is replayed as one | violated |
| `ua_sessions` | `GaugeCountsSessions`, with session ids that are not numeric | violated |

### Bounds

Bounds are constants named `Max...` or the small sets of an MC module.

- Writes: four over a queue of two let a batch be requeued in front of a full
  queue, fail again inside a group, and be overtaken if the code allowed it.
- Endpoint: two writes with one group, or one write with two groups of periods 1
  and 2, and one transport error: an error falls in every phase of a poll or of a
  flush, a write in every phase of both. The theorems lift these bounds.
- Transports: ids of two values and ages up to three, so that ids come round;
  six operations of one caller, or three of two that overlap and a bad header.
- Diagnostics: two tags and two threads, one of which sweeps; two publications.
- Historian: a ring of two wraps; two recorders with one flush or one recorder
  with two; one failure and one restart. In "long" one endpoint records ten
  samples, more than the eight a failed flush keeps, so that trimming happens.
- Frames: addresses on both sides of a byte boundary, bit runs longer than a byte.
- Tags: bytes of two bits, all contents of all registers of each integer type.
- UA side: three starts, two failing calls, four sessions, two of them with ids
  that are not numeric, two flags, four arguments, three monitor lines with two
  faults.
- Reactor: the workers of `choose_worker_count` for one core, three repeats, or two
  and a posted task. Life cycle: two starts, two writes (one of each with a worker).
- Project: two edits from several kinds of file; `int` has 2^20 values, more than
  any cast in the code keeps. Blocking polls: two endpoints, two passes, two
  faults, one write, a clock set back once.
- JSON: every short text, token sequence, string and number of the MC module; two
  variables that hold one number, strings and containers of them.

Deadlock is checked in `endpoint`. Elsewhere a behaviour really
ends: the inputs are used up, the program has stopped, the queues are empty.

### Fairness

All fairness is weak and of steps the program or its libraries take by themselves.

- `WriteQueue`: a transport gets bound and a non-empty queue is flushed. That is
  a duty of the caller, and `ImplementsWriteQueue` checks that `EndpointRuntime`
  fulfils it, from the tick (a repeating timer), the strand and the transport
  (ready handlers run, operations end), the UA call in progress and time. That
  every operation of the transport ends is what the port promises; `tcp_silent`
  shows the case in which the TCP transport does not keep it, so `endpoint` says
  nothing about an endpoint whose read is left without a deadline.
- `TcpTransport`: worker, socket events and timers. Nothing is assumed of the
  device, which may stay silent.
- `TagDiagnostics`: start-up, the event loop and a thread inside `publish` go on.
- `Historian`: `record` returns, polls go on flushing. Nothing need be recorded.
- `Reactor`: workers, timers, and work that ends, except the work in `Endless`.
- `Lifecycle`, `Monitor`: the threads of the program and time.

No fairness is assumed of clients, or of faults happening or not happening.

## Proofs

For every value of the constants, with any number of tags, threads, callers,
samples, faults. Assumptions on constants are named `ASSUME`s in the component's
module, and TLC evaluates them in the runs: types and non-zero sizes, one position
per repeat (`ReactorAssumption`), a finite set of tags (`TagsAssumption`), ages at
least as wide as the ids (`AgeAssumption`). `TcpProofs` assumes `Bounds`, that its
two bounds are natural numbers, in its statements.

**Write queue** (`WriteQueueProofs`). `QueueCorrect`: `SafeSpec => []QueueSound`.
`NothingForgotten`: if every coil value encodes, `SafeSpec => []NoSilentDrop`; the
assumption is exactly what `write_queue_drop` shows to be needed.
`LedgerRefinement`: `SafeSpec => ImplementsLedger`. The argument is about `Pending`,
the rest of the batch followed by the queue: `StepKinds` shows that a step leaves
it alone, appends one write, or removes a prefix and reports only numbers of it;
invariants and refinement follow without looking at the actions again.

**Endpoint** (`EndpointProofs`). `EndpointSafe` and `BackoffIsQuiet`: `PollsInOrder`
and `NoGoodInBackoff`. `EndpointIsWriteQueue`: the safety part of
`ImplementsWriteQueue`; `EndpointWrites` carries `QueueCorrect` over. Neither
invariant is inductive: a late completion could publish Good in a backoff. `EInv`
adds that a completion on the strand belongs to the poll in flight and is the only
one, that a poll excludes a backoff, that the strand is busy exactly while a flush
runs, and that writes before the tick have left the queue while a poll flushes and
are settled once it reads; the last needs that settled writes stay settled, which
comes from the queue.

**TCP** (`TcpProofs`). `TcpOneContinuation`, `TcpConnectHasDeadline` and, with them,
`TcpIsOrderly`: `Spec => []TcpOrderly`. `Single` says that the operations in progress
are exactly those that pend on the socket or have one ready handler. For a single
caller `Line` relates the phase of the operation to what is on the wire: how much of
its frame is in the stream, at the device, or in the ready handler.
`TcpKeepsPort`: while there is one user and no bad header, every step is a step of
`ModbusPort` or is not seen by it; that is `ImplementsPort`, stated for one caller.
`ModbusPort` itself promises no progress.

**UDP** (`UdpProofs`). `UdpAnswersMatch`: an accepted answer belongs to its request
or is a whole round of ids old, and without faults the socket is empty between
requests. Every datagram is dated by its id (`DatagramsDated`).

**Diagnostics** (`DiagnosticsProofs`). `DiagnosticsTallies`, `DiagnosticsReachNodes`,
`CountersTrackStore`, `HistoryFollowsStore`. The last two are about tags that one
thread stores. `Current`: a thread notifies of values that are still in the store,
and the counters agree with the store unless a notification is on its way.
`Recorded`: what the historian has was stored before the value in the store, or is
that value and nobody owes it any more.

**Historian** (`HistorianProofs`). `RingHoldsLast`: the ring returns the last
samples through every wrap. `HistorianKeepsSamples`: `Spec => []SamplesKept`, through
failed and colliding transactions, trimming and restarts. The invariant has three
parts: `Kept` (every number so far is held by one recorder, or queued, or in one
batch, or in the table, or gone, and in one of these only; an open transaction has
inserted a prefix of its owner's batch), `Counted` (`cold_pending_dropped_` is the
number of samples this process lost) and `Lined` (while one endpoint flushes,
table, batch, queue and held samples of a recorder follow each other).

**Reactor** (`ReactorProofs`). `HandlersAreSerial`, `RepeatsDoNotOverlap`,
`TimersAreAlone`: a strand is with one worker, or once in the ready queue, or has
nothing to do; the places of a repeat (armed, queued, running) exclude each other;
nothing is cancelled before the last repeat was added.

**Codec** (`ModbusCodec`). `UnpackInvertsPack`, `RegistersRoundTrip`,
`BitsRoundTrip`: frames, words and packed bits are read back as they were laid out,
for all lengths the protocol has, also when the last byte of bits is not full.

### Only model-checked

- Liveness, which the prover does not reach: `EveryWriteSettles`,
  `EndpointConverges`, `EndsOrStranded`, `NodesReachStore`, `Drains`,
  `MonitorGoesOn`, `RuntimeGoesOn`, and the fairness part of
  `ImplementsWriteQueue`.
- What recursion or folds over data compute, which needs an induction the provers
  cannot use: `ReadExact`, `WrittenExact`, `OwnedOnce` and `ImplementsStore` (their
  modules declare RECURSIVE operators), `ValuesSurvive` (powers and fractions),
  `LoadSound`, `ToolsAgree` and `PassHonest` (folds over the lists of a project);
  and `TypeOK` of `EndpointRuntime`, whose list of tags to poll is built by
  recursion over the groups.
- `BankSpec` and `JournalReplays`: the lemmas about frames, words and bits are
  proved, their composition with the device and the journal is not.
- `AddressSpaceTrue`, `SessionsVetted`, `ServedAsAsked`, `MonitorAgrees`,
  `RuntimeReleased`, `LoopExact`: no proof was attempted; they are about one server,
  one sidecar, one runtime or one value, with few parameters that the bounds cut.

## Where the code and its documents disagree

Five runs show a disagreement:

- **Dropped coils** (`write_queue_drop`). If `encode` fails while coils are being
  coalesced, the ones already gathered are neither written, requeued nor reported
  (`core/dispatcher.cpp:698`). ADR-0013 says the rest of the batch returns to the
  queue. It takes a coil whose type lets `encode` fail.
- **Exchanged answers** (`tcp_overlap`). Answers are paired by position, without
  the transaction id (`adapters/modbus_tcp_transport.cpp:438`), and a posted flush
  can overlap a poll's read, so two transactions can get each other's answers.
- **Lost deadline** (`tcp_silent`). The deadline cancels only what is pending on the
  socket when it fires; if a completed step waits for its handler, the next read has
  no deadline (`adapters/modbus_tcp_transport.cpp:406`) and a device that stays
  silent keeps the operation open for ever. ADR-0007 says that timeouts end as
  `ErrorCode::Timeout`. `EndsOrStranded` says that this is the only way in which an
  operation does not end; connection attempts always have their deadline.
- **Replayed exceptions** (`frame_replay`). A refused operation is recorded with its
  message and its code, and the replay looks at the message first and returns a
  connection error (`adapters/frame_replay.cpp:64`); `test_frame_replay.cpp:115`
  says that Modbus errors are preserved, with a frame that has no message. A journal
  file with such an exchange does not load at all: the parser takes one word of the
  message and reads the rest as hex (`:145`). `JournalReplays` states both.
- **Session gauge** (`ua_sessions`). `session_key` maps every id that is not numeric
  to one key (`adapters/opc_ua_server.cpp:278`), so sessions with GUID ids count as
  one. ADR-0008 calls the gauge the active sessions. `SessionsVetted` states what it
  does count.

The others were met while translating the source. The models have these
behaviours, and the properties above are stated so that they hold with them:

- **Queue depth.** The swap empties the queue, so clients can fill it to
  `kMaxWriteQueueDepth` again while the batch is written; a failure then requeues
  the rest without looking at the limit (`core/dispatcher.cpp:650`). ADR-0013 calls
  the depth bounded.
- **Overlap.** The strand serialises handlers, not operations: a posted flush writes
  while the poll's read is on the wire (`app/server_runtime.cpp:166`, ADR-0002).
- **Late pending.** `data_source_write` publishes `WritePending` after the write may
  have been confirmed or rejected (`adapters/opc_ua_server.cpp:673`, ADR-0006). The
  next successful poll repairs it (`EndpointConverges`) for a polled tag.
- **Bad length.** A frame with a bad length ends the transaction and keeps the
  connection, with the rest of the frame in it
  (`adapters/modbus_tcp_transport.cpp:484`). As with two transactions at once, later
  operations may then get the answers of others until the connection is opened
  again: hence `mixed` in `EndpointConverges`.
- **UDP.** An exception answer is returned before its id is compared, and after a
  mismatch the late datagram is not drained, so that later exchanges stay shifted
  (`adapters/modbus_udp_transport.cpp:145`).
- **Two publishers of one tag.** Handlers are called after the lock is released, so
  the later notification may carry the older value (`core/tag_store.cpp:15`); hence
  `OwnTags` in `CountersFollowStore` and `HistoryInOrder`.
- **Gauges.** `publish_quality_metrics` copies the counts under the lock and sets the
  gauges after it: of two strands the one that copied first may set last, and the
  gauges keep older counts (`adapters/opc_ua_server.cpp:1354`, ADR-0008).
- **Order of the cold table.** With several endpoints the flush that took the older
  batch may commit last (`adapters/sqlite_historian.cpp:222`); hence the condition
  in `SamplesKept`.
- **Write handler and stop.** The handler on the OPC UA thread reads `reactor_` while
  `stop()` resets it, before the OPC UA server is stopped
  (`app/server_runtime.cpp:165`, ADR-0002). With the TCP transport, `stop()` also
  frees the poll state and clears the executor before the transport is closed, so
  that a late completion runs inline on the worker (`app/server_runtime.cpp:358`);
  `RuntimeReleased` and the stop part of `RuntimeGoesOn` are stated without it.
- **float64 of quantity 1.** `ensure_count` compares with the tag's quantity, and
  decode then reads four registers, also those that were not read
  (`core/translator.cpp:278`); validate accepts such a tag. In `TagPath` the
  registers behind those read are any of `Behind`.
- **Addresses and quantities above 65535** pass validate (`project/validate.cpp:100`)
  and are cut by a cast (`core/dispatcher.cpp:83`). `addressBase` may be 0 or 1 and
  nothing uses it, although `DOCs/03-modbus-projects.md:43` gives it a meaning.
  `LoadSound` states what is asked for.
- **Repeated names.** `test_project.cpp:121` says that duplicate names are rejected.
  A device that repeats a name of its profile is accepted, and the last definition
  replaces the others without a report (`project/load.cpp:458`). `LoadSound` states
  that these are the only repetitions accepted, and which definition counts.
- **Tags that are not polled.** doctor reports a tag without a group that no
  `tagNames` names, also where a group without `tagNames` polls it
  (`project/doctor.cpp:123`, `core/dispatcher.cpp:405`), and never reports a tag with
  a group. `ToolsAgree` states exactly when the finding is right.
- **Node set.** For a tag without a path gen-nodeset describes `Plant/<name>`, and
  for a path of one segment `Plant/<segment>` (`project/gen_nodeset.cpp:59`). The
  server skips the first and does not start with the second. `ToolsAgree` compares
  the two trees where the server starts, up to the first case and up to empty
  segments, which the node set keeps in its ids.
- **Trust list.** With an open channel and without `--ua-strict-certs` user
  certificates are all accepted, whatever `--ua-trust` names
  (`app/application.cpp:217`, `adapters/opc_ua_server.cpp:69`); `ServedAsAsked` states
  it so.
- **NaN and infinity** become null in JSON (`Lib/Json/json.hpp:18809`): the monitor
  sends null for such a value (`tools/opc-monitor/monitor_client.cpp:76`).
  `WrittenExact` states that every other float is read back as it was.
- **Text after a NUL** is not read by the JSON lexer; `ReadExact` is about the text
  before it.
- **Rounding.** Integer tags round the scaled value, in both directions
  (`core/translator.cpp:194`, `:220`); hence "within the rounding of its scale". With
  a scale of 1 or -1 and an offset that is no whole number, writing back what was
  read may change it: `ValuesSurvive` leaves these tags out.
- **Monitor.** A refused subscription is not tried again while the session lasts
  (`tools/opc-monitor/monitor_client.cpp:412`); a null path ends the process
  (`:430`).

## Not modelled

`PROJECT.json` lists every component with its status. Left out are the
observability adapters (nothing reads back what they are given), the TypeScript
front end (it meets the gateway through files and the sidecar), the text of stored
values and of log lines, the reading of certificate files, the quotes of CSV lines,
the browse of the monitor, and the parts of the JSON library that the program does
not use (binary formats, patches, pointers, callback parser, wide characters).
