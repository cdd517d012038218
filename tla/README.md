# Stream gateway: a TLA+ verification project

The gateway receives transport streams over UDP and SRT, hands the packets of
each input to its outputs, cuts single programs out of multi-program inputs
(SPTS inputs), and analyses inputs on request. A REST API creates, deletes,
starts, stops and updates inputs and outputs while they run; an SQLite database
lets the process find its streams again after a restart.

This directory models that program in TLA+: its control plane, the loops of its
worker tasks, the program filter, and what becomes of the port a stream is
configured with. TLC checks the models on small instances; TLAPS proves the most
important results for all instances.

## 1. The system

### Components

| Component | Source | State | Operations |
|---|---|---|---|
| Stream control | `stream_control.rs`, `api.rs` | `ACTIVE_STREAMS`: inputs with status, task handle, channel, `output_tasks`, `stopped_outputs` | create, delete, start, stop, update of inputs and outputs |
| State processor | `state_processor.rs` | the queue of `StateChange` | apply a status to the entry with the same id |
| UDP tasks | `udp_stream.rs` | socket, connected flag | bind, receive and publish; read the channel and send |
| SRT tasks | `srt_stream.rs` | socket, `consecutive_failures` | `get_socket`, move packets, reconnect or give up |
| SPTS tasks | `spts_input.rs` | the filter | read the source's channel, publish the chosen program |
| Analyses | `analysis.rs` | `analysis_tasks`, `paused_analysis` | start, stop, stop all, pause and resume with the input |
| Persistence | `database.rs`, `main.rs`, `load_from_db` | tables `inputs`, `outputs` with a status column | save, delete, update status, load at start |
| Configuration | `api.rs`, `models.rs` | none (pure) | validate, merge an update with what is stored, legacy fields |
| Automatic ports | `port_utils.rs`, `config.rs` | ports in the rows, sockets of the host | find a free port of the range |
| Program filter | `mpegts_filter.rs` | PMT PID, PIDs of the program | read PAT and PMT, pass packets |
| Metrics | `metrics.rs` | counters and gauges | increment, decrement, export |
| Interfaces | `interfaces.rs` | none | list the host's interfaces |

### How they interact

* `ACTIVE_STREAMS` is one map behind one tokio `RwLock`. Handlers, the
  processor and the analyses take it; many handlers take it several times, and
  whatever they have read before may be out of date when they take it again.
* A task is owned through a `JoinHandle` or `AbortHandle` stored in its entry.
  Dropping or overwriting a `JoinHandle` does not stop the task. An abort is a
  request: the task may still finish the poll it is in.
* Packets go through a `broadcast` channel that belongs to a task: each start
  of an input makes a new one, and a sender stays on the one it subscribed to.
* Tasks report through an unbounded queue of `StateChange` messages. A message
  carries the id of the stream but not which of its tasks sent it.
* The database is written by the handlers, before, after or outside the lock
  section that the row describes. After a restart the rows are all there is.

### What is hard about it, and what makes it correct

| Part | Hard behaviour | What should hold |
|---|---|---|
| Stream control | check and act in different lock sections | one task per stream, no task out of reach, an output in one map |
| Rows and entries | partial failure, crash between row and entry | each stream with a row can be managed, and the other way round |
| Status | messages of tasks that have been replaced | the status shown is that of the current task |
| Channels | an input that is restarted changes its channel | a connected output reads what its input publishes |
| Analyses | a lock asked for under the same lock; check and insert apart | handlers end, analyses can be stopped and come back |
| SRT loop | counting failures across reconnections | Error is earned, and is reached when the peer stays away |
| Receiver, channel and filter | datagrams lost before the socket and in the channel; tables that change; a source that ends | the filter passes what the tables say and catches up; the task ends with its source |
| Ports and configurations | searches that overlap; two readings of two fields; three columns that say the same | bound ports are distinct; a port once named is kept; entry, row and restart agree |

PROJECT.json lists these hazards one by one at their lines.

## 2. Modules

| Module | Models |
|---|---|
| `StreamTask` | the statuses and, per kind of task, the moves a task can make and what it reports (no state) |
| `StreamControl` | stream control, processor, rows, crash and load; the worker tasks as StreamTask's automata |
| `Registry` | abstract specification: which streams there are, whatever requests overlap and wherever the process dies; implemented by StreamControl |
| `MCStreamControl` | the streams and fault budgets of its runs |
| `StreamControlTypes`, `StreamControlPlaces`, `StreamControlProofs`, `StreamControlSerial` | the proofs about StreamControl |
| `TaskLife` | abstract specification: one worker task as StreamControl sees it |
| `SrtLoop` | the SRT connection loop in detail; implements TaskLife |
| `SrtLoopProofs` | the proofs about SrtLoop |
| `ProgramFilter` | the filter of `mpegts_filter.rs` as operators on an abstract packet alphabet |
| `SptsFlow` | a UDP receiver, its channel and an SPTS task with its filter; both tasks implement TaskLife |
| `MCSptsFlow` | the multiplex of its runs |
| `SptsFlowProofs` | the proofs about SptsFlow and ProgramFilter |
| `AnalysisControl` | the analyses of one input, with the lock as a variable |
| `AnalysisProofs` | the proofs about AnalysisControl |
| `PortConfig` | ports and port fields from the request through the row to a restart |
| `MCPortConfig` | the requests and updates of its runs |
| `PortConfigProofs` | the proofs about PortConfig |

The worker tasks appear twice: as automata of a few phases in StreamControl, and
line by line in `SrtLoop` and `SptsFlow`. `TaskLife` takes its moves from
`StreamTask`, as StreamControl does, so the refinements `ImplementsLife`,
`UdpImplementsLife` and `SptsImplementsLife` are what entitles StreamControl to
its automata. The UDP sender is only an automaton: it has no state but its
socket.

`Registry` sees of StreamControl one value per id: free, being created, managed,
or deleted. It is what a client of the API can count on about which streams exist;
`ImplementsRegistry` says that rows and map together change only as it allows. The
mapping `LifeOf` takes an input to be managed when it is in the map, and an output
when it has a row: that is when a restart gives it back.

Beside some definitions stands a variant of the same name and purpose with a
defect in it (`AbortNothing` before `Abort`, `MayAlwaysStart` before
`MayStart`); nothing refers to it. Each shows that a property notices that
defect; PROJECT.json pairs them.

### StreamControl and the code

| Variable | In the code |
|---|---|
| `present` | keys of `ACTIVE_STREAMS` |
| `running`, `stopped` | keys of `output_tasks` and `stopped_outputs` of the inputs |
| `status`, `handle`, `channel` | fields of an entry; tasks are numbered per stream, and `handle` and `channel` hold that number |
| `gen`, `phase`, `aborted`, `sub` | the tasks that have been spawned: how many, where each one is, which were told to abort, which channel each reads |
| `queue` | the `StateChange` channel |
| `row` | the status column of a stream's row, with "none" and "deleted" for ids that have no row (ids are never used twice) |
| `pc` | where the handler of each request is and what it has read |
| `budget` | faults that may still happen in a run |

One section under the lock is one action. `CreateInput` saves the row,
`SpawnInput` spawns, `InsertInput` or `InsertFailedInput` takes the lock and
stores the entry. `StartInput` and `RestartInput` are the check of
`start_input`, `Respawn` its second section for base inputs. For SPTS inputs
`ReachInput` is the look under the write lock, `CheckSource` and `Attach` the two
read locks, and `Adopt` the write lock taken again; the input and its source may
be stopped, restarted or deleted between any two of them. `RestartOutputs` is the
loop over `stopped_outputs` in `Respawn` and `Adopt`. `StopInput` uses `HaltInput`, which
`HaltForUpdate` uses too. Outputs have `CreateOutput`, `DeleteOutput`,
`StartOutput`/`BeginOutput`, `StopOutput`/`EndOutput`, and
`UpdateOutput`/`ProbeOutput`/`ParkOutput`. `ReadStatus` and `WriteRow` are what
an endpoint does after the operation: read the status under a read lock, write
the row without one. `TaskStep` is a step of a worker, `LateStep` a step of an
aborted one, `AbortLands` its end. `Restart` ends the process at any point and
does what `main` does before it serves requests. The rows it loads from are those
of that moment, or those left by a `delete_input` that had deleted the rows of
the outputs and not yet the row of the input (`CaughtDeleting`): these are two
statements without a transaction (`database.rs:51`).

Data is reduced to what the properties tell apart: a configuration to the kind
of the stream, a message to its status and stream, a UDP destination to whether
it is a host name that may fail to resolve.

### SrtLoop and the code

`pos` is the place in the loop of `Forwarder::spawn_with_stats` or
`spawn_srt_output` (the variable `sender` says which), `failures` is
`consecutive_failures`, `backlog` counts the packets a sender has not yet read,
`asked` is a history variable. A receiver leaves its packet loop when a read
ends or fails; a sender only when a write fails, which takes a packet, or when
its channel is closed and empty, in which case it returns without a message.

### ProgramFilter, SptsFlow and the code

A packet is its PID and, when a whole section starts in it, the table, the
program and the *edition* of the table. An edition is what a table says at a
time; the filter sees of its number only the version, which is modulo 32.
`ProcessPat` and `ProcessPmt` are `process_pat` and `process_pmt` with their
skipped versions; `Learn` is a turn of the loop of `filter_packets`, `Emits`
whether it puts something in the output.

In `SptsFlow`, `Bind` to `GoIdle` are the receive loop of `udp_stream.rs`.
`EnterSelect` evaluates the precondition of the idle branch, once, as `select!`
does; `idle` is the age of `last_packet_time`, `nap` the time since `select!`
was entered. `ring` holds what the channel still has for the filter task, and
`Publish` drops the oldest of a full one and sets `lagged`, which `recv` reports
once (`Lag`). `FirstPoll` to `SourceClosed` are the task of `spts_input.rs`; a
datagram is filtered packet by packet so that a table in it takes effect within
it. `ReleaseChannel` and the two `Drop` actions are what StreamControl may do to
the tasks. `ChangePat` and `ChangePmt` are the multiplex. `seenPat` and
`seenPmt` are history variables that know which tables the filter was shown.

### AnalysisControl and the code

`BeginAnalysis` is the read section of `start_analysis` and the spawn after it,
`InsertAnalysis` its write section. `StopInput` moves the types of
`analysis_tasks` to `paused_analysis`, `AdoptInput` is the last section of
`start_input`, and `ResumeAnalysis` the calls of `start_analysis` it makes.
`GuardKept` says whether the write guard is still held during them: released at
`stream_control.rs:158` for SPTS inputs, kept for the others. An analysis that
ends by itself leaves its entry behind, as in the code. `InputReports` is the
processor: it may show the input active, also when that message is late and the
input has been stopped, or at its end; a stop of an input that is shown active
again adds to what `paused_analysis` holds.

### PortConfig and the code

A configuration keeps only its port fields: the new one (`bind_port`, or
`remote_port`), the old one (`listen_port`, or the port in `destination_addr` or
`target_addr`) and `automatic_port`. `IsAutomatic`, `Port`, `Merge`,
`CreateRow`, `UpdateRow` and `LoadPort` are the pure functions: when the server
looks for a port, which field a getter reads, how an update is merged, what goes
to the columns of a row on create and on update, and what `load_from_db` reads
back. `Search`, `Check`, `Save` and `Insert` are the sections of the two create
handlers, of which `create_output` holds the lock from `Create` to the end and
`create_input` only for `Insert`; `Patch`, `Store` and `Apply` are those of the
two update handlers. `Restart` is a crash and `load_from_db`, after which the
process may not be `up`.

The ways in which a stream has a row and no entry, or the two differ, are these.
`Entries` are the outcomes of starting a stream: a sender may have none, as its
host may not resolve, in `Insert` (`api.rs:750`) and in `Apply`
(`stream_control.rs:268`). `Overtaken` is an update that ends between its row and
its entry, because its own stop is refused or the stream is gone
(`api.rs:518-532`, `:1506-1528`). `LoseOutput` is an output that the start or stop
endpoints take out of the map. `Restart` may leave out any sender that is not
stopped, as `load_from_db` does when the destination is not an address
(`api.rs:2125`). The history variables say whose port was found by the server,
which searches overlapped, on which streams requests overlapped, and which entry
the last update did not get to (`behind`). That a stream with a row has an entry
is not claimed here: it is `OutputRowsHaveEntries` of StreamControl.

## 3. Runs

| Run | Instance | States | Shows |
|---|---|---|---|
| `requests` | one UDP input, which requests create; two clients; one failure, one late step and one crash | 747 790 | types; the newest task is never out of reach; rows and entries of inputs agree; Registry is implemented |
| `serial` | a UDP input and an SRT caller output, both in the database at first; one client; one crash | 1 619 211 | one task per stream, every task within reach, an output in one map, outputs and rows agree, also after a crash inside `delete_input`, a row "stopped" is true |
| `spts` | a UDP input in the database, an SPTS input on it, and a UDP output of that one to a host name; one client, one failing lookup and one crash | 1 235 965 | rows and entries agree when the SPTS input cannot be attached; the newest sender is never out of reach when the lookup fails |
| `drain` | a UDP input and a UDP output, one client, with fairness | 222 932 | a deleted input and its senders end; a connection that was reached is shown; Registry is implemented; a channel closes once |
| `srt_loop` | sender and receiver, listener and caller; 3 attempts, a ring of 2, with fairness | 280 | Error is earned; a caller gives up; a sender without input ends; TaskLife is implemented |
| `analysis` | an SPTS input, two types, two clients, with fairness | 223 639 | no analysis is out of reach; handlers end; paused analyses come back |
| `spts_flow` | two programs, three editions of the PAT, two of the PMT of the target; a channel of one datagram; with fairness | 214 430 | the filter follows the tables it is shown and catches up with those on air; the task ends with its source; both tasks implement TaskLife |
| `ports` | two streams of any kind, two clients, three requests, two updates, two automatic ports, restarts at any point | 1 167 968 | listeners are on their own ports, automatic ports are distinct, a named port is kept, an entry is on the port of its row, only an update can keep the process from starting |
| `unfed_output` (violation) | a UDP output | | created on a stopped input, it shows Connected and reads a channel nobody writes |
| `analysis_deadlock` (violation) | a UDP or SRT input | | starting an input with paused analyses waits for its own lock |
| `idle_input` (violation) | as `spts_flow` | | a receiver that nothing reaches any more goes on showing Connected |
| `boot` (violation) | as `ports` | | an update of an SRT listener output that was created without a port keeps the process from starting |

### Bounds

* `MaxGen = 2` tasks per stream between two restarts: a task and its
  replacement are enough for a stale handle, a stale message and a stale
  channel. A third task only repeats the relation between an old and a new one.
* `MaxQueue` of 0 to 2 messages. A task with a message to send waits while the
  queue is full; in the code the queue is unbounded. With 0 a task that reports
  never gets past its first step, and only the races of the handlers remain; with
  1 and more a message can be older than the task of its stream.
* `SourceOnce` in `spts`: the source of the SPTS input is started once between two
  restarts. Its second start gives the filter a new channel, which matters to
  what the filter reads and not to the two properties of this run.
* One or two clients. Every race found so far is between two handlers, or a
  handler and a notification. All safety properties that are checked with two
  clients are proved for any number. `ImplementsRegistry` is checked with two
  clients on an input and a crash (`requests`) and with one on an input and its
  output (`drain`); both at once are left to the proof.
* Budgets count faults of each kind over the run: one task that fails for good,
  one failed lookup, one late step, one crash. `Restart` of PortConfig is not
  bounded.
* `srt_loop`: 3 attempts in place of 10 so that the counter has a first, a middle
  and a last value; a ring of 2 so that it is empty, partly full and full.
* `spts_flow`: the target is missing in the first edition of the PAT, gets a PMT
  PID in the second, and swaps it with the other program in the third, so the
  tables make the steps that can go wrong. A channel of one datagram of one
  packet is always empty or full, which is where loss happens; a datagram of
  several packets is filtered as so many of one packet, except for `some`. One
  tick for the timeout distinguishes "no time has passed" from "enough has".
* `analysis`: `MaxPaused = 2`, as each of two clients can have an analysis of one
  type, so `paused_analysis` can hold it twice; a late status and a second stop
  could make it longer without end. Ids of analyses are used again when nothing
  refers to them.
* `ports`: port 0 (find one), 1 and 2 (the range; 1 is also what requests and
  updates may name, so that named and found ports meet), 8 (the default). The
  requests name nothing, a port in the new field, or one in the old field with
  `automatic_port` false; in `boot` also nothing with `automatic_port` false. Two
  updates, so that one can overlap another or come between two restarts. The
  streams and the clients are interchangeable, which the run uses.

Deadlock checking is off except in `ports` and `boot`: with the faults used up,
no message queued and every stream deleted, the system rightly stops, and so
does a task that has returned.

### Fairness

* StreamControl: the processor, an aborted task, a task that reads a closed
  channel, and a handler under way go on. tokio polls what is ready, and no
  handler waits for anything but the lock, which is fair, and SQLite. Nothing is
  assumed about requests, peers, packets or faults.
* SrtLoop: a timer fires, the announcement follows, a caller gets an answer or
  SRT's connect timeout, and a sender reads what is in a closed channel. A
  listener may wait for ever, so `CallerGivesUp` and `ClosedSenderEnds` are
  about callers.
* SptsFlow: time passes, and the receiver and the filter task are polled when
  they can go on. `CatchesUp` has what it needs of the multiplex and the network
  as its hypothesis: that from some time on the tables stay as they are, name
  the program, and get through again and again.
* AnalysisControl: a handler goes on when nobody keeps the lock. The violation
  `analysis_deadlock` is under this fairness. An HTTP server that drops a
  handler when its client goes away would release the lock; the model does not
  count on that.

PortConfig has safety properties only.

## 4. Proofs

All proofs are for arbitrary constants under the named assumption of the module:
`StreamControlAssumption` (inputs and outputs are different ids; kinds, parents
and sources have their types; an output in the database at first has its input
there; bounds are natural numbers), `SrtLoopAssumption`,
`ProgramFilterAssumption` and `SptsFlowAssumption` (tables speak of PIDs, no PMT
is on the PID of the PAT or CAT, each program has a PMT and there is a PAT; bounds
are positive), `AnalysisAssumption` (finitely many types and clients; the bound is a number) and
`PortConfigAssumption` (the automatic range is within the ports and has no 0).

| Theorem | Property | Argument |
|---|---|---|
| `StreamControlProofs!TypeCorrect` | `TypeOK` | part of `IInv` |
| `StreamControlProofs!InputRowsMatch` | `InputRowsMatchEntries` | part of `IInv` |
| `StreamControlProofs!LatestTaskKept` | `LatestTaskAccounted` | part of `IInv` |
| `StreamControlProofs!RegistryImplemented` | `ImplementsRegistry` | `IInv`; step by step |
| `StreamControlProofs!RestoreIsComplete` | `RestoreFindsInputs` | carried over from Registry |
| `StreamControlProofs!ChannelsKeptClosed` | `ChannelsCloseOnce` | `ChanInv` |
| `StreamControlProofs!OutputRowsKept` | `OutputRowsHaveEntries`, no host names, no failing SRT tasks | `WellShown`, `RowsHeld` |
| `StreamControlSerial!SerialOutputInOneMap` | `OutputInOneMap`, one request at a time | `OutputsPlaced` |
| `StreamControlSerial!SerialOutputsHaveRows` | `OutputEntriesHaveRows`, one request at a time | `OutputsPlaced` |
| `StreamControlSerial!SerialStoppedIsTrue` | `StoppedRowHasNoTask`, one request at a time | `StopsPlaced` |
| `StreamControlSerial!SerialTasksReachable` | `EveryTaskReachable`, one request at a time, no failing task, no SPTS input | `TasksPlaced` |
| `StreamControlSerial!SerialOneLiveTask` | `OneLiveTask`, as above | `TasksPlaced` |
| `StreamControlSerial!SerialTasksHeld`, `SerialTasksSingle`, `SerialDeletedIsAborted` | the same stream by stream, and that a deleted stream has no task at work; one request at a time, any fault | `TasksPlaced` |
| `SrtLoopProofs!LoopTypeCorrect`, `ErrorEarned` | `TypeOK`, `ErrorIsEarned` | `AttemptsCounted` |
| `SrtLoopProofs!LoopImplementsLife` | `ImplementsLife` | step by step |
| `SptsFlowProofs!ReceiverImplementsLife`, `FilterImplementsLife` | `UdpImplementsLife`, `SptsImplementsLife` | `ReceiverInv`; step by step |
| `SptsFlowProofs!FlowTypeCorrect` | `TypeOK` | with the fact that what is on the way was on air |
| `SptsFlowProofs!FilterFollowsTables` | `FollowsTables` | `OnTheWay` and what the filter knows |
| `AnalysisProofs!AnalysisTypeCorrect`, `NoAnalysisIsLost` | `TypeOK`, `AnalysisCanBeStopped` | the two together are inductive |
| `PortConfigProofs!PortTypeCorrect`, `ListenersOnTheirOwnPorts` | `TypeOK`, `ListenersDistinct` | `PortInv` |
| `PortConfigProofs!FoundPortsDistinct` | `AutoPortsDistinct` | `AutoInv` |
| `PortConfigProofs!NamedPortIsKept`, `EntryIsAsStored` | `NamedPortKept`, `EntryMatchesRow` | `KeepInv`, stream by stream |
| `PortConfigProofs!DownByUpdateOnly` | `DownOnlyByUpdate` | `KeepInv` |

**StreamControl, any number of requests.** None of the first three is inductive.
The inductive invariant `IInv` adds three parts.

* `HandlersPlaced`: a handler at a label that belongs to inputs works on an
  input, one at a label of outputs on an output; an input that a `create_input`
  is working on has no entry yet, no other handler is creating it, and the task
  that is about to be stored is the newest one. Without it `InsertInput` could
  replace the entry of an input, or store a handle that is not the newest.
* `AttachingKnown`: an input that `start_input` is attaching to its source is or
  was in the map. Between its sections it may be deleted; that it was known is
  what keeps the filter that is then spawned from being a second task of an input
  that a `create_input` is working on, as ids are used once.
* `UdpOutputsConnected`: a UDP output that runs has status Connected, and no
  message is about one. It is needed because `stop_input` aborts only outputs
  that are active: were a UDP output ever in Error, `stop_input` would drop its
  entry and leave its newest task running, which is what happens to SRT outputs
  and why the property excludes them.

`StreamControlTypes` defines `IInv` and proves that each action keeps the types,
`StreamControlPlaces` that each keeps `HandlersPlaced` and
`InputRowsMatchEntries`, `StreamControlProofs` the rest; in each, one lemma or
case per action.

**The registry.** No further invariant is needed: a step of StreamControl is one
of Registry, or a stutter, because of `HandlersPlaced` and `InputRowsMatchEntries`.
`RegistryStepOfClient` goes through the actions of handlers; most leave every life
alone (`LivesFrame`), and `LivesChange` is for those that do not. `Recover` in
Registry may delete the outputs of one input: this is the crash inside
`delete_input`, and the only way in which the code gives less than one would ask
for. `NoOrphans` is a consequence of Registry's own `Spec`; by the refinement,
and not by another induction over StreamControl, it becomes `RestoreFindsInputs`.
An id is used once because the columns are AUTOINCREMENT, which is what "deleted"
and "free" being two values stands for.

**Channels, any number of requests.** `ChannelsCloseOnce` is what `TaskLife`,
and with it `SrtLoop` and `SptsFlow`, take for granted in their action `Close`
(in SptsFlow, `ReleaseChannel`): the channel a task reads is open when the task
is spawned and does not open again. A channel is a number, that of the task
whose `packet_tx` it is, so it would open again if an entry took the channel of
an older task. `ChanInv` says that whoever reads a channel reads one of an input
that is in the map or has been deleted, of a task that has been spawned and is
not a filter about to be adopted; and that two handlers about to adopt a filter
of one input have different filters, neither of which the entry has.
`delete_input` closes a channel for good because ids are used once.

**Rows of outputs, any number of requests.** `OutputRowsHaveEntries` is false in
general, in the two ways named in section 5: a lookup that fails takes an output
from the map, and `stop_input` takes one whose entry does not look active. The
hypotheses of `OutputRowsKept` exclude just these: no output has a host name, and
each is `Reliable`: a UDP output, or any other when no task fails for good and
none reports after its abort. Neither requests nor crashes are restricted.
`WellShown` says that no message about a reliable stream says it has ended, and
that the entry of one that has a task looks active. It needs the late messages
excluded because the message of an aborted task is shown on its successor.
`RowsHeld` adds, for every output, that one with a row is below an input that is
in the map.

**StreamControl, one request at a time: maps and rows.** The hypothesis
`OneAtATime` is that there is one client; with two, none of the properties proved
under it holds. Here failures, late messages and crashes are not restricted.
`OutputsPlaced` adds that
`update_output`, which puts an output in `stopped_outputs` without looking, has
found it with a row and not running. `StopsPlaced` adds that whoever started an
input whose row says stopped is about to write another status, that an input with
a task does not show Stopped, and that no message of a base input says Stopped:
without the last, the endpoint could read Stopped back and write it.

**StreamControl, one request at a time: tasks.** `TasksPlaced` says that a task
at work of a reliable stream can be aborted: its entry holds its handle, or
`create_input` is about to store it; and that a handler about to start an input
has found it without a task. The second needs `WellShown`: the check of
`start_input` asks whether the status is active, not whether there is a task.
That is why the stronger theorems, which are about all streams, assume that no
task fails, and why SPTS inputs are left out: they may show Stopped, by a
message of the task before, while the next one runs. A request is then enough to
get a second task, and the property is false. An entry holds one handle, and a
`create_input` that is about to store one has no entry yet, so a stream has at
most one task at work (`HeldIsOne`), and none once it is deleted, which is the
safety half of `DeletedInputGoesQuiet`.

**SrtLoop.** `AttemptsCounted` relates the counter to the attempts announced: they
are equal except inside `get_socket`, where one more has been announced. In the
refinement `Forward`, `Publish` and `Wake` map to stuttering, the others to a move
of StreamTask, to `Close` or to `Drop`.

**SptsFlow.** The refinements go action by action; the receiver's needs that it is
not connected before it is bound. For `FollowsTables`, `OnTheWay` says of every
packet in the channel and in work that it was on air, with a PMT on the PID some
PAT edition gave its program, and that PATs are in the order of their editions:
lost packets leave gaps, not swaps. From it follows that the filter's version of
a table is the version of the edition it was shown last, and since no two
editions share a version (`FewEditions`), that a table is skipped only when it
is the one already known. `FewEditions` is a hypothesis of the theorem: with more
editions than versions a reader that missed 32 of them skips the next, and the
property is false.

**AnalysisControl.** The invariant is inductive as it stands; what takes an
argument is that a number is free for each new analysis, because only the other
clients can hold one of its type.

**PortConfig.** `create_output` holds the lock from its search to its insertion,
so between its check and its save no other output is saved. What the check looks
at is the column `listen_port`; `PortInv` says that the column agrees with the
configuration until the output is updated, which is why `ListenersDistinct`
leaves out updated outputs. `AutoInv` adds the requests that were given a port
and have not saved it: two of them are always rivals, and the port of one is in
no row it could have looked at. `KeepInv` says what has to be known of one stream
(`StreamKept`): while a request works on it, that the configuration in its hands
has the port that was named, and after it has stored the row, that row and hands
agree; that the columns say the same as the configuration; and that an entry,
where there is one, agrees when nobody is between the row and the entry and the
last update was not overtaken. A step is about one stream
and keeps what is known of the others (`OneStream`). The condition `Settled` of
the properties is needed: two updates that overlap, and a restart between
reading and storing, break both. `EntryMatchesRow` needs a second one, that the
stream is not in `behind`: a stop between the sections of an update is enough to
leave the entry on the old port. `DownOnlyByUpdate` needs no such condition: a row
of a listener output that no update touched has the port that `create_output`
found or checked.

Only model-checked are the liveness properties, because proofs under fairness are
out of the prover's reach: `DeletedInputGoesQuiet`, `ConnectionIsShown`,
`CallerGivesUp`, `ClosedSenderEnds`, `HandlersEnd`, `PausedComeBack`, `CatchesUp`
and `OrphanEnds`. Every other property of the passing runs has a theorem.

## 5. What the code does not keep

Four disagreements between the code and what it or its documentation says have a
run each (the violations of section 3; PROJECT.json quotes the lines). The models
show more of them, and reading showed others; these have no run.

Stream control

* A status of a task that was stopped or replaced is applied to the entry that
  has the id now (`state_processor.rs:39`): a stopped input may show Listening or
  Connected again. Error of a replaced task is shown on the new one, and since
  Error is not active another start spawns a second task.
* Two starts of an input both pass the check at `stream_control.rs:20` and both
  spawn (`:30`); the first task can then not be aborted.
* `start_input` starts outputs that were stopped by hand
  (`stream_control.rs:175`; the comment at 173 speaks of running outputs).
* `stop_input` drops an output in Error from both maps (`stream_control.rs:220`):
  it has a row and can no longer be managed until a restart.
* An output whose destination does not resolve is lost by create and start
  (`api.rs:716`, `stream_control.rs:268`).
* The first messages of a task that `create_input` spawned are dropped when the
  processor is faster than the insertion (`api.rs:261`), so the input shows
  Listening while it receives. `ConnectionIsShown` is therefore stated for
  inputs that are loaded.
* `update_input` stops the input, and a stale message makes its `start_input`
  answer "already running": the input stays down (`api.rs:545`).
* `delete_output` between two sections of `update_output` leaves an output
  without a row (`api.rs:1534`).
* Rows of a stop and a start may be written in the other order (`api.rs:2597`).
* An SPTS input whose source ends shows Stopped, and a stop request is then
  refused while its row says it runs (`spts_input.rs:149`).

Receiver and filter

* A UDP receiver whose socket fails ends without a message; its entry stays
  Connected.
* A PAT that moves the program to another PMT PID is not followed
  (`mpegts_filter.rs:207`), and a PMT of another program on the old PID is taken
  for the program's. `FollowsTables` and `CatchesUp` exclude this with `Steady`.
* Tables are compared by version only: of a table in several sections only the
  first is read, a source that restarts with the same version is not read again,
  and 32 changes that are all missed look like none.
* The comment on the bit rate of an SPTS input says bits per second; the window
  over which it counts is two seconds.

Ports

* Two `create_input` that overlap may be given the same automatic port
  (`port_utils.rs:28`). `AutoPortsDistinct` excludes such pairs.
* A listener or UDP output given only in the old fields always gets an automatic
  port, in place of the one asked for, although `README.md:410-417` says the old
  names continue to work; an input given only in the old field loses its port
  with any update, and a UDP output its host.
* An update does not look for conflicts, so two listeners may be moved to one
  port.
* An automatic UDP output finds the same port each time, because its column
  `listen_port` stays NULL; the second is then refused as a conflict.
* A caller without a port connects to 8000, but after an update its row says
  port 0, and so it does after a restart.
* The updates read, merge and write without a lock (`api.rs:512`): of two that
  overlap one is lost, and row and entry may end up different. A stop that comes
  between the row and the entry of an update makes it return with an error
  (`api.rs:529`, `:1524`): the row has the new port and the entry the old one, until
  the next update or restart.

Gauges

* The gauges of active streams are incremented where tasks are spawned and
  decremented where entries are removed (`metrics.rs:334`). An input that was
  stopped, deleted or restarted between the two counts twice or not at all.

## 6. What is not modelled

* Packets, sockets, multicast, statistics, and libsrt: I/O. Sections longer than
  a packet, and the bytes of tables.
* Metrics: nothing reads them but the exporter. Network interfaces: queries
  without state.
* The validators of requests, which only refuse, and the fields of a configuration
  other than its ports, which are merged one by one in the same way.
* Failing database statements. Most handlers log them and go on.
* The exact delays: between two SRT attempts, and of the timers of statistics.
* Routing, and the endpoints that only read.

## 7. State of the plan

Done, in this order: StreamTask, StreamControl and its runs; its type invariant
and first safety theorems; AnalysisControl; TaskLife, SrtLoop and their
refinement; ProgramFilter and SptsFlow with their refinements of TaskLife;
PortConfig; the proofs of all of these; Registry, its refinement by StreamControl
and what follows from it; the tasks with one request at a time; channels.

What remains would be, by importance:

1. The tasks of SPTS inputs with one request at a time: which of their tasks are
   in reach when the source has ended is model-checked only as far as
   `LatestTaskAccounted` goes.
2. The gauges as history variables of StreamControl, against the number of live
   tasks; the property is known to fail, so the gain is only a run.
