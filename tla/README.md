# slogmodem: models, checks and proofs

slogmodem is the daemon that saves the logs of the communication processors (CPs: the
cellular modem, WCN, GNSS, audio DSP, sensor hub) of an Android phone. This directory holds
TLA+ models of it, the TLC configurations that check them, and proofs. `PROJECT.json` maps
every definition to the source lines it models.

    tlc -workers 2 -config LogPipe_safety.cfg MCLogPipe.tla      # any run
    tlapm IoScheduler_proofs.tla                                 # the proofs; also the other *_proofs

## 1. The system

One main thread runs everything but disk writes and file copies. `Multiplexer::run()` polls
all descriptors, runs the timers that are due, then calls the handler of each descriptor that
is ready. Handlers call each other synchronously and register callbacks. Beside the main thread
there is one I/O thread for each CP, which does nothing but `writev()`, and four work routines
that copy files. They share data with the main thread through sockets, queues and plain fields.

| Part (source) | State | Operations | Talks to | Hard because | Correct when |
|---|---|---|---|---|---|
| Main loop (`multiplexer`, `timer_mgr`) | handlers and their events, array of the round, timer list | register/unregister, add/remove events, create/delete/put off timers, `run()` | every handler | handlers change the table, the array and the timers while the loop goes through them; timers are deleted by callback | events reach only handlers that exist and want them; timers stay sorted; the loop goes on |
| I/O channel (`io_chan`) | request state, socket pair | `request`, `wait_io`, `process`, `stop`; I/O thread | scheduler | the I/O thread reads the scheduler's vector without a lock | one response per request, each handled once |
| I/O scheduler (`io_sched`) | block lists, file, batch being written | `get_free_buffer`, `enqueue`, `open`, `close`, `flush`, `discard_queue`, result callback | channel, storage | partial writes, re-entrant callbacks, three ways to collect a result | log in order, no block lost or doubled |
| Storage of a CP (`cp_stor`) | current file, quota flag | `write`, `flush`, `stop`, file-written callback, amendments | scheduler, storage manager, directories | it closes and opens files inside the callback of the scheduler | scheduler and storage agree on the file |
| Storage manager (`stor_mgr`, `media_stor*`) | media, current one, subscribers | `check_media_change`, `media_determiner`, enable, clear, sync | all storages, workshop | one CP's write may stop the storages of all; media come and go | one current medium, which is the one in use; a medium that is left is left by all |
| Log directories (`cp_dir`, `cp_set_dir`, `log_file`) | file lists, sizes | create, remove, trim, rotate, take stock | storages | sizes are unsigned and kept at four levels, those of dumps at one; files are destroyed while others hold them | sizes cover what is below them, the current log is kept, no log is forgotten |
| Log pipe (`log_pipe_hdl`) | device, block being filled, timers, CP state | start/stop logging, `process`, flush, assert, alive, reopen | storage, main loop | flow control by switching POLLIN off; retries | a paused device is woken, a closed one retried |
| Convey workshop (`convey_*`, `concurrent_queue`, `trans_log_convey`) | client table, raw material, products, a message queue per routine | attach, cancel, clear, media events, feedback; work routines | storage manager, requests | four threads, queues that are swapped out, tags that are reused | every unit reported once to its request; requests end |
| Transactions of a CP (`trans*`, `trans_mgr`) | queue, running diag transaction, state and result of each | enqueue, execute, finish, cancel | log pipe, clients | finish and cancel may happen inside execute | each executed at most once and notified once; the queue does not stall |
| Log controller (`log_ctrl*`, `trans_global`, `trans_*_log`, `trans_log_col`) | queue of global transactions, parts still to report | enable, disable, collect, settings | transactions, clients, configuration | partial failure across CPs; parts that report inside the loop that starts them | ends when all parts have reported; the modes written down are those of the handlers |
| AT commands, time (`modem_at_ctrl`, `wan_modem_time_sync*`, `modem_cmd_ctrl`) | running command, command timer, retry timer, suspended settings | start, answer, timeout, cancel, resume | modem device, timers | a late answer belongs to a command that timed out; the device may not be there | an answer is taken for its own command; settings reach the modem in the end |
| Modem log handlers (`wan_modem_log`, `ext_*`, ...) | CP and version state, power-on period | assert, dump, version query | log pipe, transactions | several state machines at once | a dump starts and ends once |
| Clients (`client_*`) | request in progress, subscriptions | connect, request, leave, notify | controller | not read from while its transaction runs; results may come from within the call that starts it | no client waits without a transaction, no answer is lost |
| Notifier, state monitors (`evt_notifier`, `*_stat_hdl`, `uevent_monitor`) | subscribers, receive buffer | notify, parse lines | log handlers | subscribers go while they are notified | nobody who has gone is called |
| Configuration (`log_config*`) | settings, dirty mark, two files | read, set, save | controller | rewritten in place; saving may fail or be cut off | settings survive a restart |
| Helpers, `mlogservice/`, `service/`, `utility/` | - | strings, separate small programs | - | I/O and formatting | - |

`PROJECT.json` lists the hazards found while reading, each at its line with the property that
is aimed at it.

## 2. Modules

    Multiplexer, TimerManager <- MainLoop   the rounds of the main thread

    LogStream                 abstract: units are stored in order, once, or lost in a run
       ^ implemented by
    IoChannel <- IoScheduler  the channel and its thread; the scheduler with an open client
       ^ implemented by
    CpStorage <- LogPipe      the client it has: storage, device handler, timers, events

    CpDirectory <- StorageManager <- LogStore   directories, media, what happens to them

    ConveyWorkshop <- LogConvey   the work routines; requests, media events, cancel, clear

    AtController <- ModemTrans    AT commands; the transactions of the cellular modem

    EventNotifier <- ClientTrans  clients and global transactions

    LogConfig, ModemCmdController <- Settings   the settings and where they go

    MCIoScheduler, MCLogPipe, MCLogConvey, MCModemTrans, MCMainLoop, MCSettings, MCLogStore
    IoScheduler_proofs <- LogPipe_proofs
    AtController_proofs <- ModemTrans_proofs
    MainLoop_proofs, LogConvey_proofs, ClientTrans_proofs, Settings_proofs

`A <- B` reads "B extends (or instantiates) A"; the MC modules are instances for TLC.

Modules that meet at a seam are checked with the other side left open: *LogPipe* takes any
answer of the media and directories, *LogStore* has those answers but takes the scheduler as one
unit in flight; *ClientTrans* takes any result of the modem's queue, which *ModemTrans* has in full.

### Main loop

*TimerManager* and *Multiplexer* are operators on a list of timers and on a record of the table,
the array and the dirty mark. Due times are relative, so that time is unbounded. *MainLoop* has
`run()` in three phases (poll, timers, handlers) and one action for each kind of callback: those
that register and delete handlers, switch POLLIN off and on, create timers nobody holds a pointer
to, hold a pointer to one, delete by callback, and fail and try again. An event that is delivered
is cleared in the array in place of the loop's index, so "still to be delivered" is visible in
the state.

### Storage write path

*IoChannel.* `m_state`, `m_cur_req` and `m_data_written` are the fields of the same name;
`to_thread` and `to_main` are the bytes in the two directions of the socket pair; `io_thread`
says where the thread is in `io_thread_func()`: in `read()`, in `do_io()`, or about to
respond. The main thread's operations are constraints that handlers conjoin. `WaitIo` and
`ReadResult` are disabled while the code would block, so a blocked main thread is a state in
which only the I/O thread moves. Log data is numbered units: `content[b]` are the units in
block `b`, and `disk` is a history of what was written where. A write writes any prefix of the
batch or fails. Only the socket writes never fail in the model (`request()`'s result is
ignored by the code, see hazards).

*IoScheduler.* One action for each operation in `io_sched.h`. `m_data` of the code is two
variables, stream blocks and amendments (`dst_offset >= 0`), because each commit takes the
amendments out first wherever they are. `flush()` blocks in two places and is the steps
`FlushSettle`, `FlushCommit`, `FlushAwait`, `FlushReport`. `main` is where the main thread is:
in `poll()`, dispatching, in the blocking `read()` of `process()`, in the file-written
callback, joining the thread. `revents` remembers that the channel was ready when the round
began. The client may call the operations in any order the header allows. The header's rule
"shall be called when m_file is valid" is a guard, and so is that nothing is enqueued inside
the file-written callback. *CpStorage* and *LogPipe* are shown to obey both.

*CpStorage*, *LogPipe.* A handler of the code is a chain of calls of which some block, so the
rest of it is kept in `todo`, a sequence of labels; the action of the first label runs next.
Nothing of a handler is optional: once its first step has been taken the rest follows, in
the code's order, interleaved only with the I/O thread. Quota, file system and media answer
nondeterministically; what the quota decides is modelled by its consequences (file trimmed,
removed, `m_shall_stop`). Other CPs are present as what they do to this one: they stop its
storage when the medium changes, and delete its timers (`OtherAlive`). The amendment of a
file's header is a block whose content is left out.

### Convey workshop

*ConveyWorkshop* has the operations of the main thread on the client table and the queues as
constraints, and the work routines as actions: reading a message, testing the queue and
falling asleep are separate, because `ConcurrentQueue::push()` notifies without the mutex of
the waiting side. What a unit copies is left out: it is conveyed, fails, or stops at a
message (`StateAfter`), and messages that are none of its business are consumed, `NewItem`
among them, as in the code.

*LogConvey* adds the requests and the events. Operations that go through a queue of units
(`process()`, the two media events, `cancel_client()`) take one unit per step, and the routines
run in between. Inside the step of a unit the client is called, and from there the next request
may be started, as `CpConveyManager::trans_finished()` does. Not in the model: a change of the
medium noticed inside `pre_convey()` (it fails instead), a second request queued in the same
`CpConveyManager` while all logs are cleared, destruction of the workshop (`Stop`,
`NoWorkload`), and the limit of 255 entries in the client table. A subscriber that
unsubscribes in its own notification (`stor_mgr.cpp:197`) invalidates an iterator; the model
goes on as if it were the last subscriber. When `clear()` calls an entry without a client the
model is `"crashed"` (`std::bad_function_call`).

### Transactions of the cellular modem

*AtController.* `action_`, `client_`, `cmd_timer_` are the fields of the same name; `timers`
are the pending timers with `at_cmd_timeout()`, of which `cancel_trans()` deletes none. An
answer does not say what it answers, so `wire` holds the commands the modem has not answered,
in the order it got them; `own` marks the running one. The callback at the end of
`on_command_result()` is left to the client's next step.

*ModemTrans* is the queue (`transactions_`, and the type and state of each object), the diag
device (`m_diag_handler`, `cur_diag_trans_`, `m_cp_state`), the mode of logging, the version
and time queries, and the requests and events that begin transactions. As in *LogPipe* the rest
of a handler is a sequence of labels, `todo`: `finish()` becomes "tell the client, then go through
the queue", and a transaction that the loop executes may itself finish, fail or start others.
The kinds of transaction differ in which device they use, when they end at once, and what
their success does to the log; `EndsAtOnce`, `DiagState`, `CommandOf` and `Consequence` are the
tables of these. An object that is freed is `"FREE"`; `Crash` is the end of the model where the
code uses a null or dangling pointer. Left out: what the dump, the sleep log and the version
are made of; how often a query or a dump is asked again before its timer gives up (it may give
up at once); booting with event logging (`init_evt_log_`); a client that leaves while its own
request (event logging, sleep log, last log) runs: `client_hdl.cpp:1576` uses `m_cp`, which is
null for the modem.

### Directories, media

*CpDirectory* has the three classes of directories as operators on one record, the memory of the
program and the disk: lists of files, sizes at each level, and what is on the disk, by name. A
name has the second in it, so two files of one second are one file. The environment of a step says
what the file system does: a medium is full, a file cannot be removed or created. Sizes are unsigned
and wrap (`SizeBits`). Logs the I/O thread writes and files that were conveyed are counted at all
levels; what `LogFile::write()` and `copy()` store, which is every dump, library and list, only by the file,
until the next program takes stock of the directory with `stat()`. (The few bytes of a time stamp in front of
a mini dump, which are counted, are left out.) Two fields are history, which no guard reads: `uncounted`,
the directories with such a file, and `lost`, the media whose logs the program forgot without marking
them so.
*StorageManager* has `media_determiner()`, `check_media_change()`, quota, clear, and the storages
of all CPs. Here a callback is one step and at most one unit is with the I/O thread; what happens
between the steps of one storage is *CpStorage*'s subject. *LogStore* adds what happens: data,
results, dumps, files that are conveyed, permits, uevents, mounts, a user who removes things, the
clock, and the end of the program, after which the new one finds what is on the disk. A null
pointer (`save_minidump()` without a medium, `cp_stor.cpp:238`) is the end of the program.

### Clients and the log controller

*EventNotifier* is the list with its marks. *ClientTrans* has the connections, the transactions of
the controller with a part for each CP, and the handlers as far as transactions see them: mode of
the log, state of the CP, dumps in progress. A handler of the code is one step, a chain of calls one
expression; a part may end in it (out = "done" and the like) and so finish the transaction from
within the loop that begins the others. Transaction objects have numbers, the lowest free one being
taken, as addresses are used again.

### Settings

*LogConfig*: `save()` and both readers work on lines of tokens, so that what is written and not
accepted, or accepted and not written, shows. *ModemCmdController*: what was told to the device, what
is kept for it, what was asked for. *Settings* has a request for each setting and query with the
checks of its arguments in the code's order, what it does to configuration, handlers, storage
manager, audio DSP and modem, the answer, and the saving; and start-up. A file that could not be
written, was cut off, or devices that are not there are chosen by the environment.

Definitions whose name ends in a lower-case suffix and that are described as a *fault*
(`Requeue_behind`) are not used by the specification: they replace the definition after them
to show that a property notices.

## 3. What is checked

| Run | Instance | Shows |
|---|---|---|
| `IoScheduler_safety` | 4 blocks, 2 files, 3 units, threshold 3 | `BuffersAccounted`, `SizeMatchesDisk`, `RequestUndisturbed`, the inductive invariant `Control`, and that the scheduler implements `LogStream` |
| `LogPipe_safety` | 2 blocks, 2 files, 2 media | `FileAgreement`, `NoLostWakeup`, and that this client uses the scheduler as its header allows |
| `LogPipe_liveness` | 2 blocks of a unit, 1 file, 1 medium | `DeviceWakes` under fairness: every batch comes back (`BatchComesBack`) and a paused device does not stay paused while a file is open; every block is a batch, as for the sensor hub, which has two |
| `Convey_safety` | 2 routines, 2 requests, one event of any kind | `UnitInOnePlace`, and, until a second `clear()`, `TableCountsUnits`, `ClearWaits`, `UnitsFollowMedium` |
| `Convey_liveness` | 1 routine, 1 request of 2 units, 2 media events | `SuccessMeansDone` (until a request is canceled or all logs are cleared), `RequestEnds` |
| `Modem_safety` | 3 queued, 2 requests or events, 2 unanswered commands, 2 command timers | `AtInv`, `CommandOwned` of the AT controller; `QueueMoves`, `QueueHasAll`, `ExecutedOnce` of the queue; `QueriesGoOn` of what the daemon asks itself |
| `MainLoop_safety` | a log device, a client, a diag transaction, a server, 2 timers | `DispatchLive`, `TimersSorted`, `NoStrayTimer`, `ListenerPolled`; `ThreadPolls` under fairness |
| `MainLoop_reopen` | two log devices | a disagreement (section 6) |
| `Client_safety` | 2 clients, 3 sets of CPs, 2 transactions, 2 dumps of a CP | `TransHasClient`, `WaitsForParts`, `SubscribersExist`, `ModeWrittenDown` |
| `Client_stall` | modem and WCN | a disagreement (section 6) |
| `Settings_safety` | 34 requests of which any 2, a fault, a restart; 2 builds, 2 sets of devices | `SettingsSurvive`, `UnsavedIsDirty`, `HandlersFollow`, `CommandsReachModem`, `ErrorChangesNothing` |
| `Storage_safety` | 2 CPs, 3 media of 2 types; up to 3 units, 3 events and a fault; 3 starts | `WritesToCurrent`, `FileIsHeld`, `SizesCover`, `NothingForgotten`, `QuotaKept` |

The type of the variables is part of these invariants where one is named as a conjunction
(`Control`, `FileAgreement`, `UnitInOnePlace`, `AtInv`, `QueueHasAll`).

**Bounds.** Two blocks are enough to fill the pool and pause the device; four are the fewest
for which half the blocks is a batch of two, so that a partial write can end at, before or
after a block boundary with blocks queued behind it. Two files make a rotation, two media a
switch and a return. Three units are more than a batch holds in the two-block instances and a
batch plus a remainder in the other; in `LogPipe_liveness`, with blocks of a unit, they fill the
pool once and are read again after the device was paused. `MaxTimers` bounds reopen timers, `MaxEvents` events,
`MaxUnits` data. One event in `Convey_safety` includes its consequences: the loss of the
current medium is followed by the change to another one, and a canceled request's place in the
table is taken by the other request. `spent` has the kinds of the events there were: two properties
hold up to a second `clear()`, or up to a first cancel or clear (section 6). Two routines contend for units; the code's four add no
new kind of contention. `Convey_liveness` has one routine: contention is the other run's subject.
Three queued transactions in `Modem_safety` are one on the diag device, one with a command and
one that waits; two events are, for instance, an assertion and the revival, or a request and
the stop that overtakes it, on top of the boot, whose queries and their retries are not
bounded. There are six objects because two handlers may add several, so that one is always free
when `NewTrans` wants one (it waits otherwise, which the code cannot). A second timer is one
that a canceled command left behind.

`MainLoop_safety` has one handler of each kind; rounds and time are not bounded, and the timers are
fewer than could be pending, so that an address is used again. `MaxLag` 2 lets several timers be due
at once. In `Client_safety` each client has one transaction at a time, as in the code, and the three
sets of CPs are those that differ: with a modem, with dumps, with a DSP, which is last. What is switched
is the WCN, or the modem and the WCN in one request, so that one part may end before the other. Two dumps of a CP are
one in progress and one queued. In `Settings_safety` two requests, a kill and a restart are the
fewest for a setting to be refused, overwritten or lost; the file is cut off before its first line
or within its fourth. In `Storage_safety` a limit of three units and files of two mean a rotation and an overrun in three
units; three events are, for instance, a switch, the loss of a medium and its return, an event with a fault
a clear whose files cannot be removed. All together they are at most five, a fault counted twice. The CPs are
the modem, whose logs have a limit of size, and the modem while the phone starts, when they have one of number; as
subsystems of their own they may both write, which is more than happens. The program is started with logs of
a run before on one of the internal media, when the external one may be used; or, for an event less, with an empty disk
and logs that are not overwritten; or with the external medium alone permitted (`MCStarts`). The first of these is there for
`NothingForgotten`, which takes a medium that is taken stock of, left and found again: without the exception of
`lost` the run finds it violated after two events (logs are saved, then a mini dump). Sizes have six bits, more than
all data of a run take, so that nothing wraps but what is subtracted from less.

Symmetry is used for blocks, files, media, routines and timers in runs without liveness and whose
definitions choose none of them (not in `MainLoop_safety`, `Client_safety`, `Settings_safety`,
`Storage_safety`). `Settings_safety` has a view that leaves out the last answer: no action reads it,
and the one property about it, `ErrorChangesNothing`, looks at the new answer only.

**Fairness.** The I/O thread and the work routines are kernel threads whose reads and writes
return: weak fairness of their steps. The main thread runs a handler to its end and `poll()`
reports what is ready: weak fairness of the steps it takes by itself, which in *MainLoop* are
the callbacks, the end of the timers and the end of the round, but not `poll()` itself; in
*LogPipe* all that the main thread does without being asked (`MainStep`): that it does not starve
one handler for the others needs no assumption of its own there. Nothing
outside is fair: requests, timers, media and subsystem events may never come. `RequestEnds` excepts the case
that every routine sleeps through a message it was not notified of (`Overslept`), which
`ConcurrentQueue::push()` allows. The other modules have no fairness: that nothing waits for ever is
stated as safety there (`QueueMoves`: a timer or a command with a timer is always pending for the
queue; `WaitsForParts`: each part that is awaited will report).

**Deadlock** is checked in `MainLoop_safety`, `Client_safety` and `Settings_safety`. It is not in the
others: the main thread may block for good in `IoChannel::process()`, a scheduler that was stopped
stays so, `clear()` may throw, and when every request has ended everybody waits, as does a modem whose
queue is empty, or a store, when the events are used up.

## 4. What is proved

`IoScheduler_proofs.tla`, for any finite set of at least two blocks, any files, error codes,
thresholds and amount of data (`ChannelAssumption`, `SchedulerAssumption`):

* `ControlInvariant`: `Spec => []Control`. `Control` is the inductive invariant. The property
  the code relies on, `WrittenIffExecuting` ("`m_data_written` is empty, so the thread is
  idle"), is not inductive: to see that a response leaves the channel idle one must know that
  no second message is under way. `ChannelPhase` says so: the channel is in one of six phases,
  each with exactly its messages. `MainPhase` says what the main thread may assume in each
  place of `flush()` and in the callback. The proof has one lemma per operation.
* `WrittenIffExecutingHolds` and `OneMessagePerRequestHolds` follow from `Control`, which is why
  no run checks them by themselves.
* `BuffersAccountedHolds`: the five places of a block are disjoint and cover all blocks,
  relative to `Control`. The work is in `process_io_result()`: the blocks written completely and
  the rest partition the batch, and the rest joins the queue without repetition
  (`RangeOfParts`, `InjectiveConcat`).
* `RequestUndisturbedHolds`: the action property that justifies the missing lock: while a
  request executes, the main thread changes neither the vector nor the blocks nor the file.

That a commit hands over at least one block needs a threshold above zero and two blocks
(`EmptyIsNotCommitted`); the code's pools satisfy both, and the constants assume it.

`LogPipe_proofs.tla`, for any blocks, files, media, sizes and number of timers (the assumptions
above, `StorageAssumption`, `PipeAssumption`), proves of the write path as a whole:

* `PathInvariant`: `PathSpec => []PathInv`. A function of the code is a chain of steps, so the
  invariant has to say what holds *between* them. `ShapeOf` says which calls may be left in
  `todo` after which: the first label is anything a function can stop at, the others are what a
  function leaves to its caller (`MayFollow`, `Then`). `Agree` says for each first label which of
  `m_cur_file` and `m_file` has been changed already; `Mode`, whether the handler or the callback
  runs; `WriteReady` and `BlocksHeld`, which blocks are out of the scheduler. `SchedulerInv` adds to
  what `IoScheduler_proofs` has that a request is about the open file and that idle blocks and
  blocks of amendments are empty, which is how `enqueue()` tells the two kinds apart. There is a
  lemma for each function of the storage and each action of the handler.
* `ImplementsIoSchedulerHolds`: every step is one *IoScheduler* allows, so that `Control`,
  `BuffersAccounted`, `RequestUndisturbed` and the others hold of it with this client too.
* `FileAgreementHolds` follows from `PathInv`.
* `NoLostWakeupHolds`, from `PathInv` and `WakeInv`. A flush and the end of the callback repair what
  other steps break (`WillReport`), so the property needs to know which steps that free blocks run
  where: only the file-written callback discards the queue or opens a file without a block to write
  (`InCallback`), and a handler whose device is paused has no block, so that it writes nothing and gives
  nothing back. That the device is registered while it is open, and is never opened twice, is `Device`.

`IoScheduler_proofs.tla` goes on with the data, that is, with what reaches the disk:

* `DataInvariant`: a request is about the file that is open (`RequestForFile`), the size kept is
  that of the file (`SizeMatchesDisk`), and not more units are done than the batch has.
  `StepMoves` says what a step may do to the log: nothing, add a unit at the end of a block that is
  filled, move a block from the client to the queue, the queue to the batch, units from the batch to
  the disk, or give up what is queued. The content of a list of blocks, `UnitsIn`, is a fold
  (`FlattenSeq`); what it does on `Append`, `Head` and `\o` is proved by its first index that is
  wrong (`LeastOf`), as the induction theorems of the library cannot be instantiated.
* `SizeMatchesDiskHolds` follows.
* `RefinesLogStream`: each of these is a step of *LogStream* or a stutter: in every state what was
  accepted is stored in order and once, or waits in order, or was lost in a run.
  `PathImplementsLogStream` in `LogPipe_proofs.tla` composes it with `ImplementsIoSchedulerHolds`:
  the write path with storage, media and device handler implements *LogStream* too.

`AtController_proofs.tla`, for any clients, timers and bound of `wire` (`AtAssumption`):

* `AtInvariant`: `AtInv`, the conjunction of the type invariant and the next three, is inductive.
* `RunningCommandHasTimer`: `cancel_trans()` and stale timers notwithstanding, a running
  command has a pending timer of its own.
* `NoDanglingTimer`: what `parse_line()` gives to `del_timer()` is null or pending.
* `AnswersBeforeOwn`: the answer to the running command is the last one owed. It also says that
  a controller that is not busy owns nothing, which is what the step of a new command needs.

*ModemTrans* changes the variables of the controller by these operations only (`AtStep` in
`ModemTrans_proofs.tla`), so that what is proved of the controller holds with this client.

`ModemTrans_proofs.tla`, for any objects, timers and bounds (`TransAssumption`, `AtAssumption`):

* `Invariance`: `IInv`. The properties speak of the moments between two handlers, when `todo` is
  empty; the invariant has to say what is true inside one, where a transaction that finishes in a
  callback of a callback has left the queue before its client is told, or a loop over the queue is
  interrupted by an `execute()` that ends at once and starts another. It has these parts.
  `Shape`: the labels in `todo` are well formed, and what is left after the first is one of the few things
  that callers of that label may have still to do (`Rests`), and so on down the sequence
  (`RestsAreWellFormed`).
  `Claims`: what each call that is left may assume of its object - that it is in the queue, or is not but
  exists, has not begun, has finished, has no command - and, of the calls left to callers, that the object
  is not on the diag device (`CallerClaim`).
  `ObjectsInv`: the queue has nobody twice, and an object is not free exactly if it is in the queue or
  is the object of a call that is left (`Detached`).
  `CommandInv`, `UnbegunInv`, `DiagInv`: the running command is that of a transaction that executes; one
  that has not begun has no timer and no device; what has the diag device is of that kind or was freed.
  `VersionInv`, `TimeInv`: a version query exists while the state says so; `trans_ts_` is the only time
  query, but for one that is being asked for or is canceled, and who lost it has a timer or asks again.
  After a null pointer was used (`Crashed`) nothing is claimed but the types, and nothing happens
  (`CrashedStops`).
* Every action has a lemma that it preserves the invariant. Most need only what a call does to one object:
  `OneObject` says that a step that keeps all other objects (`Kept`) preserves `Claims` and `ObjectsInv`
  if the calls that are new claim rightly; `CallersAway` that the calls left to callers are about other
  objects, which is where `Rests` is needed. `WithoutIs`, `AfterIs`, `FirstIs` say what `ll_remove()` and
  the walk over the queue do.
* `AtCommands`, `CommandsAreOwned`, `QueueIsComplete`, `NoneExecutedTwice`, `QueriesContinue`: the
  properties `AtInv`, `CommandOwned`, `QueueHasAll`, `ExecutedOnce`, `QueriesGoOn`.
* `QueueGoesOn`: the property `QueueMoves`, from `IInv` and `MoveInv`. Whoever adds to a queue that is
  not empty relies on another to start it (`number()` is tested, not whether anything executes), so what
  must be known inside a handler is who that other is. `ExecuteInv`: what executes waits for a timer, a
  command, data of the diag port, or a call that is left and will end it. `EndedInv`: what has ended is
  in the queue only while a call is left that takes it out. `StartInv`: if the queue is not empty, something
  in it has begun, or the diag device is astray, or a call is left that will start one. `MoveClaim` is what
  each call that is left may assume for that. The excepted case, a dump whose receiver `stop()` deleted
  (`Astray`), is followed through the handlers too, since it may begin in the middle of one.

`MainLoop_proofs.tla`, for any number of devices, clients and timers (`LoopAssumption`):

* `LoopInvariant`: `IInv`. `DispatchLive` is not inductive. That clearing the *first* entry of a
  handler in the array is enough (`del_events()`, `unregister_fd()` stop at it) needs that it has
  only one, thus that the table has it once; that `add_events()` may set the array's events at
  once needs that the array, unless dirty, has only handlers that want something; and that a
  deleted handler is never reported needs that the table has only those that exist. `Sound` is
  the conjunction of these; every operation of *Multiplexer* has a lemma that it preserves it, and
  every callback is a chain of operations.
* `DispatchLiveHolds` follows from it.
* `ListenerPolledHolds`: `process()` of the server reads the number of clients *before* it adds
  one, and a client that leaves switches the server on again; that the two agree needs, beside
  `IInv`, that the server stays in the table and that a client called is one that exists
  (`CalledIsOpen`, from `DispatchLive`). The invariant proved is `LInv`.

* `TimersSortedHolds`, `NoStrayTimerHolds` from `TInv`: the list is sorted, an address is that of one
  timer, a timer that is put off was not due after its new time (`InTime`, without which
  `set_new_due_time()`, which only looks further down the list, would break the order), and the one timer
  with `read_timeout` is the transaction's (`Owned`). Deleting by callback keeps the order of the rest.

`LogConvey_proofs.tla`, for any routines, requests, units, media and events (`WorkshopAssumption`,
`ConveyAssumption`):

* `Invariance`: `Inv` is `BaseInv`, `QuietInv`, `FirstInv` and `DoneInv`. `BaseInv` has the places of
  the units (`PlacesInv`: all queues and hands disjoint and without repetition) with what the main thread
  and the routines may assume where they are; it holds whatever happens. `FirstInv` holds until a second
  `clear()`: each entry counts the units with its tag (`CountInv`), a request waits for the units its
  entry counts and the one that is just being reported (`RequestInv`), the number `clear()` waits for is
  that of the routines that have its message, that are about to answer, and of the answers not yet read
  (`AnswerInv`), and what goes to another medium will read a message that stops it (`MediumInv`).
  `QuietInv` says that nothing of this is there before the first `clear()`. `DoneInv` holds until a request
  is canceled or all is cleared: units that are finished say how (`OverInv`), an entry that has lost its
  request counts nothing (`OrphanInv`), and a unit of a request that executes is under way, done, or
  counted as failed (`EndedInv`).
* `OnePlace`, `TableCounts`, `ClearWaitsForAll`, `UnitsFollow`, `SuccessIsDone`: the properties
  `UnitInOnePlace`, `TableCountsUnits`, `ClearWaits`, `UnitsFollowMedium`, `SuccessMeansDone`.

`ClientTrans_proofs.tla`, for any clients, subsystems, builds and bounds (`ControlAssumption`; that no
client is a number of a transaction is for the list of subscribers, which has both):

* `Invariance`: `IInv`. Its part `Core` is: a transaction and its client point at each other
  (`Coupled`), a transaction waits for what its type may wait for and a collection for as many parts as
  it counts (`Proper`, `MayAwait`), who waits for a dump waits for one that is there (`DumpsAwaited`), the
  queue has the global transactions (`QueueInv`), and of those that look at the queue at most one
  executes (`OneRuns`): two requests that wait for the modem at once could else take each other's mode.
  `ToldInv` says who is in the lists of the notifier, `QuietBut` which lists are being gone through,
  `CpGood` that a subsystem that dumps has a dump, `ModesGood` that the modes agree.
  A notification is a loop in which a callback may finish a transaction, which unsubscribes others or
  starts one; `TellingStart`, `TellingEnd` are its invariants along the list: entries in front have been
  told, those behind are as before or marked, and only collections change (`OnlyCollections`).
* `EveryTransHasClient`, `EveryTransWaits`, `EverySubscriberExists`, `ModesAreWrittenDown`: the
  properties `TransHasClient`, `WaitsForParts`, `SubscribersExist`, `ModeWrittenDown`.

`Settings_proofs.tla`, for any shipped file, builds, sets of devices, requests, faults and bounds
(`SettingsAssumption`); what is read from the file is any sequence of lines of tokens:

* `GoodAlways`: `IInv`. `Good` says of the program, with its file: the configuration is well formed, has an
  entry once for each type and at least those of the shipped file (`ConfigInv`, `Extends`); pipes, storage
  manager, modem and DSP have its values (`PipesFollow`, `ModemFollows`, `DspFollows`); it is marked, or was
  saved and the file has its meaning (`Clean`); each command is told, kept or given up (`CmdInv`). Between
  two of the five commands that `do_suspend_actions()` gives, some are done and others due: `CmdDue`.
  Every request has an `Outcome`: it leaves a good world, or was answered with an error and left what it
  found. There is a lemma for each request, one for each way the settings change (`Changes`), and one for
  start-up, which is where the handlers are made from what was read.
* `HandlersAgree`, `UnsavedMarked`, `CommandsArrive`, `ErrorsAreHarmless`: the properties `HandlersFollow`,
  `UnsavedIsDirty`, `CommandsReachModem`, `ErrorChangesNothing`.
* `SettingsReadBack`: the property `SettingsSurvive`. The lemma behind it, `RoundTrip`, is about the two
  functions `save()` and `read_config()` for every configuration: reading the lines of `c` over what was
  read from the shipped file gives what `c` means. `Upto` is what has been read after `k` lines: flags
  are set one by one, the MIPI entries read are the last ones of their list, in order (`MipisRead`), the
  I/Q entries override those of the shipped file (`IqsRead`), the entries of the streams are replaced in
  place (`StreamsRead`); each has a lemma for the next line (`MipiNext`, `IqNext`, `StreamNext`, `NextLine`).
  The loops over lines and devices are folds, and what holds at each index is proved by the first index
  at which it fails (`ParseFold` and the like, by well-founded induction on numbers).
  The proof found that the conditions of `Readable` are needed, and that an I/Q entry without any I/Q
  takes back nothing the shipped file has (section 6).

**Only model-checked:** the properties of *LogStore* (section 7), and liveness (`DeviceWakes`, `RequestEnds`,
`ThreadPolls`), which the prover does not do. The lists of files of *CpDirectory* are filtered with
`SelectSeq`, which the prover cannot expand.

## 5. Not modelled, and why

* Details of the write path: the headers written through `on_new_log_file` when a file is
  created (before `open()` in `write()`, after it in `on_file_size_update()`), and a failed
  write of one byte to the socket pair (`io_sched.cpp:156`), after which `m_data_written` stays full
  although nothing executes. The result of writing an amendment is ignored by the code and by the
  model; one that is queued when its file is closed with nothing in flight goes to the next file.
* The buffers of `DataProcessHandler` and `DeviceFileHandler`, and with them requests that arrive
  in pieces; a client that sends requests without waiting for answers.
* What files contain: the conversion of diag streams and dumps, the parse library, last-log
  directories, copying, and the text of uevents and of the modem's states. Their ends and
  results are events or nondeterministic outcomes.
* WCDMA I/Q, pause and resume of logging, booting with event logging, mini ap and orca on products
  with another chip.
* `mlogservice/`, `service/` and `utility/`: separate programs that send requests or forward
  notifications; they keep no state that slogmodem depends on.

Some consequences of the code are visible in the models and are stated as conditions of the
properties: `stop()` frees blocks and calls nobody, so a device that was paused stays paused
until the next I/O (`NoLostWakeup` speaks of open files); a reopen timer of an earlier start
opens a device that is open (*MainLoop* has it; *LogPipe* starts only without such timers); units
that a media event pushes back to the queue are not announced, so a routine that found the queue
empty meanwhile does not come back for them (`Fixed` is empty in `Convey_liveness`); a workshop whose
only client has units left may have unsubscribed from the media (`convey_workshop.cpp:232`);
the revival of one subsystem deletes the reopen timers of all (`OtherAlive`); an ETB dump never
says that it has begun and is executed twice (`ExecutedOnce` excepts it); after `stop()` a diag
transaction may go on without its handler (`Astray`); a mode is written down although the modem's
event log could not be stopped (`ModeWrittenDown`); the size limit of external media is not given to the
handlers in user builds until a log is started, a shipped file may ask for the event log, which
only the modem can start, later (booting with it is not modelled), the settings of the audio DSP do not reach the
modem while the phone is starting, nor again after its revival (`HandlersFollow`,
`CommandsReachModem`); directories that the user removes and media that are full destroy files in
use (`FileIsHeld`), and a storage whose file was removed is not held to its quota
(`cp_stor.cpp:328`, `QuotaKept`). Dumps are not counted, so that what is said of sizes is said of
directories, sets and storages in which no file was saved since the program started (`SizesCover`),
and of subsystems that saved none in the storage (`QuotaKept`, `FileIsHeld`): with one the storage may
go beyond its limit, and once the dump is trimmed or conveyed the size wraps and the quota takes every log
for an excess (section 6). `NothingForgotten` leaves out the media in `lost`: those that `prepare_cp_set()`
forgets with `m_log_dirs` (`media_stor.cpp:309`) while they stay synchronized, and those whose files are
trimmed while they are not mounted, which counts as removed (`log_file.cpp:473`); it is also not said after the user
removed directories or a file could not be removed.

## 6. Where comments and code disagree

| Run | Comment | Code |
|---|---|---|
| `MainLoop_reopen` | `log_pipe_hdl.cpp:310` "arrange a check callback" | when one subsystem comes to life, `del_timer(reopen_log_dev)` deletes these callbacks of all, and a device that waits is not tried again |
| `Client_stall` | `trans_mgr.h:39` "Derived classes shall override the function" | `LogController` does not, and a global transaction that had to wait is never begun |

Others that the models contain, or that were met while modelling, and that have no run of their own:

* `io_chan.h:57` "will not call the result callback": a POLLIN polled before `wait_io()`
  consumed the byte still reaches `process()`, which blocks in `read()` (*IoScheduler*).
* `log_file.h:106` says of `simple_write` "no size is added to storage". The code adds it when the
  argument is true and not when it is false (`log_file.cpp:138`, `158`, `172`, `520`), which it always is. A dump is
  counted by no directory; when it is trimmed or conveyed its size is subtracted all the same (`cp_dir.cpp:382`,
  `350`) and wraps, and the next quota check takes everything for an excess and trims the log in use, too:
  `cp_dir.h:99` says that `trim()` "won't delete the current log", but it does not look which one that is, nor does it
  on a full medium. A dump of twice the limit, four units of logs and the quota check of a second dump
  do it (*CpDirectory*; excepted by `uncounted` and `full`).
* `stor_mgr.h:130` says of `clear()` "delete all logs". When the top directory of a storage cannot be accessed, for
  instance since its medium is not mounted, `prepare_cp_set()` (`media_stor.cpp:309`) clears the lists of all its media,
  which stay marked as synchronized: when the medium is mounted again its logs are unknown to the quota and
  to `clear()` (*StorageManager*, `PrepareTop`; excepted by `lost`).
* `convey_workshop.cpp:455` "cancel the correspond unit": the message outlives the tag and cancels a
  unit of the next request, which then reports success (*LogConvey*).
* `fb` of a routine stays `WorkRoutineClean` when it has answered `clear()` (`convey_workshop.cpp:256`,
  `308`): units it finishes later are announced as such answers, which `process()` drops, and the next
  `clear()` takes them for its own and ends before the routines do (*LogConvey*, `FirstClear`).
* `trans_disable_log.cpp:151` finishes a request with the first of the two parts it waits for
  (`stop_log->finish(res)`); the other reports to an object that is deleted. The model ends there (guard of
  `DumpEndStop`, *ClientTrans*).
* `wan_modem_log.cpp:240` "Stop MODEM version query": a query begun by the requery timer is not
  canceled, and its handler is deleted under it (*ModemTrans*).
* `wan_modem_log.cpp:709` "with the correct time stamp": the late `OK` of a query that timed out
  makes the next one succeed, with tick 0 (*ModemTrans*).
* `enable_log` ignores the result of a modem that fails at once (`trans_enable_log.cpp:43`), and a
  collection counts a part that ends at once as a success (`trans_log_col.cpp:179`) (*ClientTrans*).
* `SET_MIPI_LOG_INFO` takes arguments that reading the file rejects, and `DISABLE_IQ` leaves a line that
  is not accepted (*LogConfig*; excepted in `SettingsSurvive`).
* A file that has been erased from the list is asked for its size (`cp_dir.cpp:434`); names have a
  resolution of a second and are opened without truncation (`cp_dir.cpp:155`).

## 7. Next

1. The seam between *LogPipe* and *LogStore*: a storage of *StorageManager* shown to be a coarser
   *CpStorage*; between *ClientTrans* and *ModemTrans*: the modem's part of a global transaction.
2. The diag stream and the dump receiver's end marks; pause and resume of logging.
3. Proofs: the sizes of *LogStore*, with the filters of *CpDirectory* as folds, and from there that the
   quota is kept.
