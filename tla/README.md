# Verification of the timer daemon and of the recordings

This directory holds TLA+ models, TLC configurations and TLAPS proofs for two
parts of the Tuxbox applications that meet at a recording:

* `timerd`, the process that starts and stops recordings, switches channels,
  wakes the box and shuts it down: two threads, a clock, a file and a power
  switch;
* the recordings of `neutrino`: the ring buffer without a lock, the two threads
  that write a stream to disk, and the main loop between timerd, zapit, the
  user and those threads.

They are the parts whose failures (a missed recording, a box that stays off, a
damaged file) nobody sees in a test.

All paths below are relative to `src/apps/`; `timerd/` stands for
`tuxbox/neutrino/daemons/timerd/`, and `driver/`, `gui/` and `neutrino.cpp` are
those under `tuxbox/neutrino/src/`.

## 1. Inventory

| Component | State it keeps | Operations | Hard behaviour | What makes it correct |
|---|---|---|---|---|
| timer events (`timerd/timermanager.cpp`, `.h`, class `CTimerEvent` and subclasses) | state, repeat kind and count, announce, alarm and stop time | announce, fire, stop, modify, reschedule, save, restore | counts and times at their boundaries, a loop that must end | a rescheduled event lies in the future; the last occurrence is the last |
| timer manager (`CTimerManager`) | table of events, last id, `m_saveEvents`, safety margins, `timer_wakeup`, the mutex | add, remove, stop, modify, reschedule, list, load, save, shutdown, shutdown on wake-up | two threads, cancellation, iterator over a changing map, unlocked flags | every change reaches the file; a started recording is stopped; due events fire; the box wakes in time and is not switched off during a recording |
| command interface (`timerd/timerd.cpp`) | none | one command per connection | commands between any two steps of the timer thread | the answer speaks of the event of the command |
| configuration file (`misc/libs/libconfigfile`) | `timerd.conf` | load, save | write aside and rename, failure ignored | old or new contents, never a mixture |
| event server (`misc/libs/libeventserver`) | clients per event | register, unregister, send | map used by two threads without lock, connect with the timer mutex held | every registered client gets each event |
| sockets (`misc/libs/libconnection`) | connection | prepare, run, send, receive | timeouts of 7 s and more on both sides | a late answer is not taken for the next one |
| timerd client (`tuxbox/neutrino/lib/timerdclient`) | none | the calls of the API | get, then modify | at most one sleep timer |
| ring buffer (`driver/ringbuffer.c`) | two pointers, the bytes | read, write, advance, vectors, reset | one reader and one writer without a lock; an advance is two stores | a FIFO; the two threads never touch the same byte |
| recording to disk (`driver/stream2file.cpp`) | `exit_flag`, `busy_count`, `myfilename`, the ring buffer, the files | start, stop, the demux thread, the file thread | shared variables without a lock, a thread that goes on after it is no longer counted, failures of disk and device, partial reads and writes | one recording at a time; the files hold the stream; a stopped recording ends and reports |
| recorder of neutrino (`neutrino.cpp`, `driver/vcrcontrol.cpp`, `gui/widget/messagebox.cpp`) | `recordingstatus`, `recording_id`, `nextRecordingInfo`, `deviceState`, `mode`, `standbyAfterRecord` | RECORD_START, RECORD_STOP, EVT_RECORDMODE, EVT_RECORDING_ENDED, standby, the menu | reports that come late, message boxes that handle messages in the middle of a handler, restarts | what runs can be stopped; the record mode of zapit follows the recording; a recording that waits is forgotten when its time is over |
| record mode and standby of zapit (`dvb/zapit/src/zapit.cpp`) | `currentMode`, `standby` | setRecordMode, setStandby | commands are queued, refused in standby, and reported back | no standby during a recording |
| sectionsd, the rest of zapit, nhttpd, enigma, lcars, plugins, dvbsnoop, libraries, drivers, boot loader, build kit | - | - | - | not modelled, see section 8 |

How they interact. Clients (neutrino, nhttpd) connect to timerd, send one
command and read its answer; the main thread of timerd serves them one after
the other. The timer thread asks sectionsd whether the time is set, then loads
`timerd.conf`, then makes a pass over all events every 20 seconds. Handlers of
events send messages to the clients through the event server. The two threads
share the table under `tm_eventsMutex`, which is recursive; `m_saveEvents` and the safety margins are
also written without it. The front processor switches the box on at a time
timerd has given it and tells the next timerd so.

RECORD_START and RECORD_STOP reach the single thread of neutrino through a
socket, together with the reports of zapit and of the recording thread.
neutrino turns zapit's record mode on, calls `start_recording`, and from then on
the demux thread and the file thread share a ring buffer and three global
variables with it. zapit answers `setRecordMode` later, by an event that neutrino
takes from the same socket.

The hazards found in this code, each at its line, are listed in `PROJECT.json`
with the property that would notice.

## 2. Modules

| Module | Models |
|---|---|
| `TimerEvent` | one event as a record and each member function as an operator; constant level |
| `TimerManager` | the two threads, the table, mutex, file, clock, boots and power failures; EXTENDS `TimerEvent` |
| `MCTimerManager` | requests, files and periods of the TLC instances |
| `TimerEventProofs` | lemmas on the operators of `TimerEvent` |
| `TimerManagerProofs` | types, mutex, passes and the flag `m_saveEvents`: theorems of section 6 |
| `TimerBootProofs` | what holds over boots: wake-up, saves, automatic shutdown; EXTENDS `TimerManagerProofs` |
| `Fifo` | what a byte buffer promises |
| `RingBuffer` | `ringbuffer.c`, every store to a pointer a step; implements `Fifo` |
| `StreamControl` | what `stream2file.cpp` promises neutrino: start, stop, one recording thread and its report |
| `Stream2File` | the two threads and the files; EXTENDS `RingBuffer`, implements `StreamControl` |
| `Recorder` | neutrino, zapit and timerd around a recording; EXTENDS `StreamControl` |
| `MCRecorder` | the symmetry of the TLC instances |
| `RingBufferProofs`, `StreamControlProofs`, `Stream2FileProofs`, `RecorderProofs` | their theorems |

### Events

`Announced`, `Fired`, `Stopped` and the three `Wants...` conditions are the
three `if`s of the loop of `timerThread` (lines 149-176), `Finished` and
`Repeating` the fourth. `Modified` is the first `modifyEvent`. `Reschedule` is
split into `Turn` (how far one turn of its loop moves the alarm), `Turns` (how
many turns until the alarm is in the future), `Moved` (alarm, announcement,
stop time, state and count moved) and `NeverCatchesUp` (the loop does not end:
repeat kinds whose turn is 0). The load keeps `Kept` events as `Restored`.

Repeat kinds with a calendar advance have a positive `Period` each; `WEEKDAYS`
is the bare flag, which `addEvent` and `modifyEvent` turn into `ONCE`, and
`ONWEEKDAYS` the flag with weekdays. For `ONWEEKDAYS` and `BYEVENTDESCRIPTION`
the code does not move the alarm, so their turn is 0.

### Threads

A step is what a thread does between two points where something else can be
seen to interfere: locking, unlocking, reading the clock, writing the file,
reading or writing a shared variable without the mutex, a cancellation point.

* Timer thread (`tt`): `checktime` -> `TimeSet` -> `load` -> `LoadEvent`... ->
  `LoadDone` -> `ThreadWrite` -> `ThreadClear` -> `ready` -> `ReadClock` ->
  `BeginPass` -> `Visit`... -> `EndPass` -> `PassSave` (`ThreadWrite`,
  `ThreadClear`) or `PassNoSave` -> `sleep` -> `ReadClock`. One visit is a step
  of its own although the mutex is held, because the clock and the unlocked
  setters run on: `tnow` is the time the pass has read, `now` the time
  `Reschedule` reads.
* `VisitLast` erases an event. The loop then increments an iterator to the
  erased element, which C++ leaves undefined; the model lets it come to any
  event or to the end.
* `VisitHangs` enters `Reschedule` and never leaves it, holding the mutex.
* Main thread (`mt`): a command is one step, except where it gives up the mutex
  before it is done (`AddTimer`, `AddReturn`), keeps it while it writes to a
  socket (`GetTimerList`, `ListSent`) or is a shutdown: `Shutdown`, join (`ThreadCancelled`),
  `ShutdownSave` / `ShutdownNoSave`, `ShutdownWrite`, `ShutdownClear`,
  `ProgramWakeup` / `ShutdownBusy`. Commands that name an event that does not
  exist change nothing and are left out, as is a reschedule of an event that
  does not repeat.
* `pthread_cancel` takes effect in `CancelPoints`; passes and their saves run
  with cancellation disabled, the load and its save do not. A thread that ends
  in the save of the load takes the mutex with it.
* The box: `Tick`, `PowerLoss` (memory gone, file as it is), `Boot` (the
  constructor; `byTimer` is what the front processor answers).

Six variables are history: `loaded`, `saveOK`, `recOn` (recordings for which a
RECORD_START with a stop time was sent and no RECORD_STOP yet), `adrift` (those of them
that a command has left without a stop: a reschedule, line 426, which makes the
running event a scheduled one, or a modification whose stop time is 0, line
346), `offAt` (the time at which the wake-up was programmed) and `touched` (tags
of events a client ended or modified). No guard reads them.

### Ring buffer

A thread that uses the buffer goes through `idle`, `have` (a vector from
`GetWriteVector` or `GetReadVector`), `copied` (`Fill`, `Take`), `added` (the first
store of an advance, `WriteAdvance`, `ReadAdvance`) and, after `WriteMask` or
`ReadMask`, `have` or `idle` again. `ringbuffer_read` and `ringbuffer_write` are a
vector limited to `cnt` and one advance per part. Loads of the other thread's
pointer happen when a vector is made, once each, as in `ringbuffer_read_space` and
`ringbuffer_write_space`. Bytes are their numbers in the
stream, so that a repeated, lost or reordered byte shows. `Recreate` is the
`ringbuffer_free` of one recording and the `ringbuffer_create` of the next.

Nothing in the code keeps a thread from looking at the other's pointer between
the two stores of its advance, and nothing in the model does. Mostly this is
harmless; it is not when the pointer stands a buffer or more away from the
thread's own, because the other thread has wrapped and is held up before its
mask. The history variable `astray` records that a thread has computed its space
in that situation, until the buffer is emptied. It is read by no guard: a
reader gone astray goes on to read old bytes again, and the run `overtake` shows
that. What is said under the premise `~astray` is said of every interleaving up to
that look, so the look is the only weakness of the buffer. As a reader gone
astray could read for ever, `MaxBytes` bounds the bytes read as well as those
written.

### Recording to disk

`start_recording` is `StartRecording`, then `StartBusy`, `StartSleep` (the one
second), `StartGiveUp` or `StartOpen` (INC_BUSY_COUNT, `myfilename`), then
`StartFailed`, or `StartRunning` (`exit_flag`, before there is a thread) and after it
`StartNoThread` or `StartOK`. `stop_recording` looks at `exit_flag`
(`StopRecording`), loads and saves the movie info, and only then writes IDLE
(`StopIdle`). The demux thread is counted until its DEC_BUSY_COUNT; what it does
after that, reading `exit_flag` and `myfilename` and sending EVT_RECORDING_ENDED, is
the `tail`. A new recording may start during the tail of the one before, and its
status and name may then be reported; at most one tail is under way at a time.

`Stream2File` details the threads: `dpc` follows `DMXThread` (the search for a
first packet, its `ringbuffer_write`, the loop over vectors, the inner loop over
`poll` and `read`, close, join), `fpc` follows `FileThread` (vector, new file, cut to
what fits, `write` in pieces, the look at an empty buffer and the later look at
`exit_flag`). `read` and `write` handle any part of what they are asked.
When `poll` reports an error the status is set and the device is read all the same
(`DmxSyncError`, `DmxReadError`), so bytes may still arrive after the failure; a
timeout reads nothing (`DmxTimeout`). Left out:
the mode without `write_ts`, the PSI packets and time stamps put into the files,
`EEXIST` retries, and the cases in which the ring buffer or the file thread cannot
be created (the code goes on with a null pointer or joins a thread that does not
exist).

### Recorder

`npc` says what neutrino's thread is doing and `stack` which handlers are under
way. A failed start shows a message box, as does the end of a recording; the
box's loop handles messages, and the handler goes on when the box is closed
(`BoxCloses`), by a key, its timeout or a handler that returns `cancel_all`. So a RECORD_STOP may be handled in the middle
of the RECORD_START it belongs to. `RecordStart`, `RecordStop` (with
`RecordStopEnds` and `RecordStopLate`), `RecordStopOther`, `RecordModeChanged`,
`RecordingEnded`, `StandbyOn`, `StandbyOff`, `Sleeptimer` and `MenuRecord` are the branches of
`handleMsg` and `changeNotify`; `BeginRecord`, `RecordCalls`, `CallGoesOn` and
`RecordReturns...` are `CFileDevice::Record`. zapit executes the commands of its
queue `zq` in order (`ZapitStep`): it refuses them in standby (`Refused`), or sets the
record mode and reports it (`SetRecordMode`), or enters or leaves the standby
(`SetStandby`). `setStandby` waits for its answer (`Ready`), `setRecordMode` does not.

The device is the file device. `recording_id` has any value at the start, as the
constructor does not set it. READ_FAILURE stands for the failures that restart
the recording at once and WRITE_FAILURE for those with a message box before. The
box of a regular end changes nothing when it is closed, but it is on the stack
(`box`), as a RECORD_START handled in it closes it and not the one below. The menu
may open a directory chooser and, after a failed mount, a box before it starts a
recording (neutrino.cpp:1817-1850); messages handled in them are left out, and a
choice the user leaves without a directory is a menu action without effect.
Scart mode, pausing, ANNOUNCE_RECORD, the scripts and the channel lists are left
out.

### Abstractions in the timer daemon

* EPG data, channel, names and messages are the tag `what`; `Refresh` and
  `getEpgId`, which only change EPG data, are left out. The previous state
  kept in an event is not read by any decision and left out.
* Local time: a fixed period per repeat kind; months of different length and
  the daylight saving correction are left out. The clock only moves forward.
* The build is the one with a front processor that can wake the box. Its
  ioctls succeed.
* A save that cannot be completed leaves the old file or a file without
  timers; other truncations are not told apart.
* Answers to clients matter only where a property speaks of them (the id of
  `AddReturn`). The answer to a zap timer without channel, or to the
  unsupported types of CMD_ADDTIMER, is an uninitialised value in the code and
  changes nothing in timerd.
* A signal is a shutdown at a command boundary.

## 3. Properties and runs

| Run | Instance | Checks | States, time |
|---|---|---|---|
| `commands` | 1 boot, 3 commands out of all kinds, clock 1..3, daily, once and weekday requests with and without safety margin, empty file or one daily recording | `TypeOK`, `CleanMeansSaved`, `RecordingHasOwner`, `PassComplete` | 1.7 million, 1.3 min |
| `boots` | 2 boots, 1 command each, clock 1..5, saves that fail, files with one and two timers | `WakeupProgrammed`, `NoShutdownDuringRecording`, `SavesKeepTimers` | 570 thousand, 20 s |
| `live` | 1 boot, 2 commands, clock 1..4, `FairSpec` | `DueIsFired`, `RecordingIsStopped`, `ShutdownEnds` | 10 thousand, 20 s |
| `weekdays` | 1 command, `FairSpec` | violates `WeekdaysComeAgain` | |
| `survive` | 2 commands: add a timer, shut down | violates `TimersSurviveShutdown` | |
| `immediate` | 2 boots, 1 command each | violates `NoShutdownDuringRecording` | |
| `removed` | 2 commands | violates `RemovedStaysRemoved` | |
| `addid` | 1 command | violates `AddReturnsItsId` | |
| `stream` | 2 recordings, buffer of 4, packets of 2, rounds of 3, files of 2, 5 bytes, `FairSpec` | `TypeOK`, `NoSharedSlot`, `FilesHoldTheStream`, `FifoUntilAstray`, `ControlSpec`, `EndsAndReports` | 410 thousand, 2 min |
| `overtake` | buffer of 4, 9 bytes | violates `SafeForTwoThreads` | |
| `recorder` | 2 timers, 2 keys, 1 failure, 2 handlers under way, `MaxQueue` 2 | `RecorderTypeOK`, `OneRecording`, `RunningIsStoppable`, `RecordModeSettles`, `PendingNotStopped` | 4.9 million, 1.7 min |
| `standby` | 2 timers, no keys, no failures | violates `StandbyAfterRecording` | |

What the passing runs show:

* `CleanMeansSaved`: two threads set and clear `m_saveEvents` around the saves,
  the load adds events without setting it and `removeEvent` does not set it;
  still, whenever the mutex is free and the flag is clear the file holds the
  table, up to ends ordered by a client the next pass will see.
* `RecordingHasOwner`: whatever passes erase and whatever a client does to a
  running recording but for two commands, a recording that was started and not
  stopped has its running event, with a stop time, in the table. The two are a
  reschedule and a modification without a stop time: the code then sends no
  RECORD_STOP and the recording runs on. It stays in `recOn`, and in `adrift`, and the
  property excepts exactly these.
* `PassComplete`: a pass that erased nothing leaves nothing due, although events
  are rescheduled by a second reading of the clock and added while it runs.
* `WakeupProgrammed`, `NoShutdownDuringRecording`: the two minima over announce
  times. They hold in `boots`, where every recording and zap has an
  announcement; `immediate` shows what happens without one. `WakeupProgrammed` wants
  the wake-up before the lead of the earliest event and, where the lead has
  already begun, one minute after it was programmed: the clamp of line 744 may
  not put it later.
* `SavesKeepTimers`: no save after the load drops a timer that is still to come
  and that no client has touched, over power failures at any point.
* `DueIsFired`, `RecordingIsStopped`: the skipped events of a pass that erased
  something are caught by a later pass. `ShutdownEnds`: the join comes to an
  end once the load is over.
* `NoSharedSlot`, `FifoUntilAstray`: the slots the writer holds and those with unread
  bytes are disjoint at every store, and what the reader gets is what was
  written, complete, once and in order, until a thread goes astray.
* `FilesHoldTheStream`: whatever parts `read` and `write` handle, no file exceeds the
  split size and all but the last have it; until a thread goes astray they are
  the stream from its first byte on.
* `ControlSpec`: the two threads are the one thread of `StreamControl`: busy until
  both are out of the shared state. What `recorder` shows on top of
  `StreamControl` therefore holds of the real threads.
* `EndsAndReports`: after a stop or a failure at any point the join comes to its
  end and the report is sent.
* `OneRecording`: two unlocked looks at `busy_count` are enough to keep recordings
  apart, because only neutrino's thread raises it.
* `RunningIsStoppable`: refused, failed and nested starts never leave a running
  recording behind a device that claims to be stopped. It says nothing of
  `recordingstatus`, which the code may leave at "not recording".
* `RecordModeSettles`: when all reports have arrived, zapit is in record mode only
  with a device in recording state, and the menu claims no recording without it.
* `PendingNotStopped`: the recording in `nextRecordingInfo` has its stop still to come,
  but for one that is just being started. A start that fails keeps
  `nextRecordingInfo` while its box is open, and has set `recording_id` already; a
  RECORD_STOP handled in the box is then taken for the end of a running
  recording, and the recording is started again although its time is over. The
  model has this; the property excepts it and claims nothing about it.

The first five violations are disagreements between the code and the repository's own
words, quoted under `findings` in `PROJECT.json`: weekday timers hang the timer
thread (`mktime(&t)` where `t2` was advanced), a shutdown before the time is set
overwrites the saved timers, the automatic shutdown ignores an immediate
recording, a removed timer survives a quick shutdown, and `addEvent` may return
another event's id. The other two: a thread held up between the two stores of an
advance lets the other read bytes twice, although the file calls itself safe for
one reader and one writer; and the late report of one recording's end sends the
box into standby, which takes the tuner away, during the next recording.

### Bounds

`MaxTime`, `MaxCmds`, `MaxBoots` bound the clock, the commands of a boot and the
boots; nothing else is bounded but by them. A tick is about three minutes, so
`Quiet` = 3 ticks stands for the ten minutes and `Lead`, `AutoAnnounce`,
`AutoAlarm` for three, two and three minutes with their order kept. In
`commands` three commands are one to make an event, one to act on it and one to
shut down or to act again; times up to 3 let a recording be announced, fired,
stopped and rescheduled within the run. In `boots` two boots are one that is
shut down and one that is woken, and the clock reaches past the stop of the
recording that woke the box. In the violation runs the bounds are just large
enough for the counterexample.

In `stream` a buffer of four slots is the smallest in which a round of three bytes
wraps into the second part of a vector and can also overflow; five bytes write
every slot once and one of them again, fill two files of two bytes and begin a
third, and let a reader go astray (four bytes are enough for that). Two
calls of `start_recording` are one that runs and one that meets its end. In
`recorder` two timers are one that runs and one that waits or replaces it; one
failure is enough to open a message box in a handler and two handlers under way
let a message be handled inside it; two keys start and stop, or go to standby
and back. A timer sends its message when fewer than `MaxQueue` = 2 messages wait,
which leaves room for a stop behind its own start or before another's, with any
reports between and behind them; without that bound the instance has 9 million
states and the properties hold as well. More ids, keys or depth exceed the time of a run.

Deadlock is not checked: in the recording runs all calls, keys and timers may be
used up and everything idle; in the timer daemon with the clock and the boots at their bounds the box
is off, and a command bound that is used up leaves only the timer thread.

### Fairness

`FairSpec` has weak fairness of the main thread's own steps (not of commands
arriving), of the timer thread, of the cancellation and of the clock. The code
justifies them: the threads are scheduled by the kernel, `pthread_join` waits
for a thread that a cancellation point ends, and the timer thread's wait is
timed. Weak fairness is enough for the mutex because every critical section of
the main thread is left by a step of its own and commands are finitely many in
an instance; with unboundedly many commands a fair mutex would have to be
assumed. `TimeSet` is part of the timer thread, so sectionsd is assumed to learn
the time some day. Power failures and clients are under no fairness.

In `Stream2File` the demux thread, the file thread and the tail of an ended demux
thread are weakly fair: the kernel runs them, `poll` has a timeout, `write` takes
data or fails in the end. neutrino's calls are under no fairness.

## 4. Mutants

Each property has a mutant of the model, a plausible slip in the code it speaks
of, under which its run fails: a count decremented at 0, a missing
`m_saveEvents`, a modification that resets the state, one turn of `Reschedule`
too few, the last announcement instead of the first, `>=` for `>` at ten
minutes, a load that looks at the stop time only, a missing unlock after a pass
and after a save, and a fired event that is finished at once; a read space that
takes an empty buffer for a full one, a vector that ignores the end of the
buffer, a file not cut to its size, a thread no longer counted before the join, a
file thread that waits for ever, an error path that decrements twice, a second
attempt that does not look at `busy_count`, error paths that leave the record mode
on or the device stopped, and a RECORD_STOP compared with the running recording
only.

## 5. What the premises leave out

* `ShutdownEnds` asks for a thread past its load. A shutdown during the save at
  the end of the load may find the mutex locked by a dead thread and wait for
  ever (hazard at `timermanager.cpp:715`).
* `WakeupProgrammed` asks for a free mutex at the end: with the same orphaned
  mutex and no save due, `shutdown` returns early and nothing is programmed. It
  speaks of scheduled events, as the code does: an announced one is not
  provided for.
* `CleanMeansSaved` speaks of events, not of the safety margins, whose setters
  take no mutex and may lose their flag (hazard at line 803).
* `PassComplete` excepts passes that erased an event.
* `NoSharedSlot`, `FifoUntilAstray` and what `FilesHoldTheStream` says of the bytes in the
  files hold until a thread goes astray; afterwards old bytes may be read again
  and written into the files. `TypeOK`, the sizes of the files, `ControlSpec`,
  `EndsAndReports` and `FreedBufferUnused` hold without that premise.
* `RecordingHasOwner` and `RecordingIsStopped` except the recordings adrift, which no
  RECORD_STOP will end (hazards at `timermanager.cpp:347` and `:426`).
* `FilesHoldTheStream` allows the last bytes before a stop to be missing: those
  that arrive between the look at the empty buffer and the look at `exit_flag`.
* `RecordModeSettles` asks for `standby_save_power` off, as zapit refuses commands in
  standby. `PendingNotStopped` excepts the accidental first value of
  `recording_id` and a start under way, in whose message box the recording's own
  stop makes it start again (hazard at `neutrino.cpp:4087`).
* No run claims that the RECORD_STOP of a recording stops it: a stop from the
  menu with a recording waiting makes `recording_id` that of the waiting one
  before the stop arrives (hazard at `neutrino.cpp:1923`).

## 6. Proofs

Every safety property that a passing run checks is also proved by TLAPS, for
every value of the constants that satisfies the assumptions of the modules:

* `PeriodAssumption`, `RequestAssumption`, `ConstantAssumption`: times are naturals,
  margins do not exceed the times they are subtracted from, the shutdown event
  lies within the quiet time. `TagAssumption`: the tag of timerd's own shutdown
  events is not one of the clients' (the tag stands for the identity of a timer;
  the code's shutdown event carries no EPG data).
* `SizeAssumption`, `StreamAssumption`: a buffer of at least two bytes, packets
  smaller than a read, a read smaller than the buffer, a file of at least one
  packet; `RecorderAssumption`: "no timer" is not a timer.

The bounds (`MaxCmds`, `MaxBoots`, `MaxStarts`, `MaxDepth`, `MaxQueue`, ...) are any naturals.

### Timers

| Theorem | States | Argument |
|---|---|---|
| `RescheduledLiesAhead` | `Reschedule` of an event whose loop ends yields an event scheduled in the future | the number of turns is a quotient plus one; `Division` gives the bounds |
| `TypeCorrect` | `Spec => []TypeOK` | `TypeOK` is inductive; ids stay within `1..eventID` because `addEvent` is the only source of ids; one lemma per operator |
| `MutexHeld` | `Spec => []LockInv` | a thread inside a critical section holds the mutex; inductive with `TypeOK` |
| `RecordingsOwned` | `Spec => []RecordingHasOwner` | inductive with `TypeOK`: every action that makes a running event something else also sends its RECORD_STOP or sets it adrift |
| `PassesComplete` | `Spec => []PassComplete` | by `PassInv` |
| `FlagIsHonest` | `Spec => []CleanMeansSaved` | by `SaveInv` |
| `WakeupIsProgrammed` | `Spec => [](AllAnnounced(Scheduled) => WakeupProgrammed)` | by `WakeInv` |
| `SavesLoseNothing` | `Spec => SavesKeepTimers` if `TimersSane` | by `KeepInv`, with `LockInv` and `SaveInv` |
| `ShutdownLeavesTime` | `Spec => [][AllAnnounced(Pending(0)) => ShutdownHasTime]_vars` | by `ClockInv` |
| `NoShutdownWhenAnnounced` | `Spec /\ []AllAnnounced(Pending(0)) => NoShutdownDuringRecording` | from the one above |

`PassComplete` speaks of the end of a pass only, so it is not inductive.
`PassInv` says that all events up to the iterator are settled and that the
iterator is not beyond the last id, so that an event the pass adds lies ahead;
that the pass's time is not later than the clock makes a rescheduled event
settled. It needs `MutexHeld`: no command touches the events behind the
iterator. `SaveInv` follows the contents through a save: the snapshot equals the
table while it is written, the file equals the table until the flag is cleared,
and a table with a clear flag equals the file during a pass as well.

`WakeupProgrammed` speaks of a box that is off, which is two steps after the
wake-up time was computed. `WakeInv` adds that the timer thread is dead from the
join on, so that nothing changes the table in between. The lemma on
`NextAnnounce` says that the loop of `shutdown` finds the minimum of the
announcements, and this needs the premise: the code uses 0 both for "no
announcement" and for "none found yet" (timermanager.cpp:743), so an event
without announcement makes the loop forget what came before. The menu, the EPG
windows and the web server announce every recording and zap a minute or more
ahead; only the recording that the record key starts at once has no announcement
(neutrino.cpp:1911), and for it `NoShutdownDuringRecording` is false, as run
`immediate` shows. The premise is about the state, not the constants, so the
theorems hold of every behaviour.

`SavesKeepTimers` is an action property of a write, and what a write loses was
decided long before: at the load, in a pass, by a reschedule. `KeepInv` says, once
the load is over, that the table has each timer of the file that is still to
come, at its time or later, and during the load that the table and the part not
yet read together have it (`Keeps`); and that a timer nobody touched does not end
before it begins and is finished or terminated only once its time has come
(`SoundInv`), else the load, which drops events whose stop time is past, or a
pass could lose one that is to come. The premise `TimersSane` says this of the
requests and of the first file: no recording is asked to stop before it starts.
The EPG windows take the end from the length of the programme and the record key
from the longest recording time; the timer menu and timerd do not check, and a
recording entered with its end before its begin is dropped at the next load.

`ShutdownHasTime` compares the clock with announcements that the pass compared
with its own, earlier time; `ClockInv` orders the two.

### Recording

| Theorem | States | Argument |
|---|---|---|
| `RingTypeCorrect`, `RingNoSharedSlot` | `RingSpec => []RingTypeOK`, `RingSpec => []NoSharedSlot` | by `RingInv` |
| `RingImplementsFifo` | `RingSpec => FifoUntilAstray` | by `RingInv`; until a thread goes astray an advance is a `Put` or a `Get`, all else stutters |
| `OneRecordingHolds` | `ControlSpec => []OneRecording` | inductive with `ControlTypeOK` |
| `StreamTypeCorrect`, `StreamNoSharedSlot`, `StreamIsKept` | `Spec => []TypeOK`, `[]NoSharedSlot`, `[]FilesHoldTheStream` | by `StreamInv` |
| `StreamImplementsFifo` | `Spec => FifoUntilAstray` | by `StreamInv`; each step of a thread is a step of the ring buffer or leaves it alone |
| `StreamImplementsControl` | `Spec => ControlSpec` | by `StreamInv`; the mapping is the identity on the shared variables |
| `FreedBufferUnused` | the buffer is freed with both threads outside of it | by `StreamInv` |
| `RecorderTypeCorrect` | `RecorderSpec => []RecorderTypeOK` | by `TypeInv` |
| `RecorderOneRecording`, `RunningCanBeStopped` | `RecorderSpec => []OneRecording`, `[]RunningIsStoppable` | by `RecorderInv` |
| `RecordModeAgrees` | `RecorderSpec => []RecordModeSettles` | by `ModeInv` |
| `PendingIsNotOver` | `RecorderSpec => []PendingNotStopped` | by `WaitInv` |

`NoSharedSlot` and the refinement of `Fifo` say nothing about pointers, so neither
is inductive. `RingInv` has a part that always holds: a thread's vector lies inside
the buffer and starts at its own pointer, whatever the other thread's pointer has
told it (`ShapeInv`). The rest holds until a thread goes astray (`InStep`): the
difference of the pointers, once both are masked, is the number of bytes inside
(`PtrInv`); a vector is within the free or the filled part, which the other thread
only enlarges (`WriterInv`, `ReaderInv`); and each filled slot has the byte of its
distance from the read pointer (`ContentInv`). The lemmas `WriteSpaceIsRest` and
`ReadSpaceIsCount` show that the space a thread computes from an unmasked pointer
is the real one wherever the look is not one that sets `astray`. Size and
number of bytes are arbitrary.

`FilesHoldTheStream` speaks of the files, and what goes into them comes out of
the ring buffer. `StreamInv` is `RingInv` together with: each thread is inside the
buffer only at its own places, both threads live and end together, and the
`DMXThread` gives up only once the recording is over (`ThreadsInv`); `remfile` is
the room left in the open file but for the vector under way, of which
`readsize - Total(rvec)` bytes are in the file already (`RoomInv`); and the next
byte of the buffer is the one that belongs at the end of the open file
(`PositionInv`). `ContentInv` then gives what the bytes are, as
long as no thread is astray; `ShapeInv`, `ThreadsInv` and `RoomInv` do not need that, and
are enough for the types, the sizes of the files, the refinement of
`StreamControl` and the freed buffer.

`RunningIsStoppable` is not inductive: it says nothing while `Record` is being
called. `RecorderInv` adds that a call of `start_recording` or `stop_recording` is
under way only in the handler that says so (`CallInv`) and that the device may be
behind a running recording only between the success of the call and the end of
`Record` (`DeviceInv`); no message is handled in between, although messages are
handled in the box of a failed one. `TypeInv` adds which frames are on the stack
of nested handlers, so that no handler returns to a caller that is not there.

`RecordModeSettles` speaks of quiet states only. `ModeInv` follows zapit's
commands and reports on their way: the record mode that zapit will have when its
queue is empty is on only for a device that records or a `Record` under way
(`OrderInv`), and the latest report in neutrino's queue tells zapit's present
mode, so that a stale report is always followed by a fresh one (`ReportInv`).
`PendingNotStopped` needs the life of a timer: at most one start of it is on its
way and is followed by its stop, and a timer not yet due is not mentioned
anywhere (`TimerInv`); and the recording that is next has its stop still to come
unless it is `recording_id` and the handler that starts it is on the stack
(`PendingInv`).

The inductive invariants are model-checked as well: `LockInv`, `PassInv`,
`SaveInv`, `WakeInv` and `KeepInv` on the instances of `commands` and `boots`,
`StreamInv`, `RecorderInv`, `TypeInv`, `ModeInv` and `WaitInv` on those of `stream`
and `recorder`.

### Only model-checked

The liveness properties `DueIsFired`, `RecordingIsStopped`, `ShutdownEnds` and
`EndsAndReports`: fairness and ENABLED are out of the prover's reach. The seven
violations are TLC's counterexamples.

## 7. Plan

1. An abstract timer service (due, fired, stopped once per occurrence) that
   `TimerManager` implements as long as nothing is erased in a pass, with the
   refinement proved.
2. Theorems: what a command may change in the table of the other timers; the
   premise `AllAnnounced` derived from requests that all have an announcement.
3. `EventServer` and the socket protocol: registration against sending, send
   with the mutex held, timeouts of the client; queries, the stale type pointer
   of CMD_MODIFYTIMER and signals at any point added to the main thread.
4. `LocalTime`: `Reschedule` with months and daylight saving against a reference
   definition over bounded calendars.
5. `Recorder` composed with `TimerManager`, with the server device and
   ANNOUNCE_RECORD; the PES mode of `stream2file`.

## 8. Not modelled

zapit but for its record mode and standby, and the drivers (behaviour decided by
hardware ioctls), sectionsd (EPG
caches; only its answer that the time is set is used), nhttpd and the menus of
neutrino (I/O and layout), dvbsnoop and libdvbsi++ (stateless parsers), enigma
and lcars (separate user interfaces), plugins and games, third-party libraries,
boot loader and build kit. `getNextEvent` has no caller.
