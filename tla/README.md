# A verification project for the IPNC camera and recorder software

TLA+ models of the repository's own core: the threads, queues, mailboxes and
frame memory that move video from the camera bus to the processes that read
it, and the system server that keeps the settings in flash and records on
alarms. Every definition is a translation of C code; `PROJECT.json` ("map") names
the file and the lines. Paths below are under `src/ipnc/`; `osa/` stands for
`av_capture/framework/osa/src/`, `mcvip/` for `av_capture/framework/mcvip/src/`,
`dvr/` for `av_capture/application/ipnc/av_server/src/mcvip/src/`, `stream/`
for `av_capture/application/ipnc/av_server/src/stream/`, `sys/` for
`ipnc_app/sys_server/src/` and `drv/` for `ipnc_app/interface/src/`.

The build modelled is the DVR one (`SYSTEM=DVR`, which defines
`VANLINK_DVR_DM365`; `av_capture/build/COMMON_HEADER.MK:32-37`).

## 1. Inventory

### 1.1 The OSA layer (`osa/`)

| part | state | operations | correct when |
|---|---|---|---|
| queue `osa_que.c` | ring, `curRd`, `curWr`, `count`, a mutex, two condition variables | put, get, each with timeout NONE or FOREVER | bounded FIFO; no lost wake-up; nobody sleeps next to what it waits for |
| buffer pool `osa_buf.c` | an empty and a full queue, a table of buffers | get/put empty/full, switch | each buffer in one place |
| mailbox `osa_mbx.c`, `osa_msgq.c`, task `osa_tsk.c` | a receive and an acknowledgement queue of 64 pointers; messages on the heap | send with or without acknowledgement, wait, check, ack-or-free, broadcast | no message leaked or used after it was freed; a command with acknowledgement is a call |
| flag `osa_flg.c` | a bit pattern, one condition variable | set, clear, wait for all/any | every waiter whose bits are set is woken |
| semaphore, mutex, thread, IPC (`osa_sem.c`, `osa_mutex.c`, `osa_thr.c`, `osa_ipc.c`) | pthread and System V objects | wrappers | counting semaphores respect their maximum |

### 1.2 The DVR pipeline (`mcvip/`, `dvr/`, `av_server/src/video`)

Each stage is a task: a thread that waits for commands CREATE, START, STOP,
DELETE in its mailbox and acknowledges them.

- *MCVIP task* (`mcvip_tsk.c`, `mcvip_demux.c`, `mcvip_api.c`): takes fields from
  the camera bus, in which the lines of all channels are interleaved, and sorts
  them into buffers. One queue of empty buffers per channel, one queue of full ones.
- *Capture task* (`capture_tsk.c`): takes full buffers, copies them to the later
  stages and gives them back.
- *Encode, stream, display, OSD, decode, writer tasks*: connected by OSA pools;
  a producer puts a full buffer and sends RUN without acknowledgement.
- *Main thread* (`main.c`): `UI_sysStart` creates and starts the stages in order,
  `UI_sysStop` stops and deletes them.

Correct when: a buffer has one owner; nothing that must not wait does; stop
always completes; memory is freed after its last user; capture goes on until it
is stopped.

### 1.3 The stream server (`stream/`)

- *Frame memory* (`mem_mng.c`): per stream, a circular memory of blocks and a
  circular table of frames; the encoder writes, the oldest frames are freed.
- *Frame cache* (`cache_mng.c`): copies of the frames readers have locked,
  with a count each.
- *GOP locks* (`gop_lock.c`): the list of locked groups of pictures. A lock on a
  frame is a lock on its GOP.
- *Stream server* (`stream.c`): `stream_write`, called by the encoder's side, and
  the thread `Msg_CTRL`, which serves requests of other processes from a System V
  message queue. A semaphore per stream serialises them.

Correct when: frames do not overlap; a write ends; readers see a window of the
most recent frames; a locked frame stays available until it is unlocked;
nothing stays locked that no reader holds.

### 1.4 The system server (`sys/`) and its drivers (`drv/`)

- *File manager* (`file_mng_main.c`, `file_mng.c`): all settings are one structure,
  `SysInfo`, in shared memory, and one file, `SYS_FILE`; the system log is another.
  `FileMsgThread` serves requests and writes the files when one says so;
  `ProcFileThread` looks at the dirty flag and writes them as well. State: the
  dirty and quit flags, the list of log entries, the request queue.
- *File message driver* (`drv/file_msg_drv.c`): what every other process uses. It
  writes a setting in shared memory itself, then sends a request and waits for the
  answer, which is addressed to its process by number. One semaphore per process.
- *Alarm server* (`alarm_schedule.c`, `alarm_main.c`): `AlramScheduler`, a thread that
  starts recordings in rounds while there is an alarm and stops them after it.
- *AVI and JPEG managers* (`avi_mng.c`, `jpg_mng.c`): a thread each, with flags
  (`gAviState`, `gJpgState`) and a count of runs. A recording is made by another
  program, `Appro_avi_save`, and stopped by `killall`.
- *File dispatcher* (`file_dispatcher.c`): a thread per file to send, up to a limit.
- *Polling thread* (`system_control.c`, `sd_config.c`): `RestartAll` stops recordings and
  restarts services; `CheckSDCard` sees a card taken out and put in.

Correct when: a start finds all settings or the defaults whenever the power went; what
was set reaches the flash; an answer reaches the thread that asked; a recording that
does not stop by itself has somebody who will stop it; what the status shows is what
is recorded; the limit holds; an alarm starts a recording.

### 1.5 The rest

- *AV server threads* (`av_server/src/common`, `video`, `audio`): stage threads,
  their start and stop. *Basket recorder* (`av_server/src/basket`): circular
  recording on disk.
- *IEC 104 server* (`ipnc_app/iec104`), *task server* (`ipnc_app/taskServer`).
- Vendored or generated, not modelled: `ipnc_app/network` (web, RTSP, mail, DDNS),
  `ipnc_app/multimedia/avi_save`, test suites, drivers, CSL, codecs, fonts.

### 1.6 What is hard to test here

One signal per value on a condition variable; acknowledgements matched by the
address of a message that may have been reused; a stop that has to reach a thread
asleep on a queue; poison values in queues that are exactly long enough; a
write loop whose index restarts when the memory wraps; DUMMY frames that share a
serial; locks of several readers on GOPs that are still growing; a cache that
fills in the middle of a GOP; a file cut off and written in pieces by two threads, and
the power going in between; a save that fails after its flag was cleared; a dirty flag tested, cleared and set by three threads; a
wait on a condition variable whose mutex does not protect the condition; a count of
recordings kept by callers that a card taken out leaves out of step. `PROJECT.json` ("hazards") lists each at its line,
with the properties that cover it or the reason that none does yet.

## 2. Modules

| module | models | abstracts from |
|---|---|---|
| `BoundedFifo` | what a queue promises | |
| `OsaQue` | `osa_que.c` | values are opaque |
| `OsaQueProofs` | theorems about `OsaQue` | |
| `RemoteCall` | what a command with acknowledgement promises | |
| `OsaMbx` | `osa_mbx.c`, `osa_msgq.c`, `osa_tsk.c` | wake-ups (see `OsaQue`), parameters |
| `OsaMbxProofs` | theorems about `OsaMbx` | |
| `McvipCapture` | `mcvip_tsk.c`, `mcvip_demux.c`, `mcvip_api.c`, `capture_tsk.c`, the capture part of `main.c` | lines within a frame, the later stages |
| `McvipProofs` | theorems about `McvipCapture` | |
| `FrameWindow` | what the frame memory promises | |
| `MemMng` | `mem_mng.c` for one H.264/MPEG-4 stream | bytes, time stamps |
| `MemMngProofs` | theorems about `MemMng` | |
| `GopStream` (extends `MemMng`) | `cache_mng.c`, `gop_lock.c`, the handlers of `stream.c` | addresses, sizes in bytes |
| `GopStreamProofs` | theorems about `GopStream` | |
| `FileMng` | `file_mng_main.c`, `file_mng.c`, `file_msg_drv.c` | which setting is which, log contents |
| `FileMngProofs` | theorems about `FileMng` | |
| `AlarmServer` | `alarm_schedule.c`, `avi_mng.c`, `jpg_mng.c`, `file_dispatcher.c`, parts of `system_control.c` and `sd_config.c` | file names, destinations, the contents of schedules |
| `AlarmServerProofs` | theorems about `AlarmServer` | |

`MC<module>` is the module TLC is run on. Definitions named
`<Definition>_<Fault>` just before `<Definition>` are seeded faults: mistakes the
code could plausibly contain, which must make a named property fail when they
take the place of the definition. Nothing in a specification uses them.

### 2.1 `OsaQue`

State is `OSA_QueHndl` plus where each thread is. What happens between
`pthread_mutex_lock` and `pthread_cond_wait` or `pthread_mutex_unlock` is one
step, because the mutex is held. `Put`/`Get` are a test that succeeds,
`PutFull`/`GetEmpty` one that does not: it fails the call or puts the thread to
sleep (`condWr`, `condRd`). `pthread_cond_signal` wakes any one sleeper, which
takes the mutex again later (`Signalled`), and POSIX's spurious wake-ups are an
action. `OSA_memAlloc` does not clear the ring, so its first contents are arbitrary.

### 2.2 `OsaMbx`

A heap of addresses with reuse. A client allocates a message, queues its address and, if it wants an
acknowledgement, takes addresses from its own acknowledgement queue until it sees
the one it sent, freeing each. A server takes an address, and acknowledges it or
frees it. Touching a free address sets `fault`, after which nothing is claimed.
A client's mailbox is its own, as with all senders of the pipeline. Clients and servers are
different threads: tasks that wait for each other in a circle are not among the behaviours,
and what `CallsReturn` says of a client begins when its message is in the mailbox; a client that
never finds room in a full one is not excluded.

### 2.3 `McvipCapture`

Three threads. The main thread (`Ui...`) sends START, STOP and DELETE to the
capture task and waits for each answer; the capture task (`C...`) sends its own
to the MCVIP task (`M...`, `Demux...`). A mailbox holds at most one command
because every sender waits, which `OsaMbx` shows (`SenderWaits`), so it is
one variable. Of the demultiplexer the model keeps what it does with buffers:
when the last line of a good frame arrives it takes an empty buffer, puts the
filled one aside, and after the DMA hands over all it put aside. `MCVIP_stop`
puts 0xFF (`Poison`) in every empty queue before the command; a demultiplexer
that takes it returns an error and ends the run. `cLive` are the messages the
capture task has received and not acknowledged: acknowledging any other is a
use of freed memory (`fault`).

A place is a queue with an index, a channel's current buffer, or the capture task's
hand. `BufferOwnership` says that no buffer is at two places, that all are somewhere
until a channel has taken Poison, and that a buffer keeps its channel (`ChOf`): a
queue of empty buffers holds only its own. `MCVIP_tskCreate` refuses more than
`MCVIP_BUF_MAX` buffers, so Poison is never the number of one.

A frame is copied to the encoder when that has an empty buffer, and there the capture task
depends on the stages behind it: `VIDEO_swosdRun` waits for the acknowledgement of the OSD
task (`OsdAnswers`), and the RUN message for room in the mailbox of the encode task
(`EncodeHasRoom`), which may itself wait for the network's buffers (`dvr/encode_tsk.c:231`).
Nothing in the model makes either happen.

`MissedFrames` selects whether the threshold of missed frames may be passed; the runs have it
TRUE. The status of the demultiplexer is then overwritten by the recovery loop, in both directions:

- with a failure: the run of the capture task ends by itself (finding 1), and START is acknowledged
  twice. `FaultOnlyAtOwnEnd` says that this is the only fault there is. What a program does
  after it is not modelled, and `StopCompletes` ends there;
- with success, after the demultiplexer has taken Poison: it goes on with `curBufId = 0xFF`, and
  sleeps for good on the next empty queue while STOP waits in the mailbox. `StopCompletes`
  excepts these behaviours by name (`RecoveryHeedsPoison`); without the exception TLC shows the
  stop that never returns.

### 2.4 `MemMng`

One step per turn of the loop of `MemMng_Video_Write`: `FreeOldest`, `FillUp`
(the DUMMY frame at the end of the memory) or `Store`. `job` holds the locals of
the call. `SetFlag`, `VidFrame_Free` and `Insert` keep the boundary tests of the
code as they are (`> 0`, so that index 0 is special). A frame too large for the
memory is refused before anything changes and is no step. The window its readers
see (`InMemory`) is the function from the serials of the frames in memory that are no
DUMMY to their types.

### 2.5 `GopStream`

`MemMng` with readers. Cache and list are values; `CacheLock`, `LockGop`,
`LockGopBySerial` and the others compute what the functions return and leave.
`stream_write` is `StreamWrite`, the turns of `WriteLoop`, and `PostProcess`, which
adds the new P frame to the locked GOP (`FollowGop`, `LockCurrentGopP`) when
`lockNewFrame` is set. The semaphore of the stream is held throughout, so readers'
requests run only between writes. A reader is any process that uses the
interface as documented: it asks for the latest I frame or the frame after the last it
locked, and unlocks what it locked, oldest first. `held` is what each reader has
been told it holds; `dropped` is a history variable that becomes TRUE when
`FollowGop` gives a GOP up.

For streams 0 to 2 the code gives memory and cache the same size (0x600000 with
blocks of 30 KB), which is why `CacheNum = BlkNum` in the runs.

### 2.6 `FileMng`

A file is written through a stdio buffer, and the model keeps what that does:
`SysInfo` is `NParts` parts in the order in which they reach the flash. The first
leaves the buffer when it is full, those in the middle are written past it, the last
(`tail`) is in the buffer until `fclose`. `WriteAt` is a write at an offset, whatever
is in front of it; what was never written reads as `Zero`, what is beyond the end
is `Gone`. `ReadGlobal` looks at the length and the magic number only.

`saver[w]` is what each of the two threads is writing: `CreateLog`, `CloseLog`,
`CreateSys` (which cuts the file off), `WriteSys` for each part, `CloseSys`. The
threads interleave at every step, because nothing in the code keeps them apart. When
both have the file open at once the result depends on who closes last; that is
finding 4, and `overlap` remembers that it has happened and that its result is
still in the file or, after a start, in memory. The other properties are about the file without it.

The flash may refuse any operation. `LogFails` leaves `LOG_FILE` as it was or with some of its
entries; `SysFails` is `fopen` or `fwrite` failing in `create_sys_file`, which returns FAIL; when
`fclose` fails (`CloseSysFails`) nobody notices and it returns SUCCESS. `FileMngInit` and
`FileMngReset` look at that result (`DefaultsFail`, `ResetWritten`), `ProcFileMsg` and
`ProcFileThread` do not (`SaveWritten`, `ProcSaved`), and a failed save is lost (section 4). `lost` remembers that the last save
of `SYS_FILE` failed, until the next one opens the file or the power goes; after that a start
reads what there is. Reading may fail as well (`BootWithDefaults`, `LoadLog`,
`EmptyLogFails`).

A client thread writes the setting, takes the semaphore of its process, sends
and waits (`SetField`, `SendRequest`, `Receive`). The driver reopens its queue after `ErrorLimit`
errors; after the file manager has removed the queue that creates one that nobody
reads (`orphan`). `PowerLoss` empties everything but the two files, at any moment
(also in the middle of a save), and `Boot` or `BootWithDefaults` follow.

### 2.7 `AlarmServer`

`AlramScheduler` is one thread; a round is `Look` and what follows, each call of
`AviRun`, `JpgRun`, `AviStop`, `JpgStop` and each half of an update of `alarmstatus` a step of
its own. `AviStop` reads `gAviState` and acts later on what it read (`state`);
`JpgRun(flag, 1)` and `JpgStop(1)` count, and act on the number they found (`num`). The
polling thread runs the same calls from `RestartAll`.

Both managers run the same loop (`AviReady`, `JpgReady`): take the flags, show the
status and record, or hide it and sleep. `pthread_cond_wait` is called with a mutex
that does not protect the flags, so a run that comes between the test (`ready`) and
the sleep (`asleep`) sets a flag and wakes nobody; `Woken` wakes only a thread that
sleeps. `Appro_avi_save` is a process (`rec`) that ends when it is killed, when its
interval is over or, without one, when a file is full (`again`) or the card is.
Between the manager's test of the flags and the start of the process a kill finds
nothing: the model has the interleaving, and no property denies it.

A scenario fixes the settings for a behaviour: whether there is a card, whether AVIs are
wanted without one, whether pictures are, and how many alarms, restarts and
removals there are.

## 3. Runs

| run | bounds | what it shows |
|---|---|---|
| `osa_que` | 3 threads, 2 values, ring of 2 | `NoLostWakeup`, `IsFifo` (refines `BoundedFifo`), `WaitersServed`. Three threads allow one that comes between a signal and the thread it woke; two slots make the indices wrap and both conditions possible |
| `mcvip_capture` | 2 channels, 3 buffers each, missed frames | `BufferOwnership`, `NeverWaitsForRoom`, `FaultOnlyAtOwnEnd`, `NoDmaAfterFree`, `StopCompletes` (157,002 states). Two channels suffice for a frame of one to be put aside while the other waits; three buffers let every queue be empty while the other side still holds one |
| `mcvip_recover` | same | finding 1 |
| `osa_mbx` | 2 clients, 2 servers, 3 addresses, queues of 2 | `Ownership`, `SenderWaits`, `CallAfterCasts`, `CallsReturn`, `IsRemoteCall`. Fewer addresses than messages wanted, so they are reused at once; queues that fill |
| `mem_mng` | 4 blocks, 9 frames | `BlocksOwned`, `LookupFinds`, `IsFrameWindow` (refines `FrameWindow`), `WriteEnds`. Every size from one block to the whole memory, several times round |
| `gop_end_flag` | same | finding 2 |
| `gop_stream` | 3 blocks, 5 frames, 2 readers, 2 locks each | `CacheOwned`, `CacheIsTheGops`, `FollowsTheLiveGop`, `LocksAreHeld`, `HeldUnlessDropped`, `AskedForAnIFrame`. Written round at least once, caches that overflow, both readers on one GOP or on two; six frames were checked as well (3.9 million states) |
| `lock_lost` | same | finding 3 |
| `file_mng` | 2 threads of a process, 3 parts, 2 values, 2 calls, 1 loss of power, 1 failing operation | `UnsavedWillBeSaved`, `AnswersMatch`, `WholeSettings`, `SettingsReachFlash` (455 thousand states). The two threads compete for the semaphore of their process; two calls let a request come in while the other is saved; three parts are the three ways a part reaches the flash; one operation fails, anywhere. A third thread, of another process, was checked as well for the invariants (1.86 million states) |
| `save_overlap` | same, 2 parts, no loss, no failure | finding 4 |
| `alarm_server` | 1 place at the dispatcher, a recording every second round, 4 scenarios | `StatusMatches`, `NoStopOwned`, `DispatchBounded`, `RunsAgain`, `RunIsSeen`. Two alarms with a restart between, pictures with and without a card, intervals, and a card taken out and put in |
| `card_removed` | recordings on the card, two alarms, a removal | finding 5 |

Bounds in guards: `MaxOps`, `MaxLosses` and `MaxErrors` end the calls, the losses of power and
the operations that the flash refuses,
`config.alarms`, `restarts` and `removals` what their names say; `MaxSerial` ends the stream of frames, `MaxHeld` limits the
locks of a reader; `MaxHeld = 2` is what the streaming client needs (the new
frame is locked before the old one is released). Deadlock is checked in
`osa_que` and `osa_mbx`. Elsewhere the system really stops: the main thread has
deleted everything, or the last frame has been written and locked.

### Fairness

- `OsaQue`: weak fairness of what an awake thread does next: the mutex is
  released in every branch, so a thread that waits for it gets it. No thread is made to
  call, and no sleeper to wake by itself.
- `OsaMbx`: weak fairness of a server's and of a waiting client's steps: threads
  in loops without other waits. Sending is not fair.
- `McvipCapture`: weak fairness of the tasks and of the main thread once it is
  answered; strong fairness of a field arriving and of a frame being completed.
  The last two are assumptions about the camera: without a signal the capture
  task sleeps in `MCVIP_getBuf` for ever and `CAPTURE_stop` does not return
  (`MCVIP_forceWakeup`, which could wake it, has no caller). The later stages have no fairness
  at all; `StopCompletes` names what it needs of them, `LaterStagesAnswer`: whenever the
  capture task waits for the OSD task's acknowledgement or for room in the encode task's
  mailbox, the wait ends. The code has no limit for either wait, so `CAPTURE_stop` hangs when a
  later stage does. Under this and `RecoveryHeedsPoison` (section 2.3), `StopCompletes` still depends on
  the poison reaching a demultiplexer asleep on any channel.
- `MemMng`: weak fairness of the write loop, which waits for nothing.
- `FileMng`: weak fairness of each thread's steps. Calls, the quit command, losses of
  power and operations that fail are not fair; a step that fails is one that could have
  succeeded, so `SettingsReachFlash` excepts the failed save (`lost`). The semaphore of a process needs no strong fairness for
  `SettingsReachFlash`, because the number of calls is bounded.
- `AlarmServer`: weak fairness of the scheduler, `JpgMngThr`, the dispatcher's threads
  and the end of a recording that has an interval. `AviMngThr` has strong fairness: it
  competes for the semaphore of `alarmstatus`, which is released after each update
  and is given to those that wait. Alarms, restarts, cards and the polling thread are not fair.

### Why `AskedForAnIFrame` holds although the index can be stale

`gop.lastest_I` is not reset when the I frame at index 0 is freed (the tests in
`MemMng_VidFrame_Free` are `> 0`). A request that locks it finds another frame there.
It is refused: a P frame can be locked only next to a locked GOP, and for a GOP
to reach that far its frames would need more table entries than the cache has
blocks. The request that only reads (`MSG_CMD_GET_CUR_FRAME`) has no such luck; it
is listed as a hazard and not modelled yet.

## 4. Findings

1. `mcvip_recover` - `mcvip/mcvip_tsk.c:284`. "Missed frame threshold reached, trying to
   recover" assigns `status`; if the last discarded field times out, the capture
   loop is left as if the demultiplexer had failed, and capture ends.
2. `gop_end_flag` - `stream/mem_mng.c:736`. The frame before an I frame is to get
   `AV_FLAGS_MP4_LAST_FRAME`. At index 1, and behind a DUMMY frame, it does not.
3. `lock_lost` - `stream/gop_lock.c:415`. When the cache is full,
   `LockCurrentGopP` unlocks and deletes a GOP whatever its lock count. Its
   readers still hold frames whose blocks are reused.

4. `save_overlap` - `sys/file_mng_main.c:241`. The two threads of the file manager write
   `SYS_FILE` with nothing between them. The older save's last block can be the last
   to arrive: "Save system information in file manager immediately" was answered with
   success and the file keeps the old setting, with nothing pending. When the power
   goes during such an overlap a start can even accept a file with a hole.
5. `card_removed` - `sys/alarm_schedule.c:302`. A card taken out during an alarm makes the
   scheduler skip `AviStop`. `gAviRunNum` stays 1, and the next alarm, with a new card in,
   counts to 2 and starts nothing.

Three more things the models contain are not findings of a run of their own:

- a save that fails (`sys/file_mng_main.c:203`, `:215`, `:241`). The dirty flag is cleared before
  `WriteGlobal`, whose result nobody looks at. The request is answered with 0, "Success", the file
  keeps the old setting or is cut off, and nothing tries again until another change is made.
  `UnsavedWillBeSaved` and `SettingsReachFlash` except what the last save failed to write
  (`lost`), and say that everything else is saved;
- a lost wake-up (`sys/avi_mng.c:395`). A run is requested between the manager's test of the flags and
  its wait, with a mutex that protects neither. In the interval mode later rounds of
  the alarm signal again, and only the first recording is late (`RunIsSeen`). With a card
  `gAviRunNum` keeps later rounds from signalling, and the alarm goes unrecorded;
- a stop after missed frames that never returns (section 2.3).

## 5. Proofs

TLAPS proves the theorems listed in `PROJECT.json` ("theorems"), each for every value
of the constants that satisfies the named assumptions of its module. Every inductive
invariant below was first checked by TLC on the configuration of its component's run.

### 5.1 `OsaQueProofs`

For every finite set of threads, every set of values and every length of the ring:

- `TypeCorrect`: `Spec => []TypeOK`;
- `Invariance`: `Spec => []IInv`;
- `WakeupsKept`: `Spec => []NoLostWakeup`;
- `NoStandoff`: when a reader and a writer both sleep, a third thread is awake to make
  a test, so they cannot wait for each other;
- `Refinement`: `Spec => IsFifo`, the ring implements the bounded FIFO.

Assumptions: `MaxLen` is a positive natural number and `Threads` is finite.

`NoLostWakeup` says that while readers sleep, there are at least as many awake
readers as queued values, and the same for writers and free slots. It is
inductive given the type invariant: a put adds a value and, if a reader sleeps,
wakes one; a get takes a value and its own reader away; a reader goes to sleep
only when there is no value. The proof counts the sets of threads at each place
(`Arrive`, `Leave`). For the refinement the type invariant is too weak: that
`Contents` grows at its end and shrinks at its front needs `Segment`,
`curWr = (curRd + count) % MaxLen`. `IInv` is the conjunction of the three. `Wrap`, `Shift`,
`Fresh` and `InRing` are the facts about indices modulo the length.

### 5.2 `OsaMbxProofs`

For any clients, servers, commands and addresses and mailboxes of any length:

- `MailboxInvariant`: `Spec => []OInv`; `TypesKept`: `Spec => []TypeOK`;
- `EveryMessageOwned`: `Spec => []Ownership`; `SendersWait`: `Spec => []SenderWaits`;
  `CallsComeLast`: `Spec => []CallAfterCasts`;
- `MailboxesAreCalls`: `Spec => IsRemoteCall`, step by step.

Assumptions: `QueLen` is positive; `None` is no message and no address.

The properties speak of sets of places, which no single step describes well. `OInv`
says the same with one relation, `At(a, k, x, i)`: address `a` is at index `i` of the
place of kind `k` of thread `x`. `OnePlace` and `Allocated` together are ownership.
`SendersWait` is not inductive without `SentKnown`, what a client remembers of the
message it sent last, because addresses are reused: an acknowledgement is
recognised by its address, and only since nothing of an earlier call is under way can the
address not mean another message. `LastInLine` is stronger than `CallAfterCasts`: while
a client waits, its call comes behind everything else it has in that queue. In the refinement the
return of a call reads the status that was in the message when it was acknowledged
(`AnsweredIsAcked`).

### 5.3 `McvipProofs`

For any number of channels and at least two buffers each, as many as the driver
accepts:

- `CaptureInvariant`: `Spec => []MInv`; `TypesKept`: `Spec => []TypeOK`;
- `EveryBufferOwned`: `Spec => []BufferOwnership`; `PutsNeverWait`: `Spec => []NeverWaitsForRoom`;
  `BuffersOutliveDma`: `Spec => []NoDmaAfterFree`;
- `AckedTwiceAtOwnEnd`: `Spec => []FaultOnlyAtOwnEnd`;
  it includes that without missed frames nothing is acknowledged twice;
- with `~ MissedFrames` only: `CapturesUntilStopped`, `Spec => KeepsCapturing`. It is false without it
  (finding 1); the hypothesis is one of the two values of a constant.

Assumptions: the named ones of `McvipCapture`.

`MInv` has three layers. `Commands` says of each of the three threads what the one
above it knows of it from where it is itself: with one command under way at a time, the
place of the sender determines mailbox, acknowledgement and place of the receiver up to
three alternatives. The case of the second answer to START is in it: a capture task that stops while it still
has START as its message knows that the MCVIP task has ended its run, and was not told to. `PoisonLast` and `PoisonEndsRun` say where Poison can be: the last entry of
a queue of empty buffers, and in the full queue only once the run is over. `OnePlace`, `Covered` and
`Homed` are ownership by places; `Spare` says that one buffer at least waits in no queue:
a channel takes its first before anything runs and gives none away without another.
`PutsNeverWait` then counts: the places in a queue are mapped one to one into the buffers that
can be there (a pigeonhole argument with the library's theorems on cardinality). In the
full queue the spare one is missing; in a channel's queue of empty ones the buffer that
is put is, or the one the channel is filling, which leaves a place for Poison.

### 5.4 `MemMngProofs`

For any number of blocks, frames of any sizes and a stream of any length:

- `MemoryInvariant`: `Spec => []FInv`; `TypesKept`: `Spec => []TypeOK`;
- `EveryBlockOwned`: `Spec => []BlocksOwned`; `LookupsFind`: `Spec => []LookupFinds`;
- `MemoryIsFrameWindow`: `Spec => IsFrameWindow`.

Assumptions: `BlkNum` is positive, `MaxSerial` a natural number, `NoJob` no job.

The frame table and the memory are two circles that are written round together. `FInv`
sees both from the last write: `Age(i)` is how many frames were written after frame
`i`, `Back(i)` how many blocks after its last. `Youngest`: the frames in memory are the youngest of
the table. `InOrder`: each begins where the one before it ends, and serials grow.
`Extent` and `Covered`: together they are the blocks from the last write back to the last
that is not free, without a gap. `Progress` is about a write under way: it has freed as many of the
oldest entries as it counted, which is why its loop ends before it frees an entry
it would need. `BlocksOwned` and `LookupFinds` follow from `FInv` by counting and by the
order of the serials.

The refinement goes step by step: `StoreAppends`, `FreeOldestDrops`, and
`FillUpNotSeen`, since a DUMMY frame is no frame of the window; freeing a DUMMY
is not seen either (`NotSeen`). That a dropped frame is the one with the least serial is
`InOrder`; that `InMemory` is a function of the serials, with one frame for each
(`InMemoryNow`), is what makes an insertion of one an extension of the other.

### 5.5 `GopStreamProofs`

For any memory and cache, frames of any sizes, a finite set of readers and any number of
locks each:

- `StreamInvariant`: `GSpec => []GInv`; `StreamTypes`: `GSpec => []GTypeOK`;
- `CacheBlocksOwned`: `GSpec => []CacheOwned`; `CacheHasTheGops`: `GSpec => []CacheIsTheGops`;
- `FollowsTheLive`, `LocksHeld`, `HeldStays`: the same for `FollowsTheLiveGop`, `LocksAreHeld`
  and `HeldUnlessDropped`;
- `StreamUsesMemory`: `GSpec => Spec`, the specification of `MemMng`, so that its theorems
  hold of the stream's memory; `StreamLooksUp` states the one the handlers rely on.

Assumptions: those of `MemMng`, `CacheNum` positive, `Readers` finite, `MaxHeld` a natural
number. Nothing relates the sizes of the cache and the memory.

`GInv` stands on `FInv` of the memory and has five parts more. `Dense`: the serials in memory have no
gap. `Sound`: the cached frames have their blocks and their serials to themselves and count 1. The
serials in the cache are the union of the locked GOPs. `GopList`: the GOPs are disjoint; each begins with an
I frame and the frame after its end is an I frame, as far as they are still in memory.
`Locks`: the lock of a GOP is at most the number of frames of it in `held`, and exactly that unless a
GOP was ever taken away, in which case readers may hold frames of no GOP. While a write has stored
its frame and `PostProcess` has not looked at it, all this is about the frame before (`Newest`).

What makes it inductive is `GopList`. A GOP that is about to be locked shares no frame with a
locked one (`Apart`): that one would begin inside it, with an I frame that
`GetGopLastPwithStartSerial` would have stopped at. Without it a frame could be cached for two GOPs and
the counts would matter. Two facts about the code come out of it: no count in the cache ever
exceeds 1, so `CacheMng_Video_CacheUnlock` always removes the entry; and the branch of
`LockGopBySerial` that adds a P frame to the GOP before it (`gop_lock.c`) is never taken
(`AfterGop`): between writes such a frame is in that GOP already, because `stream_write` followed
it, or `stream_write` has given the GOP up.

`LockGop` and `UnlockGop` are recursive functions over the serials. Their proofs use no
induction scheme: a set of serials that has its least element and hands its members on to the next is
the whole interval (`Climb`, from the existence of a least element), applied to the set of
serials up to which the loop has done what it should. `UnlockGopRuns` and `LockGopRuns` show in the same way
that the functions the definitions choose exist. A frame taken out of `held` shifts the others, which
is a bijection between the places of the locks (`HoldsTail`).

### 5.6 `FileMngProofs`

For any processes and threads, settings of any number of parts (at least two), any
number of calls and losses:

All of it holds whatever operations of the flash fail, for any number of failures.

- `SavesInvariant` and `StartsWhole`: `Spec => []WholeSettings`. The invariant is `WInv`. `FileWhole` says that,
  without an overlap, the file is whole up to some part and ends there
  (`Partial`), and that this part is where the one save that has it open is; after a
  loss of power or a failure the save is gone and the file stays as it was. A file that is
  long enough is then complete (`ReadableIsWhole`). `SaversKnown` is needed to know what a
  save writes: before the server is up only the defaults are written, and from then
  on memory, which is whole by the property itself. `SaverSteps` is what each step
  of a save does to its record, `SavesKeepWhole` what it does to the file.
- `MailInvariant` and `AnswersToTheirThreads`: `Spec => []AnswersMatch`. `MInv` says of a message wherever it is
  (request queue, server, answers) that its thread holds the semaphore of its
  process and waits with that command (`MailOwned`), that a process has one at a time
  (`MailAlone`), and that there are none once the queue was removed (`QueueGone`; without
  it a thread that gives up would leave a message behind).
- `TypesInvariant` and `TypesKept`: `Spec => []TypeOK`. Two of the types are arguments of their own. A
  start reads what the last save left, and no part it reads may lie beyond the end of the file: `Filled`
  says that a file has no end before its last part, `Buffered` that what a save has in its buffer is
  part of the settings. And a process's errors are bounded by its calls: every error belongs to a call that has ended, so
  errors and threads under way together are at most the calls (`CountTyped`).
- `ChangesAreSaved`: `Spec => []UnsavedWillBeSaved`, needs both invariants before it: that the request that will save a
  change is still under way is known from the mail, what a save writes from the
  types. It is stated for the time after a save that did not fail (`~ lost`): a failed one leaves nothing behind that
  stands for the change, as section 4 describes. What has to be added is that the server ends, and its queue goes, only after the
  quit command (`Ended`), and that the save of the defaults at a start has written the parts in
  front of its position (`DefaultsFirst`).

Assumptions: the named ones of `FileMng`; `Zero`, `Gone` and `None` are no values
or threads, the default is a value.

### 5.7 `AlarmServerProofs`

For every limit, every period and all settings and numbers of alarms, restarts and
removals:

- `DispatcherLimit`: `Spec => []DispatchBounded`; the early look at the count is not used,
  the test in `DoFileDispatch` is.
- `RecordingsInvariant` and `NoStopOwnership`: `Spec => []NoStopOwned`. The flag and the number agree because every call
  changes both or neither (`FlagAndNumber`). That the scheduler still means to stop the
  recording needs `RunKnown`: `aviRun` is set from the first round of an alarm to
  the round that ends it, and what `StopAvi` read of the flags still holds when it acts.
- `StatusInvariant` and `StatusIsTrue`: `Spec => []StatusMatches`. `Semaphore` says that whoever holds
  `hAlarmStatusSem` is between its two halves and that what it read is still there; the rest (`BitsFollow`)
  is the property and where each manager is when its bit is on. The property
  turns out to hold also while the semaphore is held.
- `CountersInvariant` and `TypesKept`: `Spec => []TypeOK`. The bound of `gAviRunNum` and `gJpgRunNum` is
  the number of cards taken out and one. It needs that a card that is out already accounts for a run
  (`~ card => aviNum <= removals`) and that a number at its bound belongs to the scheduler's own run, which it is
  about to stop (`AviOwed`, `JpgOwed`). The bound of the type invariant was the number of alarms until
  the proof was tried: a scheduler that is paused while a new card is mounted starts the
  same alarm twice, which the scenarios of the run do not reach.

Assumptions: `DispLimit` and `Period` are positive, the scenarios are scenarios.

### 5.8 What is only model-checked

Of `GopStream`, `AskedForAnIFrame`: the argument of section 3 needs the path of the table index through a whole turn of
the memory while one GOP grows, and holds only for a cache no larger than the memory. Then all liveness
(`WaitersServed`, `StopCompletes`, `CallsReturn`, `WriteEnds`, `SettingsReachFlash`, `RunsAgain`, `RunIsSeen`), which is
out of the prover's reach; and the properties that findings refute.

## 6. Not modelled

More than four fifths of the lines of the repository are third-party code or generated
tables (ffmpeg with x264, avahi with expat and dbus, libupnp, libesmtp, live555, boa, the
chip support library, fonts): the program uses them and does not define what they do, so the share of all
lines that the models cover stays small however much of the program's own code is
modelled.

Of the program itself: deletion of a queue or mailbox in use; broadcast and flush
(unused in the pipeline); the contents of frames; the MJPEG and audio memories;
overflow of the 32-bit serial (at 30 frames a second it takes more than two years);
reader processes that die, which leave their locks behind. The later stages are seen from the capture task as
answers that come or do not, and nothing is claimed of them. Of the system server: `malloc` failing for a log
entry, and shared memory, a semaphore or a thread that cannot be created at the start of the file
manager; the
command table and its setters, which are one assignment each; the rest of `RestartAll`
and the control of other programs; unmounting and formatting a card; audio and
log events; the calendar of `schedule_mng.c`, whose sender is commented out;
file names, serials and destinations of recordings; the exit sequences of the alarm
server. A stop of `Appro_avi_save` that comes before it starts is in the model and no
property is about it, because no document says what should happen. Then the
components marked `not_modelled` in `PROJECT.json`, each with its reason.

## 7. Plan

Next, in this order:

1. `DvrTeardown`: encode and stream task with their pool (`osa_buf.c`), RUN
   messages, `UI_sysStart` with its error paths and `UI_sysStop`. Properties: a
   pool is not used after it was deleted, no stage waits for a deleted one, one RUN per
   full buffer.
2. `OsaFlg` with several waiters; `OsaSem` and the IPC semaphore against an abstract
   counting semaphore.
3. `OsaMbx` with tasks that are clients of each other, so that a circle of waits and a sender starved at
   a full mailbox are among its behaviours.
4. `McvipCapture` with a restart after STOP.
5. `GopStream` with `MSG_CMD_GET_CUR_FRAME`, the new-frame rendezvous, and readers
   that die.
6. The basket recorder's circular files and recovery; the system server's command
   table and exit sequence.

Theorems worth proving next: `AskedForAnIFrame` of `GopStream`, for a cache no larger than the memory
(`CacheNum <= BlkNum`). What `GInv` has to be strengthened with: an I frame in memory is never younger than
`gop.lastest_I`, so that without one at that index there is none; while the index is 0 and its entry is the
I frame or empty, the GOP that reaches the newest frame has at least `cur_frame + 1` blocks in the cache (a
DUMMY takes an entry, but the frame after it has at least two blocks); and once the entry is another
frame's, every locked frame is older than that one, since the cache was full before. TLC finds no violation of the three with four
blocks, seven frames and one reader, and refutes the last for a larger cache. Then the
invariants of the modules above as they are written.
