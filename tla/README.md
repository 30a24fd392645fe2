# Verification of the ibm360m65 emulator

TLA+ models of the concurrent parts of this repository, checked with TLC, and
theorems about all of them, proved with TLAPS. The repository holds an IBM
System/360 Model 65 in two forms: a modified Hercules emulator
(`src/hercules`, C), and the gates of the machine as automated logic diagrams
(`src/src/ald`) that a translator (`src/tools/ald_compiler`) turns into C or
VHDL. In some builds Hercules and the gates run side by side.

Line numbers below are those of the files under `src/`.

## 1. The system

### 1.1 Which build

The source knows four programs: with `COMPARE_M65` (the gates and Hercules
execute each instruction and are compared), with `SOFTWARE_M65` or
`HARDWARE_M65` (the gates are the CPU, Hercules does the I/O), and plain.
`src/hercules/Hercules.vcxproj` defines `COMPARE_M65` for its Win32 builds and
none of them for Release|x64, nor do the makefiles. The models are of the plain
one, where Hercules alone is the machine: one CPU
(`MAX_CPU_ENGINES` is 1), S/370 mode. In it the I/O scheduler is a choice of
the platform: `w32chan.c` on Windows (`OPTION_FISHIO`), the device threads of
`channel.c` elsewhere. Both are modelled.

### 1.2 Components

| component | state it keeps | operations | interacts with |
|---|---|---|---|
| Channel subsystem: `channel.c`, `io.c`, `hmacros.h` | per device `busy`, `startpending`, `ioactive`, `reserved`, `scsw`, the pending flags; `sysblk.iointq`; `IC_IOPENDING` | SIO, TIO, HIO, TCH, attention, resets, `execute_ccw_chain`, `present_io_interrupt` | the CPU (calls, `intlock`, `intcond`), a scheduler (requests), device handlers (calls) |
| CPU interrupt loop: `cpu.c` | PSW, `waiting_mask`, interrupt state | `process_interrupt`, `perform_io_interrupt`, wait | channel, timers, console |
| Windows scheduler: `w32chan.c` | list of thread parameter blocks, one request queue, two events and a dead flag per thread, `ios_devtmax` | `ScheduleIORequest`, `DeviceThread`, trimming | startio calls it, it calls `execute_ccw_chain`; `devtmax_cmd` |
| Device threads: `channel.c` | `sysblk.ioq` linked through the devices, `devtwait`, `devtnbr`, `devtmax` | `startio`, `device_thread`, `devtmax_cmd` | the same |
| Device I/O cache: `cache.c` | table of entries (key, flags, age, buffer), counters, lock and condition | lookup, wait, set flag/key/age, release, create, destroy | `ckddasd.c`, `fbadasd.c`, `cckddasd.c` share it |
| CKD and FBA disks: `ckddasd.c`, `fbadasd.c` | the device's current track, its cache entry, whether it must be written | read track, update, start and end of a channel program, close | the cache; called by the channel |
| 360/65 mailboxes: `360_ros.cpp`, `cpu.c`, ALD pages WA, KX, KM | request, response, counter and release latches | a gate-level CPU asks the host for I/O and storage | `run_single_instruction`, `present_io_interrupt` |
| Compressed disks: `cckddasd.c` | the cache again, with pending writes, a readahead queue and counts of waiters; per file a header, tables and a chain of free spaces | read, update, write behind, read ahead, collect, close, sf commands | the cache, the channel (`cckddasd_start`, `cckddasd_end`) |
| Thread package: `fthreads.c` | per condition two Windows events, a count of waiters and a lock; a list of joinable threads | wait, signal, broadcast, join | everything on Windows |
| Message logger: `logger.c` | a ring of messages and its readers | write, read, wait | panel, HTTP server |
| Timers: `timer.c`, `clock.c`, `external.c` | clocks, external interrupts | update thread, presentation | CPU |
| IPL and reset: `ipl.c` | none of its own | system reset, load | CPU, channel |

The others (instruction interpretation, gate-level data paths, the ALD
compiler, card, printer, tape, communication and console devices, panel,
configuration, shared disks, vendored libraries) are listed in
`PROJECT.json` with the reason why each is not modelled. Most are sequential
functions or wrappers of I/O; the shared disks and the communication adapters
have threads of their own and come late in the plan.

### 1.3 How a channel program goes

1. `SIO` calls `startio`, which under `dev->lock` refuses a busy device or makes
   it busy and `startpending`. A disk may be tried *synchronously*: the CPU's
   thread runs `execute_ccw_chain` itself.
2. Otherwise the request goes to the scheduler, which runs
   `execute_ccw_chain` on a device thread. A synchronous attempt that meets a
   command it cannot do at once is given up (`CSW 0E40`, `syncio_retry`) and
   the rest goes to the scheduler too.
3. Each CCW may raise a PCI. The end of the program makes the device free and
   queues its ending interrupt on `sysblk.iointq`. The queue is changed under
   `dev->lock` and `iointqlk`; *afterwards* the thread takes `intlock` and
   updates `IC_IOPENDING`, the CPU's summary bit, waking a waiting CPU.
4. The CPU finds the bit on, picks the first entry its PSW enables, releases
   `iointqlk`, takes `dev->lock`, looks again and dequeues it. TIO can clear
   the interrupt instead; HIO turns flags off.

### 1.4 What is hard in it

- Three threads change one device's `busy`, `ioactive` and `startpending`.
- Queue, pending flags and summary bit are three records of one thing, updated
  in two steps, under different locks.
- `present_io_interrupt` uses what it read before it released a lock.
- Schedulers: a thread that times out, or decides there are too many threads,
  as a request is being given to it; limits changed with no lock held; waits of
  POSIX conditions that return though nobody signalled.
- The cache's entries change hands between a device's lookup and its end of
  program; sleepers rely on one signal per freed entry; reads, writes and
  programs fail half way; only the changed part of an image is written.
- Compressed disks: five kinds of thread own entries of one cache, each under
  another combination of four locks; a write is pending for a while, may be
  taken back, may fail, and commands wait for a count of them to become zero.
- The file of a compressed disk is changed in place while the collector moves
  its parts, and must be readable after a crash.
- Condition variables on Windows: a transmission has a beginning and an end,
  and threads begin to wait, or give up waiting, between the two.

`PROJECT.json` lists each such hazard at its line with the properties that
would catch it, or the reason why none does yet.

### 1.5 What makes each part correct

- Channel: one program per device; a busy device will come free; no interrupt
  is lost or doubled, unless the program starts a device over its last status; a CPU is not left asleep; TIO does not lie.
- Schedulers: every accepted request is executed, once.
- Cache and disks: an entry in use stays its user's; changes reach the disk or
  an error is reported; no sleeper is forgotten.
- Compressed disks: no update is undone unless the file has errors; a command that waits for the disk's i/o
  ends; each unit of the file has one use; what the last sync points to stays.
- Condition variables: no signal sent while a thread waits is missed, none is
  received twice, a broadcast reaches everyone who was waiting.
- Mailboxes (planned): every request of the gate-level CPU is executed once
  and answered once.

## 2. The modules

### ChannelIO: channel subsystem and CPU

One action is one section under a device's `dev->lock` or one under
`sysblk.intlock`, since that is where threads interleave; `iointqlk` is only
taken inside one of them. Sections that touch nothing shared are merged with
their neighbours.

| variable | code |
|---|---|
| `busy`, `startpending`, `active`, `reserved` | the bits of `DEVBLK`; `active` is `ioactive = DEV_SYS_LOCAL` |
| `halted` | `SCSW2_FC_HALT` |
| `flags` | `dev->pending`, `pcipending`, `attnpending` |
| `iointq` | `sysblk.iointq`, as a sequence |
| `ic`, `signal` | `IC_IOPENDING`; `regs->intcond` signalled |
| `req` | a *request*: one accepted start and where its execution is |
| `cpupc`, `cpureq`, `cpuio` | the CPU's thread inside `startio` or `process_interrupt` |
| `mask`, `wait` | the PSW |
| `attnupd` | a console thread between queueing and updating |
| `unreported` | history: `dev->csw` is an end status nobody has taken yet |
| `hasty` of a `req` | history: when its SIO was accepted, the last end was `unreported` |

Actions: `StartioAsync`, `StartioSync`, `Schedule`, `ScheduleFail`, `SyncDone`,
`SyncRetry` are `startio`; `ChainBegin`, `Pci`, `PciUpd`, `Ccw`, `RetrySync`,
`ChainEnd`, `EndUpd` are `execute_ccw_chain`; `TestIoPending` is `testio`,
`HaltIoBusy` and `HaltIoIdle` are `haltio`, `Attention` is `device_attention`;
`PickInterrupt`, `TakeInterrupt` are `present_io_interrupt` with
`perform_io_interrupt`; `EnterWait`, `Wake`, `OtherInterrupt` the wait state.
The operators `Enqueue` and `Dequeue` are the loops of `hmacros.h`.

`startio` tests `busy` and not `pending`, so a start may be accepted while the
last ending status is queued. Its own end then writes over `dev->csw`. That is
what `hasty` is for: `NoLostEnd` says that a status not seen stays queued
(`EndQueued`) and that no other program can end over it
(`EndOverwrittenByHasty`).

Abstracted: the guest program (any instruction at any time, any PSW), CCWs (a
program has some number of them, each with or without PCI; it may end after
each), status and CSW contents. A reservation may be made or dropped by any
command of a `Reservable` device.

### IoScheduler: what a scheduler promises, and what it is asked

The abstract specification: a request of a device that has none is accepted,
run, ended; every accepted request is run. It joins the channel to both
schedulers: FishIO and DevicePool implement it, and ChannelIO *uses* it. `Stage`
in ChannelIO says of each device how far the scheduler is with its request, and
`UsesScheduler` that these stages behave as IoScheduler says: the channel gives
the scheduler no second request for a device whose first has not ended.

### FishIO: the Windows scheduler

The scheduler lock is `holder`, each thread's block lock makes an action of
what is done under it. `ScheduleIORequest` is `SchedulePooled`/`ScheduleOnce`
followed by the `Select...` actions and `Create`; `DeviceThread` is `Wake`,
`Timeout` and `ThreadStep`; the devtmax command is `SetDevtmax` and the `Trim`
actions, the walk over freed blocks included: where the source follows the
link of a block it has just freed, the model takes the old link or garbage
that ends the walk. Creation of a thread and its first request are one step,
see the hazard at `w32chan.c:405`. With `AllowSwitch = FALSE` the devtmax
command keeps the sign of the limit.

### DevicePool: the device threads

One action per hold of `ioqlock`. The list is modelled as the code has it:
`ioq` and a `nextioq` per device, so that a ring or a lost tail could appear.
`Entry` follows the links; `QueueSound` says that they are a list.

Outside Windows `wait_condition` is `pthread_cond_wait`, and `device_thread`
does not test why it returned. `SpuriousReturn` is a return without a signal:
the thread has not been counted out of `devtwait`, and `Loop` counts it in
again. `Spurious` admits it, and `MaxWait` bounds how far `devtwait` may have
come for it to happen. `devtwait` is then no longer the number of waiting
threads, only at least that (`QueueServed`).

### DasdCache: the cache and its disks

A device is alone with the table between `cache_lock` and `cache_unlock`, so
that is one step. Reading and writing a track, and `cache_unlock`'s look at the
counters after it has released the lock, are steps of their own. An image is
`"disk"` (equal to the track), `"new"` (changed) or `"other"` (something else).
A write takes to the disk what was changed since the last one (`bufupdlo` to
`bufupdhi`). One that fails forgets these bounds, and the track is in
`unwritten`; a later good write (`WriteOk`) then either rewrites what failed,
and the image equals the track again, or does not, and nothing changes.
Counters are kept by increments as in `cache.c` and compared with a count by
`CountersExact`. Ages are a sequence in order of use; `Aged` says whether an
entry can get so old that the preferred one is taken in place of the oldest.
CKD and FBA handlers are one module, since their use of the cache is the same:
what an FBA disk does differently is the size of what it calls a track.

### CckdCache: the track cache of compressed disks

A compressed disk keeps its own account of the same cache: entries are being
read or written (`IoBusy`), active, updated, or pending write. One action is a
section under a device's `iolock`, `wrlock`, `ralock` or the cache lock; the
transfers to and from the file lie between them.

| variable | code |
|---|---|
| `entry` | key, flags and image of each entry of `CACHE_DEVBUF`; an image is the number of updates made to its track |
| `file` | the image of each track in the file |
| `Faulty`, `Fragile` | constants: the tracks whose reads, whose writes may fail |
| `cckd` | `ioactive`, `updated`, `opened` (`CCKD_OPENED`), `merging`, `stopping`, `iowaiters`, `wrpending`, `ras` of `CCKDDASD_EXT` |
| `current` | `dev->bufcur` and `dev->cache` |
| `iocond`, `cachecond`, `racond`, `wrcond` | who is blocked on each condition |
| `pc`, `job` | the i/o threads and the readahead threads |
| `raq` | the readahead queue |
| `writer`, `wrpending` | the writers and `cckdblk.wrpending` |
| `gcol`, `cmd`, `chain` | the collector, the operator's command of each device, the device chain |

Actions: `StartIo`, `StartWoken` are `cckddasd_start`, `Update` is
`cckd_update_track`, `EndIo` is `cckddasd_end`; `ReadTrk`, `SearchAgain`,
`IoWaitWoken`, `ReadEnd`, `FlushNext`, `CacheWait` are `cckd_read_trk` with
`cckd_flush_cache_all`; `Readahead` is `cckd_readahead`, `RaNext`, `RaEnd` are
`cckd_ra`; `WriterBegin`, `WriterNext`, `WriterEnd` are `cckd_writer`;
`GcBegin`, `GcDevice`, `GcFlush`, `GcWoken` are `cckd_gcol`; `CloseBegin`,
`CloseFlush`, `CloseEnd` are `cckddasd_close_device`, `SfFlush`, `SfEnd` are
`cckd_sf_add`. What `cckd_flush_cache` does, the signal to a writer or its
creation included, is the operator `FlushCache` that all of them use.

A read that fails leaves a null image (`Null`, older than all others) in the
cache as the track's, and the program goes on with it; an update of it does
not bring the track's own image back (`Updated`). A write that fails leaves the
file as it was, and the entry counts as written.

### CckdSpace: the file of a compressed disk

`cckd->filelock` makes each operation one step. `GetSpace`, `RelSpace`,
`FlushSpace`, `WriteL2`, `WriteL2Ent`, `WriteTrkimg` and `GcL2` are functions
from a file (header counts, chain of free spaces, tables) to the next; loops over
the chain, and those of the collector, are recursive functions of the number of
steps (`FlushChain`, `ClearAll`, `MoveTables`, `MoveUsed`). The
actions compose them as `cckd_writer`, `cckd_harden`, `cckd_gc_l2`,
`cckd_gc_percolate` and `cckd_gcol` do. The header's counts are kept by the
increments of the source, and the properties compare them with what is there.
History: `released` (units given up and how often flushed since), `synced` (the
tables at the last sync).

### FthreadCond and ConditionVariable: conditions on Windows

FthreadCond is one condition variable of `fthreads.c` with the mutex it is used
with: `BeginWait`, `WaitForTransmission`, `ReceiveXmission`, `ReturnFromWait`
and `QueueTransmission`, by any number of threads, some of which time out.
ConditionVariable is what the rest of the emulator takes for granted, in
terms of who owns the mutex, who waits, and which notice is under way. It has
two liberties real callers must live with: a thread that comes late may share a
broadcast, and one whose time is up takes with it a notice it came too late for.

### ChainOps: chains of control blocks

What the list macros of `linklist.h` and the order of use of `cache.c` have in
common, as operators on sequences. FishIO, DasdCache and CckdCache use it.

### Proof modules

`X_proof` holds the theorems about module `X`; `ChainOps_proof` holds the lemmas
that several share.

### MC modules

`MCChannelIO`, `MCFishIO`, `MCDevicePool`, `MCDasdCache`, `MCCckdCache` and
`MCCckdSpace` give the constants values; FthreadCond needs none. Definitions
commented "As if ..." in the modules are plausible mistakes in the definition
after them. No specification uses them; `PROJECT.json` pairs each with a
property, and puts it in the place of that definition to show that the property
notices.

## 3. The runs

| run | instance | shows |
|---|---|---|
| `channel_safety` | disk (tries synchronous I/O) and console on one channel, two requests, one CCW | eight invariants of ChannelIO over 1 220 000 states: interrupts, queue, summary bit and the CPU's wait |
| `channel_liveness` | one reservable disk, chains of two CCWs, a scheduler that may refuse | one program per device and no device available too soon, reserved or not; every accepted start gives up the device or is refused; a CPU enabled for a queued interrupt is woken; the scheduler is used as IoScheduler allows |
| `fish_io` | two devices, two thread blocks, limits -1, 0, 1 | the scheduler's blocks and queues are sound; it implements IoScheduler with its liveness |
| `device_pool` | three devices of two priorities, three threads, limits -1, 0, 1, 2, waits that return unsignalled | the list is sound, no request is left without a thread; it implements IoScheduler's safety, and urgent devices are served |
| `cache_safety` | three disks on two entries: one whose programs are tried synchronously, one whose reads fail, one whose writes fail | no entry or wakeup is lost, no change without a failed write, no image is served that was not read |
| `cache_single` | one disk with all of these, closed and opened, cache made and destroyed | the cache goes only when nobody uses it |
| `fthread_cond` | three threads, two of them with timeouts | the events and the count agree, a transmission has a receiver; it implements ConditionVariable with its liveness |
| `cckd_cache` | one disk of three tracks, two of them updated, one read ahead and its writes may fail, the reads of the third may fail; two entries, one readahead thread, one writer, the collector with fsync, close and sf | pending writes are counted, a writer is on its way to each, entries have one owner, no update of a track without errors is undone |
| `cckd_space` | two tracks in two tables, images of length 0, 2 and 3, a file of at most 11 units | every unit has one use, counts and chain agree, space is reused late enough |
| `cckd_race`, `cckd_hang`, `cckd_crash` | | violations, see section 6 |

### Bounds, and why they are enough

- **Requests in flight** (`|Req|` = 2) for two devices: one program per device,
  or two on one, which is what `ExclusiveChain` forbids (checked with the one
  device of `channel_liveness`, since it speaks of one). Requests are
  reused, so behaviours have no bound.
- **`MaxCcw`** is 1 in the safety run, 2 where chaining, retries in the middle
  of a chain and reservations matter (`channel_liveness`). The
  theorems cover every value for all the safety properties.
- **Devices**: two suffice to have entries of different priority overtake each
  other; three kinds of interrupt per device give a queue of up to six. They are
  on one channel, which the PSW masks or not; that the PSW may enable some of
  several channels is covered by the theorems, which prove all ten invariants.
- **Threads**: as many blocks or threads as devices can have requests, so a
  request never waits only because the model has run out of threads.
- **`IdleMax` = 1** replaces the 3 idle threads the source keeps; with three
  threads the limit is met, with 3 it would not be.
- **`MaxWait` = 2**: a wait returns unsignalled only while `devtwait` is below
  that, so `devtwait` may exceed the waiting threads and pass `IdleMax`, and
  threads leave for it. It is the greatest bound for which `QueueServed` holds
  with a limit of 0: one more, and the last thread leaves (section 6). With
  other limits no bound is needed, which is what `QueueIsServed` proves.
- **`Nbr` = 2** cache entries for three disks: two disks hold all entries and
  the third has to wait. `Track` has two tracks, three in `cache_single`, one
  more than the entries, so that images are evicted.
- **CckdCache**: two entries for three tracks, so entries are stolen, waited for
  and busy beyond the 80% at which a read flushes everything; three tracks
  because readahead begins behind the second of two adjacent ones. `Written` and
  `MaxImage` bound the updates: two tracks, one of which is read ahead, each
  once; the update of one meets the collector waiting for the other. Errors are
  apart, `Fragile` the track read ahead and `Faulty` the one not updated; that
  reads and writes of one track fail is covered by the theorems. `MaxPending`
  bounds `cckdblk.wrpending`, which also counts writes taken back until a writer
  finds nothing and resets it. `Races = FALSE` in `cckd_cache` keeps out what
  `cckd_race` shows (an sf command during a readahead), and a close during an sf
  command. The two entries are symmetric.
- **CckdSpace**: `MaxSize` holds the tracks and tables about twice, so the file
  gets full and writes fail; tables of two units and images of two and three
  make rests that are too small, imbedded, and joined; `FreeMin` = 4 makes both
  branches of the imbedding happen, and `ManyFree` = 2 (100 in the source) lets
  the collector, too, take more than it needs. `Moves` bounds the two loops of
  `cckd_gc_l2`; what is proved of them holds after any number of turns. The chain after `cckd_harden` is taken to be
  read again before it is used, see section 5.
- **FthreadCond**: with three threads a broadcast has two receivers and a late
  third, and a signal two candidates. The theorems cover every number.
- The switches `AllowSchedFail`, `AllowSwitch`, `AllowLastFail`, `Spurious`,
  `Aged`, `Made` and the sets `Sync`, `Faulty`, `Fragile`, `Closing` choose which
  troubles a run admits. Each trouble of the code is admitted by some run
  except `AllowLastFail` and `AllowSwitch = TRUE` in DevicePool, where the code
  abandons a request (hazard at `channel.c:1957`), `AllowSwitch = TRUE` in FishIO
  and `Made = FALSE` with several disks, which section 6 describes.

Deadlock is checked, except in the runs of CckdCache and CckdSpace: the guest
program can always do something, so a state without a step would be an error.
In CckdCache a closed disk with its threads waiting has really stopped, and the
bounds on updates and pending writes are guards; CckdSpace writes no more once
the file is full.

### Fairness

Threads that can take a step take it (weak fairness per thread), and channel
programs end; both schedulers rely on the operating system for the first and
on the device handlers for the second. A device thread that wants `intlock`
while the CPU takes one interrupt after another is blocked on and off; strong
fairness for those steps says the lock is granted eventually, as
any fair mutex does. In the same way a thread of FthreadCond that wants
`CondVarLock` or the mutex gets it if it is free again and again, and in
CckdCache a close gets the device chain's lock, and a channel program ends
although it could always read one more track. Nothing is assumed of the guest
program, of the operator or of timeouts; none of the liveness properties needs
a timeout to expire.

## 4. What is proved

Every theorem holds for any finite sets of devices, threads, tracks and
requests, any priorities, limits and lengths, as far as the assumption next to
the module's constants lets them vary (`ChannelAssumption`, `PoolAssumption` and
so on: that sets are finite and not empty, that limits are numbers, that names
differ). Where a theorem needs more, because the code does not have the property
without it, it says so as an `ASSUME` of its own, and the tables below say why.

Each invariant is proved from a stronger one that is inductive: `Init` implies
it, every action keeps it (one step of the proof per action), and it implies the
property. TLC finds the invariants of FishIO, DevicePool, DasdCache, CckdCache and
CckdSpace true of the instances of section 3, too.

### The channel, and conditions on Windows

| theorem | property | argument |
|---|---|---|
| `TypeCorrect` | `TypeOK` | inductive with `ReqSound` (a request in use has a device, and one that may yet fetch a CCW has one left) and `CpuSound` (the request the CPU waits for inside `startio` is where the CPU thinks it is); together `TypeInv` |
| `FlagsQueued`, `QueueInOrder` | `FlagQueued`, `QueueOrdered` | `EnqueueProperties` and `DequeueProperties` say what the loops of `hmacros.h` add, keep and order; `QueueSteps` reduces each step of the system to one enqueue, one dequeue or none |
| `EndsKept` | `NoLostEnd` | `EndQueued` from the same lemmas; `EndOverwrittenByHasty` since `ChainsExclusive` leaves no other program on a device whose program ends, so that a device becomes `unreported` with none in flight, and a program that comes into flight later was accepted over it |
| `ChainsExclusive` | `ExclusiveChain` | inductive with `HeldByRequest`: the device of a request in flight is busy, and startpending or active as far as the request has come. That is what makes the busy test of `startio` refuse a second one |
| `NoPhantom` | `NoPhantomBusy` | `BusyHeld`, under the assumption that the scheduler refuses nothing; without it the property is false (section 6) |
| `AvailableFree` | `AvailableIsFree` | `OwedShown`: an end status still owed has its flag on, or HIO dropped the flag, and then the device is busy; and a busy device is one SIO and TIO find busy |
| `PickIsStable` | `PickStable` | between picking and dequeueing the CPU alone takes entries off the queue |
| `SummaryIsAccurate`, `NoWakeupLost` | `SummaryAccurate`, `NoLostWakeup` | `UpdateSteps`: a step that changes the queue leaves an update pending, and an update makes bit and queue agree and signals a sleeper; a CPU that goes to sleep with an enabled entry queued found the bit off, so an update is pending |
| `SchedulerUsed` | (`UsesScheduler`, its safety part) | a step of one request moves the stage of its device only (`StageOfOnly`), since by `ChainsExclusive` no other request of the device is in flight; so each action is Accept, Run, End or a stutter of IoScheduler |
| `FthreadCond`: `TypeCorrect`, `TransmissionIsSound` | `TypeOK`, `TransmissionSound` | inductive together, strengthened by who holds `CondVarLock` between two sections; cardinalities of `Registered` change by one with each registration and reception |
| `ImplementsCondition` | (`Implements`, its safety part) | each action of `fthreads.c` is one of ConditionVariable's or leaves its variables alone; `Register` is the step in which a thread gives up the mutex and becomes a waiter |

The queue lemmas need the order of the queue itself: the search for an entry
that is already there stops at the first entry of greater priority number, so
only in an ordered queue does it find it. That is why `QueueOrdered` is the
strengthening the absence of duplicates rests on.

### The schedulers

| theorem | property | argument |
|---|---|---|
| `FishIO`: `TypeCorrect`, `BlocksAreSound`, `QueuedIsServed` | `TypeOK`, `BlocksSound`, `QueuedServed` | inductive with: what a thread at each of its steps has done to its block; a queue holds at most one request, and that of a thread which will look at it again; the sign of the limit that whoever holds the scheduler's lock has seen still holds, and the device it schedules is with no thread; no device is with two threads |
| `ImplementsScheduler` | (refinement of IoScheduler, its safety part) | the stage of a device is where its one request is; each action moves one stage by Accept, Run or End, or none |
| `DevicePool`: `TypeCorrect`, `QueueIsSound` | `TypeOK`, `QueueSound` | inductive with what the counters count. A chain of pointers describes at most one sequence (`ChainUnique`), so `Entry` is the list if any list is; `InsertChain` and `RemoveChain` say what the pointer changes of `startio` and `device_thread` do to it |
| `QueueIsServed` | `QueueServed` | `Served`: while something is queued, some thread is between waking and its next look at the queue; and `devtwait` counts every waiting thread, so that startio finds it zero only when none waits |
| `ImplementsScheduler` | `Implements` | as for FishIO |

FishIO's theorems assume `~AllowSwitch`, DevicePool's `QueueIsServed` that,
`~AllowLastFail` and `Spurious => 0 \notin Limits`: a devtmax command that changes
the sign of the limit, a failure to create the only thread, and waits that
return unsignalled where there is no limit, lose requests (section 6). What
DevicePool says of the list, and its refinement, need none of these; nor does
`TypeCorrect`, which for that reason says of `devtwait` only that it is a natural
number.

### The cache and its disks

| theorem | property |
|---|---|
| `TypeCorrect` | `TypeOK` |
| `BusyIsNotStolen` | `HeldIsKept` |
| `CountersAreExact` | `CountersExact` |
| `NoWakeupIsLost` | `WakeupForEachFree` |
| `NoChangeIsDropped` | `NoChangeDropped` |
| `ImageInHandIsRead` | `ImageRead` |
| `UsersHaveTheirCache` | `UsersHaveCache` |

`NoChangeIsDropped` does not say that an image equals the track once a later
write was good: after a failed write it may differ from the disk, with nobody
to write it, until it is changed again or read again (section 6).

They share one invariant: entries of different disks have different keys, each
disk's hold on an entry shows in the entry's flag, the order of ages lists every
entry once, and each sleeper has a wakeup or finds every entry busy.

All assume `NeverEmpty \/ OneDevice`. `cache_unlock` decides that a cache with no
key in it may go, after it has released the lock; another disk may have begun
to use it meanwhile. So either there is only one disk (as in `cache_single`), or
the cache never becomes empty (as in `cache_safety`): it is in use from the
start, no disk is closed, and those whose reads fail, which release entries, are
fewer than the entries and do not reach the most recently used one. `Stays`
is that argument: some entry always keeps its key.

### The track cache of compressed disks

| theorem | property | argument |
|---|---|---|
| `TypeCorrect`, `PendingIsCounted`, `WritesAreScheduled` | `TypeOK`, `PendingCounted`, `WritesScheduled` | `Inv`: which flags an entry can have together (`FlagOK`), what each thread has in hand (`IoOK`, `Threads`, `WritersOK`), and the counts as cardinalities of sets of entries and threads (`Counted`, `Waiters`). No assumption |
| `EntriesHaveOneOwner` | `OneOwner` | `Own`: an entry being read has one reader, which expects the entry's own track; and a command for which the disk has been made quiet has no readahead beside it, so its purge meets no read |
| `UpdatesAreKept` | `NoUpdateLost` (action property) | `Kept`, below |

The last two assume `~Races`; without it both are false (TLC finds counterexamples
to each; `cckd_race` keeps the second). `NoUpdateLost` speaks of the tracks outside
`Faulty` and `Fragile`, as a failing read or write loses updates of its own track;
whatever fails on other tracks does not matter to these.
`Kept` adds to `Own` that no track has two entries; that an entry not being read
is at least as new as the file, and is equal to it unless it is updated, pending
write or being written (`Fresh`, of tracks without errors); and that an entry stays active only in the
hands of the running program (`HandOK`). Each part is needed: by `Fresh` a steal
or a purge, which spare what is yet to be written, lose nothing; by `HandOK` a
program that ends leaves no entry that a later purge would treat as in use; by
the reader's knowledge in `Own` an image read goes to the entry of its track. A
write that overtakes a program, and a program that takes an entry back
from a writer, are both cases of `Fresh`.

### The file of a compressed disk

| theorem | property | argument |
|---|---|---|
| `EachUnitHasOneUse` | `Tiled` | `Placed`, `Apart`: owners (tracks and tables) have disjoint intervals within the file, and no free space meets one; `Full`: there is nothing else |
| `SpaceIsCounted` | `SpaceCounted` | `Counted`, `Imbed`: the header's counts are cardinalities of the units of the chain and of what images leave of their spaces; `Chain`: free spaces are disjoint and in order |
| `ReleasedIsReusedLate` | `ReusedLate` | `Held`: a unit released n flushes ago lies in a free space that is pending at least Pend - n times |

They share one invariant, `Consistent`. An operation keeps it only as a whole:
`cckd_write_trkimg` takes space for the image, writes the table's entry, for
which it may take space for a table and release the old table's, and then
releases the old image's. Between these steps some units belong to nobody, so the
lemmas are about `Good(f, U)` and `Full(f, U)`, where the units U are *in hand*:
`GetSpaceTakes` adds the space got to U, `Reassigned` gives it to an owner and puts
what the owner had in U, `RelSpaceReleases` returns it to the chain. At the end
of a write that succeeds U is empty. One that fails drops U: the units are lost
to the file, `Good(f, {})` still holds, `Full` does not, and what was released
before the failure is only known to be nobody's. That is the weak half of
`Consistent`, and why `Tiled` allows units without a use once a write has failed.

The chain of free spaces is treated as a sequence throughout: `ChainReplace`,
`ChainRemove`, `ChainInsert`, `ChainFront` and `ChainAppend` say what remains in
order and disjoint. `FlushChainFlushes` is induction on the length of the chain:
each step joins or appends one space, the units stay the same, and no unit's
pending count falls by more than one, though a space with one more is joined to
the one before it. `StaysPending` says the same of all other operations, with no
fall: they take from spaces that are not pending and join only equals. So a
unit released is held for Pend flushes whatever happens between them; that also
covers a harden, which flushes four times, as often as anything can be pending.

The theorems hold for every `FreePend`, with and without fsync, and for any
lengths of images, threshold of imbedding and size of the file. The collector's moves are a
sequence of writes, each of which reaches a sound file from a sound one
(`ReachedOn`); what it chooses to move does not matter to them.

### Lemmas

`ChainOps_proof` states induction and recursion on a number as lemmas about sets
of numbers and functions (`InductionTo`, `RecursionTo`), since the
library's, which take an operator, cannot be used; and from them what
`Without` keeps, removes and leaves in order.

### Only model-checked

- Liveness, which rests on fairness that the prover does not treat here: the
  properties of `channel_liveness`, the liveness part of every refinement,
  `UrgentExecuted`.
- That the properties the findings contradict are false of the code: each is a
  behaviour TLC prints.

## 5. What is not modelled, and why

- The mailboxes between the gate-level CPU and the host: when the host may see
  which value depends on the delays of gates of other pages, and what those
  delays are to the host is not in the source. The instruction loop of
  `cpu.c:1229` is what a model would begin with.
- Device reset, system reset, IPL, attach and detach: they free a device whose
  request may be on a scheduler's list. They belong in a composition of the
  channel with a scheduler, which is planned.
- Machine-check, external and program interrupts, except as what ends a wait.
- The contents of CCWs, CSWs, tracks, messages: no property is about them.
- Returns without a signal from waits other than that of `device_thread`. Those
  of `cpu.c`, `cache_wait`'s callers and the loops of `cckddasd.c` look again at
  what they wait for, so such a return is a wakeup that finds nothing; those at
  shutdown (`cckddasd.c` 253-273) do not, and shutdown is not modelled.
- Exhaustion of memory, and writes outside the table that follow from it
  (`cache.c:563`).
- Devices served to other systems (`shared.c`), the only users of
  `DEV_SYS_REMOTE`.
- A release of `dev->lock` by a thread that does not hold it
  (`channel.c:1962`): undefined, and dependent on the mutex.
- Threads of `fthreads.c`: the list of joinable threads, join and detach. A
  detach between a thread's last look at its state and its exit leaves its
  block on the list.
- `logger.c`: `currmsg` and `wrapped` are read without the lock the writer holds.
- Compressed disks: caching of level 2 tables (an entry of a table that was
  never written is lost when its image is purged), `cckd_steal_l2`, which may
  take the table another device uses (`cckddasd.c:2861`), compression and its
  failures, the
  merge and check of shadow files, freeing of the extension at close, which a
  readahead thread may still read (1551, 1570), several files per device. The
  chain of free spaces is taken to be in memory: after a harden it is read again
  when space is asked for, but `cckd_gc_l2` (4920) walks it before. Where there
  is no room for the chain, `cckd_write_fsp` (2694-2702) writes it at offset 0;
  the model stops.

## 6. Findings

Shown by runs; `PROJECT.json` quotes the comment or page each one contradicts.

- `cckd_race`: sf commands purge the cache while a readahead reads into it; an
  update is lost.
- `cckd_hang`: the end of a channel program flushes instead of waking the
  command that waits for it, and with nothing to write nobody is woken again.
- `cckd_crash`: the collector counts released space down although it skipped
  the sync, so that after a crash the tables point to space written over.

Met while modelling, and not shown by a run:

- A refused request leaves `busy` and `startpending` on
  (`channel.c:1929`, `1963`, `1985`), though `w32chan.c:132` expects the program
  to try again; `AllowSchedFail` admits it, `NoPhantom` assumes it away.
- HIO of a busy device sets `SCSW2_FC_HALT` (`channel.c:404`), which
  `execute_ccw_chain` does not test (2216), and "clears pending interrupts"
  (406) by their flags only, leaving them queued.
- A devtmax command between the scheduler's and the thread's look at
  `ios_devtmax` (`w32chan.c:490`) loses an accepted request.
- Two disks that use the cache for the first time both create it
  (`cache.c:431`); `cache_unlock` compares the counters after the lock is gone
  (148).
- `cckd_gcol` waits for writes without being counted in `iowaiters`
  (`cckddasd.c:4597`), and a writer announces its end only to them: with fsync
  the collector may wait, the device chain locked, until somebody else waits
  too or the device is closed.
- `cckddasd_start` reads the key of its last entry into two variables that keep
  zero if there is none (495-499), and may take an entry that was purged and
  read again meanwhile: harmless, as the key is compared.
- A device thread whose `pthread_cond_wait` returns unsignalled counts itself into
  `devtwait` again (`channel.c:1281`). With no limit to the threads, the default
  (`hostopts.h:191`), they leave when `devtwait` exceeds 3 (1275): repeated, the
  last one leaves too, `devtwait` stays positive, and the next request is
  signalled to nobody (1948). TLC shows it as a violation of `QueueServed` with
  `MaxWait` = 3 in `MCDevicePool.cfg`. `scsitape.c:1677` expects such returns.
- `cckd_writer` does not look at the result of `cckd_write_trkimg`
  (`cckddasd.c:1828`): a track that could not be written is marked written.
- A track of a compressed disk that cannot be read gets a null image
  (`cckddasd.c:3066`), which stays in the cache as the track's, to be updated and
  written over what could not be read. A readahead reports it to nobody (1384);
  for an i/o thread `unitstat` is set, but `cckd_read_track` returns 0.
- A device may be started while its last ending status is queued
  (`channel.c:1822`); the next end writes over it (2599) and one interrupt shows
  for both. No document says what such a SIO should be answered.
- `ckddasd.c` and `fbadasd.c` forget what a failed write should have written
  (872, 891). A later good write of another part of the track succeeds, and the
  cached image differs from the disk with nobody to write it.
- `cckd_ra` tests the index of the queue's first element as if it were a count
  (1562): with element 0 first it schedules nobody for the rest.

## 7. Plan

Built in this order because the channel subsystem is what every build of the
program has in common and where most of its threads meet. Done: ChannelIO, the
two schedulers and their abstract specification, the channel's use of it, the
cache and its disks, the track cache and the file of compressed disks, the
condition variables, and the proofs about all of these.

1. **ChannelReset**: device reset, system reset and IPL, composed with
   ChannelIO and DevicePool; hazard `channel.c:1063`.
2. **IoMailbox**: the interface between the gate-level CPU and the host. Gate
   side: pages WA 20-182, KX 95-384 and 585-600, KM 653-735 of
   `src/src/ald`; host side: `run_single_instruction` (`cpu.c` 1229-1345),
   `perform_io_interrupt` (617-710) and `present_io_interrupt`. Two things to
   settle there: in these builds `present_io_interrupt` dequeues an interrupt
   but never sets `icode` (`channel.c` 2725), so that no response may ever be
   written; and the request counter of page WA passes through an intermediate
   value for one unit delay, which the host might sample.
3. The logger's ring, joinable threads, timers and external interrupts, shared
   disks.
