# Verification of the emulator's threads and of the distributed seed search

This directory holds TLA+ models of the concurrent parts of the emulator (a fork of mGBA with tools for
distributed seed search), TLC configurations that check them on small instances, and proofs that TLAPS checks
for every value of the constants. Everything is translated from the C, C++ and Python sources; line numbers in
comments and in `PROJECT.json` refer to them.

| file | what it is |
|---|---|
| `CoreThread.tla`, `MCCoreThread.tla` | the core thread, its callers, the renderer and the audio device |
| `CoreThreadProofs.tla`, `CoreThreadSafetyProofs.tla` | theorems about it |
| `RingFIFO.tla`, `MCRingFIFO.tla`, `MessageQueue.tla` | the lock-free ring buffer, and the queue it implements |
| `RingFIFOProofs.tla` | theorems about it, the refinement included |
| `VideoThreadProxy.tla`, `MCVideoThreadProxy.tla`, `VideoThreadProxyProofs.tla` | threaded video: the logger's writer and its proxy thread, and theorems about them |
| `Rewind.tla`, `MCRewind.tla`, `RewindProofs.tla` | rewinding: the ring of patches and its diffing thread, and theorems about them |
| `Lockstep.tla`, `MCLockstep.tla`, `LockstepProofs.tla` | the link cable between the cores of one process, and theorems about it |
| `LaneLease.tla`, `Ledger.tla`, `LedgerClients.tla`, `MCLedger.tla` | the lane ledger of a search over several devices: what it promises, its methods, and the devices that work for it |
| `LedgerProofs.tla` | theorems about it, the refinement of `LaneLease` included |
| `WorkerPool.tla`, `MCWorkerPool.tla`, `WorkerPoolProofs.tla` | the pool of worker processes on one device, and theorems about it |
| `*.cfg` | one file per run, listed below |

## Inventory

The repository has about 2000 files. What is concurrent, or keeps state over failures, is small:

| part | state | operations | talks to | what is hard | what makes it correct |
|---|---|---|---|---|---|
| core thread `core/thread.c` | `state`, `requested`, `interruptDepth`, `run` under `stateMutex` | start, interrupt/continue, pause, reset, run a function, wait, crash, end, join | every frontend thread; callbacks on its own thread; sync | nested interrupts of several threads, requests made under an interrupt, sleeping in another module's wait | requests are kept and answered, an interrupt excludes the machine, an end is reached and final |
| frame and audio sync `core/sync.c` | two wait switches, the pending frame, the audio buffer | post/wait frame, produce/consume audio | core thread, renderer, audio device; `_wait` and `mCoreThreadEnd` switch it off | peers that stop, a broadcast that nobody hears | nobody stays asleep in it when the thread is wanted elsewhere; its switches are kept |
| ring buffer `util/ring-fifo.c` | two atomic pointers | write, read, clear, size | thread proxy, display-thread proxy | no lock; wrap decisions on both sides | a queue of whole messages; the copies never meet |
| video thread proxy `feature/thread-proxy.c`, `feature/video-logger.c`, `gba/extra/proxy.c` | `threadState`, one event, the queue | write packets, wake, wait, post an event, reset, lock, deinit; the reading loop | core thread's machine, renderer backend | two conditions, unlocked reads of the state, a full queue, corruption and restart | alignment, order of events and packets, every call returns |
| display-thread proxy `qt/VideoProxy.cpp` | the queue, two Qt conditions | the same interface, read by the display's thread | as above, the display's event loop | a wake-up without the mutex | every call returns |
| rewind `core/rewind.c` | two states, a ring of patches, `ready` | append, restore, diffing thread | core thread | two appends before one diff | a restore gives the state before |
| event timing `core/timing.c` | sorted list of events, 32-bit clock | schedule, deschedule, tick | all hardware | wrap-around, scheduling inside callbacks | events fire in order and once |
| link lockstep `gba/sio/lockstep.c`, `gb/sio/lockstep.c`, `qt/MultiplayerController.cpp` | transfer state, posted cycles, who waits | attach, detach, start/finish transfer, wait, signal | up to four core threads | cycles posted across threads, players leaving | nobody waits for a player who waits; no data before it is sent |
| frame stepping `qt/CoreController.cpp` | `m_moreFrames`, frame actions, key masks under `m_actionMutex` | set paused, advance a frame, finish a frame | core thread | `m_actionMutex` held while waiting for the core thread | exactly the frames asked for, with the keys committed before |
| savestate cache `qt/SavestateMemoryCache.cpp` | entries, LRU ticks, bytes used | insert, get, evict | controller | accounting | the bound holds |
| worker pool `tools/spinda/native_phase3_worker_pool.py` | pending bundles, running processes, ZIPs | launch, poll, scale down, requeue | worker processes, the disk | killing a worker after part of its bundle | each lane done once, no lane lost |
| ledger `tools/spinda/phase3_command_center_web.py`, `phase3_ledger_worker_client.py` | a record per lane with owner and lease, in a JSON file | claim, heartbeat, finish, fail, release, reconcile | workers over HTTP | leases that expire while the work goes on; late and repeated calls | a lane has one owner; done stays done |

Emulated hardware (CPU cores, memory, DMA, audio, renderers), formats and I/O, the widget code of the frontends,
the other ports and the batch tools are single-threaded; `PROJECT.json` lists them with the reason they are left out.

## Plan

1. **Done:** `CoreThread`; `RingFIFO` with `MessageQueue`; `VideoThreadProxy` over that queue; `Rewind`; `Ledger` with
   `LaneLease` and `LedgerClients`; `WorkerPool`; `Lockstep`. Each has a module of proofs.
2. Left to model, in this order: frame stepping (`m_actionMutex`, `m_moreFrames`, the pending key masks of `qt/CoreController.cpp`) composed
   with `CoreThread`; the display-thread proxy `qt/VideoProxy.cpp`, as a second reader of the logger; event timing as operators with 32-bit times;
   the Game Boy's link cable, whose driver differs from the modelled one in its transfers of one byte.
3. Proved: every invariant and action property of the passing runs (`RequestServedOnReturn` for one caller of each operation), and of all liveness properties
   but `PoolEnds` the safety part: that no thread sleeps without somebody left to wake it (see *What is proved*).

Runs take from seconds to about three minutes each, so that the whole project is checked at once.

## CoreThread

One core thread (`_mCoreThreadRun`), any set of frontend threads, a renderer and an audio device.

*State.* `state`, `requested`, `interruptDepth` and `run` are the fields of that name. `core` is the place of the core
thread: the loops of lines 326 and 337, inside `runLoop`, asleep in `mCoreSyncPostFrame` or `mCoreSyncProduceAudio`, at
or in the wait of lines 342-378, in the deferred callbacks of lines 398-426. `pending`, `wasPaused` are its locals, `todo` the callbacks its flags
ask for. `pc`, `op`, `saved` are a frontend's place, operation and the locals of `_waitPrologue` (they are cleared when they go out of
scope, which keeps the state space small). `holds` and `coreHolds` say who has an interrupt to give back. `served` and `turned` are
history variables: whose request was carried out, and what the two switches of `mCoreSync` were set to since they were last turned off for a
caller that polls or for the end. The switches are independent, as the core's options are.

*Actions.* One per `mCoreThread` function, up to its return or to the place where `_wait` gives `stateMutex` away;
`SleepOnInterrupt` is `_waitOnInterrupt`; `Poll` is one round of `_wait` and of the loop around it; `PollDone` is the end of
that loop with `_waitEpilogue`. The core thread's steps follow `_mCoreThreadRun`.

*Granularity.* A section under `stateMutex` or under one of the two mutexes of `mCoreSync` with no wait inside is one
step; a `ConditionWait` ends the step, and the wake-up begins another. `state` is read without the mutex on lines 326 and
337, so these reads are steps. `videoFrameMutex` is held by the renderer while it draws (`mCoreSyncWaitFrameStart` returns with
it), hence the guard `~Drawing` of everyone else. `_wait` unlocks, tries the frame mutex, wakes, and locks again: these are one step, as each part only wakes
someone. `ConditionWake` is a broadcast. A wake-up without a broadcast is
modelled for the core thread (`SpuriousWake`).

*What callers do.* `MayCall` states the callers' discipline: the interface is used between the return of
`mCoreThreadStart` and `mCoreThreadJoin`; a thread that holds an interrupt does not call a function that waits for the
end of one. One bound is put on it: a thread does not interrupt again what it has interrupted. The Qt frontend does (a Python session keeps its
`Interrupter` while `setAudioKillswitch` or `setNoRenderMode` takes another, `CoreController.cpp:731,758,767,779`); such an inner interrupt finds `interruptDepth > 1`, returns at
once, and its continue only counts down again, as the interrupts of a second thread do here.

*Left out.* The attached debugger's loop, the thread-local logger, scripting storage, the rewinding flag, the bodies of
callbacks beyond the calls they make to the thread.

*Runs.* In all of them a machine or a callback acts only through `CoreOps`, and a thread calls only its `FrontendOps`.

| run | instance | shows |
|---|---|---|
| `ThreadControl` | the user interface makes every call, `peer` ends waits, the machine crashes, shuts down, pauses and waits, and callbacks switch sync and interrupt their own thread | `NoLostRequest`, `PausedMachineStands`, `DepthCountsHolders`, `InterruptKept`, `RequestServedOnReturn`, `ExitIsFinal` |
| `ThreadDevices` | one frontend that interrupts, resets, pauses and ends; frames and audio with devices that may stop; `setSync` at any moment, by the core's callbacks and by the thread of a linked player | `InterruptExclusion`, and under fairness `CallsAnswered` (an interrupt is granted, the wait for a reset or a pause ends) and `EndReached` |
| `ThreadHolder` | one frontend, and callbacks that interrupt their own thread | **violated**: `MachineStandsWhileHeld` |
| `ThreadSync` | a core that switches its own sync while a frontend waits | **violated**: `SyncKept` |

The only bounds are the sets of threads and operations: the depth of interrupts is at most the number of threads plus
one. One frontend with the full interface and one that wakes cover the
pairs of callers the repository has (the window's thread, and the threads of linked players).

*Findings.* (1) `mCoreThreadInterrupt` does not wait when an interrupt is already held (line 611), and
`mCoreThreadInterruptFromThread` turns INTERRUPTING into INTERRUPTED for whoever waits (lines 626-629). If the holder is a callback inside `runLoop`, the machine
goes on after the callback continues, under the caller's interrupt, until `runLoop` returns.
`ScriptingController.cpp:1199-1202` counts on not even a tiny window of this kind. (2) `_waitEpilogue` writes back the switches it found at the beginning: a
`setSync` made meanwhile by the core thread (the lockstep callbacks) is lost, where `CHANGES:910` says that interrupting
no longer breaks sync.

*Fairness.* The core thread is scheduled (WF on its own steps); `runLoop` returns again and again, because a batch of events is
bounded by the next event's time (SF, since a callback or a sleep disables it in between); a thread in `_wait` keeps polling; a mutex that is given back over and over is
obtained (SF where the renderer competes for it); the renderer's wait has a timeout of 50 ms and its frames end. Frontends need not call
anything, and the audio device need not read: the interesting case is that it has stopped.

*Excused.* `CallsAnswered` excuses a thread that has ended: a reset asked for after that is never carried out, and the loop of
line 126 goes round. It also excuses `HeldByDevice`: `_waitPrologue` turns the switches off once, so a `setSync(true)` made while the caller polls
(`MultiplayerController.cpp:90,106,118,135`) turns a wait on again, and when the device of that wait has stopped, the caller polls until the device goes on. The second half of the property says that with
devices that go on there is no such exception. `EndReached` has the same one for a `setSync(true)` after `mCoreThreadEnd`. `ExitIsFinal` excuses a crash reported after an end (`_crashed` writes the state unconditionally).

## RingFIFO

The pointers are offsets, the memory is a function from offsets to bytes. A call loads the other side's pointer and
decides (`WriteStart`, `ReadStart`), copies (`WriteCopy`, `ReadCopy`) and stores its own pointer (`WriteStore`,
`ReadStore`); the other side may do anything in between. A copy is one step: `CopiesDisjoint` shows that
its bytes cannot be seen half-way. `queue` is a history variable that holds the messages and where they lie, and `MessageQueue` is the abstract
specification: `IsQueue` is the refinement, in which a message is put by the store of `writePtr` and taken by the store of `readPtr`.

The callers' contract is in the model: one writer, one reader; a read asks for the length of the oldest message, as both callers do
(fixed headers, then the size the header names); messages are shorter than half of the buffer (0x1000 of
0x40000 bytes in `thread-proxy.c`); `RingFIFOClear` is called while neither side is in a call, which `ClearedWhileQuiet` of `VideoThreadProxy`
shows for its reading side (the writer is the one who clears). Unbounded pointers do not occur, so no counter is capped; the run has 8 bytes and messages of one to three
bytes, which makes either side wrap at every offset and leave gaps of every size at the end.

## VideoThreadProxy

The CPU thread runs renderer calls; each is a sequence of steps taken from `gba/extra/proxy.c` (for instance
`FinishFrame` writes a packet, then `Flush` = a flush packet and a wait). `plan` is what is left of the call, `cpu` the
place in its first step, `proxy` the place of the proxy thread, `held` the mutex between `_lock` and `_unlock`. Packets are kinds: a self-contained one (`item`), the head of a VRAM
block and its bytes, written by two calls and read by two, the second of which blocks, and a flush.

The queue is used through what is proved of `RingFIFO`: a call is one step, a read fails only if it is empty
(`NeverStuck`, `TouchMeansEmpty`), and a write may fail at any time unless it is empty (`NeverStuck`), since
free space depends on the wrap. `MaxQueue = 4` bounds it: more than the longest sequence of packets of one
call. The unlocked accesses of the code are steps of their own: `_wait`'s look at `threadState`, the packets' writes and reads, `_wake`'s signal, the write
of STOPPED by a thread that found a corrupted packet. Corruption is a fault the code handles, so it is one here (`Corruptible`), though `ImplementsQueue` says the queue does not
cause it; the properties hold with it.

`VideoThread` checks that reader and writer stay aligned through resets, dropped writes and recoveries (`Aligned`), that a closed logger has no running
thread (`ClosedAtRest`), that the queue is cleared only while nobody reads (`ClearedWhileQuiet`), that an event is handled after all packets
before it (`EventSeesAll`), that a flush has drawn everything when it returns (`FlushDraws`), and that calls return (`CallsReturn`). Fairness: both threads go
on while they can; conditions may return without a wake-up, but not for ever.
The exception in `CallsReturn` is `Stranded`, a CPU thread that waits for a proxy thread that stopped on a corrupted packet. `_wait` looks at the state only once, so the
thread may stop after that. `_postEvent` never looks (137-146): the thread may stop with an event pending or just before it, and a reset, which neither waits nor recovers
(56-65), hangs every time it is called with the thread stopped, until then unnoticed. The other calls that find the thread stopped return: a refused write gives up, a wait starts the thread again.

Left out: what packets say, the caches of dirty blocks, `PutPixels` writing while the proxy thread draws (its lock
does not cover drawing; pixels only), the copy of VRAM, OAM and palette in `_reset` that precedes the wait. `gb/extra/proxy.c` repeats this code with one
difference, a wait inside `lock` in its `getPixels` (301-316), which would stop a logger whose mutex is not recursive; no caller attaches such
a logger to it, so it is not a behaviour of the program.

## Rewind

The core thread appends a state at every frame (`_frameStarted`, `thread.c:154-163`) and a thread of its own records the
difference to the state before in a ring; going back, by the core thread or by `CoreController::rewind` under an interrupt,
applies the patches in reverse. `previousState` and `currentState` are the two files, each a set of bits, and a patch is the symmetric
difference. `current`, `size`, `onThread` and `ready` are the fields of that name, `open` says that `currentState` is not NULL, `thread` is
the place of the diffing thread and `caller` the place of `mCoreRewindContextDeinit` between its flag, its wake and its join.
Every other section is under `context->mutex`, hence one step. `past` is a history variable with the states that can be gone back over; it begins with
a blank one, because the code's first patch is made from an empty file: going back below the first saved state
returns true, though the blank file cannot be loaded.

| run | instance | shows |
|---|---|---|
| `Rewind` | two states of one bit each, rings of one and three patches, opened and closed in any order | `RestoreGoesBack`; under fairness `AppendDiffed` (after an append comes a diff, of it or of one that overtook it, before the ring is closed, unless a deinit stops the thread before it first got the mutex) and `DeinitReturns` |
| `RewindRace` | three states, a ring of three | **violated**: `OnlySavedStates` |

Rings of one and three entries make `current` wrap both ways and start beyond a smaller ring that is opened after a larger one (`current`
is not reset); nothing else is bounded, because `past` never has more states than the ring and one. Fairness: the diffing thread is scheduled
(WF) and a deinit that began goes on (WF). The frontend need not do anything.

*Finding.* An append does not wait for the diff of the append before. Two appends that overtake the diffing thread leave one patch for two states, and
a later restore gives the core a mixture of states (`RewindRace`; `CHANGES:1305` says that rewinding no longer gets out of sync). `overtaken`
is true from the first call that comes before a diff was made: `RestoreGoesBack` speaks of the restores until then.

Left out: the size of states. `_rewindDiff` extends the shorter file and a patch covers both, so that a blank tail is equal to none; sizes are taken to be multiples of
16, as those of Game Boy Advance states with their save data and clock are, where `diffPatchFast` is exact (its tail loop, `patch-fast.c:61-78`, advances by words where it means bytes). The
diff in the caller's own thread is never used: `thread.c:718` always asks for a thread.

## Lockstep

Up to four Game Boy Advance cores of one process are linked by `gba/sio/lockstep.c`, whose callbacks in `MultiplayerController.cpp` put
core threads to sleep and wake them. `players` holds, by seat, the fields of `GBASIOLockstepNode` and `MultiplayerController::Player` of that
name (`diff`, `next`, `finished`, `posted`, `mask`, `awake` are `eventDiff`, `nextEvent`, `transferFinished`, `cyclesPosted`, `waitMask`, `awake`); `timer` is for how many cycles
the node's event is scheduled, `driver` whether `sio->activeDriver` is the node, `load` being the moment between the two locked sections of
`_switchMode`; `phase` is `transferActive`, `loaded` both counters. `with` (whom the master's last wait was for), `wrapped`, `overrun` and `moved` are history variables.

*Actions.* Every handler holds the controller's mutex from beginning to end, hence `Event`, `StartTransfer`, `Load`, the unloading half of `Switch`, `ResetCore`, `Attach` and `Detach`
are one step each. `Event` includes the update of master or slave, all callbacks it makes and the rescheduling. The machines run at speeds of their own between their
events: an event comes at any time and may be up to `Lates` cycles late. An event is called off just after it was scheduled or
just before it is due, the two ends of what the machine's clock can say. `Detach` unloads twice, as `detachGame` does. `normal8` and `normal32` are modes of their own, which share a
counter: the master waits only for nodes in exactly its mode (`lockstep.c:362`).

*Resets.* `ResetCore` is the reset of a core that the driver serves. A core thread asleep in `WAIT` carries out a reset too (`thread.c:380-421`), so the player need not be
awake: `GBASIOReset` (`sio.c:102-110`) unloads its driver and nothing wakes it. The code then hangs in two ways, which the model has and the properties except by name
(`ResetAsleep`). A slave reset in its sleep stays asleep in GPIO, where the posts of the master pass over it (`MultiplayerController.cpp:105-107`), until the master itself unloads. A master
reset in its sleep keeps its `waitMask` with the transfer IDLE, in which no slave has a reason to signal: it sleeps until those it waited for leave the driver, and they go to sleep waiting
for it.

*The clock.* `diff` wraps as `eventDiff` does, at `DiffLimit` (2^31 in the code). A player alone in multiplayer mode never resets it (`lockstep.c:466-480`): after 2^31 cycles, about two minutes of
play, it is negative, and if a second player joins then, the master's next update posts it and `addCycles` calls `abort()` (`MultiplayerController.cpp:94`).
`wrapped` says that a player's `diff` went over since it was last 0, `overrun` that a master was unloaded in that state, which posts the number without looking.

*Run.* `Lockstep`, by `Parties` (how many join, with which modes, how many changes of mode, resets and late events, how many leave, and whether a player alone in multiplayer mode has events): three players
in multiplayer mode with one change or with one who leaves; two players with all modes, one change and one leave; and two players, the first of whom may be alone for as long as the wrap takes. `DiffLimit` is 32
there, twice the cycles of a transfer alone. `Increment` has to exceed the few cycles a sleeping player overshoots, as 2000 does in the code: 4 against lateness 1
here. `MaxPosted >= Increment` keeps the bound from ever stopping a master for good. `NoAbort`: the program aborts only after the wrap, never through an event called off, moved or late;
the other `abort()` (`lockstep.c:368`, a wait refused because the master sleeps) cannot be reached, since only a master that runs makes an update;
`CaughtUp`: what the comment at `lockstep.c:339` says, for those the master waited for (a player that loads between STARTED and FINISHING was not among
them); `SleepersWake`: a player asleep in `WAIT` runs again, whatever mode changes, resets of others, ends of transfers and departures happen meanwhile, up to the exceptions above. Fairness: a
thread that is awake comes to its next event, and a mode change that began ends (WF). No game has to start a transfer.

*Excused.* `moved`: when a player leaves a seat before another for whom the master waits, the seats shift but `waitMask` does not, and the master waits for the bit of
a seat nobody has. `CaughtUp` and `SleepersWake` speak of executions until then.

*Left out.* What is sent, `SIOCNT` but for the ready bit, `setSync` (its effect on the core thread is in `CoreThread`), the Game Boy's driver. `attachGame` runs on the core's own thread as
it starts (`CoreController.cpp:167-168`) and appends to `m_players` without the controller's lock, so that another core's callback can meanwhile see the list half changed: the model has it
in one step. `posted` and `next` do not wrap. Also no property fails when a player is counted twice (`sio.c:140`): the sum in `loaded` decides only whether the ready
bit is set and whether idle slaves give themselves cycles, and both are allowed at any count.

## Ledger

`Phase3LaneLedger` on the coordinator keeps, for every lane of a search, who works on it under a lease; worker clients on all devices claim lanes,
work and report over HTTP, and the command center of every device sends heartbeats with what the files of that device say.

`Ledger.tla` has one operator per method: each holds the ledger's lock from reading the file to replacing it, so each is one step, and the operator
gives the records it writes. `lease` is the time left (`lease_until_unix - now`). The statuses "claimed" and "running" are tested together everywhere and are one, "active".
`LedgerClients.tla` has the devices: `clients` is the place in `main` of the worker client with its locals, `pools` its pool as `run_claimed_batch` and
the pool's status file show it, `orphans` what pools that outlived their client still have to do, `sidecars` the client's own status file, `panels` the command centers that run, `beats` their heartbeats under way, each with the
files' contents of the moment it was built, and `late` the calls that timed out at their client and may still be carried out. `zips` are the final ZIPs in each device's folder.

*Faults.* A client's call times out and is carried out later or never; heartbeats are delayed, reordered and lost; a pool exits, with its work done or not; a client dies alone (its pool, a `Popen` of it, dies too or
works on and goes on writing its status file), with its machine, and comes back, perhaps while the old pool still runs; the client's status file goes stale while it waits for its pool; the ledger's file cannot be read and is
taken for an empty one (`_read_unlocked` returns an empty payload, which the next write makes final); time passes.

| run | instance | shows |
|---|---|---|
| `Ledger` | the coordinator's device and a helper, one lane, leases of one tick, one message under way | `LeasesAreLocks` (refinement of `LaneLease`), `DoneHasZip`, `SharedOnlyIfForfeited`, under fairness `DeadHoldNothing` |
| `LedgerDead` | the same with leases of two ticks | **violated**: `CrashedOwnNothing` |

One lane is enough for what the properties say of a lane, because no method relates one lane to another but the count of a claim; a second lane takes the state
space past five million states. The safety properties are proved for any number of lanes, devices and messages. `MaxUnderWay` and `Outlived` (the devices
whose pools may outlive their client: the helper) are the bounds.
Fairness: time passes, what is under way arrives or is lost, and the status file of a dead client grows old (WF each). Nobody has to claim or report.

`SharedOnlyIfForfeited` is as strong as the code allows: a lane may be worked on by two devices, be it by a pool without its client, but only after the lease of one of the two ended under it, by expiry, by a
heartbeat with older news, by a status file that was not refreshed for five minutes (lanes queued in the pool are then reported by nobody), by a late call, or by an unreadable file.
`DeadHoldNothing` needs the whole machine to be off.

*Finding.* If the client and its pools die and the command center does not, the pool's status file goes on listing the lane as running. The command center takes `running` from it however old it is, each
heartbeat reports the lane active, and each import renews the lease (`phase3_command_center_web.py:1542`): the lane is never claimable again, although the class promises that "a
crashed subordinate does not permanently own a lane" (1060-1061).

The command center's body also carries the summary of its own device's ledger (`send_once`, 361-408). It adds nothing: a subordinate's ledger refuses claims with 409, so that nothing
is ever active in it, and what it calls done are the ZIPs of its own folder, which the body lists already. The local branch of `HandleBeat`, `LocalSync`, is `live_payload` (3645-3672), where the coordinator
imports what its own files say.

*Left out.* The statuses "quarantined" and "verified", which no caller writes; `release`, which no caller calls; `--once`; heartbeats of a client that arrive
after its timeout (they renew what a heartbeat in time renews); an operator's idle request, with which the command center hides the pool's status; claims by hand from the page. A client
whose lane went to another device has its report rejected and repeats it for ever (`report_results_until_success`): the model does so too, no document
promises otherwise, and no property is about it.

## WorkerPool

`run_pool_lanes` runs bundles of lanes in worker processes and knows them by exit codes, status files and ZIPs. `pc` is the place in its loop (reading the control file and scaling,
launching, polling), `pending`, `pendingCount`, `running`, `desired`, `failed` are its locals, `done` the lanes that have a summary, `unpolled` and `closing` the rest of a polling round and the job
in `process.wait(timeout=5)`. A process is the loop of `main` in `spinda-phase3-main.cpp`: `load` before its first look at the output, `work` until the ZIP is published, `zip` until the status
says complete. `statuses` and `zips` start with anything an earlier run can have left: the pool is not told to skip lanes
with a ZIP in every setting (`--overwrite` with `--no-skip-existing-by-name`).

Processes fail, die and go on between any two steps of the pool, other devices' ZIPs arrive in the folder, and the control file asks for any number of workers or for a shutdown at any turn.
`WorkerPool` has three lanes in bundles of two and one, two workers, with and without `--overwrite`: a bundle is stopped with one lane complete and one not, and
the slots are freed and filled in every order. `LanesAccounted`: a lane is in one place; `WorkersAccounted`: no process escapes; `ExitMeansZips`: exit code 0 means all ZIPs, in
spite of stale status files and of workers stopped and started again; `PoolEnds`: under fairness of the pool and its processes, unless it is left without workers. Pids may be used again once their process is reaped.

The comment at `native_phase3_worker_pool.py:806` says that killed lanes have no final ZIP. The model shows that they may: such a bundle is put back whole, and without `--overwrite` its launch fails and
all its lanes are recorded as failed, which is safe (the exit code says so) but not what the comment has in mind. The worker client passes `--overwrite`, with which the lane is done again.

*Left out.* `run_pool`, the variant without bundles; jobs with `keep_open` and the Qt runner; how often the pool's status file is written; a process the
system does not kill within five seconds, for which `terminate_worker` raises and the pool ends with workers running; workers that outlive a pool that is itself killed (the next pool does not know them; the
ZIP is published atomically, which `writeBinaryAtomic` is careful about).

## What is proved

For every set of threads, every choice of operations and of renderer calls, every capacity and every set of messages:

| theorem | statement | argument |
|---|---|---|
| `CoreThreadProofs!TypeCorrect` | `Spec => []TypeOK` | needs `DepthCountsHolders` to know that `interruptDepth - 1` is a natural number when a holder continues: the inductive invariant is their conjunction |
| `CoreThreadProofs!DepthIsHolders` | `Spec => []DepthCountsHolders` | the set of holders gains or loses exactly one member where the depth changes, and no other step changes it; `Frontends` is finite (`FrontendsAssumption`) |
| `CoreThreadSafetyProofs!RequestsAreSeen` | `Spec => []NoLostRequest` | strengthened with `BootQuiet`: before the thread has started nobody can make a request that the first RUNNING would hide |
| `CoreThreadSafetyProofs!PausedStands` | `Spec => []PausedMachineStands` | only the wait loop writes PAUSED, and only a RUNNING state is followed into `runLoop` |
| `CoreThreadSafetyProofs!EndIsFinal` | `Spec => ExitIsFinal` | each action's write of `state` under its guard |
| `CoreThreadSafetyProofs!InterruptIsKept` | `Spec => InterruptKept` | with the depth's invariant: a continue resumes only at depth 0, when nobody else holds; every other write of `state` keeps an interrupt, but a crash's |
| `CoreThreadSafetyProofs!InterruptIsHeld` | `NoCrash` gives `Spec => []InterruptHeld` | the state form of the same. `NoCrash`, no operation that reports a crash, is needed: a crash overwrites INTERRUPTED |
| `CoreThreadSafetyProofs!InterruptExcludes` | `OneInterrupter` gives `Spec => []InterruptExclusion` | strengthened with `Granted` (INTERRUPTED is shown only while the core thread is in its wait; who holds an interrupt sees INTERRUPTED or an end) and `Takers` (only who calls `Interrupt` holds one). `OneInterrupter`, no crash and one thread that interrupts, is needed: a second interrupt returns at depth 2 without waiting for the first (`thread.c:611`) |
| `RingFIFOProofs!TypeCorrect`, `SizeZeroMeansEmpty`, `NeverStuckHolds` (from `NothingIsHidden` and `EmptyNeverRefuses`), `CopiesNeverMeet` | the run's invariants | one inductive invariant `Inv`: unread messages lie in the unread part (`Layout`) one after the other where the reader will look (`Chain`), their bytes are there (`Stored`), and what a side decided at its load stays true however far the other side gets (`WriterInv`, `ReaderInv`) |
| `RingFIFOProofs!ImplementsQueue` | `Spec => IsQueue` | under `Inv` the two stores are `Put` and `Take`, clear is `Clear`, every other step leaves the abstract queue alone |
| `VideoThreadProxyProofs!TypeCorrect`, `StaysAligned`, `ClosedRests`, `ClearsQuietly`, `EventsSeeAll`, `FlushesDraw` | all safety properties of the run | one inductive invariant `Inv`: what is left of a call is one of nineteen `Plans` (`Step` is its first); `CpuAt` and `ProxyAt` say where each thread can be while the other is where it is; as long as the proxy thread is `Sound`, every VRAM head in the queue is followed by its bytes, those the reader or the writer is still to handle included (`Chain`); the queue is empty from the end of a flush's wait to the end of the call (`Flushed`, `Emptied`, `Settled`) |
| `RewindProofs!TypeCorrect` | `Spec => []TypeOK` | with `Shape`, that an open context has a thread and a non-empty `past` |
| `RewindProofs!RestoresGoBack` | `Spec => RestoreGoesBack` | strengthened with `Chain`: while nothing overtook the diffing thread, the patches lead from the newest diffed state back over `past` slot by slot, the files hold its last two, and `size` counts it. A restore shifts the chain by one slot (`XorUndoes`), a diff shifts it the other way and may drop the oldest |
| `LedgerProofs!TypeCorrect` | `Spec => []TypeOK` | inductive by itself; lemmas per method (`ClaimTyped`, `ReportTyped` and their like) |
| `LedgerProofs!LedgerImplementsLease` | `Spec => LeasesAreLocks` | every method changes a record by freeing it or by giving it to one device from nobody (`AllMove`); needs `AllOwned`, that an active record names a device |
| `LedgerProofs!SharedSafe` | `Spec => []SharedOnlyIfForfeited` | strengthened to `HeldOrForfeited`: what a device works on, by a client's pool or one without its client, and has not forfeited is leased to it; by the refinement a lane cannot go from it to another without being free in between |
| `LedgerProofs!DoneSafe` | `Spec => []DoneHasZip` | strengthened with `BeatsTrue` and `LateTrue`: what is under way says done only of lanes whose ZIP existed when it was sent, and ZIPs stay |
| `WorkerPoolProofs!TypeCorrect`, `LanesSafe`, `WorkersSafe`, `ExitSafe`, `SlotsSafe` | the run's invariants, and that a free slot is found whenever fewer than `desired` workers run | one inductive invariant: the three together with `Steady` (a running job's process is not yet reaped; as long as the pool has not failed, what is recorded has its ZIP) |
| `LockstepProofs!TypeCorrect`, `NeverAborts` | `Spec => []TypeOK`, `Spec => []NoAbort` (an abort only after the wrap) | `SoundPlayer`: the `eventDiff` of a player, unless it went over its 32 bits, is at least the cycles its event is away, so that calling it off leaves it at 0 or more; each callback keeps a table of such players |
| `LockstepProofs!MasterWaitsForAll` | `Spec => CaughtUp` | `Waits`: only the master has a `waitMask`, awake it is empty, and in STARTED and FINISHED a player of the last wait is in it or sleeps with its part done; the last part up to `moved`, as `CaughtUp` says |
| `CoreThreadSafetyProofs!RequestsAreServed` | `OneRequester` gives `Spec => RequestServedOnReturn` | `AsksKept`: the bit of a call that polls is requested until the call is served, and from the moment the core thread takes it until then it is in `todo`; `PendingKept`: what the core thread took stays requested until the turn after |
| `CoreThreadSafetyProofs!CoreIsAttended` | the core thread sleeps on `stateCond` only in a state it should wait in, or with a caller still in its poll loop, which wakes it | `Unanswered` callers: each write of `state` without a broadcast (`_sendRequest`, a first interrupt) leaves one behind; `CoreHolding` for the interrupt the core thread takes itself |
| `CoreThreadSafetyProofs!SleepersAreAwaited` | `NoMarkCrashed` gives: who sleeps in `_waitOnInterrupt` waits for an interrupt of another | with `RequestInv` and the depth's invariant: whoever ends the last interrupt broadcasts |
| `CoreThreadSafetyProofs!DeviceSleepsEnd` | asleep for the renderer a frame is pending or being drawn, asleep for the audio device its buffer is full | inductive by itself: each step that ends the condition wakes |
| `VideoThreadProxyProofs!CallsAreServed` | `Spec => []CallIsServed`: the CPU thread never sleeps for, or joins, a proxy thread that sleeps | `Served`, with `Inv` of the safety theorems: both threads test their condition under the mutex, and whichever goes to sleep last has been woken or wakes |
| `RewindProofs!WakesArrive` | `Spec => []NoMissedWake` | inductive with `Inv`: the flag is set before the wake, and a wait tests it under the mutex |
| `LockstepProofs!SomebodyRuns` | `Spec => []WaitIsAnswerable`: whom the sleeping master waits for is attached, awake and has an event to come, unless the master was reset in that sleep | `Runs`, over `Waits`: a player goes to sleep only after it left the mask, and one that is detached or leaves the mode is taken out of it |
| `LedgerProofs!DeadGainNothing` | `Spec => QuietOnlyLoses`: a device that is off with nothing under way gets no lane and no longer lease | every step fades its records (`StepFades`) and brings nothing of it under way (`StepQuiet`) |
| `WorkerPoolProofs!EndSafe` | a pool that ends without a shutdown has a summary for every lane | from the invariant: nothing pending, nothing running |

The assumptions are those on the constants: `OpsAssumption`, `FrontendsAssumption`, `MessagesAssumption`, `CallsAssumption`, `ImagesAssumption`, `LedgerAssumption`, `ClientsAssumption`,
`PoolAssumption`, `LockstepAssumption`.

Only model-checked: what holds under fairness, `CallsAnswered`, `EndReached`, `CallsReturn`, `AppendDiffed`, `DeinitReturns`, `DeadHoldNothing`, `PoolEnds` and
`SleepersWake` (liveness is out of the prover's reach). What goes wrong in such code is mostly a lost wake-up, and that is a safety matter: `CoreIsAttended`,
`SleepersAreAwaited`, `DeviceSleepsEnd`, `CallsAreServed`, `WakesArrive` and `SomebodyRuns` prove, for any number of threads and players, that whoever a sleeper of these modules waits for is awake
or has somebody left to wake it. What they leave to TLC is that those who are awake get there. `DeadGainNothing` is the same for `DeadHoldNothing`: left are time and the messages under way.

`RequestsAreServed` assumes `OneRequester`: with two callers of `mCoreThreadRunFunction` the property is false, because `threadContext->run` is one pointer (`thread.c:658`); all
callers in `src/platform/qt` and `src/platform/sdl` are on one thread. `SleepersAreAwaited` assumes `NoMarkCrashed`: `mCoreThreadMarkCrashed` writes `state` without a broadcast
(`thread.c:536`), and a caller asleep in `_waitOnInterrupt` is then woken only by the end of the thread.

Each property of a passing run has a mutant of a modelled definition in
its module (comments "Mutant of ..."), written as a plausible mistake in the code, that TLC finds to violate it.

## Not modelled

The repository has some 174 000 lines. Nearly all of them are emulated hardware (deterministic, single-threaded, specified by the hardware and not by the repository),
frontends, vendored code, generated option tables, and batch tools over data sets: a model of them would transliterate them. What is concurrent or
distributed is in the inventory; of it, frame stepping, the display-thread proxy, event timing, the Game Boy's link cable and the savestate cache are
not modelled yet (see the plan), and `PROJECT.json` gives for every component its status and the reason.
