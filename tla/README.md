# RT-Thread 4.0.4, annotated sources: a TLA+ model

The repository holds the kernel of RT-Thread 4.0.4 with Chinese comments
(`src/【1】内核中文注释`) and the device drivers of a CH32 board with their
frameworks (`src/【2】驱动源码注释`). It is a real-time kernel for one core:
threads of fixed priorities, a tick interrupt that ends time slices and runs
timers, and drivers whose interrupt handlers talk to threads. The sources are a
selection: `ipc.c`, `kservice.c`, `rtdef.h`, `rtservice.h` and the context switch
are not in the repository and are modelled from how the code here uses them
(`external` in the map of `PROJECT.json`).

## Inventory

| part | state | operations | works with | hard because |
|---|---|---|---|---|
| scheduler.c | priority table, ready group, current thread, lock nesting | insert, remove, rt_schedule, enter/exit critical | everybody | a switch may be deferred by the lock or by a handler |
| thread.c | state, priority, slice, timer of each thread | create, startup, suspend, resume, sleep, yield, control, exit, delete | scheduler, timer, idle | checks are made before interrupts are masked |
| idle.c | defunct list, idle hooks | enqueue, dequeue, free | thread | shares the list node of the ready queues |
| clock.c | rt_tick | tick, conversions | scheduler, timer | wraps; ends slices at any instruction |
| irq.c | nesting count | enter, leave | handlers, scheduler | nesting |
| timer.c | hard list, soft list, flags of a timer | start, stop, detach, control, two checks, timer thread | clock, thread | timeout functions call the API; soft ones may block |
| mem.c | item headers in the heap, lfree, used | init, alloc, realloc, free | idle, object, drivers | long sequences, splitting and merging, partial failure |
| object.c | one list of objects per class | init, detach, allocate, delete, find | all kernel objects | find and init lock differently |
| components.c | none | start-up sequence | all | runs once |
| device.c | activation, open flags, reference count | open, close, read, write, control | drivers | shared by clients without a lock |
| serial.c, drv_usart.c | receive ring, completion, flags | open, close, read, write, handler | device | handler against reader, flags of several clients |
| spi_core.c, spi_dev.c, drv_spi.c | bus owner, lock, configuration, chip select | transfers, configure, take/release | device | bus shared by devices, failures in a message list |
| i2c_core.c, i2c_dev.c, i2c-bit-ops.c, drv_soft_i2c.c | bus lock, two lines | transfer of messages, retries | device | acknowledgements, clock stretching, timeout |
| hwtimer.c, drv_hwtimer.c | cycles, reload, overflow, mode | write, read, control, handler | device | handler against writer |
| rt_drv_pwm.c, drv_pwm.c | registers of a channel | enable, disable, set, get | device | get-modify-set |
| adc.c, drv_adc.c | enabled channels | enable, disable, read | device | error results are dropped |
| watchdog.c, drv_iwdt.c | reload, started | set, start, keep alive | device | a refused value stays stored |

What makes each modelled part correct:

- scheduler, threads, idle, interrupts: queues, bitmap and states agree; the most
  urgent ready thread runs as soon as nothing defers it; a thread that sleeps is
  woken; a closed thread is in no queue and is freed once.
- timers: hard timers fire on time and in order; a stopped timer is silent; the
  timer thread never waits while a timer is on its list.
- heap: blocks do not overlap, hold what was asked for, and a request is refused
  only when no gap is large enough.
- serial port: bytes come out in order; no indication is lost; what the first
  open enabled is disabled by the last close; writes return.
- object container: a walk ends, and finds an object exactly when one has the name.
- device layer: the reference count and the flags agree with the clients.
- SPI: data go only over a bus set up for their device, with only its chip
  selected, and no chip stays selected. I2C: a transfer that reports success moved
  every byte to or from the right device; afterwards both lines are high.
- hardware timer: the callback comes when the time asked for has passed. PWM: the
  output has the period and pulse of the last successful call. ADC: a result is of
  the channel asked for. Watchdog: it runs with the last timeout that was accepted.

## Modules

| module | models | state |
|---|---|---|
| Lists | the intrusive lists of rtservice.h | sequences |
| TimerList | one list of timers (timer.c) | record of list, timeouts, durations, active set |
| Dispatcher | what the scheduler promises (abstract) | cpu: urgency, queues, who runs and can go on, whose turn is over |
| Scheduler | scheduler.c, defunct list | record of type Kernels |
| ThreadKernel | thread.c, clock.c, irq.c, idle.c on TimerList and Scheduler; implements Dispatcher | kern, timers, rt_tick, pc, arg, isr, cleaned |
| Timer | timer.c with its thread and the tick | two TimerList records, the loops' local variables |
| Heap | what an allocator promises (abstract) | blocks, ret |
| SmallMem | mem.c, implements Heap | item headers, lfree, used, max |
| ByteQueue | what a receive buffer promises (abstract) | q, room, got |
| Serial | serial.c, drv_usart.c, open/close of device.c; its ring implements ByteQueue | device flags, ring, completion, handler, two clients |
| Objects | object.c | the list of one class, types, names, the walk and its lock |
| Device | device.c | list of devices, flags, reference counts, place of each client |
| SpiBus | spi_core.c, drv_spi.c | lock, owner, configuration, registers, selected chips, message lists |
| I2cBus | i2c_core.c, i2c-bit-ops.c, drv_soft_i2c.c | lock, two lines, what the devices have seen, calls |
| HwTimer | hwtimer.c, drv_hwtimer.c | cycles, reload, overflow; the counter |
| Pwm | rt_drv_pwm.c, drv_pwm.c | the registers of a timer |
| Adc | adc.c, drv_adc.c | the registers of a converter, place of each reader |
| Watchdog | watchdog.c, drv_iwdt.c | reload value, registers |
| MC... | constants and views for TLC | MCDevices: `focus` |
| ListsProofs, SchedulerProofs, TimerListProofs, ThreadKernelProofs | proofs about the kernel, bottom up | |
| TimerProofs, SmallMemProofs, SerialProofs | proofs about Timer, SmallMem and Serial | |
| DeviceProofs | proofs about Device, SpiBus, I2cBus, Adc, Watchdog, Objects, HwTimer and Pwm | |

The device side of the repository is a set of frameworks that share no state with
each other: `MCDevices` checks eight modules in one run, in which the variable
`focus` says which of them moves in a behaviour.

`Lists`, `TimerList` and `Scheduler` are operators on records, so that one call
of the code is one expression (`rt_schedule_insert_thread(k, t)` is the kernel
record after the call). `ThreadKernel` and `Timer` have the actions.
No module has a RECURSIVE operator.

### Scheduler and ThreadKernel

A step is the code between two points at which interrupts are enabled.
`pc[t]` names the point thread t has reached and `arg[t]` the thread its call is
about; `isr` is the stack of active handlers. `rt_thread_suspend`, for example,
is `SuspendCheck` (the test of the state, 736) and `rt_thread_suspend` (the masked
part), because a handler can come in between; a caller that has masked
interrupts itself is a name in `MaskedCalls`, and then nothing comes in between.
A thread moves only while no handler is active and it is the current thread: a
switch requested in a handler takes effect when the outermost one returns.

`rt_tick_increase` is three steps as in the code: the masked part with the
slice, `rt_schedule`, and the timer loop with one step per timeout. A device
handler resumes a thread and calls `rt_schedule`, as the handlers of the drivers do
through the IPC functions. One device handler and the tick nest, either way
round.

`Dispatcher` is the scheduler as its users know it. A thread wakes, blocks, ends, changes its
urgency, comes new, or has its turn ended; with it, or later, comes the decision
(`Decided`): the head of the most urgent queue takes over from a thread that has
blocked, is less urgent, or is as urgent and at the end of its turn; a thread that could have
gone on joins the tail of its queue. There are no bitmap, masks, lists of closed threads,
calls, handlers, locks or timers. `CpuOf` maps the kernel record to it: urgency is
`current_priority`, the queues are `priority_table`, and `over` holds the threads with the YIELD
flag. The decision may be put off, since callers schedule later, in a handler or behind
the lock; how soon it is taken is what `MostUrgentRuns` says. What the refinement shows of
the code besides the order: a thread that blocks keeps the mark of an ended turn and
gives way to an equal at the first decision after it runs again (clock.c:109).

Two simplifications. `rt_thread_suspend_with_flag`, called by timer.c, is not in
the repository and is modelled as `rt_thread_suspend`. `rt_thread_delay_until` is the
step of the sleep while ticks are left, and nothing otherwise.

### Timer

`hard` and `soft` are two timer lists. The tick handler takes the expired head
off (`CheckTake`), links it in the local list, runs the timeout function
(`chk = "callback"`: any API call may be made then) and goes on (`CheckReturn`) with
what the emptiness of the local list tells it. `rt_soft_timer_check` does the same
in the timer thread with interrupts enabled during the function, which may
block. `NextTimeout`, `SuspendThread`, `ReadTick` and `SleepThread` are the steps of
`_timer_thread_entry` between which a handler may run.

`SoftAnywhere` says who uses soft timers: FALSE, only threads that do not preempt
the timer thread (it has a high priority); TRUE, also handlers.
`ModeWhileFiring` says whether a timeout function may change the mode of its own
timer: with TRUE, `ActiveLinked` fails, because a periodic timer made one-shot by its
own function is not restarted and stays marked ACTIVATED (timer.c:547, 641).

### SmallMem

A call is a step: the lock around the allocator is in kservice.c. Offsets and
sizes are those of the code, with the header of 12 bytes and alignment 4. The
refinement to `Heap` forgets free items and all links: a block runs from its
header to the next item. `RT_ALIGN` works in words of `WordSize`: a request within
three of the largest word wraps to 0 and succeeds (mem.c:305), so a size of 254 in a word of
256 violates `IsHeap`; the passing run asks for no such size. A reallocation that
shrinks may leave a block below the minimum (mem.c:460): `BlocksAtLeastMin` states
it for whoever wants to see it, no comment promises it.

### Serial

One client reads, one writes, both open, configure and close the port. The
device is registered with the receive interrupt (as drv_usart.c does) or with
the transmit interrupt: no driver of the repository does the latter, so the
`putc` that refuses a byte while the transmitter is busy is the one `_serial_int_tx`
expects. No thread runs while the handler does. A byte that arrives after the
handler's loop is lost when the driver clears the flag (`IsrClear`); a byte that
arrives while the data register is full is lost in the hardware and is no step.
The three steps of an open (flags, receive side, transmit side with the
count) are separate. Requests for one interrupt direction are modelled, DMA is
compiled out. The cell of the ring that was read is not told from an unused one.

`Overlap`: opens and closes may come between the steps of the other client's
read or write. `PlainOpens`: an open need not ask for the device's interrupt flags.
`NewlineAnywhere`: newlines in stream mode also on a port with the transmit
interrupt. The passing run has all three FALSE; each set to TRUE shows one
defect: `OneReturn`, `InterruptHasFifo` and `WriteEnds` fail. The last one is this: when
putc refuses the byte behind a '\r', the loop starts again at the '\r' (serial.c:171-185),
so a transmitter that holds one byte gets '\r' for ever.

### Objects

The list is changed with interrupts masked but walked with only the scheduler
locked (object.c:321, 540), so a step is one node of a walk, and a handler may
detach or delete an object in between. `rt_list_remove` leaves a node
pointing to itself: a walk that stands there does not end. `AnyNode` says whether
handlers remove that object too; it is FALSE in the passing run and TRUE in
object_walk.

### Device

One step per access to `flag`, `open_flag` or `ref_count`, as nothing is locked. All devices
are registered under one name, which is what `rt_device_register` has to refuse. A new
device can be found before its fields are set (device.c:63-66). With
`TakeTurns` = FALSE two calls overlap, and `CountExact` fails: two opens lose a count,
and two registrations of one name both succeed (device.c:60). The
`elsae` at device.c:251 is read as `else`. A driver that refuses the close leaves the flags
without a client (`unclosed`, device.c:305).

### SpiBus

A step is one message of a list, one change of the configuration or one
call that takes or gives the bus. The bus mutex is recursive, as the
sessions (`rt_spi_take_bus` to `rt_spi_release_bus`) need. Callers are the ones whose
calls come out right; each parameter of the following adds one that does not:
`SharedDevices` (spi_core.c:83: the configuration changes before the lock is taken),
`EmptyMessages` (spi_core.c:378, drv_spi.c:447: a length of 0 ends the list like an error, the
chip stays selected), "3wire" in `SpiConfigs` (drv_spi.c:422: the driver disables the SPI
after a message and no longer enables it) and "zero" (a
configuration the driver refuses is asked for).

### I2cBus

A step is a start, a stop or a byte with its acknowledgement; `wire` is what the
devices have seen, and `Taken` who takes the byte. A device may hold the clock in
any byte until `SCL_H` gives up. `I2cFaults` adds what the code cannot cope with:
"stretch_restart" (`i2c_restart` ignores the result of `SCL_H`, i2c-bit-ops.c:78), "no_stop" (a
message without a stop condition at the end of a list leaves the bus busy) and
"locked" (the driver leaves the clock low when it had to free the bus at
start-up, drv_soft_i2c.c:198). `rt_i2c_master_send` and `_recv` return the count also for an
error (i2c_core.c:116, 137), which no property is about.

### HwTimer, Pwm, Adc, Watchdog

`HwTimer` counts in ticks of the counter. `timeout_calc` is modelled as the search it
is; its floating point and a deviation of a second and more are left out,
requests above some 18 hours divide by zero (hwtimer.c:65-67). A read (177-215) changes nothing and is no
action; it does not count an update that is pending. `HwUses`: "freq_late" sets the
frequency with a callback set: the update event that loads the prescaler is taken
for an elapsed cycle (drv_hwtimer.c:254); "mode_running" changes the mode while the timer
runs (hwtimer.c:345).

`Pwm` has the arithmetic of prescaler, period and pulse. The prescaler is rounded up only
when the division leaves a remainder (drv_pwm.c:868), which some periods show: they
are in pwm_second and not in devices. `PwmUses`: "periods" gives the channels of one
timer different periods, "write_first" writes a pulse before a period was set. A set also
enables the output of a disabled channel, and on a channel that does not exist it
changes the shared period before it fails; set_period, set_pulse, dead_time and phase are refused
by the driver. `pulse * 100` wraps for pulses above 42.9 ms.

`Adc`: a read is select, start, wait and fetch, one step each; with `AdcTurns` = FALSE two
threads mix, and `AdcRight` fails. `rt_adc_read` returns an uninitialised value on an error.
`Watchdog`: with `TryTooLong` a refused timeout stays stored and START
writes it (drv_iwdt.c:64). A GET after a SET of 1 reports 0, and the STOP of a close is refused.

## Runs

| run | what it asks | constants |
|---|---|---|
| kernel_sched | do the right threads run, as the dispatcher has it, with suspend and resume interrupted in the middle? | idle, two equal threads, one more urgent; 3 priorities, sleeps of 1 and 2 ticks, lock nesting 1 |
| kernel_life | do queues, bitmap, timers and defunct list stay exact through every call? | idle and two threads, every call, suspend, resume and delete masked by the caller; sleeps of 1 tick |
| kernel_live | is a sleep ended, do equals share the processor? | idle and two threads that create, sleep, yield |
| delete_race | is a deleted thread out of the queues? (no) | delete with interrupts enabled |
| timer | do the timers keep their promises? | one hard, one soft timer and the thread's, times 1 and 2, tick modulo 8 |
| soft_timer_lost | does the timer thread sleep only without timers? (no) | the same, soft timers used by handlers |
| mem | does mem.c implement a heap? | 100 bytes, requests 0, 1, 14, 28, 60 and 101, words of 8 bits |
| serial | ring, flags, indications, writes | bytes x and y, ring of 2 and 3, both kinds of port |
| serial_reopen | is there a FIFO whenever its interrupt can come? (no) | plain opens |
| devices | does each of the other frameworks keep its promise? | two threads and two objects, devices or chips each |
| object_walk | does a search end, whatever handlers remove? (no) | `AnyNode` |
| pwm_second | is the period that was set the one that is output? (no) | periods of 0.1 ms, 1 ms and 1 s |

`HardSorted`, `Chained` and `ClosedClean` begin with the types of their
module's state; the kernel's types are part of `IInv`. `ReadyRuns` and `SleepEnds` are the
liveness of the kernel, `WriteEnds` and `WalkEnds` that of the port and of the
container.

Bounds, and why they are enough:

- Three or four threads on three priorities: a pair of equals (slices, yield), a
  more urgent thread (preemption, deferral) and the idle thread. A queue of two and an
  empty one both occur, and every thread can be the subject of another's call
  while a third one runs.
- `TickMod` is the range of the tick counter, a power of two in the code. 8 lets
  timers of 1 and 2 ticks cross the wrap, with half the range (3) still above
  them. `Durations` are those below half the range, as timer.c:229 asserts.
- `MaxNest` = 1: a locked and an unlocked scheduler. The nesting count only adds more of
  the same; the proofs cover every value.
- `MaxLag` = 1 bounds by how many ticks a soft timer may be overdue, since nothing in the
  code bounds how long the timer thread waits for the processor.
- 100 bytes of heap: one, two or three blocks with splitting, merging on both
  sides, reallocation in place and with a move, refusals and a request above the size.
- A ring of 2 holds one byte and one of 3 holds two: overflow and wrap occur at
  once.
- Two threads and two devices on a bus: every pair of calls interleaves, one
  device of each kind (7 and 10 bit addresses, with and without an open function,
  stand-alone or shared, two SPI modes and a device without chip select).
- A counter of 3 for the hardware timer, with times of 0 to 7: none, exact, one and
  several cycles. `MaxOverflow` ends the count of cycles of a timer nobody stops.
- Periods and pulses of the PWM at the real clock of 144 MHz: below and above the 16 bits of
  the counter, pulses of 0, of half and of a full period, and one above it.
- Timeouts of the watchdog up to 26 s, the largest it accepts, and 27 s.
- Views: `MCThreadKernel` and `MCTimer` identify states that differ in the absolute
  tick or in fields that are overwritten before they are read; `MCSmallMem` drops the result
  of the last call, and `max`, which no call reads. No view is used with a
  liveness property.

Deadlock is checked in every run: the tick can always come.

Fairness. `kernel_live`: the tick stays pending while interrupts are masked, so it is
strongly fair; a handler that has begun goes on; a thread that is current again and
again finishes its call, as interrupts leave the processor some time. No thread has
to call anything. `serial`: the handler takes a pending byte; the line leaves time
between bytes, so its loop ends; the transmitter sends; the writer is scheduled.
`devices` and `object_walk`: the step of a walk is strongly fair (`ObjectsFairness`). A thread
that has locked the scheduler keeps the processor but for handlers, and those
leave it some time again and again; nobody has to begin a walk.

`kernel_sched` leaves the change of a priority out, because `rt_thread_control` does
not call `rt_schedule` (thread.c:652-678): a thread made more urgent waits for the next
tick or call, and `MostUrgentRuns` would not hold.

## Proofs

`ThreadKernelProofs` proves, for every set of threads, priorities, slices, ticks and
nesting bound that satisfies the ASSUMEs of the modules,

    DisciplinedCallers => (Spec => []IInv)

and from it `TypeOK`, `ReadyTableExact`, `PriorityGroupExact`, `OneRunning`,
`DefunctExact`, `TimeoutFindsSuspended` and `ClosedUnscheduled`, and the action properties `SwitchesToMostUrgent`
and `LifeCycle`, and that the kernel implements the dispatcher, `Spec => IsDispatcher`.
`DisciplinedCallers` says that suspend, resume and delete are
called with interrupts masked. The premise is needed: the run delete_race is the
counterexample without it.

`IInv` is inductive and has these parts besides the types:

- `KernelOK`: the queues hold ready threads, once and at their priority, and all
  ready threads but those being deleted; masks, bitmap, the current thread, closed threads.
- `TimeoutFindsSuspended`, `DefunctExact`: proved together with the rest, since a timeout
  that found a thread not suspended would queue it twice.
- `CallsOK`: what a call checked before its masked part still holds there. Without
  it the masked part of a suspend could take a thread that is not in a queue.
- `IdleOK`, `FramesOK`: the idle thread cannot be suspended, what it frees stays
  closed, and a handler resumes a thread that exists.

The argument goes up the modules. `ListsProofs` says what inserting and removing
do to membership and duplicates; `SchedulerProofs` that each operation on
the record keeps `KernelOK`, `ScheduleOK` being the one for rt_schedule;
`TimerListProofs` that each operation keeps a list of timers exact. `ThreadKernelProofs` has
one lemma per kernel update and one per action, which `NextIInv` collects.

`DispatcherImplemented` is proved on the records first: each operator of the kernel is one of
the dispatcher (`ResumedIsWoken`, `SuspendedIsBlocked`, `RequeuedSeen`, `ClosedSeen`), and
`rt_schedule` takes the dispatcher's decision or puts it off (`ScheduleSettles`: the first bit of
the bitmap is the most urgent queue, `StaysRunning` is that nobody takes over, and the
switch moves the same threads). Then each action is a move of the dispatcher, or nothing is
seen of it (`NextDispatches`); `IInv` says where it is needed that a thread is not queued.

Two more invariants of the kernel need a second inductive invariant beside `IInv`:

- `MostUrgentRuns`, where no priority changes (`FixedPriorities`, see the end of Runs above).
  `UrgentOK`: with the scheduler unlocked, the running thread is a most urgent one, or
  somebody is about to call `rt_schedule`: the current thread's call, or a handler anywhere
  in the stack.
- `NoMissedTimeout`, for a tick counter of more than 5 values (`Roomy`; the rt_tick_t of the code
  has 2^32). `TicksOK`: the timers are in the order of what is left of them, also across the
  wrap; none is overdue outside the tick handler, by a tick at most inside it, and each
  has a tick left when it returns (a sleep of no ticks may follow).

The other proofs each need a premise on the callers, and each of these premises is one
that a parameter of the model lifts and that a counterexample shows to be needed.

- `TimerProofs`: all that the run `timer` checks, for any timers, any times and any
  range of the tick counter above 5.
  `CarefulTimers` also takes `SoftAnywhere` and `ModeWhileFiring` to be FALSE; the run
  soft_timer_lost and the case described under Timer above say why. The argument
  measures every timeout by what is `Left` of it: -1 for one overdue by a tick, up to half
  the range (`LeftValue`). Comparing timeouts as the code does, modulo the range, is
  comparing what is left (`LaterLeft`), a start puts its timer where what is left fits
  (`StartTimerOK`), a tick takes one from each (`NextLeft`), and the check stops at a head
  that has time left, so all behind it have too (`CheckDoneStep`). The invariant
  `TimerInv` adds to the properties that a timer which is active while it fires is a
  periodic one (`FiringOK`), so that the check restarts it; where the timer thread may be
  while its own timer runs (`ThreadOK`), so that a soft timer started then wakes it
  out of its loop only; and that each hard timer has a tick left between ticks, but for a
  thread that sleeps for no time at all (`OnTimeOK`).

- `SmallMemProofs`: all that the run `mem` checks, for any alignment, any sizes of the heap and the
  header that are multiples of it, and any requests. `Chained`, `Coalesced`, `LfreeLowest` and
  `UsedExact` need no premise. `MemInv` joins them and adds that the offsets are multiples
  of the alignment, and that `max` lies between `used` and the size. Within a call the items
  are coalesced but for one (`NearlyTidy`), and `plug_holes` mends that. `used` is a sum over a set of items: the lemmas at the head of
  the module say how such a sum changes when an item is added, removed or changed. `Spec => IsHeap`
  takes `NoWrap`, that no requested size is rounded up to 0 (mem.c:305).

- `SerialProofs`: all that the run `serial` checks but for `WriteEnds`, for any size of the ring, any
  bytes, lines and devices. `Disciplined` takes `PlainOpens` and `Overlap` to be FALSE, `OneReturn`
  also `NewlineAnywhere`. `SerialInv` says who may be where (`Protocol`), which FIFO,
  completion, interrupt and flag exists at each point of an open or a close (`Resources`),
  that the stream flag is given back (`StreamKept`), where the indices are when the ring is full (`Ring`),
  and that a byte in the ring was indicated, or will be when the handler's loop ends
  (`Indication`). `Spec => IsByteQueue` shows that the bytes from the read index to the write
  index, modulo the size, are a queue that loses its oldest byte.

`DeviceProofs` has one part per framework, each with its own invariant:

- Device: `TakeTurns => (DeviceSpec => []CountExact)`. `CountExact` speaks of the states
  between calls. `DeviceInv` says at every step that whoever is inside a
  call is alone (`TurnsOK`), that one device has the name (`ListOK`), that the count is
  the number of holders and a loaded count is current (`CountsOK`), and what the flags
  are at each place of a call (`FlagsOK`).
- SPI: `CarefulCallers => (SpiSpec => []SpiWireRight)`, and the same for `SpiReleased`.
  `SpiInv` adds that two threads use two devices (`ApartOK`), that the registers hold the
  configuration of the owner unless somebody is about to apply it (`AppliedOK`), and that
  the message list of a call ends in the release of its chip (`CallOK`). Any number of
  threads, devices, configurations and nested sessions.
- I2C: `StopsAlways => (I2cSpec => []I2cFreed)`, for any retries and a clock held
  at any byte, and with the clock held in bytes only also `I2cDelivered`, for the message lists that
  `I2cLists` has. `I2cFollowed` says what the devices have seen before each step of a
  call, and that the bytes moved are those that were due by then.
- Objects: `~AnyNode => (ObjectsSpec => FindRight)`. `ObjInv`: a removed object belongs to one
  call (`OwnersOK`), and a walk stands on a listed object, at or before each object it would
  have to find (`WalkOK`).
- ADC: `AdcTurns => (AdcSpec => []AdcRight)`, with the channel, the conversion and the data
  register at each step of a read.
- Watchdog: `~TryTooLong => (WdtSpec => []WdtAsSet)`.
- Hardware timer: `HwOnTime` if the callback is set after the frequency and the mode before the
  start. `HwInv` counts the time since a write as rounds of `reload` updates, and knows
  what the counter, `cycles` and the pending update are in each of them.

- PWM: `OneResolution => (PwmSpec => []PwmAsSet)`. `OneResolution` says that every period
  asked for is `Representable`: its prescaler is rounded up (drv_pwm.c:868), the
  frequency divides without loss or has at least as many counts as the frequency itself,
  and a period has more than 100 counts, so that a percent of it is one. Also, the
  channels of a timer are given one period, and no pulse is written before one. The
  periods of the run `devices` are of this kind, one of pwm_second is not. The invariant
  is that the registers are those of a setting, from which the driver reads it back.

The theorems about refinement give the mapping step by step: each action of the detailed
module is an action of the abstract one, or leaves its variables alone.

Checked by TLC only: what has liveness (`SleepEnds`, `ReadyRuns`, `WriteEnds`, `WalkEnds`),
which is out of the reach of the prover. `OneRunning` and `PriorityGroupExact`, parts of `IInv`, have
theorems and no run of their own. `IsDispatcher` is checked in kernel_sched, without exits, deletions and
priority changes; with the constants of kernel_life, all calls included, it holds too.
The induction theorems of the library take an operator and cannot be cited; the sums and
searches above are done by a least counterexample.

## Disagreements found

Five runs expect a violation; each states what a comment or an assertion of the
sources says, and `findings` in `PROJECT.json` quotes it: delete_race,
soft_timer_lost, serial_reopen, object_walk and pwm_second.

One definition states what the code does not do and nothing promises; adding it to
kernel_life.cfg shows the case: `CleanupOnce`, since the cleanup of a deleted thread runs
again in the idle thread (thread.c:455, idle.c:178).

## Plan

1. Done: scheduler, threads, idle, tick, interrupts; timers; heap; serial port.
2. Done: object container, device layer, SPI, I2C, hardware timer, PWM, ADC, watchdog.
3. Done: an abstract scheduler, `Dispatcher`, that `ThreadKernel` implements.
4. Left: `Serial` on top of `Device`, so that the open and close of a port and
   the reference count are one model.
5. Done: theorems for every invariant and action property that the passing runs check, and
   for the three refinements.

Not modelled, and why: components.c (a fixed sequence before the scheduler starts);
the register set-up of the drivers (pure I/O); the floating point of `timeout_calc`; DMA,
which is compiled out; the read and write functions of spi_dev.c and i2c_dev.c, which make one
transfer; `rt_device_create` and `rt_device_destroy`, which allocate and free; hooks
and debug output; `rt_tick_set` and conversions between ticks and milliseconds.
