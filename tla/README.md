# Verification of the S3C2440 drivers

This directory holds TLA+ models of the device drivers of this repository,
TLC runs that check them on small instances, and theorems about them that the
TLA+ proof system (TLAPS) proves for every value of their constants.  The
repository is a collection of Linux drivers for one board (S3C2440, ARM920T),
in two generations:

* `A` stands below for `src/Base_on_linux-2.6.22.6_S3C2440`,
* `B` stands below for `src/Base_on_linux-3.4.2_S3C2440`.

The drivers do not call each other, with one exception (the input recorder
logs through the ring log).  Each is a set of callbacks that the kernel calls:
file operations in the context of processes, interrupt handlers, timer
functions, DMA callbacks.  What is hard in them is what these contexts do to
each other, and that is what the models are about.

Contents:

1. The parts of the system
2. The modules and how they correspond to the code
3. Assumptions shared by all models
4. The runs
5. Where the code does not do what it says
6. The proofs
7. What is not modelled, and the plan

## 1. The parts of the system

### Modelled

**Debounced button driver, 3.4.2** (`B/key_anti_shake_all`). State: the
semaphore `button_lock`, the installed interrupt handlers, one pending timer,
`irq_pd` (the key whose interrupt came last), the one-place buffer `key_val`,
the flag `ev_press`, a wait queue and the fasync list. Operations: `open` downs
the semaphore (or fails with -EBUSY on an O_NONBLOCK file) and requests four
interrupts, whose results it ignores; the interrupt handler notes the key and
restarts the 10 ms timer; the timer function samples the pin, stores the value,
sets the flag, wakes the queue and signals the fasync owners; `read` waits for
the flag, copies the value and resets the flag; `poll`, `fasync`, `release`.
Correct means: one application at a time; whoever has the device open keeps the
interrupts it was granted; after bouncing the stored value is the settled one; a
value is returned at most once; poll keeps its promise; a sleeping reader is
woken by the next key action.

**Button driver, 2.6.22** (`A/button`).  The same, except that `open` looks
at the results of `request_irq`, and `release` gives the semaphore back
*before* it frees the interrupts.

**Ring log** (`A/proc_mymsg`, a copy in `A/debug_input_emulate/mymsg.c`).
State: a ring of characters with an oldest, a next-to-read and a
next-to-write index, and a wait queue.  Operations: `myprintk` puts
characters, dropping the oldest when the ring is full; `read` of
`/proc/mymsg` waits for a character and takes characters until the ring or
its buffer ends; `open` rewinds the read index, which all readers share.
Correct means: the log is a stream of its newest characters, in order, read
without gaps; no wake-up is lost.  Called from processes (`first_drv.c`) and,
in the copy, from interrupt handlers (`s3c_ts.c`).

**Touchscreen driver** (`A/ts`, `B/输入子系统/ts`, and the touch part of
`A/debug_input_emulate/s3c_ts.c`).  State: the mode of the controller
(`adctsc`: waiting for pen down, for pen up, or measuring), a running
conversion, a pending timer, four stored samples and their count, the touch
state reported to the input layer.  Operations: the pen interrupt, the ADC
interrupt with filter and report, the 10 ms timer function.  Correct means: no
release is missed; the controller is not left in a mode without a way out; a
pen held down is measured again and again; the filter keeps outliers out and a
still pen in; a point is made of one stroke.

**Sound driver** (`A/sound/s3c-wm8976.c`, `/dev/dsp`).  State: per direction a
ring of fragments, each with data and a semaphore, the current fragment, the
DMA queue and an open count; the direction the IIS bus was set up for.
Operations: `open`, `release`, `write`, `read`, `poll`, the ioctls SYNC, RESET
and SETFRAGMENT, and two DMA callbacks.  Correct means: a fragment is worked on
by one handler, or queued once, or free; data is played and captured complete
and in order; SYNC returns when everything is played; poll tells the truth;
calls end; buffers are not freed under a handler.

**DM9000 network driver, 2.6.22** (`A/dm9000c/dm9000c_driver.c`).  State: the
packet count `tx_pkt_cnt`, the transmit queue, the speed, the number of packets
received in a row `cont_rx_pkt_cnt`, the timer; in the chip the two transmit
slots, the interrupt status and mask, the receive memory and the register that
the next data access goes to.  Operations: `dmfe_start_xmit`, the interrupt
handler (link, receive, `dmfe_tx_done`), the periodic timer, the watchdog's
`dmfe_timeout` with `dmfe_reset`, `dmfe_open`, `dmfe_stop`.  Correct means: the
count agrees with the chip although nothing locks it; a packet's data goes to
the transmit buffer; a stopped queue is woken; a receive throttle is lifted; a
stopped chip stays masked; received packets are read.

**Input recording and replay** (`A/debug_input_emulate/s3c_ts.c`,
`input_replay.c`).  Recorded lines go through the ring log (`MyMsg` with
`IrqCallers`).  State of the replay: a buffer with a read and a write index, one
timer, the event that waits for its time.  Operations: an application writes a
file in pieces, the ioctl INPUT_REPLAY starts the timer, the timer function reads
lines and reports events.  Correct means: what the buffer holds is reported in
order and once, not earlier than it was recorded, and a replay ends.

**Audio codec control** (the same file: mixer, sample clock, serial port).
State: volume, gain, rate and fragment geometry, each set by one request.
Correct means: every parameter lands in its range, what is read back is what
was set, fragments do not share memory, the clock is the one asked for, and the
codec receives what it is sent.

### Not modelled, or not yet

The reasons are in section 7 and, per part, in `PROJECT.json`.

| part | state | what is hard in it |
| --- | --- | --- |
| DM9000 network driver, 3.4.2 | as the 2.6.22 version | as the 2.6.22 version |
| DMA memory copy | two buffers, a flag, one channel | two callers share buffers, flag and interrupt |
| Polled buttons and LEDs | `leds_status` with a semaphore | little |
| Other interrupt-driven button drivers | as the debounced driver, without timer or without semaphore | several readers without exclusive open |
| Buttons as input device | the debounce without a queue of its own | as `Settled` |
| USB mouse as keys | last and current buttons | disconnect against the completion handler |
| AT24Cxx over I2C | none besides the client | partial transfers |
| RAM block device, virtual network device | an array; statistics | little, sequential |
| NAND, NOR, LCD, LED platform bus | registers | the kernel has the control |
| Memory editor, system call example, cdev example, test programs | none | nothing |

## 2. The modules and how they correspond to the code

| module | code | role |
| --- | --- | --- |
| `Keys` | both button drivers | state, interrupt, timer, read, poll, fasync, file table; the properties both share |
| `AntiShakeKeys` | `key_anti_shake_all.c` | `Keys` with the 3.4.2 open and release |
| `Buttons26` | `buttons_driver.c` | `Keys` with the 2.6.22 open and release |
| `MyMsg` | `mymsg.c` | ring, putc, getc, open, read |
| `LogStream` | | what the ring promises; `MyMsg` refines it |
| `TouchScreen` | `ts_driver.c` | controller, interrupts, filter, timer |
| `Sound` | `s3c-wm8976.c` | both streams with handlers, DMA and files |
| `DspSettings` | `s3c-wm8976.c` | what the driver computes from the parameters of applications |
| `Dm9000` | `dm9000c_driver.c` | transmit, handler, timer, watchdog, open, stop, and the chip |
| `Replay` | `debug_input_emulate/s3c_ts.c`, `input_replay.c` | replay buffer, timer function, the application that writes |
| `MC...` | | small instances for TLC |
| `KeysProofs` | | what both button drivers owe to `Keys` |
| `AntiShakeKeysProofs`, `Buttons26Proofs`, other `...Proofs` | | theorems about the module they are named after |

Every definition that stands for code is listed under `map` in
`PROJECT.json` with the lines it models.  Definitions whose comment starts
with "Mutated form" are plausible mistakes; they are no part of the models.
Each one belongs to a property, and TLC finds that property violated when the
mutated form replaces the definition that follows it, so that no property
holds for want of interesting states.

**Keys, AntiShakeKeys, Buttons26.**  A process is `user` or at a point of a
handler where another context may come in between in a way that matters: before
the semaphore (`down`), before each `request_irq` or `free_irq` (`request`,
`free`, with `idx` the next line), before the wait condition (`wait`), asleep
(`sleep`), before the copy (`copy`), before the reset of `ev_press` (`clear`),
and in poll.  `Edge(k)` is a level change of a pin with the whole interrupt
handler; the timer function is `TimerLoad` (it reads `irq_pd`) and `TimerReport`
(it samples and publishes), between which interrupts may come.  `Inherit` and
`CloseShared` are `fork` and the close of a shared descriptor.  Any
`request_irq` may fail for a reason outside the driver (no memory, or another
driver has the line).  The 3.4.2 `open` does not look and goes on without that
handler, and its `release` frees the line all the same; the 2.6.22 `open` looks,
frees that very line and returns 0.  `denied` are the lines the last open of the
3.4.2 driver was refused in this way.  `copy_to_user`, whose result `read`
ignores, is one step and is taken not to fault: a fault would not change the
driver's state.  `denied`, `key_seq`, `last_read`, `ready`, `interrupted`,
`shared` and `missed` are history that the properties need.

**MyMsg.**  A character is its number.  `mylog_putc` is one character of a
`myprintk`; a read is `ReadWait`, then `GetcLoad`, `GetcAdvance` and `PutUser`
per character, with `GetcEmpty`, `PutFault` and `ReadInterrupted` as the ways
out.  `GetcLoad`/`GetcAdvance` split the load and the store of the shared
cursor, because an interrupt may log in between (`IrqCallers`).  Without such
callers the kernel, which does not preempt itself, runs getc as a whole
(`NoGetc`).

**TouchScreen.**  `pen_down_up_irq` and `adc_irq` (`AdcPenUp`, `AdcSample`,
`AdcLast`) are whole handlers, as the two interrupts are sub-interrupts of one
line.  The timer function is interrupted by both, so each of its register
accesses is a step (`TimerLook`, `TimerRelease`, `TimerWaitPenDown`,
`TimerMeasure`, `TimerStartAdc`).  `PenMoves` may happen at any time.
`s3c_filter_ts` is translated in full, with its halved averages.

**Sound.**  A handler is `user` or waits at a semaphore (`down`, `wait`), in the
copy from or to user memory (`copy`), which may sleep, or in poll. `WriteCopy`
and `ReadCopy` are the rest of the loop body after the copy: the early return
with an up, the enqueue, the move to the next fragment and the top of the next
turn, and the failed enqueue, on which `write` returns without an up and which
`read` and SYNC do not notice.  `audio_clear_buf` frees the buffers of a stream
whoever is using them; the threads it happens to are in `stale`, and a behaviour
ends there, since the next step of such a thread works on freed memory.  As long
as a stream has no buffers, the model keeps its fields at the values
`audio_setup_buf` gives them.  Allocation is taken not to sleep, so that
`audio_setup_buf` is one step; a thread that came into its sleep would find
`s->buffers` set and the ring not ready (:357).  It may fail: the stream is then
as it was (:392), so that a call that only gets -ENOMEM is a stutter, and
`PollNoMemory` and `SetFragment` have the cases in which one stream was set up
before the other failed.

Facts about this driver that are in the model and deserve to be known:

* `copy_from_user_mono_stereo` tests `access_ok` the wrong way round (:445).  A
  mono write from memory the application has takes the fault path `LoopFault`;
  one from memory it does not have passes the test, and the fragment is accepted
  as if it had been copied (`WriteCopy`).
* The first `read` enqueues every fragment and looks at no result (:577): the
  fragments that were not taken stay down, as after any failed enqueue
  (`EnqueueAll`).
* A file opened for reading and writing, or for writing beside an open reader,
  leaves the bus set up for receiving (:997): its output is never played and its
  close waits for ever.  `CallsEnd` is conditional on the direction of the bus.
* `poll` looks at fragment 0 only, but sleeps on the current fragment's queue
  (:645-651).
* A failed enqueue leaves the fragment's semaphore down (:542).
* SYNC does not look at the mode of its file, and reads `b->size` before it has
  the semaphore (:425).
* RESET frees the buffers under other threads (:935).
* `write` takes the current fragment before it waits for its semaphore (:498);
  two writers may fill fragments out of order.  `PlaysInOrder` is about calls
  that do not overlap and enqueues that succeed (`Orderly`).
* The first `poll` or SETFRAGMENT of a reader sets the buffers up without
  queueing them (:637).  Nothing is captured until a `read`, which takes the
  empty fragments for full ones and queues them one after the other; until then
  `poll` says readable.  `PollPromise` is about fragments that hold something.
* A release that a signal ends throws away what was not played.
* GETOSPACE and GETISPACE test `access_ok` the wrong way round too (:889, :912):
  for a valid pointer they return 1 and fill in nothing, so they are not modelled.

**DspSettings.**  Pure operators, without variables: `Fragsize` and `Nbfrags`
(SETFRAGMENT), `FragmentLayout` (the loop of `audio_setup_buf`, for any sizes of
the pieces that the allocator has left), the mixer's conversions,
`iispsr_value` and the bits that `wm8976_write_reg` puts on the wire.
`MCSound` evaluates them against reference definitions when the run `sound`
starts: `FragmentsApart` (2 to 5 fragments, every combination of pieces: no two
fragments share memory, and what is freed is what was allocated),
`CodecReceives` (every register and every contents), `ClockFromBelow` (rates of
4 to 200 kHz and some that make no sense, for a PCLK of 50 MHz) and
`IgainDrifts`.  They show:

* `iispsr_value` does not choose the nearest clock: the difference is unsigned,
  so `PCM_ABS` (:770) never sees a negative number, and only clocks below the
  rate are considered.  32000 Hz is played at 26041 Hz, 32552 Hz was possible.
* A negative rate makes SPEED return -EINVAL (:824), but only after the rate and
  the divider have been set.
* The input gain loses a step with every read and write-back (:734, :741).  It
  does not matter, since it is not sent to the codec.
* A volume above 100 does not fit the register's six bits (:722).

**Dm9000.**  A called function is at a place (`call`), the handler at another
(`hpc`); `irq` is the latched rise of the edge-triggered line, `index` the
register that `io_data` accesses.  The functions the kernel calls exclude each
other, as softirqs do on one CPU and as the kernel deactivates the queue before
`dmfe_stop`.  The handler may come between any two accesses to shared state; a
call begins only when the line has been served.  `tx_pkt_cnt++` is a load and a
store (`XmitLoad`, `XmitStore`), and both tests of the count read the speed first
and the count afterwards (`XmitSpeed`, `XmitLimit`), so that a change of the link
may come in between.  `dmfe_tx_done` either counts what NSR marks or,
when it marks nothing or more than is counted, waits until the chip has sent
everything (`TxDoneWaits`, `TxDoneSent`).  `ChipSends`, `ChipReceives` and
`LinkChanges` happen at any time.  The source is read as the file builds it:
without `CHECKSUM`, `ETRANS`, `DM8606` and `TDBUG`.

Facts about this driver that are in the model and deserve to be known:

* A packet that is dropped for an error does not count towards the throttle
  (:1279), so a stream of bad packets keeps the handler in its loop.
* `dmfe_open` zeroes `cont_rx_pkt_cnt` (:501) after it has activated the chip; a
  throttle that came into force in between stays until the next interrupt or
  transmit (`lapsed`).
* A packet for which there is no memory stays in the chip with its interrupt
  acknowledged; it waits for the next one (`squeezed`).
* The handler's `dmfe_reset` (:1204) may come while `dmfe_start_xmit` copies a
  packet; the request that follows goes to a chip that has just been reset.
* One that is not in the model: `dmfe_get_link` (:1541) and `dmfe_nway_reset`
  (:1550) access the PHY from a process without the lock and without saving the
  register index, so that a softirq between index and data misdirects them.

**Replay.**  A line is two cells, its head and its tail with the newline, so
that a piece may end inside a line.  A write is `WriteCopy`, `WriteLoad` and
`WriteStore`, between which the timer function may run: a reset of `replay_w`
between the last two is undone by the store (:66).  The application writes from
its own array, so that `copy_from_user` does not fault; it ignores a full buffer
(`WriteFull`) and may be killed (`Abandon`).  The timer function reports the
waiting event (`FuncStart`) and then reads lines: a whole one, part of one or of
two (`ReadTorn`, which may be read as anything), the character after the end
when it is a digit (`ReadStray`), or the end (`ReadEnd`).  Jiffies are counted
modulo `JIFFIES`.  A second INPUT_REPLAY during a replay meets `add_timer`'s
BUG_ON, and a behaviour ends there; in the kernel :81 has overwritten the
deadline of the pending timer by then, and the BUG_ON kills only the caller, so
that the replay would go on from the wrong time.  `played`, `gap`, `torn` and
`missed` are history: the events reported, the time since the last of them,
whether the replay has met a half-written line, and whether cells were written
that it had read past already, which it does after such a digit.

Facts about this driver that are in the model and deserve to be known: the
replay reads up to and including `replay_w` (:104), so that a digit an earlier
replay left there becomes an event; `pre_time = 0` means that no event waits
(:188), so that one recorded at jiffies 0 may be lost; and `exit` (:474) does not
delete the replay's timer (module unload is not modelled).

## 3. Assumptions shared by all models

* One core.  An interrupt handler runs to completion.  A timer function (a
  softirq) is preempted only by interrupts.  A step of a process needs the
  softirq to be idle; between two steps of a process everything may run, other
  processes included.  On a kernel that does not preempt itself some of these
  interleavings need a sleep; the models do not rely on it, except where a
  module says so (`NoGetc` in `MyMsg`, the body of `putc`, the allocation in
  `audio_setup_buf`).
* External code is modelled from how the drivers use it and marked `external`
  in `map`: the VFS's counting of descriptors, fork and close, the poll loop,
  the DMA queue, signal delivery.
* Module load and unload are not modelled: the models start after `insmod`.
* A key, a sample, a character and a unit of sound are abstract: what is
  counted is which one arrives where, not its contents.  Coordinates keep their
  values, because the filter computes with them.

**Fairness.**  Only code that the kernel runs by itself is fair: a pending
timer expires, its function goes on, a process inside a handler is scheduled
unless it sleeps, a running conversion ends, the DMA works on its queue.
Nothing is assumed of what applications call, of keys, of signals, of faults
or of the pen.  Strong fairness is used where a step is disabled again and
again by others: a reader in `MyMsg` (another reader is inside getc) and a
waiter on a semaphore in `Sound` (another thread gets it first; the kernel's
semaphores queue their waiters).  In `Dm9000` it says that the CPU is faster than
the network: a function that is interrupted again and again goes on
(`Continue`), and the receive loop sometimes finds the chip empty (`RxEmpty`).
In `Replay` time passes and the timer function runs; nothing is assumed of the
application.  `LongPressMeasured` assumes, inside the
property, that the controller delivers the pen interrupt.

## 4. The runs

The types of all modules are theorems (section 6; of `MyMsg` without interrupt
callers), so that the runs need not check them; `dm9000` does, because there the
range of the packet count is what an unlocked increment endangers.

| run | instance | states | shows |
| --- | --- | --- | --- |
| `keys` | 2 processes, 2 files, 2 keys, 2 edges, shared descriptors | 1 219 292 | `AtMostOneOpen`, `OpenHasLines`, `IrqCallsMatch`, `Settled`, `ReadyMeansEvent`, `FreshReads`; with fairness `KeyEndsRead` |
| `buttons26_users` | 2 processes, 2 files, 1 key, 2 edges | 465 540 | `AtMostOneUser` (nobody reads or requests lines beside another), `FreshReads` |
| `mymsg_ring` | 2 readers, 3 slots, reads of 0 and 2, 5 characters | 49 150 | `CursorInWindow`, `SlotsHoldLog`, `NoFalseEof`, refinement of `LogStream` (`IsLogStream`); with fairness `CharEndsRead` |
| `touchscreen` | 3 places, limit 10 | 135 159 | `ReleaseComing`, `MeasureEnds`, `NoOutlier`, `PointsWhole`, `StillPenReported`; with fairness `ReleaseReported`, `LongPressMeasured` |
| `sound` | 2 threads, 2 files, 2 fragments of 2 units, calls of 3 units, 6 units written and 6 captured | 400 062 | `FragmentExclusive`, `OneFilePerStream`, `PlaysInOrder`, `CapturesInOrder`, `SyncDrains`, `PollPromise`, `FreedOnlyByReset`; with fairness `CallsEnd`, `PollEnds` |
| `dm9000` | throttle after 2 packets, room for 1, revision without the C bit | 871 627 | `TypeOK`, `CopiesToMWCMD`, `MaskLifted`, `ClosedChipMasked`, `CountTracksChip`, `StoppedHasCompletion`; with fairness `RxServed` |
| `replay` | 2 files of 3 lines, pieces of 3 cells, 13 cells, 8 jiffies | 1 120 864 | `PlaysBuffer`, `NeverEarly`; with fairness `ReplayEnds` |
| `keys_signal`, `keys_lost`, `buttons26_exclusive`, `mymsg_irq`, `mymsg_gap` | the smallest that shows it | | violations, section 5 |

The bounds and why they are enough:

* *Processes and files.*  Two processes make every race of this code: an owner
  and a newcomer, two users of a shared file, two readers of one event.  Two
  files are needed for an open beside an open file.
* *Keys and edges.*  Two keys are needed for one key's interrupt to replace
  `irq_pd` while another's timer is pending, and for open and release to be
  interrupted between two lines; two edges for a bounce, for an interrupt inside
  the timer function, and for an event during another event's read.
* *Ring.*  Three slots hold two characters; five characters wrap every index
  round and drop characters before, at and behind the cursor.  A read of 2 fills
  its buffer or the ring's end comes first; a read of 0 only takes.
* *Touchscreen.*  The three places are a base, one exactly at the filter's limit
  on one axis, and one just further away than an outlier may be on the other.
  Nothing else is bounded.
* *Sound.*  Calls of 3 units with fragments of 2 start and end inside, at the
  start and at the end of a fragment and run over its end; six units fill the
  ring and wrap round, in both directions.  The bounds start afresh when a
  stream's buffers are cleared.

* *DM9000.*  Two packets make a throttle that is neither met at once nor after
  one; room for one lets a packet come at any step of the handler, empty or
  refused.  Without the C bit the limit of packets follows the speed, so that it
  changes under a count of two.  Nothing else is bounded: that the chip
  never has more than three packets is what `CountTracksChip` says.
* *Replay.*  Pieces of three cells end inside a line and at its end; thirteen
  cells take two files and refuse what is written after them.  One
  file pauses, the other was recorded while jiffies wrapped, with an event at 0;
  written one after the other they go back in time.  Eight jiffies tell a delay
  from a time in the past.

`replay` is checked without deadlock detection, because a behaviour ends at the
BUG_ON.  `sound` is checked without deadlock detection, because a behaviour of
the model ends when buffers are freed under a handler.  Its specification in
`MCSound` always opens the same one of several unused files: no property and no
fairness condition names a file, so the others would only be renamings.  The
safety runs of the button drivers use the symmetry of processes and files; the
runs with fairness use none.

Notes on properties that are weaker than a reader may expect:

* `OpenHasLines` and `IrqCallsMatch` leave out the lines that `request_irq` denied
  to the open in question for a reason outside the driver.  The code does return 0
  without them, a reader who waits for such a key sleeps on, and release frees a
  line it never got; nothing in the repository says what it should do.  What the
  properties say is that no line is missing, asked for twice or freed for nothing
  because of another process.  Of the lines of the 2.6.22 driver, whose opens may
  overlap a release and return 0 with too few, no property speaks.
* `ReadyMeansEvent` and `FreshReads` leave out files shared by several processes.
* `FreedOnlyByReset` permits the two cases that the code has: a step that opens
  and closes no file (RESET), and the close of the writer under the SYNC of a file
  without output.  It says that there is no third.
* `PlaysInOrder` leaves out writers that overlap, `CallsEnd` a stream that lost a
  fragment and the wrong direction of the bus.
* `PointsWhole` holds until the pen comes back before the driver was at rest
  (`hurried`).  After that a point may mix samples from before and after a
  reported release: the timer of the earlier point and the new pen interrupt
  both start conversions.
* `KeyEndsRead` speaks of files that are not shared, since only one of several
  readers gets an event.
* `NoFalseEof`: with two readers a read may return 0, because the other one took
  the character between wait and getc.
* `CharEndsRead` leaves out sleepers during whose sleep an open rewound the
  cursor: open does not wake them.
* `PollEnds` is about fragment 0 being the current one; at another one the poll
  may sleep for ever.  `PollPromise` is about fragments that hold something.
* `MaskLifted` and `RxServed` leave out a throttle whose count `dmfe_open` has
  zeroed; `RxServed` also a packet that found no memory and waits for the next.
* `CountTracksChip` allows a difference of one, which the code does reach: a
  reset in the middle of a transmit loses one, a completion between load and
  store of the count adds one.
* `PlaysBuffer` leaves out events recorded at jiffies 0, those read from a digit
  after the end, and a replay that met a half-written line or lines written where
  it had read such a digit; `NeverEarly` a replay that has read a line recorded at
  jiffies 0.

## 5. Where the code does not do what it says

Each of these runs checks one property that states what a comment says, and TLC
finds a behaviour of the code that violates it.

| run | property | what happens |
| --- | --- | --- |
| `keys_signal` | `EveryReadHasEvent` | `sixth_drv_read` ignores the result of `wait_event_interruptible` (:119).  After a signal it returns an old key value although the comments say it sleeps when there is no key action. |
| `keys_lost` | `NewestNotLost` | the timer stores a value between the copy of `key_val` (:123) and the reset of `ev_press` (:124): it is never returned. |
| `buttons26_exclusive` | `AtMostOneOpen` | `release` ups `button_lock` before it frees the lines (:234), so a second application opens the device while the first one's release is under way, and loses its lines to it. |
| `mymsg_irq` | `DropsAtMostOne` | an interrupt that logs between load and store of the read cursor: the store moves the cursor back out of the window, and everything unread is lost at once. |
| `mymsg_gap` | `DeliversNext` | the read loop takes a character before it tests whether there is room for it (:123); the character after a full buffer is dropped. |

The first two are checked on the 3.4.2 module; the read handler of the 2.6.22
driver takes the same steps.

## 6. The proofs

TLAPS proves the following for all values of the constants that satisfy the
modules' assumptions (`KeysAssumption`, `MyMsgAssumption`,
`TouchScreenAssumption`, `SoundAssumption`, `Dm9000Assumption`,
`ReplayAssumption`), which TLC evaluates on every run.
The bounds (`MaxEdges`, `MaxWritten`, `MaxCaptured`) are constants too: the
theorems hold for each of their values.

**KeysProofs.**  Lemmas about the steps that both button drivers share: the
types; the debounce (`SettledInv`: between interrupt and timer the last key's
value is on its way, also while the timer function works on it); and the event
flag (`ReadInv`).  The flag stands for a value newer than the last one read,
except while a reader that has copied it is about to reset it (`Flagged`).  So a
reader at its copy has a newer value (`Fresh`), and poll's promise is kept
(`Promised`), if no other process can be inside a read of another file: all that
is needed of open and release is `OneUser`, which each driver proves of its own.

**AntiShakeKeysProofs.**  `ExclusiveOpen` (`AtMostOneOpen`, with types),
`LinesWhileOpen` (`OpenHasLines`), `MatchedIrqCalls` (`IrqCallsMatch`).
`AtMostOneOpen` alone is not inductive.  The invariant (`Inductive`) adds that
the semaphore is down exactly while a file is open, that a process inside `open`
or `release` is alone on its file, and that the installed lines are those it has
got to, less those it was denied: of `1 .. idx - 1` while it requests, of
`idx .. NKeys` while it frees, of all while the file is open, none otherwise
(`Collected`).  With the lemmas of `KeysProofs`:
`SettlesRight` (`Settled`), `PollKept` (`ReadyMeansEvent`) and `ReadsFresh`
(`FreshReads`).

**Buttons26Proofs.**  `OneUserAtATime` (`AtMostOneUser`), `ReadsFresh`
(`FreshReads`), and, not checked by a run of this module, `PollKept` and
`SettlesRight`.  The invariant says that the semaphore is down while a file has
a user.  `release` gives it back when the file has none left, because the
releasing process is alone on it; what happens to the lines does not matter.

**MyMsgProofs.**  `RingSafe` (`CursorInWindow`, with types), `LogKept`
(`SlotsHoldLog`) and `ImplementsLogStream` (`IsLogStream`), all under the
assumption that no interrupt handler logs (`~IrqCallers`); `mymsg_irq` shows that
it is needed.
The invariant adds that a reader between load and store holds the cursor and
the character that stand in the ring (`NoGetc` keeps others out).  The
refinement maps each putc to `Write`, each store of the cursor to `Take`, each
open to `Rewind` and everything else to a stutter.  The arithmetic is about
`Dist`, the distance on the ring, and is collected in lemmas.  `ReadsDeliver`
(`NoFalseEof`, under the same assumption) adds that a reader that found the ring
not empty finds a character unless another reader took it (`TestedFull`).

**TouchScreenProofs.**  `NeverStuck` (`ReleaseComing`, types), `MeasuringEnds`
(`MeasureEnds`), `OutliersFiltered` (`NoOutlier`), `StillReported`
(`StillPenReported`) and `WholePoints` (`PointsWhole`).  The invariant relates
the mode, the pending interrupts, the timer and where the timer function is.
The two theorems about the filter rest on lemmas about its averages, for all
coordinates and limits.

**SoundProofs.**  `FragmentsExclusive` (`FragmentExclusive`, types) and
`OneFile` (`OneFilePerStream`).  The invariant `Safe` adds to the types that a
fragment never holds more than it can (`Fits`), that only `write` and `read` are
in a copy (`Places`), and that a write or read has buffers as long as nobody's
buffers were freed (`Buffered`): the first read enqueues every fragment, and is
the first because there are no buffers, so nobody is in a copy.  The core is a
small algebra of `Exclusive(H, S, D)`, for holders, semaphores and queue of one
stream, with a lemma per way a fragment changes hands (`Taken`, `Released`,
`Sent`, `Done`, and `FirstQueue` for the first read, of whose enqueues some may
fail); the lemmas per handler say which of them applies.
The types depend on it: an up leaves a semaphore at 1 only because it was down.
`OneFile` needs what the open counts say of the modes (`Counted`), and that a
thread inside release holds the last reference to its file (`LastInside`).
`FreesOwnBuffers` (`FreedOnlyByReset`) rests on it: a step that frees a stream's
buffers and opens or closes a file is an open, which finds no other file on that
stream, or the close of the last reference to the stream's only file.  Handlers
run on open files that allow them (`InsideFile`), all but a SYNC, which waits in
the output whatever its file allows, and under which the writer may close.

The promises of the calls, `WrittenPlays` (`PlaysInOrder`), `CapturedIsRead`
(`CapturesInOrder`), `SyncHasDrained` (`SyncDrains`) and `PollTells`
(`PollPromise`), share one invariant, `SoundInv`.  As long as no buffers were
freed under a handler it says `Ordered`; where they are freed the model ends, and
it says that the promises hold in that last state.  None of the promises is near
to inductive.  What each of `Ordered`'s parts is for:

* `Alone`: two threads inside a stream that calls do not overlap on are a release
  and a sync through another file.  `AtCurrent`: a write or read is at the current
  fragment.  `Accounted`: a fragment that is down is held by a handler or queued,
  unless an enqueue failed.
* `Consecutive`: the DMA queue holds the fragments before the current one, in the
  order of the ring.  It gives the order of the units: played, then those queued,
  then those of the current fragment (`OutOrder`); for the input: read, then those
  of the current fragment and of the ones after it (`InOrder`).
* `Shaped`: what is queued is empty, and the input's filled fragments are the last
  ones before the queue.  With `Ready` it follows that fragment 0 tells `poll` of
  the current one as well.
* `Settled`: the current fragment is empty, and what a waiting sync has chosen
  (`Waits`) is the last queued fragment with something to play.  Its semaphore
  goes up when that one is done, hence when everything is.

The units of a stream are sequences of sequences, flattened by the community
modules' `FlattenSeq`, a recursive function.  That it has a value, and what an
append, a head and a tail do to it, takes an induction.  The library's induction
theorems have an operator as parameter, which none of the provers instantiates;
`SetInduction` says the same of a set of numbers and is proved from the library's
facts on injections of finite sets into themselves.

About `DspSettings`: `Geometry` and `VolumeKept`, for every argument of
SETFRAGMENT and every volume; the first one justifies that the model of the
streams assumes at least two fragments.  `FragmentsDisjoint`, for any number of
fragments and whatever pieces of memory the allocator has, and
`NearestFromBelow`, for every clock and rate, state what `FragmentsApart` and
`ClockFromBelow` evaluate on small inputs; both functions are recursive, and the
proofs go by `SetInduction`.

**Dm9000Proofs.**  `Typed` (`TypeOK`), `CopiesSelected` (`CopiesToMWCMD`),
`ThrottleEnds` (`MaskLifted`), `StoppedQuietly` (`ClosedChipMasked`),
`CountNearChip` (`CountTracksChip`) and `QueueWoken` (`StoppedHasCompletion`), for
every throttle limit, room and revision.  The properties speak of moments at
which nothing runs; the invariant says what holds in between.  `NotBehind` and
`NotAhead` bound the distance of the count from the packets in the chip, those
marked in NSR and the one being copied, at each statement of `dmfe_start_xmit`.
They need `Announced`, that a packet marked in NSR has raised its interrupt or is
about to be read, and `Latched`, that a high line has been latched.  `Woken` and
`Throttled` name who is on the way to wake the queue and to lift the mask,
`Selected` who holds the selection of the transmit register, and `Places` what
earlier tests have established.

**ReplayProofs.**  `RecordedDistances` (`NeverEarly`) and `ReadIsReported`
(`PlaysBuffer`), for every set of recorded files, every length of buffer and
piece and every width of jiffies, and `WritesFit`: no write leaves the buffer,
though the replay may reset `replay_w` between a write's copy and its advance,
or inside the advance, whose store undoes the reset (`Loading`: what was loaded
still fits). The part `Kept` of the invariant follows the recorded time of the
event reported last.  In the loop it stands in `pre_time`; while the timer runs,
the time since that report and what is left of the timer are together at least
the distance to the waiting event.  `pre_time` is not 0 by then, unless a line
was recorded at jiffies 0, which is why the property needs that condition.
`PlaysBuffer` is inductive with `Idle`: nothing waits in `pre_time` when no
timer function is to come, so that an ioctl that starts the timer adds nothing
to what will be reported. `Real`, which leaves out the events that do not count,
is a recursive function of a sequence; what it makes of one event more is shown
with `SetInduction`.

Only model-checked: the liveness properties `KeyEndsRead`, `CharEndsRead`,
`ReleaseReported`, `LongPressMeasured`, `CallsEnd`, `PollEnds`, `RxServed` and
`ReplayEnds`, since fairness and ENABLED are out of the provers' reach; and of
`DspSettings` the serial port and the input gain, of which the run `sound`
evaluates every input.  Every safety property of a passing run is a theorem.

## 7. What is not modelled, and the plan

Within the modelled parts: module load and unload (the semaphore is initialised
after the device node exists, `B/key_anti_shake_all/key_anti_shake_all.c:219`;
timers that outlive their module, `:224` and `A/ts/ts_driver.c:238`); two
callers inside `myprintk`, which share `tmp_buf`; GETOSPACE, GETISPACE and the
probe of the sound driver, and the order of its register set-up.

Of the DM9000 driver: PHY and EEPROM access, the ethtool and ioctl requests, the
multicast hash, and the probe.  The 3.4.2 files carry the same transmit, handler,
watchdog and timer.  Of the recorder: INPUT_TAG, which logs a string.

What would come next, in this order:

1. **DM9000**: PHY access from a process beside softirqs, for the facts of
   section 2; the differences of the 3.4.2 version.
2. **Recorder with its log**: the composition of the input driver's interrupt
   handlers with `MyMsg` (`IrqCallers`), two callers inside `putc`.
3. **DMA memory copy**: two callers, one channel, one flag.
4. **Button drivers**: the remaining versions as further users of `Keys` and
   `KeysProofs`; module load and unload for all of them.
5. **LEDs, USB mouse, virtual network device, RAM block device**: small modules;
   for the virtual network device and the block device functions checked against
   a reference definition.
6. **Proofs**: with each of these its safety properties; of what is modelled
   only liveness is left.

Much of the tree is copies: five versions of the DM9000 driver and three of the
kernel's `read_write.c`.  A model stands for the version it names.

Not planned, because the code has no control of its own: NAND, NOR and LCD
drivers (register set-up and accessors for the kernel's subsystems), the
platform bus example, the memory editor, the system call
and cdev examples, and the test programs, whose calls the processes of the
models cover.
