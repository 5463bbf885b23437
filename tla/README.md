# Formal models of the warden SDK

TLA+ models of the logic that the warden SDK itself owns: the simulators its CI
hardens device code against (`sim/`), the RS-485 bridge (`qemu/rs485-bridge`),
the two board drivers (`drivers/`) and, of the kernel port
(`kernel/rv1106-enablement`), the RTC driver, the display controller driver, the
ring-oscillator calibration of the clock driver and the mailbox echo firmware.
TLC checks each model on a small instance;
TLAPS proves most of the safety properties of the watchdog firmware, the reset
ladder, the freshness engine, the relay driver, the bridge, the RTC driver, the
display driver and the echo firmware for every value of their constants. Paths below are relative to `src/`.

## 1. The system and its parts

The SDK targets the Rockchip RV1106 ("warden") panel. Linux runs on the
Cortex-A7; a SCR1 RISC-V core (the HPMCU) runs a small firmware that resets the
SoC when Linux dies. Userspace (`flared`, `flare-edge`, not in this repository)
feeds the watchdog, drives the relays, paints the UI and polls RS-485 devices.
In CI a QEMU machine takes the place of the board and the RS-485 bridge the
place of the field bus.

| part | source | state | operations | what is hard | what makes it correct |
|---|---|---|---|---|---|
| HPMCU watchdog | `sim/src/hpmcu.rs` over `sim/src/membus.rs` | mailbox words magic, counter (Linux) and state, seen (MCU); `t0`, `last_change`, `last_seen`, `armed_ever`, `fired` | `new`, `tick`, `fire` | two cores share words with no lock; death or stand-down between two accesses; deadlines; what a warm reset keeps | a healthy or stood-down Linux is never reset, a dead one always, in bounded time |
| Reset ladder | `sim/src/cru.rs` | reset request, watchdog enable, range and pet, boot-mode register; `wdt_deadline`, `boot_mode`, counters | `poll`, `power_on_reset`, register pokes | pets that race the deadline; state that outlives a reset | a pet holds, the backstop bites, no stale boot mode |
| Freshness engine | `drivers/freshness/freshness.c` | a fixed table of bindings | `bind`, `set_visible`, `page_show`, `tick`, `invalidate`, `reset`, `min_budget` | staleness over hidden pages and a wrapping clock | no widget asserts an old value |
| Relay driver | `drivers/relays/relays.c` | none of its own; the gpio lines keep export, direction, level | `available`, `get`, `set` | crashes between sysfs accesses, failing reads | only `set` moves a contact |
| Modbus slave | `sim/src/modbus.rs` | holding registers, coils, inputs; pending faults | `handle_frame` (nine functions), setters, fault injection | packed bits, limits, all-or-nothing writes | each request acts on exactly the cells it names |
| RS-485 bridge | `qemu/rs485-bridge/src/lib.rs` | the pump's buffer, the mutex around the slave | `pump_serial`, `dispatch`, control lines | split and merged frames, late replies, a poisoned mutex, EOF | an answer is the request's own |
| RTC driver | `kernel/rv1106-enablement/rtc/rtc-rockchip.c` | battery-backed registers; the delayed trim work | `set_time`, `setalarm`, `alarm_irq_enable`, the alarm interrupt, the trim work, suspend, resume, probe | four actors on one register block without a lock; resets between accesses; bus errors | the time reads back, the clock runs, no alarm is lost, trimming is whole |
| VOP display driver | `kernel/rv1106-enablement/display/rockchip_drm_vop.c` | block registers and their backup; runtime-PM and clock references; the pending event and the framebuffers to release; `loader_active` | bind, unbind, enable, disable, commit (plane, gamma, flush), vblank on and off, interrupt, release worker | the frame start falls between any two register writes; two sets of references during the takeover of the loader's picture; buffers freed under a scanning block | a flip is reported when it is on screen, no freed buffer is scanned, references balance, the logo stays until the first modeset, each commit ends |
| PVTPLL calibration | `kernel/rv1106-enablement/clk/clk-rv1106.c:1002-1153` | the length field of three ring oscillators | init, calibration work | a search over a curve it does not know, in a field that wraps, on a chip that warms up | it ends, finds a length close to the target, leaves no ring faster than it was |
| Mailbox echo firmware | `kernel/rv1106-enablement/mailbox/scr1-echo` | mailbox registers, debug words | start, poll, echo, acknowledge; reload | a message in two registers with one doorbell; acknowledgement of an unread message; a firmware loaded again in mid-reply | every message is answered, by its own two words |
| config-lint | `tools/config-lint` | none | compare a config with a baseline | parsing corner cases | not modelled yet |
| RGA and NPU fakes | `sim/src/rga.rs`, `sim/src/npu.rs` | a log and a status; a number | record, parse | nothing their tests miss | not modelled |
| clock tables (the rest of `clk/`), device trees, patches | `kernel/rv1106-enablement/{clk,dts,...}`, `patches/` | data | – | – | not modelled: data or vendored code |
| QEMU machine, images, tests, build, CI | `qemu/`, `build/`, `tools/`, `.github/` | files | scripts run once, in order | – | not modelled: I/O |

How they interact. `flared` and the HPMCU share the mailbox words; the HPMCU's
`fire` is what the CRU's rung 1 is on the board. The bridge gives bytes from the
guest's serial port to the Modbus slave under a mutex which the control thread
shares. The freshness engine calls a producer and a render callback per binding.
The RTC driver shares its registers between the RTC core's calls, the interrupt
thread, a work queue and power management. The VOP driver takes its clocks from
the clock driver, and shares its registers and `struct vop` between DRM's commit
thread, its interrupt handler and a worker. The echo firmware runs on the HPMCU in
place of the watchdog, over the hardware mailbox. The other parts do not call
each other.

## 2. Modules

| module | models | composes |
|---|---|---|
| `Hpmcu` | `hpmcu.rs`, the mailbox, and the Linux side as far as the tests use it | |
| `HpmcuProofs` | theorems about `Hpmcu` | extends `Hpmcu` |
| `Cru` | `cru.rs` and software's register pokes | |
| `CruProofs` | theorems about `Cru` | extends `Cru` |
| `Freshness` | `freshness.c`, its producers and widgets | |
| `FreshnessProofs` | theorems about `Freshness` | extends `Freshness` |
| `Relays` | `relays.c`, one step per `relay_io` primitive, and the gpio lines | |
| `RelaysProofs` | theorems about `Relays` | extends `Relays` |
| `FieldDevice` | what a Modbus device promises: cells, requests, answers, no bytes | |
| `ModbusSlave` | `handle_frame` on decoded frames: bytes, packed bits, byte counts | implements `FieldDevice` |
| `Crc16` | `crc16` and `check_crc` on real bytes | |
| `Rs485Bridge` | `pump_serial`, `dispatch`, the control thread, and the guest's master | instantiates `ModbusSlave`: `dispatch` and the control thread act on its banks |
| `Rs485BridgeProofs` | theorems about `Rs485Bridge` | extends `Rs485Bridge` |
| `RtcTime` | the RTC driver's arithmetic: BCD images, compensation | |
| `Rtc` | `rtc-rockchip.c`: calls, interrupt, work, power management, probe | extends `RtcTime` |
| `RtcProofs` | theorems about `Rtc` | extends `Rtc` |
| `Vop` | `rockchip_drm_vop.c` on this board, DRM's calls and the block's frame start | |
| `VopProofs` | theorems about `Vop` | extends `Vop` |
| `Pvtpll` | the calibration in `clk-rv1106.c` and a ring oscillator | |
| `MailboxEcho` | `scr1-echo/main.c`, the mailbox block, Linux's end | |
| `MailboxEchoProofs` | theorems about `MailboxEcho` | extends `MailboxEcho` |
| `MC*` | constants and symmetry for TLC | extend their module |

Conventions. An action is a whole handler, cut into steps only where another
actor can come between two of its accesses: `tick`'s two reads, `flared`'s two
pokes, each sysfs primitive, each read of the socket, each access to a register
that two RTC actors share, each access of the echo loop, each group of VOP
register writes that a frame start, the interrupt handler or a lock separates.
Variables and operators keep the names of the source.
History variables (marked "history") are written by the actions and read by the
properties only. A definition marked MUTANT is a faulty variant of the one below
it: replacing one by the other must break a property, which shows that the
property can fail.

### How state and actions correspond to the code

* **Hpmcu.** `magic`, `counter`, `state`, `seen` are the mailbox words;
  `t0 .. fired` the fields of `HpmcuSim`. `TickReadMagic` and `TickFinish` are
  one `tick`, cut between its two reads (`TickDisarmed`, `TickArmed`,
  `TickUnarmed` are the three arms of its match). A boot of Linux, its beats, its
  stand-down and its death are the environment; a re-created MCU is `new`. The
  poll count and the CYC word have no reader and are left out.
* **Cru.** `Poll` is `PollCru`, `PollWdt` or `PollOff`, the three ways through
  `poll`. The poll may be late by up to `PollPeriod`.
* **Freshness.** The table `s_vals` with one record per slot; `RefreshOne` is
  `refresh_one` including the render callback. Time is a word modulo `TimeMod`.
* **Relays.** A call is a program counter that walks the primitives of
  `ensure_ready` and its caller; `Crash` may come between any two. A write may be
  lost (`Lost`), and the kernel refuses a value written to a line that is an input;
  neither is reported to the caller.
* **ModbusSlave / FieldDevice.** The refinement mapping reads the banks as the
  device's cells and decodes the reply from its bytes; the abstract device
  neither packs bits nor knows byte counts. `report_slave_id` puts the identifier's
  length into one byte, modulo its width (`len() as u8`), as the code does; the
  abstract device answers garbled for one that is longer. A frame to address 0 is
  ignored like one to any other slave (section 5).
* **Rs485Bridge.** A chunk read from the socket is a piece of a request, a whole
  one, noise, or the run-together of two; CRC outcomes are those `Crc16`
  establishes. A panic in a setter poisons the mutex. A read from a socket whose
  other end has gone may return an error instead of 0 (`ReadError`): the pump then
  ends with what is pending lost, which `EofLosesNothing` does not speak of.
* **Rtc.** `ctrl` is RTC_CTRL's START and COMP_EN; `op`, `irq`, `trim` and `pm`
  are the four actors' program counters and locals; `gated` is the clamp. A
  `struct rtc_time` is cut down to its seconds and its year, because the other
  fields take the conversion of the seconds. READSEL, the analog trims and the
  write key have no reader. `suspend_bypass` makes suspend and resume do nothing,
  so it adds no behaviour. An access that fails is `Fault`; where the driver does
  not look at the result of a read, the local it fills is any value. The bulk writes
  of the time and of the alarm go register by register, in address order: a bus error
  or a reset between two leaves the registers written so far, and `torn` (history)
  remembers it until a later `set_time` has written them all. `ProbeFail` is a probe
  that returns an error after the block was set up, before or after it queued the
  trim work; its clocks are off afterwards, and nothing cancels the work.
* **Vop.** `hw` is the block: the window registers as written (`win`), what the
  current frame shows (`scan`), standby, cfg_done, the gamma table as asked for and
  as in use, interrupts raised and enabled. `clk` counts runtime-PM and clock
  references, `vop` is `struct vop` with the CRTC's vblank state, `work` the
  flip work's two lists, `crtc` the swapped DRM state and the framebuffer of the
  old one, `commit` and `isr` the two threads of control. A commit walks
  `vop_crtc_atomic_disable` .. `vop_crtc_atomic_flush` in `commit_tail_rpm`'s
  order. `vop_plane_atomic_update` is cut after the address registers, because the
  block can take a frame's registers there. Formats, offsets, timings, blending and
  the table's contents are data: a window is the framebuffer its address is of, the
  framebuffer its geometry is of, and the enable bit. `vop_enable`'s restore from
  `regsbak` writes what the registers held, windows disabled. The gamma code is the
  path for a block without `update_gamma_lut`, with the gamma RAM mapped; a commit
  may bring a table, take it away or replace it.
  What the driver goes on from when it fails are steps of their own, each possible
  only if its kind is in `Upsets`, and `upset` (history) collects the kinds that
  happened: `vop_enable_fails` ("enable"), after which DRM calls begin, the plane and
  flush of a VOP that is disabled, and later disables it ("undo"); `HoldTimeout` and
  `PollTimeout` ("timeout"), the 200 ms and 10 ms waits that end by time, the first of
  which goes on to take the clocks away; `LoaderDclkFails` ("dclk"), logged only; and
  `vop_initial_fails` ("initial"), which gives clocks back that the loader had left on.
  A bind over a kept logo that is deferred, or undone by an unbind, needs no upset: it
  leaves a set of references behind, which `stranded` (history) counts up to
  `MaxStranded`. A register write without core clocks is lost; on the board it may
  also hang the bus, which ends the behaviour. A count that would go below zero stays
  there, as the clock framework and runtime PM do with a warning. DRM's wait for an
  event that was never armed, which ends by time, is not modelled: the next commit
  may start at once.
* **Pvtpll.** `ring` selects between the two functions, which differ in three
  lines: whether a rate that does not fall ends the search, the smallest step, and
  whether `length_ori` is masked. A step ends at each pause. The definitions of
  its specification carry the prefix `Ring`, because `CruProofs` extends it together
  with `Cru`.
* **MailboxEcho.** One step per register access of `main`. The doorbell is the
  write of DAT and only an enabled channel's raises its status bit, both as
  `mailbox/VERIFIED.md` found on the board. A message is one value in both words,
  so that mixed words show.

## 3. Runs

TLC, two workers. Deadlock checking is off where the modelled clock or call
budget ends or the work is over (`Hpmcu`, `Cru`, `Rs485Bridge`, `Rtc`, `Crc16`,
`Pvtpll`) and where nobody need start another commit (`Vop`).

| run | checks | instance and why it is enough |
|---|---|---|
| `hpmcu` | `FiredMeansDead`, `DisarmStandsDown`, `DeadIsDetected`, `NewBootGrace`, liveness `DeadEndsInCountedReset` | heartbeat 3, grace 6, boot 4, beat 2, poll 1: the tightest values the timing assumption admits, so one tick of slack less would fail; time 14 holds a whole life, a reset and a second boot's grace. 1.6 M states |
| `clock_reset_unit` | of `Cru`: `WatchdogBites`, `BootModeWasAsked`, `PetHoldsOff`; of `Pvtpll`: `RingNotShortened`, `CloseIsFound`, liveness `CalibrationEnds` | ladder: windows 1 and 2, poll 2 (longer than a window, so pets and deadlines cross between polls), two resets. Rings: a three-bit length field, so a jump wraps it; six rates on both sides of the target, close to it, just not close, and far above; every curve that does not rise; a drift larger than the tolerance; `MAX_TRIES` = 3 instead of 20, fewer than there are lengths, so that the search gives up too. The two share no variable and no property speaks of both, so the ladder moves beside one ring only, one that is calibrated. 774 k states |
| `freshness` | `HeldValueIsFresh`, `ShownIsConfirmed`, `MinBudgetIsTightest` | two slots (one table-full bind), two pages, budgets 0 and 1, a clock of 4 values started at 2, so it wraps inside the run |
| `relays` | `SetReachesContact`, `OnlySetMovesContacts` | two relays, any initial export, direction and level; unbounded calls, lost writes and crashes |
| `modbus_device` | refinement `ImplementsDevice` | bytes of 3 bits so that packing needs a second byte; requests on both sides of every limit |
| `crc_framing` | `NoiseIsRejected`, `CrcIsRemainder` | real 16-bit CRC on eight-byte requests; every error of one or two bits and every burst up to 16 |
| `bridge` | `AnswerIsGenuine`, `ServedOnce`, `BusSurvives`, `EofLosesNothing`, liveness `BridgeEnds` | two requests (one late answer and the next request), one piece of noise, a pump late by up to `STALL` at every step, `TIMEOUT` at its smallest admitted value. 725 k states |
| `rtc` | `ReadBack`, `ClockRuns`, `EnabledIsProgrammed`, `CompensationFits`, `AlarmIsNotLost`, `TrimNeverGated` | two calls, one second, times on both sides of the year register's carry and before a BCD carry, the largest drift before the 32-bit product wraps, one reset, suspend, bus error or failed probe anywhere, between two registers of a bulk write too. 3.3 M states. The theorems cover any number of each |
| `rtc_ctrl_race` | violated: `SetTimeRestarts` | one call, no fault of any kind |
| `vop` | `ScansLiveBuffer`, `TornOnlyWithGamma`, action property `FlipIsOnScreen`, liveness `CommitCompletes` | no failure; two framebuffers (the one shown and the one replaced), a block found dark or lit, any number of binds, commits, interrupts and frames. `MaxQueued` = 1 keeps a framebuffer from being queued for release twice; the theorems cover any bound. 560 k states |
| `vop_upsets` | `BusIsSafe`, `ReferencesBalance`, `LogoIsKept` | failed enables, timeouts and a dclk that cannot be enabled, any number of times and in any order, and one bind over the logo deferred or undone; one framebuffer, because the three properties are about clocks and not about which buffer is shown. With "initial" among the `Upsets` (12.0 M states) and with nothing failing but two framebuffers the result is the same. 6.0 M states |
| `mailbox_echo` | `ReplyIsWhole`, liveness `MessageIsAnswered` | two channels with an unused one between them, so one status word names both; two messages, so words of two can mix; one reload at any step. 22 k states |

The project's properties aim at the hazards listed in `PROJECT.json`; a hazard
whose property does not cover all of it carries a note.

### Fairness

* `hpmcu`: weak fairness of the tick's two steps and of the clock. The firmware
  is a loop without a blocking call and time passes; nothing is assumed of Linux,
  which is the party that dies.
* `bridge`: weak fairness of the pump's steps and of time. The pump is a thread
  the host schedules; its reads have a timeout, so none blocks for ever. Nothing
  is assumed of the guest's master or of the control thread.

* `vop`: weak fairness of the frame start and of the handler, strong fairness of
  the commit thread. The block produces frames while it is clocked and not in
  standby, and the interrupt line is level-triggered. `readx_poll_timeout_atomic`
  reads the status without pause while the handler needs microseconds of a frame of
  16 ms, so the poll does see the bit low; a scheduler that samples it only when it
  is high is not one the code meets. Nothing is assumed of userspace, of the
  release worker or of the idle timer.
* `mailbox_echo`: weak fairness of the firmware's loop, of Linux's second write and
  of its interrupt. The loop does not block, and the two writes are one function.
* `clock_reset_unit`: weak fairness of the calibration work, which the work queue runs to its end.

No other run uses fairness: the other properties are safety.

## 4. What is proved

For every value of the constants, from the named `ASSUME`s alone (TLC evaluates
them in each run).

### HpmcuProofs

From `DeadlineAssumption`, `TimingAssumption` (a beat plus a poll fit in the
heartbeat window, boot plus a beat in the grace) and `BoundAssumption`:

* `TypeCorrect`;
* `NoSpuriousReset`, `StandDownHolds`, `BootGraceIsGiven`: with a mailbox that a
  warm reset clears, a reset means a dead Linux, a stood-down watchdog never
  fires, a silent boot gets its whole grace;
* `DeadLinuxIsReset`: a dead, not stood-down Linux is reset within its deadline
  plus three poll periods, whether or not the mailbox survives.

`FiredMeansDead` is not inductive: the verdict of a tick combines a magic and a
counter read at two moments. `SafetyInv` adds what makes it so: the order of the
clocks (`Clocks`), that a boot that has not spoken left no trace in the MCU
(`Unspoken`), that a live Linux is within its period (`OnTime`), that a counter
value already seen was written at most one poll before it was seen
(`SeenInTime`), and what a tick in flight may conclude (`InFlight`).
`DetectionInv` bounds, after the death, the last change seen, what a tick in
flight read, and the deadline the last verdict respected.

### RtcProofs

From `RtcAssumption` (times, alarms and counts have their types):

* `TypeCorrect`: every register keeps its byte;
* `TimeReadsBack`: the time read back is the time set plus the seconds counted, from
  2000 on, whatever resets and bus errors occur; one that cuts the bulk write between
  two registers leaves a mixed time, until a `set_time` writes them all;
* `ClockKeepsRunning`: without bus errors and lost updates a registered clock
  outside `set_time` is started;
* `EnabledComesLast`: compensation that is enabled is that of one measurement;
* `SuspendWaitsForTrim`: after a probe that succeeded the block is not gated under a
  queued or running work;
* `NoAlarmLost`: an armed alarm that matched stays pending until it is reported,
  given up or replaced;
* `CompensationInRange`: whatever the test counts, the three values fit two
  digits below the direction bit.

The inductive invariant `RtcInv` joins the types and `ReadBack` with, as long as
no access failed, `Phases` (who may be at work when: the work runs only in a
registered, untrimmed block, suspend only between calls), `Programming` (how far
the registers carry the work's measurement at each of its steps) and `Started`
(`set_time`'s window apart, START is set). `Phases` is what makes
`EnabledIsProgrammed` inductive: only because the work runs in an untrimmed
block can no half-programmed measurement stand under COMP_EN. `AlarmIsNotLost`
needs no more than the interrupt's own state. The arithmetic lemmas are separate:
`ReadReturnsWhatWasSet` (the decoding inverts the encoding),
`CompensationAlwaysFits` (from a bound on the drift that holds because the
32-bit product has wrapped before).

### CruProofs

From `CruAssumption` and `WindowAssumption` (a selectable timeout is a positive
number of ticks):

* `BackstopBites`: an enabled watchdog that nothing puts off resets within the
  longest timeout plus two poll periods;
* `PetHolds`: no watchdog reset comes sooner after a pet than the timeout it
  selected;
* `ModeWasAsked`: the boot mode a reset lands in was poked since power-on.

`WatchdogBites` speaks of the time since the last event that put the timer off,
the code of a deadline. `BitesInv` relates the two: whatever makes the next poll
arm or reset is younger than the last poll (`PendingIsYoung`), a running deadline
is at most one poll and one timeout after the quiet period began
(`DeadlineIsBounded`), and the last poll overlooked no deadline that had passed
(`DeadlineWasJudged`). `PetInv` bounds the deadline from below, once poll has seen
the pet. `ModeInv` adds the register to the mode read from it.

The same module proves the calibration of the ring oscillators, from `Pvtpll`'s
assumptions on the field, the rates and the drift:

* `RingIsKept`: no length written while the field holds it is shorter than the one
  the init left, warm or cold;
* `SearchFinds`: a ring that stayed cold ends close to the target if some length
  from its first on is close, unless the search gave up after its tries, asked for a
  length past the field's end, or is the CPU ring's and its first extra stage does not
  slow the ring down or its register has bits set above the length field;
* `RingTyped`: no length or slope computed is negative.

`LengthInv` ties the field to the driver's wider variable (`FieldOfLength` is the
arithmetic of the wrap) and bounds that variable from below, which the loop's
second exit does only because `length_ori` is no smaller than the first length.
`SearchInv` records what the two first readings rule out: both lengths are too
fast, so that on a falling curve every close length is one the loop may reach, and
its exit at `length_ori` is never taken. `CloseIsFound` leaves out a search that
gave up: with a 7-bit field a close length may be more than 21 corrections away
from where the jump lands.

### FreshnessProofs

From `FreshnessAssumption`:

* `TypeCorrect`, `ShownWasConfirmed`;
* `FreshWithinPeriod`: nothing outlives its budget, across any number of wraps of
  the clock word, as long as no value stays on a screen unconfirmed for a whole
  period (49.7 days). The hypothesis is needed: past it the unsigned age starts
  over (section 5);
* `HeldIsFresh`: hence none does in a run shorter than one period, wherever the
  clock word starts;
* `TickIsTightEnough`: `warden_fresh_min_budget_ms` returns the tightest visible
  budget of a table of any size.

`BoundInv` relates a binding to its widget: `last_ok` is the clock word of the time
the value was confirmed, `last` that value, and the flags say which of value, mark
and blank is on the screen. `ModDiff` is the arithmetic: the unsigned difference of
two words less than a period apart is the time between them. The scan for the
tightest budget is a recursive function over the slots; what it returns is proved
from a least slot at which it would be wrong (`LeastElement`, from the well-ordering
of the naturals), which needs no induction rule with an operator for parameter.

### RelaysProofs

From `RelaysAssumption`:

* `SetReaches`: a set that got as far as driving the line, with no failing I/O, has
  put the contact where it was asked to: it never drives a line that is still an
  input, whatever an earlier process left behind;
* `ContactsAreHeld`: where levels can be read (`ValueReadFails` is FALSE; section 5
  shows why it must be) no call but a set moves a contact.

`LevelIsHeld` is the strengthening: when `ensure_ready` writes the direction, the
level it writes is the one the line has.

### Rs485BridgeProofs

From `BridgeAssumption`, `CommandAssumption` (the control lines are those
`handle_control_line` knows) and `AskAssumption` (words and bytes are numbers):

* `TypeCorrect`: among others, the buffer stays within its cap;
* `BusIsKept`: no control line ends the pump;
* `RequestIsServedOnce`: a request is served at most once;
* `NothingIsLost`: at the end of the stream every request was dispatched or
  discarded for its length;
* `AnswersAreGenuine`: the answer a master takes is to the request it waits for, a
  refusal or the reply to a request that was served once, and registers in it are
  what they held together at one moment since the request was sent; for a master
  whose timeout is at least `(MaxNoise + 4) * (GAP + 4 * STALL)`.

The first four use no bound on time. They rest on `Wire`, the buffer followed by
what is unread: reads move the border in it, dispatches and discards cut its
front, the master adds at its end. `WireInv` says that the piece which completes a
request is on the wire at most once and only before the request is served;
`MetInv` that a request is on the wire or no newer than one disposed of; `PumpInv`
what a pump past the end of the stream has left, and that the mutex is sound.

`AnswersAreGenuine` is a real-time argument, and its hypothesis is needed: a request
numbered by nothing but its turn is answered wrongly as soon as an answer outlives
its master's patience (section 5 has the run). The code only says that the timeout
is "orders of magnitude larger" than the gap; the theorem says how much larger is
enough, for the pieces of noise the line may carry and the time a loaded host may
keep the pump from running. The invariant `AnswerInv` has four parts.

* `LiveInv`: on the wire at most one piece may be answered (a whole request or a
  beginning), it is of the request the master is busy with, and at most one rest of
  an older request is before it.
* `SockInv`, `LagInv`, `DeadlineInv`: what is unread is noise but for three pieces;
  a pump that is late could run; and while an answer may still come, the request's
  age plus what the pieces ahead can cost (`PerPiece` each) plus what is left of the
  piece at hand (`Left`) less the lag already spent stays below `Deadline`. Every
  step of the pump pays for itself, a tick is paid by the gap or the lag. Hence when
  the timeout expires nothing on the wire or in the pump can be answered
  (`NothingAtTimeout`), and no answer meets a later request.
* `ReplyInv`: an answer under way is the only one, to the request in flight, genuine,
  and nothing on the wire will be answered as well. A buffer that draws a reply is
  the request in flight, whole and not yet served, or its head with a CRC that ends
  in a zero byte, which the slave refuses for its length (`SoundIsAsked`).
* `SlaveInv`, and what `handle_frame` promises about one frame (`HandlesWell`): a
  frame that fails its check is not answered, a PDU cut short is refused, and a read
  of registers leaves the slave alone and encodes them so that the master decodes
  what they hold (`ReadRegsReads`).

The `bridge` run checks the same property at a timeout of 9, below the 25 that the
theorem asks of its constants: with one piece of noise the bound is not tight.

### VopProofs

From `FbsAssumption`, `BoundsAssumption` and `UpsetsAssumption`, for any set of
framebuffers, any bounds and any set of failures that may happen:

* `TypeCorrect`: no count goes below zero and no queue above its bound, whatever fails;
* `ReferencesAreBalanced`: through failed enables, timeouts, failed `vop_initial`s,
  deferred and undone binds, until dclk cannot be enabled over a kept logo or a CRTC
  that `vop_enable` did not enable is disabled - after either the code does drop a
  reference that is not its own (section 5);
* `LogoStays`: the logo stays until the first modeset unless `vop_initial` or
  `vop_enable` fails;
* `BusStaysSafe`, `BufferIsLive` (no freed framebuffer is scanned), `TornIsGamma`
  (registers of two framebuffers mix only in a gamma commit) and `FlipWasShown` (an
  event is sent when its framebuffer is on screen), all as long as nothing has failed.

The inductive invariant is `BigInv`. `RefInv` (what the counts are in terms of their
holders) and `LitInv` (what a lit panel needs) hold across failures, each up to the
failures its property excepts; `WorkInv` keeps the release queue's counts within
their bound. As long as nothing has failed, `BusInv` and `PictureInv` hold too.
`BusInv` says where in a commit the CRTC is enabled (`PhaseInv`), that a block that
is neither lit nor enabled has stopped (`LogoInv`), and that the hold interrupt is
raised once, by the frame end that stops the block (`HoldInv`) - so the clocks go
only after it. `PictureInv` adds what the window registers hold at each place of a
commit (`WinInv`), when they are what the block scans (`CfgInv`), that the event is
armed only when the handler is done with earlier frame starts (`EventInv`), and that
a framebuffer replaced while it is scanned is queued, not released (`ScanInv`). An
upset is never forgotten, so the two need not be kept by the steps of a failure.

### MailboxEchoProofs

From `ChansAssumption` and `MsgsAssumption`:

* `TypeCorrect`, whoever sends: the loop body has a channel to serve;
* `ReplyWasSent`: where Linux sends on a quiet channel (`Patient`), the two words
  it reads are the pair it sent, however often the firmware is loaded again.

`ReplyIsWhole` is not inductive because a reply is read in two accesses from
registers filled in two. `EchoInv` adds what each side of a channel carries
(`RequestInv`, `AnswerInv`) and that the words in the firmware's hands are those of
the channel it serves (`HeldInv`).

### Only model-checked

* The liveness properties (`DeadEndsInCountedReset`, `BridgeEnds`,
  `CommitCompletes`, `MessageIsAnswered`, `CalibrationEnds`): fairness is out of the
  prover's reach.
* `Crc16`: the CRC is computed with bit operations the provers do not know.
* The refinement `ModbusSlave` to `FieldDevice`: bits are packed with powers of two,
  for which the provers have no laws, and folded over sequences whose length the
  request gives. Its register half, reads that decode to the cells asked for and
  writes that keep the banks' types, is proved in `Rs485BridgeProofs`.

## 5. Findings

`rtc_ctrl_race`: `rockchip_rtc_update_bits` (`rtc-rockchip.c:137-145`) is a
read and a later write without a lock. `set_time` and the trim work both use
it on RTC_CTRL; when the work's read falls into `set_time`'s stopped window and
its write after the restart, `set_time` has returned 0 and the clock is stopped
("Start RTC again", line 243). The mirror case, `set_time` writing back
COMP_EN = 0 over the work's update, only costs a measurement. `ClockRuns`
shows that without such a lost update and without a bus error nothing else
leaves the clock stopped.

Outside what the runs assume. Each follows from changing the constant, the conjunct
or the property named; the run then ends in a counterexample:

* `hpmcu` with `SramSurvives = TRUE` violates `NewBootGrace`: `HpmcuSim::new`
  clears only the MCU's words, and over a bus that outlives the reset a stale ARMED
  word replaces the "new boot grace" (`hpmcu.rs:83-85`) by the heartbeat timeout.
* `relays` with `ValueReadFails = TRUE` violates `OnlySetMovesContacts`: when the
  level of a line that is still an input cannot be read, `ensure_ready` takes 0 and
  drives the line low (`relays.c:100`; "without disturbing the level", 75, and
  "without disturbing a held contact", `docs/workflows/relay-drive.md:3`).
  `warden_relay_available` alone opens a closed contact so.
* `modbus_device` with the property `BroadcastIsServed`: the flowchart of
  `docs/workflows/modbus-read-holding.md:9-13` lets a frame past the address check if
  "addr == mine or broadcast?"; `handle_frame` (`modbus.rs:137`) returns for every
  address but its own, so a write sent to all is not carried out.
* `crc_framing` with `Addresses = {1}`, `Starts = {0}`, `Counts = {25}` and the
  invariant `MisSplitFailsCrc`: a request whose CRC ends in 0x00 (read_holding(1, 0, 25))
  passes the check without its last byte ("A mis-split frame fails CRC",
  `rs485-bridge/src/lib.rs:7-10`).
* `bridge` with `MaxNoise = 4` and the same `TIMEOUT` violates `AnswerIsGenuine`: a
  burst that passes the cap is discarded with a back-off (`lib.rs`, `MAX_PENDING`),
  the request behind it is dispatched after its master gave up, and the next request
  takes its answer. The response timeout has to grow with the noise a stalled pump
  may find: `TimeoutAssumption` covers one piece, `AnswersAreGenuine` gives a bound for
  any number.
* `vop_upsets` with the invariant `LoaderReferencesDropped`, also with no `Upsets`: when `rockchip_rgb_init` defers
  after `vop_initial` kept the logo (`rockchip_drm_vop.c:2328`), nothing drops the
  references it took. The next bind takes them again, and the first `vop_enable`, by
  which "these references ... are dropped" (2149-2151), drops one set: the clocks never
  stop again. An unbind before the first modeset does the same. `ReferencesBalance`
  shows that there is no other way to leave references behind.
* `vop_upsets` with the invariant `EnableHoldsItsOwn`: a dclk that cannot be enabled
  over the logo is logged (2153-2155) and `loader_active` stays, so the first
  `vop_enable`, which "now holds its own PM + clock references" (701-702), gives back
  the dclk reference it has just taken (705).
* `vop_upsets` with the invariant `PlaneNeedsVop`: after a `vop_enable` that failed DRM
  goes on. `vop_plane_atomic_update` and flush ask `is_enabled` first ("can't update
  plane when vop is disabled.", 950); `vop_plane_atomic_disable` (917) and the gamma
  table of `vop_crtc_atomic_begin` (1371) do not, and access a block without clocks.
  The later `vop_crtc_atomic_disable` drops references that were never taken
  (787-789), which is where `ReferencesBalance` stops.
* `vop_upsets` with the invariant `ScanIsClocked`: "we must wait standby complete when
  we want to disable aclk, if not, memory bus maybe dead" (762-763); after 200 ms the
  code warns and disables the clocks all the same (774-789).
* `vop_upsets` with "initial" among its `Upsets` and the invariant `LogoIsLit`: a `vop_initial` that fails after it
  enabled the core clocks disables them, the loader's included, under a block that
  scans (2169-2176).
* `mailbox_echo` with `Patient = FALSE` ends with Linux waiting for ever: "MBOX ... once
  the echo loop runs" (`main.c:50`) is written before A2B_INTEN, so a message sent on
  that sign raises no status bit; and a message sent on a reply is acknowledged
  unread by the acknowledgement that follows the reply (line 91).
* `clock_reset_unit` without `~ Wrapped` violates `RingNotShortened`: on a flat curve the jump
  passes the 7-bit field (`clk-rv1106.c:1031`, `1080`), the write wraps and the ring
  is faster than before. For the CPU's ring a register with bits set above the field
  makes `length_ori` larger than any length (line 1065), and the search stops after
  its jump.

Divergences met while modelling, without a run of their own:

* `cru.rs:112`: a warm reset leaves the watchdog enabled and its deadline running,
  while the comment at 97-98 calls the boot-mode register "the one thing a warm
  reset preserves".
* `freshness.c:76`: the age of a value on a page hidden for 2^32 ms or more is
  small again, and the value is held as fresh; the `freshness` run stays within
  one turn of the clock, where the unsigned difference is right.
* `freshness.h:7-8` promises that a value is re-evaluated when its page is shown;
  `set_visible` (`freshness.c:128`) alone does not do it, `page_show` does.
* `rs485-bridge/src/lib.rs:134` announces silence for the next n requests;
  `modbus.rs:129` spends a drop on every fragment it is handed.
* `docs/workflows/hpmcu-watchdog.md` leaves out that an unarmed boot is reset after
  its grace (`hpmcu.rs:124`).
* `rtc-rockchip.c:589` says that suspend turns the alarm off; it does not touch
  RTC_INT0_EN.
* `rtc-rockchip.c:482`: a frequency test that does not end is only logged and the
  previous counts are used; a year before 2000 does not read back. A bulk write
  that fails after the stop (line 240) returns with the clock stopped.
* `main.c:14-15` and `84-86` call the write of CMD the doorbell;
  `mailbox/VERIFIED.md:31` found that it is the write of DAT, and only with that is
  the order CMD, DAT right.
* `rockchip_drm_vop.c:1600`: after a `vop_enable` that failed, flush returns without
  arming the commit's event, which is then never sent.
* `rtc-rockchip.c:808`: when the registration fails the trim work stays queued, with
  the driver's clocks off and its memory given back.
* `rtc-rockchip.c:236-241`: a reset or bus error between two registers of the bulk
  write leaves a time that is neither the old nor the new one, and probe asks only
  whether it is valid.
* `rockchip_drm_vop.c:1300-1336`: a commit that changes the gamma table sets
  cfg_done before the plane registers are written, so one frame may mix two
  framebuffers' registers; `TornOnlyWithGamma` shows that no other commit can.
* `relays.c:131`: a write that failed is not reported; `freshness.c:125`: a bind past
  the table's end returns NULL, and what a page does with it is its own affair.

## 6. Not modelled

* Of the bridge: argument parsing and the connect retry in `main.rs`. Of the RTC
  driver: `readalarm`, which changes nothing and decodes as `read_time` does.
* Of the VOP driver: self refresh, AFBC, the IOMMU, scaling, the RK3399 gamma path,
  CRC sources and the line-flag wait, which this board's block or panel does not
  have or nothing here calls; async updates, which need a cursor plane; the atomic
  checks and mode fix-ups, which refuse or round and keep no state; clock
  preparation counts; the registration of planes and CRTC and its error paths; and
  DRM's own wait for an event, which ends by time after a failed `vop_enable`.
* Of the clock driver: the tables and their registration, which the clock framework
  interprets; identifiers in `rv1106-cru.h`.
* The kernel's RTC core, DRM core, work queues and clock framework beyond what the
  drivers rely on; pixel data; the contents of log lines.
* `config-lint` (a sequential comparison, covered by its tests), the RGA and NPU
  fakes, scripts, device trees and patches, as the table of section 1 says.

## 7. Plan

Done, in this order: `Hpmcu` with its proofs, `Cru`, `Freshness`, `Relays`,
`FieldDevice`/`ModbusSlave`/`Crc16`, `Rs485Bridge`, `Rtc` with its proofs, `Vop`,
`MailboxEcho`, `Pvtpll`; then the proofs about `Relays`, `Cru`, `Vop`, `Freshness`,
`MailboxEcho` and `Rs485Bridge`; last, `Pvtpll`'s two invariants and
`AnswerIsGenuine`.

Next, most important first:

1. `Supervisor`: `Hpmcu` and `Cru` composed (a fire is a rung-1 request; the reboot
   re-creates the MCU), against an abstract watchdog contract that it refines; also
   what becomes of the watchdog a warm reset leaves enabled.
2. `ConfigLint`: parsing and comparing as operators against a reference definition.
