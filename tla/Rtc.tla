-------------------------------- MODULE Rtc --------------------------------
(***************************************************************************)
(* The RTC driver of kernel/rv1106-enablement/rtc/rtc-rockchip.c.  Four    *)
(* actors share the register block with no lock of the driver's own: the   *)
(* RTC core's calls (serialised by its ops_lock), the delayed trim work,   *)
(* the threaded alarm interrupt, and system suspend and resume.  A bus     *)
(* access is a step of its own wherever another actor touches the same     *)
(* register; rockchip_rtc_update_bits is a read and a later write.  The    *)
(* block is battery-backed: its registers survive a reset of the SoC,      *)
(* which may come between any two accesses.                                *)
(*                                                                         *)
(* A struct rtc_time is cut down to its seconds and its year, which is     *)
(* spread over two registers: the other fields take the same conversion as *)
(* the seconds.  A bulk write is one access per register, in the order of  *)
(* the registers.  READSEL, the analog trims and the 0xc4522900 write key  *)
(* have no reader in the driver.                                           *)
(***************************************************************************)
EXTENDS RtcTime

CONSTANTS
  Times,       \* the times userspace sets
  Alarms,      \* the alarm times it sets
  Counts,      \* what the 32 kHz test may count
  MaxCalls,    \* bound: calls of the RTC core
  MaxTicks,    \* bound: seconds counted
  MaxUpsets    \* bound: bus errors, resets and suspends, together

Tm == [sec : 0 .. 59, year : Nat]      \* year counts from 1900, as tm_year does

ASSUME RtcAssumption ==
  /\ Times \subseteq Tm /\ Alarms \subseteq Tm
  /\ Counts \subseteq Nat
  /\ MaxCalls \in Nat /\ MaxTicks \in Nat /\ MaxUpsets \in Nat

-----------------------------------------------------------------------------
VARIABLES
  time, alarm,        \* RTC_SET_* and RTC_ALARM_*, in BCD
  ctrl, running,      \* RTC_CTRL's START and COMP_EN; STATUS1, which follows START
  status0, intEn,     \* RTC_STATUS0 and RTC_INT0_EN
  comp, test,         \* RTC_COMP_*; RTC_TEST_ST and RTC_CNT_*
  gated,              \* the clocks are off: a read is undefined, a write lost
  boot,               \* how far this boot's probe came
  op,                 \* the RTC core's call in progress, and the last result
  trim,               \* the delayed work
  irq,                \* the alarm interrupt's thread
  pm,                 \* the suspend in progress
  civil,              \* history: the time last set, plus the seconds counted since
  torn,               \* history: the last set_time to write was cut short between
                      \* two of its registers
  rung,               \* history: an armed alarm matched, not yet reported or replaced
  lostUpdate,         \* history: an update_bits wrote back a stale RTC_CTRL
  faulted,            \* history: a bus access failed
  calls, ticks, upsets    \* the model's bounds

clock   == <<time, civil, torn, ticks>>
alarmIf == <<alarm, status0, intEn, rung>>
ctrlReg == <<ctrl, lostUpdate>>
trimIf  == <<comp, test>>
faults  == <<faulted, upsets>>
vars == <<clock, alarmIf, ctrlReg, running, trimIf, gated, boot, op, trim, irq,
          pm, faults, calls>>

Ctrl  == [start : BOOLEAN, comp : BOOLEAN]
Off   == [start |-> FALSE, comp |-> FALSE]
Cause == {"alarm", "other"}       \* ENABLE_ALARM_INT = 0xFF enables every cause
Reg   == [sec : 0 .. 255, yl : 0 .. 255, yh : 0 .. 255]

OpPc   == {"idle", "stop_read", "stop_write", "stop_poll", "write", "write_yl",
           "write_yh", "start_read", "start_write", "start_poll", "alarm_stop",
           "alarm_write", "alarm_yl", "alarm_yh", "alarm_clear", "alarm_enable",
           "irq_stop"}
TrimPc == {"idle", "queued", "poll", "read", "comp_h", "comp_d", "comp_m",
           "enable_read", "enable_write"}

Writing == {"write_yl", "write_yh"}     \* set_time has written some registers, not all

Cnt    == Counts \cup {0}     \* 0: no test has ended yet

OpRec   == [pc : OpPc, tm : Tm, en : BOOLEAN, ctrl : Ctrl, ret : {"none", "set", "ok", "error"}]
TrimRec == [pc : TrimPc, ctrl : Ctrl, counts : Cnt]
IrqRec  == [pc : {"idle", "write", "report"}, status : SUBSET Cause]

TypeOK ==
  /\ time \in Reg /\ alarm \in Reg
  /\ ctrl \in Ctrl /\ running \in BOOLEAN
  /\ status0 \subseteq Cause /\ intEn \in BOOLEAN
  /\ comp \in [h : 0 .. 255, d : 0 .. 255, m : 0 .. 255]
  /\ test \in [busy : BOOLEAN, cnt : Cnt]
  /\ gated \in BOOLEAN
  /\ boot \in {"off", "probe", "up", "failed"}
  /\ op \in OpRec /\ trim \in TrimRec /\ irq \in IrqRec
  /\ pm \in {"awake", "close", "closed", "suspended"}
  /\ civil \in [sec : Nat, year : Nat]
  /\ torn \in BOOLEAN /\ rung \in BOOLEAN
  /\ faulted \in BOOLEAN /\ lostUpdate \in BOOLEAN

-----------------------------------------------------------------------------
(* The bus *)

\* An access that returns an error; the code's own paths decide what follows.
Upset == upsets < MaxUpsets /\ upsets' = upsets + 1
Fault == Upset /\ faulted' = TRUE
NoFault == UNCHANGED faults

\* The regmap_read of update_bits, whose error is not looked at: what was not
\* read is an uninitialised local.
ReadCtrl(v) ==
  \/ NoFault /\ v \in (IF gated THEN Ctrl ELSE {ctrl})
  \/ Fault /\ v \in Ctrl

\* Its regmap_write of new, computed from the value old read before.
WriteCtrl(old, new) ==
  /\ NoFault
  /\ IF gated THEN UNCHANGED ctrlReg
     ELSE ctrl' = new /\ lostUpdate' = (lostUpdate \/ old # ctrl)

Store(x, v) == IF gated THEN x ELSE v

\* What rockchip_rtc_is_trimed may read; an error reads as untrimmed.
Trimmed == IF gated THEN BOOLEAN ELSE {ctrl.comp}

-----------------------------------------------------------------------------
(* The hardware (external: taken from how the driver uses it) *)

HwTick ==
  /\ running /\ ticks < MaxTicks
  /\ Decode(time).sec < 59
  /\ ticks' = ticks + 1
  /\ time' = [time EXCEPT !.sec = bin2bcd(Decode(time).sec + 1)]
  /\ civil' = [civil EXCEPT !.sec = @ + 1]
  /\ IF time' = alarm
     THEN /\ status0' = status0 \cup {"alarm"}
          /\ rung' = (rung \/ (intEn /\ boot = "up"))
     ELSE UNCHANGED <<status0, rung>>
  /\ UNCHANGED <<torn, alarm, intEn, ctrlReg, running, trimIf, gated, boot, op,
                 trim, irq, pm, faults, calls>>

HwFollow ==
  /\ running # ctrl.start
  /\ running' = ctrl.start
  /\ UNCHANGED <<clock, alarmIf, ctrlReg, trimIf, gated, boot, op, trim, irq,
                 pm, faults, calls>>

HwOther ==
  /\ intEn
  /\ status0' = status0 \cup {"other"}
  /\ UNCHANGED <<clock, alarm, intEn, rung, ctrlReg, running, trimIf, gated,
                 boot, op, trim, irq, pm, faults, calls>>

HwTestDone(c) ==
  /\ test.busy
  /\ test' = [busy |-> FALSE, cnt |-> c]
  /\ UNCHANGED <<clock, alarmIf, ctrlReg, running, comp, gated, boot, op, trim,
                 irq, pm, faults, calls>>

-----------------------------------------------------------------------------
(* rockchip_rtc_set_time *)

opFrame == <<gated, boot, trim, irq, pm, calls>>

\* Between calls: the result of the last one.
IdleOp(ret) ==
  [pc |-> "idle", tm |-> DefaultTm, en |-> FALSE, ctrl |-> Off, ret |-> ret]

OpStep(from, to) == op.pc = from /\ op' = [op EXCEPT !.pc = to]

\* The call returns; an error is returned as it is.
Return(from, ret) == op.pc = from /\ op' = IdleOp(ret)

\* The RTC core enters a callback: the device is registered, tasks are not
\* frozen, and its ops_lock admits one call at a time.
Enter(pc, tm, en) ==
  /\ boot = "up" /\ pm = "awake" /\ op.pc = "idle"
  /\ calls < MaxCalls /\ calls' = calls + 1
  /\ op' = [op EXCEPT !.pc = pc, !.tm = tm, !.en = en, !.ret = "none"]
  /\ UNCHANGED <<clock, alarmIf, ctrlReg, running, trimIf, gated, boot, trim,
                 irq, pm, faults>>

SetTime(tm) == Enter("stop_read", tm, FALSE)

\* update_bits, first half: RTC_CTRL into a local.
SetRead(from, to) ==
  /\ op.pc = from
  /\ \E v \in Ctrl : ReadCtrl(v) /\ op' = [op EXCEPT !.pc = to, !.ctrl = v]
  /\ UNCHANGED <<clock, alarmIf, ctrlReg, running, trimIf, opFrame>>

SetStopRead  == SetRead("stop_read", "stop_write")
SetStartRead == SetRead("start_read", "start_write")

\* update_bits, second half.
SetWriteCtrl(from, to, start) ==
  /\ \/ /\ OpStep(from, to)
        /\ WriteCtrl(op.ctrl, [op.ctrl EXCEPT !.start = start])
     \/ /\ Return(from, "error")
        /\ Fault /\ UNCHANGED ctrlReg
  /\ UNCHANGED <<clock, alarmIf, running, trimIf, opFrame>>

SetStopWrite == SetWriteCtrl("stop_write", "stop_poll", FALSE)

SetStartWrite == SetWriteCtrl("start_write", "start_poll", TRUE)

\* regmap_read_poll_timeout: STATUS1 follows, or 3 s pass and the error is logged.
SetPoll ==
  /\ \/ OpStep("stop_poll", "write")
     \/ Return("start_poll", "set")
  /\ UNCHANGED <<clock, alarmIf, ctrlReg, running, trimIf, faults, opFrame>>

\* One register of a bulk write of the call's time.
Put(regs, part) == Store(regs, [regs EXCEPT ![part] = Encode(op.tm)[part]])

\* The bulk write, register by register: the seconds first ...
SetWriteSec ==
  /\ \/ /\ OpStep("write", "write_yl") /\ NoFault
        /\ time' = Put(time, "sec") /\ civil' = Store(civil, op.tm)
     \/ Return("write", "error") /\ Fault /\ UNCHANGED <<time, civil>>
  /\ UNCHANGED <<torn, ticks, alarmIf, ctrlReg, running, trimIf, opFrame>>

\* ... then, the fields between left out, the year's lower register ...
SetWriteYl ==
  /\ \/ /\ OpStep("write_yl", "write_yh") /\ NoFault
        /\ time' = Put(time, "yl") /\ UNCHANGED torn
     \/ Return("write_yl", "error") /\ Fault /\ UNCHANGED time /\ torn' = TRUE
  /\ UNCHANGED <<civil, ticks, alarmIf, ctrlReg, running, trimIf, opFrame>>

\* ... and its upper one, after which only the day of the week can still fail.
SetWriteYh ==
  /\ \/ /\ \/ OpStep("write_yh", "start_read") /\ NoFault
           \/ Return("write_yh", "error") /\ Fault
        /\ time' = Put(time, "yh") /\ torn' = Store(torn, FALSE)
     \/ Return("write_yh", "error") /\ Fault /\ UNCHANGED time /\ torn' = TRUE
  /\ UNCHANGED <<civil, ticks, alarmIf, ctrlReg, running, trimIf, opFrame>>

SetWriteTime == SetWriteSec \/ SetWriteYl \/ SetWriteYh

-----------------------------------------------------------------------------
(* rockchip_rtc_setalarm and rockchip_rtc_alarm_irq_enable *)

SetAlarm(tm, en) == Enter("alarm_stop", tm, en)

AlarmIrqEnable(en) ==
  Enter(IF en THEN "alarm_clear" ELSE "irq_stop", DefaultTm, en)

\* rockchip_rtc_stop_alarm: the armed alarm is given up by the caller.
AlarmStop ==
  /\ \/ /\ OpStep("alarm_stop", "alarm_write") \/ Return("irq_stop", "ok")
        /\ NoFault
        /\ intEn' = Store(intEn, FALSE) /\ rung' = FALSE
     \/ /\ Return("alarm_stop", "error") \/ Return("irq_stop", "error")
        /\ Fault /\ UNCHANGED <<intEn, rung>>
  /\ UNCHANGED <<clock, alarm, status0, ctrlReg, running, trimIf, opFrame>>

\* The bulk write of the alarm, register by register; its last one leads on.
AlarmWriteReg(from, part, Done) ==
  /\ \/ Done /\ NoFault /\ alarm' = Put(alarm, part)
     \/ Return(from, "error") /\ Fault /\ UNCHANGED alarm
  /\ UNCHANGED <<clock, status0, intEn, rung, ctrlReg, running, trimIf, opFrame>>

AlarmWrite ==
  \/ AlarmWriteReg("alarm_write", "sec", OpStep("alarm_write", "alarm_yl"))
  \/ AlarmWriteReg("alarm_yl", "yl", OpStep("alarm_yl", "alarm_yh"))
  \/ AlarmWriteReg("alarm_yh", "yh",
       IF op.en THEN OpStep("alarm_yh", "alarm_clear") ELSE Return("alarm_yh", "ok"))

\* rockchip_rtc_start_alarm: both status writes' results are overwritten.
AlarmClear ==
  /\ OpStep("alarm_clear", "alarm_enable")
  /\ \/ NoFault /\ status0' = Store(status0, {}) /\ rung' = FALSE
     \/ Fault /\ UNCHANGED <<status0, rung>>
  /\ UNCHANGED <<clock, alarm, intEn, ctrlReg, running, trimIf, opFrame>>

AlarmEnable ==
  /\ \/ Return("alarm_enable", "ok") /\ NoFault /\ intEn' = Store(intEn, TRUE)
     \/ Return("alarm_enable", "error") /\ Fault /\ UNCHANGED intEn
  /\ UNCHANGED <<clock, alarm, status0, rung, ctrlReg, running, trimIf, opFrame>>

-----------------------------------------------------------------------------
(* rockchip_rtc_alarm_irq: threaded, ONESHOT, level-triggered *)

irqFrame == <<clock, alarm, intEn, ctrlReg, running, trimIf, gated, boot, op,
              trim, pm, calls>>

\* It also runs in the windows of suspend and resume in which the interrupt is
\* live and the block is gated.
IrqRead ==
  /\ boot = "up" /\ irq.pc = "idle"
  /\ intEn /\ status0 # {}
  /\ \/ /\ NoFault
        /\ \E st \in (IF gated THEN SUBSET Cause ELSE {status0}) :
             irq' = [pc |-> "write", status |-> st]
     \/ Fault /\ UNCHANGED irq
  /\ UNCHANGED <<status0, rung, irqFrame>>

\* MUTANT of IrqWrite: every cause is acknowledged, not those that were read.
IrqWriteAll ==
  /\ irq.pc = "write"
  /\ status0' = Store(status0, {})
  /\ irq' = [irq EXCEPT !.pc = "report"]
  /\ NoFault /\ UNCHANGED <<rung, irqFrame>>

\* Writing a one clears: the causes that were read are acknowledged.
IrqWrite ==
  /\ irq.pc = "write"
  /\ \/ /\ NoFault
        /\ status0' = Store(status0, status0 \ irq.status)
        /\ irq' = [irq EXCEPT !.pc = "report"]
     \/ Fault /\ irq' = [irq EXCEPT !.pc = "idle"] /\ UNCHANGED status0
  /\ UNCHANGED <<rung, irqFrame>>

\* rtc_update_irq
IrqReport ==
  /\ irq.pc = "report"
  /\ rung' = (rung /\ "alarm" \notin irq.status)
  /\ irq' = [pc |-> "idle", status |-> {}]
  /\ NoFault /\ UNCHANGED <<status0, irqFrame>>

-----------------------------------------------------------------------------
(* rockchip_rtc_compensation_delay_work, on system_long_wq *)

trimFrame == <<clock, alarmIf, running, gated, boot, op, irq, pm, calls>>

IdleTrim == [pc |-> "idle", ctrl |-> Off, counts |-> 0]

TrimStep(from, to) == trim.pc = from /\ trim' = [trim EXCEPT !.pc = to]

\* An error ends the work.
TrimAbort(from) == trim.pc = from /\ trim' = IdleTrim /\ Fault /\ UNCHANGED <<ctrlReg, trimIf>>

\* The delay is over: test enabled, its length set, the test started.
TrimBegin ==
  /\ \/ /\ TrimStep("queued", "poll") /\ NoFault
        /\ test' = Store(test, [test EXCEPT !.busy = TRUE])
        /\ UNCHANGED <<ctrlReg, comp>>
     \/ TrimAbort("queued")
  /\ UNCHANGED trimFrame

\* The test is done, or 3 s pass and the error is logged.
TrimPoll ==
  /\ TrimStep("poll", "read")
  /\ UNCHANGED <<ctrlReg, trimIf, faults, trimFrame>>

TrimRead ==
  /\ \/ /\ trim.pc = "read" /\ NoFault
        /\ \E c \in (IF gated THEN Cnt ELSE {test.cnt}) :
             trim' = [trim EXCEPT !.pc = "comp_h", !.counts = c]
        /\ UNCHANGED <<ctrlReg, trimIf>>
     \/ TrimAbort("read")
  /\ UNCHANGED trimFrame

\* One compensation register; the result of the write is not looked at.
TrimComp(from, to, part) ==
  /\ TrimStep(from, to)
  /\ \/ /\ NoFault
        /\ comp' = Store(comp, [comp EXCEPT ![part] = Compensation(trim.counts)[part]])
     \/ Fault /\ UNCHANGED comp
  /\ UNCHANGED <<ctrlReg, test, trimFrame>>

TrimCompH == TrimComp("comp_h", "comp_d", "h")

\* MUTANT of TrimCompD: the monthly register is forgotten.
TrimCompDLast == TrimComp("comp_d", "enable_read", "d")

TrimCompD == TrimComp("comp_d", "comp_m", "d")

TrimCompM == TrimComp("comp_m", "enable_read", "m")

\* RTC_CTRL is read once for its error, then by update_bits.
TrimEnableRead ==
  /\ \/ /\ trim.pc = "enable_read"
        /\ \E v \in Ctrl : ReadCtrl(v) /\ trim' = [trim EXCEPT !.pc = "enable_write", !.ctrl = v]
        /\ UNCHANGED <<ctrlReg, trimIf>>
     \/ TrimAbort("enable_read")
  /\ UNCHANGED trimFrame

TrimEnableWrite ==
  /\ \/ /\ trim.pc = "enable_write" /\ trim' = IdleTrim
        /\ WriteCtrl(trim.ctrl, [trim.ctrl EXCEPT !.comp = TRUE])
        /\ UNCHANGED trimIf
     \/ TrimAbort("enable_write")
  /\ UNCHANGED trimFrame

\* rockchip_rtc_trim_start: queued unless trimmed; a queued item stays as it is.
trim_start(trimmed) ==
  trim' = IF ~trimmed /\ trim.pc = "idle" THEN [trim EXCEPT !.pc = "queued"] ELSE trim

-----------------------------------------------------------------------------
(* Suspend and resume: tasks are frozen first, the work queue is not *)

pmFrame == <<clock, alarmIf, ctrlReg, running, trimIf, boot, op, irq, calls>>

\* rockchip_rtc_trim_close looks whether there is anything to cancel ...
SuspendClose ==
  /\ boot = "up" /\ pm = "awake" /\ op.pc = "idle"
  /\ \/ Upset /\ UNCHANGED faulted /\ \E t \in Trimmed : pm' = IF t THEN "closed" ELSE "close"
     \/ Fault /\ pm' = "close"
  /\ UNCHANGED <<pmFrame, gated, trim>>

\* MUTANT of SuspendCancel: cancel_delayed_work, which does not wait for a running work.
SuspendCancelNoSync ==
  /\ pm = "close"
  /\ trim' = IF trim.pc = "queued" THEN [trim EXCEPT !.pc = "idle"] ELSE trim
  /\ pm' = "closed"
  /\ UNCHANGED <<pmFrame, gated, faults>>

\* ... cancel_delayed_work_sync takes a queued work back and waits for a running one ...
SuspendCancel ==
  /\ pm = "close"
  /\ trim.pc \in {"idle", "queued"}
  /\ trim' = [trim EXCEPT !.pc = "idle"]
  /\ pm' = "closed"
  /\ UNCHANGED <<pmFrame, gated, faults>>

\* ... and clamp and clocks go off.
SuspendGate ==
  /\ pm = "closed"
  /\ gated' = TRUE /\ pm' = "suspended"
  /\ UNCHANGED <<pmFrame, trim, faults>>

\* Clamp and clocks come back and trimming goes on; if the clocks fail to start
\* the driver stays gated.
Resume ==
  /\ pm = "suspended"
  /\ pm' = "awake"
  /\ \/ /\ gated' = FALSE /\ NoFault /\ trim_start(ctrl.comp)
     \/ /\ gated' = FALSE /\ Fault /\ trim_start(FALSE)
     \/ /\ Fault /\ UNCHANGED <<gated, trim>>
  /\ UNCHANGED pmFrame

-----------------------------------------------------------------------------
(* rockchip_rtc_probe, and the SoC's reset *)

probeFrame == <<clock, alarm, intEn, running, trimIf, trim, irq, pm, calls>>

\* Without a valid time the default one is set, through set_time.
ProbeTime(valid) ==
  IF valid THEN UNCHANGED op
  ELSE op' = [op EXCEPT !.pc = "stop_read", !.tm = DefaultTm, !.ret = "none"]

\* MUTANT of ProbeStart: a clock found stopped is left stopped.
ProbeStartNoStart ==
  /\ boot = "off" /\ boot' = "probe"
  /\ gated' = FALSE /\ status0' = {} /\ rung' = FALSE
  /\ NoFault /\ UNCHANGED ctrlReg
  /\ ProbeTime(rtc_valid_tm(Decode(time)))
  /\ UNCHANGED probeFrame

\* Clamp and clocks on, the clock started, stale causes cleared, the time read.
\* Nothing else touches the block yet.  An error ends the probe and takes the
\* clocks away again, except that update_bits may write back a local it did not read, and that a failed
\* read_time leaves the time it judges uninitialised.
ProbeStart ==
  /\ boot = "off"
  /\ rung' = FALSE /\ UNCHANGED lostUpdate
  /\ \/ /\ boot' = "probe" /\ gated' = FALSE /\ NoFault
        /\ ctrl' = [ctrl EXCEPT !.start = TRUE] /\ status0' = {}
        /\ ProbeTime(rtc_valid_tm(Decode(time)))
     \/ /\ boot' = "probe" /\ gated' = FALSE /\ Fault
        /\ \E v \in Ctrl : ctrl' = [v EXCEPT !.start = TRUE]
        /\ status0' = {}
        /\ \E valid \in BOOLEAN : ProbeTime(valid)
     \/ /\ boot' = "failed" /\ gated' = TRUE /\ Fault
        /\ ctrl' \in {ctrl, [ctrl EXCEPT !.start = TRUE]}
        /\ UNCHANGED <<status0, op>>
  /\ UNCHANGED probeFrame

registerFrame == <<clock, alarmIf, ctrlReg, running, trimIf, op, irq, pm, calls>>

\* The interrupt is requested, the work queued, the device registered.
ProbeRegister ==
  /\ boot = "probe" /\ op.pc = "idle"
  /\ boot' = "up"
  /\ \/ NoFault /\ \E t \in Trimmed : trim_start(t)
     \/ Fault /\ trim_start(FALSE)
  /\ UNCHANGED <<registerFrame, gated>>

\* One of these fails, without a bus error: the interrupt before the work is
\* queued, or the registration after it.  Either way the driver's clocks and
\* memory are given back, and nothing takes the work back: it runs on memory no
\* longer its own (here: not yet reused), against a block that is gated.
ProbeFail ==
  /\ boot = "probe" /\ op.pc = "idle"
  /\ boot' = "failed" /\ gated' = TRUE
  /\ Upset /\ UNCHANGED faulted
  /\ UNCHANGED trim \/ \E t \in Trimmed : trim_start(t)
  /\ UNCHANGED registerFrame

\* The SoC resets at any moment: the driver is gone, the block is not.
Reset ==
  /\ boot # "off" /\ Upset
  /\ boot' = "off"
  /\ op' = IdleOp("none") /\ trim' = IdleTrim
  /\ irq' = [pc |-> "idle", status |-> {}]
  /\ pm' = "awake" /\ gated' = FALSE
  /\ rung' = FALSE /\ lostUpdate' = FALSE
  /\ torn' = (torn \/ op.pc \in Writing)
  /\ UNCHANGED <<time, civil, ticks, alarm, status0, intEn, ctrl, running, trimIf,
                 faulted, calls>>

\* First boot: the block lost its power, or an earlier boot left it running with
\* a valid time, trimmed or not.
Init ==
  /\ \/ time = [sec |-> 127, yl |-> 0, yh |-> 0] /\ ctrl = Off
     \/ time \in {Encode(t) : t \in Times} /\ ctrl \in {c \in Ctrl : c.start}
  /\ civil = Decode(time) /\ torn = FALSE /\ running = ctrl.start
  /\ IF ctrl.comp THEN comp \in {Compensation(c) : c \in Counts}
                  ELSE comp = [h |-> 0, d |-> 0, m |-> 0]
  /\ alarm = [sec |-> 0, yl |-> 0, yh |-> 0]
  /\ status0 = {} /\ intEn = FALSE
  /\ test = [busy |-> FALSE, cnt |-> 0]
  /\ gated = FALSE /\ boot = "off" /\ pm = "awake"
  /\ op = IdleOp("none") /\ trim = IdleTrim
  /\ irq = [pc |-> "idle", status |-> {}]
  /\ rung = FALSE /\ lostUpdate = FALSE
  /\ faulted = FALSE /\ calls = 0 /\ ticks = 0 /\ upsets = 0

Hw   == HwTick \/ HwFollow \/ HwOther \/ \E c \in Counts : HwTestDone(c)
Ops  == \/ \E tm \in Times : SetTime(tm)
        \/ \E tm \in Alarms, en \in BOOLEAN : SetAlarm(tm, en)
        \/ \E en \in BOOLEAN : AlarmIrqEnable(en)
        \/ SetStopRead \/ SetStopWrite \/ SetPoll \/ SetWriteTime
        \/ SetStartRead \/ SetStartWrite
        \/ AlarmStop \/ AlarmWrite \/ AlarmClear \/ AlarmEnable
Irq  == IrqRead \/ IrqWrite \/ IrqReport
Trim == \/ TrimBegin \/ TrimPoll \/ TrimRead \/ TrimCompH \/ TrimCompD
        \/ TrimCompM \/ TrimEnableRead \/ TrimEnableWrite
Pm   == SuspendClose \/ SuspendCancel \/ SuspendGate \/ Resume
Boot == ProbeStart \/ ProbeRegister \/ ProbeFail \/ Reset

Next == Hw \/ Ops \/ Irq \/ Trim \/ Pm \/ Boot

Spec == Init /\ [][Next]_vars

-----------------------------------------------------------------------------
(* Properties *)

\* Set, then read: from 2000 on, what read_time decodes is the time set_time was
\* given plus the seconds the clock has counted since, across the year's two
\* registers, BCD carries, bus errors and resets of the SoC.  Excepted are the
\* bulk write itself and what a reset or a bus error between two of its
\* registers leaves behind, until a set_time writes them all.
ReadBack ==
  op.pc \notin Writing /\ ~torn /\ civil.year \in 100 .. 299 => Decode(time) = civil

\* A registered clock with no call under way is running, also when a reset cut
\* an earlier set_time short between its stop and its restart: the only other
\* ways to stop it are a bus error and an update_bits that wrote back a stale
\* RTC_CTRL.
ClockRuns ==
  boot = "up" /\ op.pc = "idle" /\ ~faulted /\ ~lostUpdate => ctrl.start

\* "Start RTC again" (rtc-rockchip.c:243): a set_time that returned 0 leaves
\* the clock started.
SetTimeRestarts == boot = "up" /\ op.pc = "idle" /\ op.ret = "set" => ctrl.start

\* Compensation is enabled last: enabled without a bus error, its three
\* registers are those of one measurement, whatever reset or suspend cut short.
EnabledIsProgrammed ==
  ctrl.comp /\ ~faulted => \E c \in Cnt : comp = Compensation(c)

\* No compensation, whatever the test counted, spills into the direction bit of
\* its register or beyond two digits.
CompensationFits == FitsRegisters(trim.counts)

\* An armed alarm that matched stays pending until it is reported, unless its
\* caller stops or re-arms it: the interrupt's late acknowledgement, a gated
\* read and a bus error lose none.
AlarmIsNotLost ==
  rung => "alarm" \in status0 \/ (irq.pc = "report" /\ "alarm" \in irq.status)

\* Without a bus error the work of a driver whose probe did not fail never touches
\* a gated block: suspend takes back the queued work, waits for the running one,
\* and leaves alone only a work that is over because it has enabled compensation.
TrimNeverGated == gated /\ boot # "failed" /\ ~faulted => trim.pc = "idle"
=============================================================================
