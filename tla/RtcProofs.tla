----------------------------- MODULE RtcProofs -----------------------------
(***************************************************************************)
(* Proofs about Rtc, for all times, alarms, counts and bounds.             *)
(***************************************************************************)
EXTENDS Rtc, TLAPS

\* Two BCD digits read back as what was written.
LEMMA Bcd ==
  \A x \in 0 .. 99 : bcd2bin(bin2bcd(x)) = x
BY Z3 DEF bin2bcd, bcd2bin

\* read_time's decoding inverts set_time's encoding from 2000 on, across the
\* two year registers.
LEMMA ReadReturnsWhatWasSet ==
  \A tm \in Tm : 100 <= tm.year /\ tm.year <= 10099 => Decode(Encode(tm)) = tm
<1> SUFFICES ASSUME NEW tm \in Tm, 100 <= tm.year, tm.year <= 10099
             PROVE  Decode(Encode(tm)) = tm
  OBVIOUS
<1> DEFINE sec  == tm.sec
           year == tm.year
           yh   == yearh(year)
           yl   == year - 100 - 100 * yearh(year)
<1>1. sec \in 0 .. 59 /\ year \in Nat /\ tm = [sec |-> sec, year |-> year]
  BY DEF Tm
<1>2. yh \in 0 .. 99 /\ yl \in 0 .. 99
  <2> HIDE DEF year
  <2>1. year \in Nat /\ 100 <= year /\ year <= 10099
    BY <1>1 DEF year
  <2> QED
    BY <2>1 DEF yearh
<1>3. bin2bcd(sec) % 128 = bin2bcd(sec)
  <2> HIDE DEF sec
  <2> QED
    BY <1>1 DEF bin2bcd
<1>4. /\ bcd2bin(bin2bcd(sec)) = sec
      /\ bcd2bin(bin2bcd(yl)) = yl
      /\ bcd2bin(bin2bcd(yh)) = yh
  <2>1. sec \in 0 .. 99 /\ yl \in 0 .. 99 /\ yh \in 0 .. 99
    BY <1>1, <1>2
  <2> HIDE DEF sec, yl, yh
  <2> QED
    BY <2>1, Bcd
<1>5. 100 * yh + yl + 100 = year
  BY <1>1, <1>2
<1>6. Decode(Encode(tm))
        = [sec |-> bcd2bin(bin2bcd(sec)), year |-> 100 * bcd2bin(bin2bcd(yh)) + bcd2bin(bin2bcd(yl)) + 100]
  BY <1>3 DEF Encode, Decode
<1> QED
  BY <1>1, <1>4, <1>5, <1>6

\* The drift per hour stays small however far the count is off: the u32 product
\* has wrapped before.
LEMMA Tcamp ==
  ASSUME NEW counts \in Nat
  PROVE  tcamp(counts) \in Nat /\ tcamp(counts) <= 322120
<1>1. Drift(counts) \in Nat
  BY DEF Drift, g_ref
<1> DEFINE r == Drift(counts) % 131072
<1>2. r \in Nat /\ r <= 131071
  BY <1>1
<1> HIDE DEF r
<1>3. (r * 1536) \div 625 \in Nat /\ (r * 1536) \div 625 <= 322120
  BY <1>2
<1> QED
  BY <1>3 DEF tcamp, r

\* Whatever was counted, the three compensations fit their registers.
LEMMA CompensationAlwaysFits ==
  ASSUME NEW counts \in Nat
  PROVE  FitsRegisters(counts)
<1> DEFINE t == tcamp(counts)
<1>1. t \in Nat /\ t <= 322120
  BY Tcamp
<1> HIDE DEF t
<1>2. /\ c_hour(counts) = (t + 16384) \div 32768
      /\ c_day(counts) = (24 * t + 16384) \div 32768
      /\ c_mon(counts) = (720 * t + 16384) \div 32768
  BY <1>1 DEF c_hour, c_day, c_mon, RoundDiv, t
<1> DEFINE h == c_hour(counts)
           d == c_day(counts)
           m == c_mon(counts)
<1>3. /\ h \in Int /\ 32768 * h <= t + 16384 /\ t + 16384 < 32768 * h + 32768
      /\ d \in Int /\ 32768 * d <= 24 * t + 16384 /\ 24 * t + 16384 < 32768 * d + 32768
      /\ m \in Int /\ 32768 * m <= 720 * t + 16384 /\ 720 * t + 16384 < 32768 * m + 32768
  BY <1>1, <1>2
<1> HIDE DEF h, d, m
<1>4. h \in 0 .. 10
  BY <1>1, <1>3
<1>5. d - 24 * h \in -12 .. 12
  BY <1>1, <1>3
<1>6. m - 30 * d \in -15 .. 15
  BY <1>1, <1>3
<1>7. HourPart(counts).s \in -1 .. 79
  BY <1>4 DEF HourPart, h
<1>8. DayPart(counts).s \in -1 .. 79
  <2> DEFINE det == IF d - h * 23 > 0 THEN d - h * 23 ELSE h * 24 - d
  <2>1. DayPart(counts).s = IF det > 1 THEN det - 1 ELSE -1
    BY DEF DayPart, h, d
  <2>2. det \in Int /\ det <= 22
    BY <1>3, <1>4, <1>5
  <2> HIDE DEF det
  <2> QED
    BY <2>1, <2>2
<1>9. MonthPart(counts).s \in -1 .. 79
  <2> DEFINE rest == m - 29 * d - 23 * h
             det  == IF rest > 0 THEN rest ELSE -rest
  <2>1. MonthPart(counts).s = IF det # 0 THEN det - 1 ELSE -1
    BY DEF MonthPart, h, d, m
  <2>2. rest \in Int /\ rest <= 37 /\ -rest <= 37
    BY <1>3, <1>4, <1>5, <1>6
  <2>3. det \in Nat /\ det <= 37
    <3> HIDE DEF rest
    <3> QED BY <2>2
  <2> HIDE DEF det
  <2> QED
    BY <2>1, <2>3
<1> QED
  BY <1>7, <1>8, <1>9 DEF FitsRegisters

-----------------------------------------------------------------------------
\* The types the argument needs.
AlarmType ==
  /\ status0 \subseteq Cause
  /\ irq \in IrqRec

AlarmInv == AlarmType /\ AlarmIsNotLost

\* The alarm interrupt of rtc-rockchip.c loses no armed alarm, whatever the
\* interleaving of its read, its acknowledgement and its report with the clock,
\* the calls, suspend, resume, resets and bus errors.  AlarmIsNotLost is
\* inductive once the interrupt's locals have their types: a cause disappears
\* only by an acknowledgement that is then reported, or when the caller gives
\* the alarm up.
THEOREM NoAlarmLost == Spec => []AlarmIsNotLost
<1> USE DEF AlarmInv, AlarmIsNotLost
<1>1. Init => AlarmInv
  BY DEF Init, AlarmType, IrqRec
<1>2. ASSUME AlarmInv, [Next]_vars PROVE AlarmInv'
  <2>1. CASE HwTick
    <3>1. UNCHANGED irq /\ status0' \in {status0, status0 \cup {"alarm"}}
      BY <2>1 DEF HwTick
    <3>2. rung' => rung \/ "alarm" \in status0'
      BY <2>1 DEF HwTick
    <3> QED
      BY <1>2, <3>1, <3>2 DEF AlarmType, Cause
  <2>2. CASE HwOther
    BY <1>2, <2>2 DEF HwOther, AlarmType, Cause
  <2>3. CASE AlarmStop
    <3>1. UNCHANGED <<irq, status0>> /\ (rung' = FALSE \/ UNCHANGED rung)
      BY <2>3 DEF AlarmStop, opFrame
    <3> QED
      BY <1>2, <3>1 DEF AlarmType
  <2>4. CASE AlarmClear
    <3>1. UNCHANGED irq /\ status0' \in {status0, {}}
      BY <2>4 DEF AlarmClear, opFrame, Store
    <3>2. rung' = FALSE \/ UNCHANGED <<status0, rung>>
      BY <2>4 DEF AlarmClear
    <3> QED
      BY <1>2, <3>1, <3>2 DEF AlarmType
  <2>5. CASE IrqRead
    <3>1. irq.pc = "idle" /\ UNCHANGED <<status0, rung>>
      BY <2>5 DEF IrqRead
    <3>2. \/ UNCHANGED irq
          \/ \E st \in SUBSET Cause : irq' = [pc |-> "write", status |-> st]
      BY <1>2, <2>5 DEF IrqRead, AlarmType, IrqRec
    <3> QED
      BY <1>2, <3>1, <3>2 DEF AlarmType, IrqRec
  <2>6. CASE IrqWrite
    <3>1. irq.pc = "write" /\ UNCHANGED rung
      BY <2>6 DEF IrqWrite
    <3>2. AlarmType'
      BY <1>2, <2>6 DEF IrqWrite, Store, AlarmType, IrqRec
    <3>3. \/ UNCHANGED status0
          \/ irq'.pc = "report" /\ irq'.status = irq.status /\ status0' = status0 \ irq.status
      BY <1>2, <2>6 DEF IrqWrite, Store, AlarmType, IrqRec
    <3> QED
      BY <1>2, <3>1, <3>2, <3>3
  <2>7. CASE IrqReport
    BY <1>2, <2>7 DEF IrqReport, irqFrame, AlarmType, IrqRec
  <2>8. CASE Reset \/ ProbeStart
    BY <1>2, <2>8 DEF Reset, ProbeStart, probeFrame, AlarmType, IrqRec
  <2>9. CASE UNCHANGED <<status0, rung, irq>>
    BY <1>2, <2>9 DEF AlarmType
  <2>10. CASE HwFollow \/ \E c \in Counts : HwTestDone(c)
    BY <2>9, <2>10 DEF HwFollow, HwTestDone, alarmIf
  <2>11. CASE \/ \E tm \in Times : SetTime(tm)
              \/ \E tm \in Alarms, en \in BOOLEAN : SetAlarm(tm, en)
              \/ \E en \in BOOLEAN : AlarmIrqEnable(en)
    BY <2>9, <2>11 DEF SetTime, SetAlarm, AlarmIrqEnable, Enter, alarmIf
  <2>12. CASE \/ SetStopRead \/ SetStopWrite \/ SetPoll \/ SetWriteTime
              \/ SetStartRead \/ SetStartWrite \/ AlarmWrite \/ AlarmEnable
    BY <2>9, <2>12 DEF SetStopRead, SetStopWrite, SetPoll, SetWriteTime, SetWriteSec,
       SetWriteYl, SetWriteYh, SetStartRead, SetStartWrite, AlarmWrite, AlarmWriteReg,
       AlarmEnable, SetRead, SetWriteCtrl, alarmIf, opFrame
  <2>13. CASE Trim
    BY <2>9, <2>13 DEF Trim, TrimBegin, TrimPoll, TrimRead, TrimCompH, TrimCompD,
       TrimCompM, TrimEnableRead, TrimEnableWrite, TrimComp, alarmIf, trimFrame
  <2>14. CASE Pm
    BY <2>9, <2>14 DEF Pm, SuspendClose, SuspendCancel, SuspendGate, Resume, alarmIf, pmFrame
  <2>15. CASE ProbeRegister \/ ProbeFail
    BY <2>9, <2>15 DEF ProbeRegister, ProbeFail, registerFrame, alarmIf
  <2>16. CASE UNCHANGED vars
    BY <2>9, <2>16 DEF vars, alarmIf
  <2> QED
    BY <1>2, <2>1, <2>2, <2>3, <2>4, <2>5, <2>6, <2>7, <2>8, <2>10, <2>11, <2>12,
       <2>13, <2>14, <2>15, <2>16 DEF Next, Hw, Ops, Irq, Boot
<1> QED
  BY <1>1, <1>2, PTL DEF Spec

-----------------------------------------------------------------------------
\* bin2bcd returns a byte, also for a negative argument.
LEMMA Byte == \A x \in Int : bin2bcd(x) \in 0 .. 255
BY Z3 DEF bin2bcd

\* The image of a time is made of bytes.
LEMMA EncodeType == \A tm \in Tm : Encode(tm) \in Reg
<1> SUFFICES ASSUME NEW tm \in Tm PROVE Encode(tm) \in Reg
  OBVIOUS
<1>1. tm.sec \in Int /\ tm.year \in Int
  BY DEF Tm
<1>2. yearh(tm.year) \in Int
  BY <1>1 DEF yearh
<1>3. tm.year - 100 - 100 * yearh(tm.year) \in Int
  BY <1>1, <1>2
<1> QED
  BY <1>1, <1>2, <1>3, Byte DEF Encode, Reg

\* bcd2bin returns a natural number.
LEMMA BinNat == \A b \in Nat : bcd2bin(b) \in Nat
BY DEF bcd2bin

\* What the registers decode to is a pair of natural numbers.
LEMMA DecodeType == \A r \in Reg : Decode(r) \in [sec : Nat, year : Nat]
<1> SUFFICES ASSUME NEW r \in Reg PROVE Decode(r) \in [sec : Nat, year : Nat]
  OBVIOUS
<1>1. r.sec % 128 \in Nat /\ r.yh \in Nat /\ r.yl \in Nat
  BY DEF Reg
<1>2. bcd2bin(r.sec % 128) \in Nat /\ bcd2bin(r.yh) \in Nat /\ bcd2bin(r.yl) \in Nat
  BY <1>1, BinNat
<1>3. 100 * bcd2bin(r.yh) + bcd2bin(r.yl) + 100 \in Nat
  BY <1>2
<1> QED
  BY <1>2, <1>3 DEF Decode

\* A count, or none, is a natural number.
LEMMA CntNat == Cnt \subseteq Nat
BY RtcAssumption DEF Cnt

\* A compensation register is a byte.
LEMMA RegByte ==
  ASSUME NEW p, p.s \in Int PROVE CompReg(p) \in 0 .. 255
<1>1. bin2bcd(p.s) \in 0 .. 255
  BY Byte
<1> HIDE DEF bin2bcd
<1> QED
  BY <1>1 DEF CompReg, NO_COMP, DIR_ADD

\* The three compensation registers are bytes.
LEMMA CompensationType ==
  \A c \in Nat : Compensation(c) \in [h : 0 .. 255, d : 0 .. 255, m : 0 .. 255]
<1> SUFFICES ASSUME NEW c \in Nat
             PROVE  Compensation(c) \in [h : 0 .. 255, d : 0 .. 255, m : 0 .. 255]
  OBVIOUS
<1>1. HourPart(c).s \in Int /\ DayPart(c).s \in Int /\ MonthPart(c).s \in Int
  <2>1. FitsRegisters(c)
    BY CompensationAlwaysFits
  <2>2. HourPart(c).s \in -1 .. 79 /\ DayPart(c).s \in -1 .. 79 /\ MonthPart(c).s \in -1 .. 79
    BY <2>1, Zenon DEF FitsRegisters
  <2> QED
    BY <2>2
<1> QED
  BY <1>1, RegByte DEF Compensation

-----------------------------------------------------------------------------
\* Who may be at work when: no bus error yet.
Phases ==
  /\ gated => pm = "suspended" \/ boot = "failed"
  /\ pm # "awake" => op.pc = "idle" /\ boot = "up"
  /\ pm \in {"closed", "suspended"} => trim.pc = "idle"
  /\ trim.pc # "idle" => boot \in {"up", "failed"} /\ ~ctrl.comp
  /\ op.pc # "idle" => boot \in {"probe", "up"}
  /\ op.pc \in {"stop_write", "start_write"} /\ op.ctrl.comp => ctrl.comp

\* How far the work has programmed its measurement, into a block that is not
\* gated.
Programming ==
  /\ ctrl.comp => \E c \in Cnt : comp = Compensation(c)
  /\ trim.pc \in {"comp_d", "comp_m", "enable_read", "enable_write"} /\ ~gated
       => comp.h = Compensation(trim.counts).h
  /\ trim.pc \in {"comp_m", "enable_read", "enable_write"} /\ ~gated
       => comp.d = Compensation(trim.counts).d
  /\ trim.pc \in {"enable_read", "enable_write"} /\ ~gated
       => comp.m = Compensation(trim.counts).m

\* set_time's window apart, the clock is started.
Started ==
  /\ boot \in {"probe", "up"}
  /\ op.pc \notin {"stop_poll", "write", "write_yl", "write_yh", "start_read", "start_write"}
  /\ ~lostUpdate
  => ctrl.start

\* A call is made to a probed driver that is not asleep; only a registered one
\* sleeps.
Serial ==
  /\ op.pc # "idle" => boot \in {"probe", "up"} /\ pm = "awake"
  /\ pm # "awake" => boot = "up"

\* The registers hold the time last set.
Matches == civil.year \in 100 .. 299 => Decode(time) = civil

\* They do outside the bulk write, if the last one was not cut short; inside it,
\* those already written do.  To a gated block nothing is written at all.
ReadInv ==
  /\ ~torn /\ (op.pc \in Writing => gated) => Matches
  /\ op.pc \in Writing /\ ~gated
       => civil.year = op.tm.year /\ bcd2bin(time.sec % 128) = civil.sec
  /\ op.pc = "write_yh" /\ ~gated => time.yl = Encode(op.tm).yl

RtcInv ==
  /\ TypeOK /\ Serial /\ ReadInv
  /\ ~faulted => Phases /\ Programming /\ Started

\* The records of an idle call and an idle work have their types.
LEMMA IdleTypes ==
  /\ DefaultTm \in Tm /\ Off \in Ctrl
  /\ \A ret \in {"none", "set", "ok", "error"} : IdleOp(ret) \in OpRec
  /\ IdleTrim \in TrimRec
<1>1. DefaultTm \in Tm /\ Off \in Ctrl
  BY DEF DefaultTm, Tm, Off, Ctrl
<1> QED
  BY <1>1 DEF IdleOp, OpRec, OpPc, IdleTrim, TrimRec, TrimPc, Cnt

\* A register written from the call's time is a byte.
LEMMA PutType ==
  ASSUME NEW regs \in Reg, op \in OpRec, NEW part \in {"sec", "yl", "yh"}
  PROVE  Put(regs, part) \in Reg
<1>1. Encode(op.tm) \in Reg
  BY EncodeType DEF OpRec
<1>2. Encode(op.tm)[part] \in 0 .. 255
  BY <1>1 DEF Reg
<1> QED
  BY <1>2 DEF Put, Store, Reg

\* Every step of the specification keeps the types.
LEMMA TypeStep == TypeOK /\ [Next]_vars => TypeOK'
<1> SUFFICES ASSUME TypeOK, [Next]_vars PROVE TypeOK'
  OBVIOUS
<1>0. op \in OpRec /\ trim \in TrimRec /\ ctrl \in Ctrl /\ test.cnt \in Cnt
  BY DEF TypeOK
<1> USE DEF TypeOK, clock, alarmIf, ctrlReg, trimIf, faults
<1>1. CASE HwTick
  <2>1. bin2bcd(Decode(time).sec + 1) \in 0 .. 255
    BY DecodeType, Byte
  <2>2. time' \in Reg
    BY <1>1, <2>1 DEF HwTick, Reg
  <2>3. civil' \in [sec : Nat, year : Nat]
    BY <1>1 DEF HwTick
  <2>4. status0' \subseteq Cause /\ rung' \in BOOLEAN
    BY <1>1 DEF HwTick, Cause
  <2> QED
    BY <1>1, <2>2, <2>3, <2>4 DEF HwTick
<1>2. CASE HwFollow
  BY <1>2 DEF HwFollow, Ctrl
<1>3. CASE HwOther
  BY <1>3 DEF HwOther, Cause
<1>4. ASSUME NEW c \in Counts, HwTestDone(c) PROVE TypeOK'
  BY <1>4 DEF HwTestDone, Cnt
<1>5. ASSUME NEW pc \in OpPc, NEW tm \in Tm, NEW en \in BOOLEAN, Enter(pc, tm, en) PROVE TypeOK'
  <2>1. op' \in OpRec
    BY <1>5 DEF Enter, OpRec
  <2> QED
    BY <1>5, <2>1 DEF Enter
<1>6. ASSUME NEW from \in OpPc, NEW to \in OpPc, SetRead(from, to) PROVE TypeOK'
  <2>1. op' \in OpRec
    <3> HIDE DEF TypeOK
    <3>1. PICK v \in Ctrl : op' = [op EXCEPT !.pc = to, !.ctrl = v]
      BY <1>6 DEF SetRead
    <3> QED
      BY <1>0, <3>1 DEF OpRec
  <2>2. faulted' \in BOOLEAN
    BY <1>6 DEF SetRead, ReadCtrl, Fault, NoFault
  <2> QED
    BY <1>6, <2>1, <2>2 DEF SetRead, opFrame
<1>7. ASSUME NEW from \in OpPc, NEW to \in OpPc, NEW b \in BOOLEAN, SetWriteCtrl(from, to, b)
      PROVE  TypeOK'
  <2>1. op' \in OpRec
    <3> HIDE DEF TypeOK
    <3>1. op' = IdleOp("error") \/ op' = [op EXCEPT !.pc = to]
      BY <1>7 DEF SetWriteCtrl, OpStep, Return
    <3>2. [op EXCEPT !.pc = to] \in OpRec
      BY <1>0 DEF OpRec
    <3> QED
      BY <3>1, <3>2, IdleTypes
  <2>2. op.ctrl \in Ctrl
    BY DEF OpRec
  <2>3. ctrl' \in Ctrl
    <3>1. UNCHANGED ctrl \/ ctrl' = [op.ctrl EXCEPT !.start = b]
      BY <1>7 DEF SetWriteCtrl, WriteCtrl
    <3> HIDE DEF TypeOK
    <3> QED
      BY <1>0, <2>2, <3>1 DEF Ctrl
  <2>4. lostUpdate' \in BOOLEAN /\ faulted' \in BOOLEAN
    BY <1>7 DEF SetWriteCtrl, WriteCtrl, Fault, NoFault
  <2> QED
    BY <1>7, <2>1, <2>3, <2>4 DEF SetWriteCtrl, opFrame
<1>8. CASE SetPoll
  <2>1. op' \in OpRec
    BY <1>8, IdleTypes DEF SetPoll, OpStep, Return, OpRec, OpPc
  <2> QED
    BY <1>8, <2>1 DEF SetPoll, opFrame
<1>9. CASE SetWriteTime
  <2>1. op' \in OpRec
    <3> HIDE DEF TypeOK
    <3>1. \/ op' = IdleOp("error")
          \/ \E pc \in {"write_yl", "write_yh", "start_read"} : op' = [op EXCEPT !.pc = pc]
      BY <1>9 DEF SetWriteTime, SetWriteSec, SetWriteYl, SetWriteYh, OpStep, Return
    <3>2. \A pc \in OpPc : [op EXCEPT !.pc = pc] \in OpRec
      BY <1>0 DEF OpRec
    <3> QED
      BY <3>1, <3>2, IdleTypes DEF OpPc
  <2>2. op.tm \in Tm /\ op.tm \in [sec : Nat, year : Nat]
    BY DEF OpRec, Tm
  <2>3. \A part \in {"sec", "yl", "yh"} : Put(time, part) \in Reg
    BY PutType
  <2>4. time' \in Reg
    <3>1. UNCHANGED time \/ \E part \in {"sec", "yl", "yh"} : time' = Put(time, part)
      BY <1>9 DEF SetWriteTime, SetWriteSec, SetWriteYl, SetWriteYh
    <3> QED
      BY <2>3, <3>1
  <2>5. civil' \in [sec : Nat, year : Nat]
    <3>1. UNCHANGED civil \/ civil' = op.tm
      BY <1>9 DEF SetWriteTime, SetWriteSec, SetWriteYl, SetWriteYh, Store
    <3> QED
      BY <2>2, <3>1
  <2>6. torn' \in BOOLEAN /\ faulted' \in BOOLEAN
    BY <1>9 DEF SetWriteTime, SetWriteSec, SetWriteYl, SetWriteYh, Store, Fault, NoFault
  <2>7. UNCHANGED <<ticks, alarmIf, ctrlReg, running, trimIf, opFrame>>
    BY <1>9 DEF SetWriteTime, SetWriteSec, SetWriteYl, SetWriteYh
  <2> QED
    BY <2>1, <2>4, <2>5, <2>6, <2>7 DEF opFrame
<1>10. CASE AlarmStop
  <2>1. op' \in OpRec
    BY ZenonT(40), <1>10, IdleTypes DEF AlarmStop, OpStep, Return, OpRec, OpPc
  <2>2. intEn' \in BOOLEAN /\ rung' \in BOOLEAN /\ faulted' \in BOOLEAN
    BY <1>10 DEF AlarmStop, Store, Fault, NoFault
  <2> QED
    BY <1>10, <2>1, <2>2 DEF AlarmStop, opFrame
<1>11. CASE AlarmWrite
  <2>1. op' \in OpRec
    <3> HIDE DEF TypeOK
    <3>1. \/ op' = IdleOp("error") \/ op' = IdleOp("ok")
          \/ \E pc \in {"alarm_yl", "alarm_yh", "alarm_clear"} : op' = [op EXCEPT !.pc = pc]
      BY <1>11 DEF AlarmWrite, AlarmWriteReg, OpStep, Return
    <3>2. \A pc \in OpPc : [op EXCEPT !.pc = pc] \in OpRec
      BY <1>0 DEF OpRec
    <3> QED
      BY <3>1, <3>2, IdleTypes DEF OpPc
  <2>2. \A part \in {"sec", "yl", "yh"} : Put(alarm, part) \in Reg
    BY PutType
  <2>3. alarm' \in Reg
    <3>1. UNCHANGED alarm \/ \E part \in {"sec", "yl", "yh"} : alarm' = Put(alarm, part)
      BY <1>11 DEF AlarmWrite, AlarmWriteReg
    <3> QED
      BY <2>2, <3>1
  <2>4. faulted' \in BOOLEAN
    BY <1>11 DEF AlarmWrite, AlarmWriteReg, Fault, NoFault
  <2>5. UNCHANGED <<clock, status0, intEn, rung, ctrlReg, running, trimIf, opFrame>>
    BY <1>11 DEF AlarmWrite, AlarmWriteReg
  <2> QED
    BY <2>1, <2>3, <2>4, <2>5 DEF opFrame
<1>12. CASE AlarmClear
  <2>1. op' \in OpRec
    BY <1>12 DEF AlarmClear, OpStep, OpRec, OpPc
  <2>2. status0' \subseteq Cause /\ rung' \in BOOLEAN /\ faulted' \in BOOLEAN
    BY <1>12 DEF AlarmClear, Store, Fault, NoFault
  <2> QED
    BY <1>12, <2>1, <2>2 DEF AlarmClear, opFrame
<1>13. CASE AlarmEnable
  <2>1. op' \in OpRec
    BY <1>13, IdleTypes DEF AlarmEnable, Return
  <2>2. intEn' \in BOOLEAN /\ faulted' \in BOOLEAN
    BY <1>13 DEF AlarmEnable, Store, Fault, NoFault
  <2> QED
    BY <1>13, <2>1, <2>2 DEF AlarmEnable, opFrame
<1>14. CASE Irq
  <2>1. status0' \subseteq Cause /\ rung' \in BOOLEAN /\ faulted' \in BOOLEAN
    BY <1>14 DEF Irq, IrqRead, IrqWrite, IrqReport, Store, Fault, NoFault
  <2>2. irq' \in IrqRec
    BY <1>14 DEF Irq, IrqRead, IrqWrite, IrqReport, IrqRec
  <2> QED
    BY <1>14, <2>1, <2>2 DEF Irq, IrqRead, IrqWrite, IrqReport, irqFrame
<1>15. CASE TrimBegin \/ TrimPoll \/ TrimRead
  <2>1. trim' \in TrimRec
    <3> HIDE DEF TypeOK
    <3>1. \/ trim' = IdleTrim
          \/ \E pc \in TrimPc : trim' = [trim EXCEPT !.pc = pc]
          \/ \E c \in Cnt : trim' = [trim EXCEPT !.pc = "comp_h", !.counts = c]
      BY <1>0, <1>15 DEF TrimBegin, TrimPoll, TrimRead, TrimAbort, TrimStep, TrimPc
    <3>2. \A c \in Cnt : [trim EXCEPT !.pc = "comp_h", !.counts = c] \in TrimRec
      BY <1>0 DEF TrimRec, TrimPc
    <3>3. \A pc \in TrimPc : [trim EXCEPT !.pc = pc] \in TrimRec
      BY <1>0 DEF TrimRec
    <3> QED
      BY <3>1, <3>2, <3>3, IdleTypes
  <2>2. test' \in [busy : BOOLEAN, cnt : Cnt]
    <3>1. UNCHANGED test \/ test' = [test EXCEPT !.busy = TRUE]
      BY <1>15 DEF TrimBegin, TrimPoll, TrimRead, TrimAbort, Store
    <3> QED
      BY <3>1
  <2>3. faulted' \in BOOLEAN /\ UNCHANGED <<ctrlReg, comp, trimFrame>>
    BY <1>15 DEF TrimBegin, TrimPoll, TrimRead, TrimAbort, Fault, NoFault
  <2> QED
    BY <2>1, <2>2, <2>3 DEF trimFrame
<1>16. ASSUME NEW from \in TrimPc, NEW to \in TrimPc, NEW part \in {"h", "d", "m"},
              TrimComp(from, to, part)
       PROVE  TypeOK'
  <2>1. trim' \in TrimRec
    <3> HIDE DEF TypeOK
    <3>1. trim' = [trim EXCEPT !.pc = to]
      BY <1>16 DEF TrimComp, TrimStep
    <3> QED
      BY <1>0, <3>1 DEF TrimRec
  <2>2. Compensation(trim.counts) \in [h : 0 .. 255, d : 0 .. 255, m : 0 .. 255]
    BY CompensationType, CntNat DEF TrimRec
  <2>3. Compensation(trim.counts)[part] \in 0 .. 255
    BY <2>2
  <2>4. comp' \in [h : 0 .. 255, d : 0 .. 255, m : 0 .. 255]
    BY <1>16, <2>3 DEF TrimComp, Store
  <2>5. faulted' \in BOOLEAN
    BY <1>16 DEF TrimComp, Fault, NoFault
  <2> QED
    BY <1>16, <2>1, <2>4, <2>5 DEF TrimComp, trimFrame
<1>17. CASE TrimEnableRead
  <2>1. trim' \in TrimRec
    <3> HIDE DEF TypeOK
    <3>1. trim' = IdleTrim \/ \E v \in Ctrl : trim' = [trim EXCEPT !.pc = "enable_write", !.ctrl = v]
      BY <1>17 DEF TrimEnableRead, TrimAbort
    <3>2. \A v \in Ctrl : [trim EXCEPT !.pc = "enable_write", !.ctrl = v] \in TrimRec
      BY <1>0 DEF TrimRec, TrimPc
    <3> QED
      BY <3>1, <3>2, IdleTypes
  <2>2. faulted' \in BOOLEAN
    BY <1>17 DEF TrimEnableRead, TrimAbort, ReadCtrl, Fault, NoFault
  <2> QED
    <3>1. UNCHANGED <<ctrlReg, trimIf, trimFrame>>
      BY <1>17 DEF TrimEnableRead, TrimAbort
    <3> QED
      BY <2>1, <2>2, <3>1 DEF trimFrame
<1>24. CASE TrimEnableWrite
  <2>1. trim' = IdleTrim
    BY <1>24 DEF TrimEnableWrite, TrimAbort
  <2>2. trim.ctrl \in Ctrl
    BY DEF TrimRec
  <2>3. ctrl' \in Ctrl
    <3>1. UNCHANGED ctrl \/ ctrl' = [trim.ctrl EXCEPT !.comp = TRUE]
      BY <1>24 DEF TrimEnableWrite, TrimAbort, WriteCtrl
    <3> HIDE DEF TypeOK
    <3> QED
      BY <1>0, <2>2, <3>1 DEF Ctrl
  <2>4. lostUpdate' \in BOOLEAN /\ faulted' \in BOOLEAN
    BY <1>24 DEF TrimEnableWrite, TrimAbort, WriteCtrl, Fault, NoFault
  <2> QED
    BY <1>24, <2>1, <2>3, <2>4, IdleTypes DEF TrimEnableWrite, TrimAbort, trimFrame
<1>18. CASE Pm
  <2>1. trim' \in TrimRec
    BY <1>18 DEF Pm, SuspendClose, SuspendCancel, SuspendGate, Resume, trim_start, TrimRec, TrimPc
  <2>2. gated' \in BOOLEAN /\ faulted' \in BOOLEAN
        /\ pm' \in {"awake", "close", "closed", "suspended"}
    BY <1>18 DEF Pm, SuspendClose, SuspendCancel, SuspendGate, Resume, Upset, Fault, NoFault
  <2> QED
    <3>1. UNCHANGED pmFrame
      BY <1>18 DEF Pm, SuspendClose, SuspendCancel, SuspendGate, Resume
    <3> QED
      BY <2>1, <2>2, <3>1 DEF pmFrame
<1>19. CASE ProbeStart
  <2>1. op' \in OpRec
    <3>1. UNCHANGED op \/ op' = [op EXCEPT !.pc = "stop_read", !.tm = DefaultTm, !.ret = "none"]
      BY <1>19 DEF ProbeStart, ProbeTime
    <3> QED
      BY ZenonT(40), <3>1, IdleTypes DEF OpRec, OpPc
  <2>2. ctrl' \in Ctrl
    BY ZenonT(40), <1>19 DEF ProbeStart, Ctrl
  <2>3. /\ faulted' \in BOOLEAN /\ gated' \in BOOLEAN /\ rung' \in BOOLEAN
        /\ boot' \in {"off", "probe", "up", "failed"} /\ status0' \subseteq Cause
    BY <1>19 DEF ProbeStart, Fault, NoFault
  <2> QED
    BY <1>19, <2>1, <2>2, <2>3 DEF ProbeStart, probeFrame
<1>20. CASE ProbeRegister \/ ProbeFail
  <2>1. trim' \in TrimRec
    BY <1>20 DEF ProbeRegister, ProbeFail, trim_start, TrimRec, TrimPc
  <2>2. /\ faulted' \in BOOLEAN /\ gated' \in BOOLEAN
        /\ boot' \in {"off", "probe", "up", "failed"} /\ UNCHANGED registerFrame
    BY ZenonT(40), <1>20 DEF ProbeRegister, ProbeFail, Fault, NoFault
  <2> QED
    BY <2>1, <2>2 DEF registerFrame
<1>21. CASE Reset
  <2>1. irq' \in IrqRec
    BY <1>21 DEF Reset, IrqRec
  <2> QED
    BY <1>21, <2>1, IdleTypes DEF Reset
<1>22. CASE UNCHANGED vars
  BY <1>22 DEF vars
<1>23. CASE \/ \E tm \in Times : SetTime(tm)
            \/ \E tm \in Alarms, en \in BOOLEAN : SetAlarm(tm, en)
            \/ \E en \in BOOLEAN : AlarmIrqEnable(en)
  <2>1. {"stop_read", "alarm_stop", "alarm_clear", "irq_stop"} \subseteq OpPc
    BY DEF OpPc
  <2>2. \E pc \in OpPc, tm \in Tm, en \in BOOLEAN : Enter(pc, tm, en)
    <3> HIDE DEF TypeOK
    <3>1. CASE \E tm \in Times : SetTime(tm)
      BY <2>1, <3>1, RtcAssumption DEF SetTime
    <3>2. CASE \E tm \in Alarms, en \in BOOLEAN : SetAlarm(tm, en)
      BY <2>1, <3>2, RtcAssumption DEF SetAlarm
    <3>3. ASSUME NEW en \in BOOLEAN, AlarmIrqEnable(en)
          PROVE  \E pc \in OpPc : Enter(pc, DefaultTm, en)
      BY <2>1, <3>3 DEF AlarmIrqEnable
    <3> QED
      BY <1>23, <3>1, <3>2, <3>3, IdleTypes
  <2> QED
    BY <1>5, <2>2
<1>25. CASE SetStopRead \/ SetStartRead \/ SetStopWrite \/ SetStartWrite
  BY <1>6, <1>7, <1>25 DEF SetStopRead, SetStartRead, SetStopWrite, SetStartWrite, OpPc
<1>26. CASE TrimCompH \/ TrimCompD \/ TrimCompM
  BY <1>16, <1>26 DEF TrimCompH, TrimCompD, TrimCompM, TrimPc
<1> HIDE DEF TypeOK, clock, alarmIf, ctrlReg, trimIf, faults
<1> QED
  BY <1>1, <1>2, <1>3, <1>4, <1>8, <1>9, <1>10, <1>11, <1>12, <1>13, <1>14,
     <1>15, <1>17, <1>18, <1>19, <1>20, <1>21, <1>22, <1>23, <1>24, <1>25, <1>26
     DEF Next, Hw, Ops, Trim, Boot

\* The initial states have the types.
LEMMA InitType == Init => TypeOK
<1> SUFFICES ASSUME Init PROVE TypeOK
  OBVIOUS
<1>1. time \in Reg
  BY EncodeType, RtcAssumption DEF Init, Reg
<1>2. ctrl \in Ctrl /\ running \in BOOLEAN
  <2>1. ctrl = Off \/ ctrl \in Ctrl
    BY DEF Init
  <2>2. ctrl \in Ctrl
    BY <2>1, IdleTypes
  <2> QED
    BY <2>2 DEF Init, Ctrl
<1>3. comp \in [h : 0 .. 255, d : 0 .. 255, m : 0 .. 255]
  <2>1. Counts \subseteq Nat
    BY RtcAssumption
  <2> QED
    BY <2>1, CompensationType DEF Init
<1>4. alarm \in Reg /\ test \in [busy : BOOLEAN, cnt : Cnt] /\ irq \in IrqRec
  BY DEF Init, Reg, Cnt, IrqRec
<1>5. civil \in [sec : Nat, year : Nat]
  BY <1>1, DecodeType DEF Init
<1> QED
  BY <1>1, <1>2, <1>3, <1>4, <1>5, IdleTypes DEF Init, TypeOK

\* Every register, local and history variable of the driver's model keeps its
\* type: a BCD register its byte, whatever time, alarm or count it is given.
THEOREM TypeCorrect == Spec => []TypeOK
BY InitType, TypeStep, PTL DEF Spec

\* Who may be at work when is kept by every step without a bus error.
LEMMA PhasesStep ==
  ASSUME TypeOK, Phases, [Next]_vars, ~faulted, ~faulted' PROVE Phases'
<1>0. op \in OpRec /\ trim \in TrimRec /\ ctrl \in Ctrl
  BY DEF TypeOK
<1> USE DEF Phases, clock, alarmIf, ctrlReg, trimIf, faults
<1>1. CASE HwTick \/ HwFollow \/ HwOther \/ \E c \in Counts : HwTestDone(c)
  BY <1>1 DEF HwTick, HwFollow, HwOther, HwTestDone
<1>2. ASSUME NEW pc \in {"stop_read", "alarm_stop", "alarm_clear", "irq_stop"},
             NEW tm, NEW en, Enter(pc, tm, en)
      PROVE  Phases'
  <2>1. op'.pc = pc /\ op'.ctrl = op.ctrl
    BY <1>0, <1>2 DEF Enter, OpRec
  <2> QED
    BY <1>2, <2>1 DEF Enter
<1>3. CASE \/ \E tm \in Times : SetTime(tm)
           \/ \E tm \in Alarms, en \in BOOLEAN : SetAlarm(tm, en)
           \/ \E en \in BOOLEAN : AlarmIrqEnable(en)
  <2> HIDE DEF Phases
  <2> QED
    BY <1>2, <1>3 DEF SetTime, SetAlarm, AlarmIrqEnable
<1>4. ASSUME NEW from \in OpPc \ {"idle"}, NEW to \in OpPc, SetRead(from, to) PROVE Phases'
  <2>1. op.pc # "idle" /\ ~gated
    BY <1>4 DEF SetRead
  <2>2. op'.pc = to /\ op'.ctrl = ctrl
    BY <1>0, <1>4, <2>1 DEF SetRead, ReadCtrl, Fault, OpRec
  <2> QED
    BY <1>4, <2>1, <2>2 DEF SetRead, opFrame
<1>5. ASSUME NEW from \in {"stop_write", "start_write"}, NEW to \in {"stop_poll", "start_poll"},
             NEW b \in BOOLEAN, SetWriteCtrl(from, to, b)
      PROVE  Phases'
  <2>1. op.pc = from /\ op'.pc = to
    BY <1>0, <1>5 DEF SetWriteCtrl, OpStep, Return, Fault, OpRec
  <2>2. op.ctrl \in Ctrl
    BY <1>0 DEF OpRec
  <2>3. UNCHANGED ctrl \/ ctrl'.comp = op.ctrl.comp
    BY <1>5, <2>2 DEF SetWriteCtrl, WriteCtrl, Fault, Ctrl
  <2> QED
    BY <1>5, <2>1, <2>3 DEF SetWriteCtrl, opFrame
<1>6. CASE SetStopRead \/ SetStartRead \/ SetStopWrite \/ SetStartWrite
  <2> HIDE DEF Phases
  <2> QED
    BY <1>4, <1>5, <1>6 DEF SetStopRead, SetStartRead, SetStopWrite, SetStartWrite, OpPc
<1>7. ASSUME op.pc # "idle",
             op'.pc \notin {"stop_write", "start_write"}, UNCHANGED <<opFrame, ctrl>>
      PROVE  Phases'
  BY <1>7 DEF opFrame
<1>8. CASE SetPoll \/ SetWriteTime
  <2>1. op.pc # "idle" /\ op'.pc \notin {"stop_write", "start_write"}
    <3>1. \/ op' = IdleOp("set") \/ op' = IdleOp("error")
          \/ \E pc \in {"write", "write_yl", "write_yh", "start_read"} : op' = [op EXCEPT !.pc = pc]
      BY <1>8 DEF SetPoll, SetWriteTime, SetWriteSec, SetWriteYl, SetWriteYh, OpStep, Return
    <3>2. op.pc # "idle"
      BY <1>8 DEF SetPoll, SetWriteTime, SetWriteSec, SetWriteYl, SetWriteYh, OpStep, Return
    <3> QED
      BY <1>0, <3>1, <3>2 DEF IdleOp, OpRec
  <2>2. UNCHANGED <<opFrame, ctrl>>
    BY <1>8 DEF SetPoll, SetWriteTime, SetWriteSec, SetWriteYl, SetWriteYh
  <2> QED
    BY <1>7, <2>1, <2>2
<1>9. CASE AlarmStop \/ AlarmWrite \/ AlarmClear \/ AlarmEnable
  <2>1. op.pc # "idle" /\ op'.pc \notin {"stop_write", "start_write"}
    <3>1. \/ op' = IdleOp("ok") \/ op' = IdleOp("error")
          \/ \E pc \in {"alarm_write", "alarm_yl", "alarm_yh", "alarm_clear", "alarm_enable"} :
               op' = [op EXCEPT !.pc = pc]
      BY <1>9 DEF AlarmStop, AlarmWrite, AlarmWriteReg, AlarmClear, AlarmEnable, OpStep, Return
    <3>2. op.pc # "idle"
      BY <1>9 DEF AlarmStop, AlarmWrite, AlarmWriteReg, AlarmClear, AlarmEnable, OpStep, Return
    <3> QED
      BY <1>0, <3>1, <3>2 DEF IdleOp, OpRec
  <2>2. UNCHANGED <<opFrame, ctrl>>
    BY <1>9 DEF AlarmStop, AlarmWrite, AlarmWriteReg, AlarmClear, AlarmEnable
  <2> QED
    BY <1>7, <2>1, <2>2
<1>10. CASE Irq
  BY <1>10 DEF Irq, IrqRead, IrqWrite, IrqReport, irqFrame
<1>11. ASSUME trim.pc # "idle", UNCHANGED <<trimFrame, ctrl>> PROVE Phases'
  BY <1>11 DEF trimFrame
<1>12. CASE TrimBegin \/ TrimPoll \/ TrimRead \/ TrimCompH \/ TrimCompD \/ TrimCompM \/ TrimEnableRead
  <2>1. trim.pc # "idle" /\ UNCHANGED trimFrame
    BY <1>12 DEF TrimBegin, TrimPoll, TrimRead, TrimCompH, TrimCompD, TrimCompM,
       TrimEnableRead, TrimComp, TrimStep, TrimAbort
  <2>2. UNCHANGED ctrl
    BY <1>12 DEF TrimBegin, TrimPoll, TrimRead, TrimCompH, TrimCompD, TrimCompM,
       TrimEnableRead, TrimComp, TrimAbort
  <2> QED
    BY <1>11, <2>1, <2>2
<1>13. CASE TrimEnableWrite
  <2>1. trim.pc = "enable_write" /\ trim'.pc = "idle" /\ UNCHANGED trimFrame
    BY <1>13 DEF TrimEnableWrite, TrimAbort, IdleTrim
  <2>2. trim.ctrl \in Ctrl
    BY <1>0 DEF TrimRec
  <2>3. UNCHANGED ctrl \/ ctrl'.comp = TRUE
    BY <1>13, <2>2 DEF TrimEnableWrite, TrimAbort, Fault, WriteCtrl, Ctrl
  <2> QED
    BY <2>1, <2>3 DEF trimFrame
<1>14. CASE SuspendClose
  BY <1>14 DEF SuspendClose, Trimmed, pmFrame, Fault
<1>15. CASE SuspendCancel \/ SuspendGate
  <2>1. trim'.pc = "idle" /\ pm \in {"close", "closed"} /\ pm' \in {"closed", "suspended"}
        /\ (gated' => gated \/ pm' = "suspended")
    BY <1>0, <1>15 DEF SuspendCancel, SuspendGate, TrimRec
  <2> QED
    BY <1>15, <2>1 DEF SuspendCancel, SuspendGate, pmFrame
<1>16. CASE Resume
  <2>1. pm = "suspended" /\ trim.pc = "idle" /\ pm' = "awake" /\ gated' = FALSE /\ UNCHANGED pmFrame
    BY <1>16 DEF Resume, Fault
  <2>2. trim'.pc # "idle" => ~ctrl.comp
    BY <1>0, <1>16, <2>1 DEF Resume, Fault, trim_start, TrimRec
  <2> QED
    BY <2>1, <2>2 DEF pmFrame
<1>17. CASE ProbeStart
  <2>1. boot = "off" /\ boot' = "probe" /\ gated' = FALSE /\ op'.ctrl = op.ctrl
        /\ op'.pc \in {op.pc, "stop_read"} /\ ctrl'.comp = ctrl.comp
    BY <1>0, <1>17 DEF ProbeStart, ProbeTime, Fault, OpRec, Ctrl
  <2> QED
    BY <1>17, <2>1 DEF ProbeStart, probeFrame
<1>18. CASE ProbeRegister \/ ProbeFail
  <2>1. ~gated /\ trim.pc = "idle" /\ op.pc = "idle" /\ pm = "awake"
    BY <1>18 DEF ProbeRegister, ProbeFail
  <2>2. trim'.pc # "idle" => ~ctrl.comp
    BY <1>0, <1>18, <2>1 DEF ProbeRegister, ProbeFail, Trimmed, Fault, trim_start, TrimRec
  <2>3. boot' = "failed" \/ (boot' = "up" /\ UNCHANGED gated)
    BY <1>18 DEF ProbeRegister, ProbeFail
  <2>4. UNCHANGED <<op, pm, ctrl>>
    BY <1>18 DEF ProbeRegister, ProbeFail, registerFrame
  <2> QED
    BY <2>1, <2>2, <2>3, <2>4
<1>19. CASE Reset
  BY <1>19 DEF Reset, IdleOp, IdleTrim
<1>20. CASE UNCHANGED vars
  BY <1>20 DEF vars
<1> HIDE DEF Phases, clock, alarmIf, ctrlReg, trimIf, faults
<1> QED
  BY <1>1, <1>3, <1>6, <1>8, <1>9, <1>10, <1>12, <1>13, <1>14, <1>15, <1>16, <1>17, <1>18,
     <1>19, <1>20 DEF Next, Hw, Ops, Trim, Pm, Boot

\* How far the measurement is programmed is kept by every step without a bus
\* error.
LEMMA ProgrammingStep ==
  ASSUME TypeOK, Phases, Programming, [Next]_vars, ~faulted, ~faulted' PROVE Programming'
<1>0. /\ op \in OpRec /\ trim \in TrimRec /\ ctrl \in Ctrl
      /\ comp \in [h : 0 .. 255, d : 0 .. 255, m : 0 .. 255]
  BY DEF TypeOK
<1> USE DEF clock, alarmIf, ctrlReg, trimIf, faults
<1>1. CASE UNCHANGED <<ctrl, comp, trim, gated>>
  BY <1>1 DEF Programming
<1>2. ASSUME UNCHANGED comp, ctrl'.comp = ctrl.comp,
             \/ trim'.pc \in {"idle", "queued", "poll", "read", "comp_h"}
             \/ UNCHANGED <<trim, gated>>
      PROVE  Programming'
  BY <1>2 DEF Programming
<1>3. CASE Hw
  BY <1>1, <1>3 DEF Hw, HwTick, HwFollow, HwOther, HwTestDone
<1>4. CASE \/ \E tm \in Times : SetTime(tm)
           \/ \E tm \in Alarms, en \in BOOLEAN : SetAlarm(tm, en)
           \/ \E en \in BOOLEAN : AlarmIrqEnable(en)
  BY <1>1, <1>4 DEF SetTime, SetAlarm, AlarmIrqEnable, Enter
<1>5. CASE SetStopRead \/ SetStartRead \/ SetPoll \/ SetWriteTime
  BY <1>1, <1>5 DEF SetStopRead, SetStartRead, SetRead, SetPoll, SetWriteTime, SetWriteSec,
     SetWriteYl, SetWriteYh, opFrame
<1>6. CASE AlarmStop \/ AlarmWrite \/ AlarmClear \/ AlarmEnable
  BY <1>1, <1>6 DEF AlarmStop, AlarmWrite, AlarmWriteReg, AlarmClear, AlarmEnable, opFrame
<1>7. CASE SetStopWrite \/ SetStartWrite
  <2>1. op.pc \in {"stop_write", "start_write"} /\ UNCHANGED <<comp, trim, gated>>
    BY <1>7 DEF SetStopWrite, SetStartWrite, SetWriteCtrl, OpStep, Return, opFrame
  <2>2. op.ctrl \in Ctrl
    BY <1>0 DEF OpRec
  <2>3. UNCHANGED ctrl \/ ctrl'.comp = op.ctrl.comp
    BY <1>7, <2>2 DEF SetStopWrite, SetStartWrite, SetWriteCtrl, WriteCtrl, Ctrl
  <2>4. ctrl'.comp => ctrl.comp
    BY <2>1, <2>3 DEF Phases
  <2> QED
    BY <2>1, <2>4 DEF Programming
<1>8. CASE Irq
  BY <1>1, <1>8 DEF Irq, IrqRead, IrqWrite, IrqReport, irqFrame
<1>9. CASE TrimBegin \/ TrimPoll \/ TrimRead
  <2>1. UNCHANGED <<comp, ctrl>>
    BY <1>9 DEF TrimBegin, TrimPoll, TrimRead, TrimAbort
  <2>2. trim'.pc \in {"idle", "poll", "read", "comp_h"}
    <3>1. \/ trim' = IdleTrim
          \/ trim' = [trim EXCEPT !.pc = "poll"]
          \/ trim' = [trim EXCEPT !.pc = "read"]
          \/ \E c \in Cnt : trim' = [trim EXCEPT !.pc = "comp_h", !.counts = c]
      BY <1>9 DEF TrimBegin, TrimPoll, TrimRead, TrimAbort, TrimStep, TypeOK
    <3>2. \A pc \in {"poll", "read"} : [trim EXCEPT !.pc = pc].pc = pc
      BY <1>0 DEF TrimRec
    <3>3. \A c \in Cnt : [trim EXCEPT !.pc = "comp_h", !.counts = c].pc = "comp_h"
      BY <1>0 DEF TrimRec
    <3>4. IdleTrim.pc = "idle"
      BY DEF IdleTrim
    <3> QED
      BY <3>1, <3>2, <3>3, <3>4
  <2> QED
    BY <1>2, <2>1, <2>2
<1>10. ASSUME NEW from, NEW to, NEW part \in {"h", "d", "m"}, TrimComp(from, to, part)
       PROVE  /\ trim.pc = from /\ trim'.pc = to /\ trim'.counts = trim.counts
              /\ UNCHANGED <<ctrl, gated>>
              /\ comp' = Store(comp, [comp EXCEPT ![part] = Compensation(trim.counts)[part]])
  BY <1>0, <1>10 DEF TrimComp, TrimStep, Fault, TrimRec, trimFrame
<1>11. CASE TrimCompH
  <2>1. /\ trim.pc = "comp_h" /\ trim'.pc = "comp_d" /\ trim'.counts = trim.counts
        /\ UNCHANGED <<ctrl, gated>>
        /\ comp' = Store(comp, [comp EXCEPT !["h"] = Compensation(trim.counts)["h"]])
    BY <1>10, <1>11 DEF TrimCompH
  <2>2. ~ctrl.comp
    BY <2>1 DEF Phases
  <2> QED
    BY <1>0, <2>1, <2>2 DEF Programming, Store
<1>12. CASE TrimCompD
  <2>1. /\ trim.pc = "comp_d" /\ trim'.pc = "comp_m" /\ trim'.counts = trim.counts
        /\ UNCHANGED <<ctrl, gated>>
        /\ comp' = Store(comp, [comp EXCEPT !["d"] = Compensation(trim.counts)["d"]])
    BY <1>10, <1>12 DEF TrimCompD
  <2>2. ~ctrl.comp
    BY <2>1 DEF Phases
  <2> QED
    BY <1>0, <2>1, <2>2 DEF Programming, Store
<1>13. CASE TrimCompM
  <2>1. /\ trim.pc = "comp_m" /\ trim'.pc = "enable_read" /\ trim'.counts = trim.counts
        /\ UNCHANGED <<ctrl, gated>>
        /\ comp' = Store(comp, [comp EXCEPT !["m"] = Compensation(trim.counts)["m"]])
    BY <1>10, <1>13 DEF TrimCompM
  <2>2. ~ctrl.comp
    BY <2>1 DEF Phases
  <2> QED
    BY <1>0, <2>1, <2>2 DEF Programming, Store
<1>14. CASE TrimEnableRead
  <2>1. UNCHANGED <<comp, ctrl, gated>> /\ trim.pc = "enable_read"
    BY <1>14 DEF TrimEnableRead, TrimAbort, trimFrame
  <2>2. trim'.pc = "enable_write" /\ trim'.counts = trim.counts
    BY <1>0, <1>14 DEF TrimEnableRead, TrimAbort, Fault, TrimRec
  <2> QED
    BY <2>1, <2>2 DEF Programming
<1>15. CASE TrimEnableWrite
  <2>1. trim.pc = "enable_write" /\ trim'.pc = "idle" /\ UNCHANGED comp
    BY <1>15 DEF TrimEnableWrite, TrimAbort, IdleTrim
  <2>2. trim.counts \in Cnt
    BY <1>0 DEF TrimRec
  <2>3. CASE gated
    <3>1. UNCHANGED ctrl
      BY <1>15, <2>3 DEF TrimEnableWrite, TrimAbort, WriteCtrl
    <3> QED
      BY <1>2, <2>1, <3>1
  <2>4. CASE ~gated
    <3>1. comp = Compensation(trim.counts)
      BY <1>0, <2>1, <2>4 DEF Programming, Compensation
    <3> QED
      BY <2>1, <2>2, <3>1 DEF Programming
  <2> QED
    BY <2>3, <2>4
<1>16. CASE Pm
  <2>1. UNCHANGED <<comp, ctrl>>
    BY <1>16 DEF Pm, SuspendClose, SuspendCancel, SuspendGate, Resume, pmFrame
  <2>2. trim'.pc \in {"idle", "queued"} \/ UNCHANGED <<trim, gated>>
    <3>1. CASE SuspendClose \/ SuspendCancel
      BY <1>0, <3>1 DEF SuspendClose, SuspendCancel, TrimRec
    <3>2. CASE SuspendGate \/ Resume
      <4>1. trim.pc = "idle"
        BY <3>2 DEF SuspendGate, Resume, Phases
      <4> QED
        BY <1>0, <3>2, <4>1 DEF SuspendGate, Resume, trim_start, TrimRec
    <3> QED
      BY <1>16, <3>1, <3>2 DEF Pm
  <2> QED
    BY <1>2, <2>1, <2>2
<1>17. CASE ProbeStart
  <2>1. trim.pc = "idle"
    BY <1>17 DEF ProbeStart, Phases
  <2> QED
    BY <1>0, <1>2, <1>17, <2>1 DEF ProbeStart, probeFrame, Fault, Ctrl
<1>18. CASE ProbeRegister \/ ProbeFail
  <2>1. UNCHANGED <<comp, ctrl>> /\ trim'.pc \in {"idle", "queued"}
    <3>1. trim.pc = "idle"
      BY <1>18 DEF ProbeRegister, ProbeFail, Phases
    <3> QED
      BY <1>0, <1>18, <3>1 DEF ProbeRegister, ProbeFail, registerFrame, trim_start, TrimRec
  <2> QED
    BY <1>2, <2>1
<1>19. CASE Reset
  BY <1>2, <1>19 DEF Reset, IdleTrim
<1>20. CASE UNCHANGED vars
  BY <1>1, <1>20 DEF vars
<1> HIDE DEF clock, alarmIf, ctrlReg, trimIf, faults
<1> QED
  BY <1>3, <1>4, <1>5, <1>6, <1>7, <1>8, <1>9, <1>11, <1>12, <1>13, <1>14, <1>15, <1>16,
     <1>17, <1>18, <1>19, <1>20 DEF Next, Ops, Trim, Boot

\* The clock stays started by every step without a bus error or a lost update.
LEMMA StartedStep ==
  ASSUME TypeOK, Phases, Started, [Next]_vars, ~faulted, ~faulted' PROVE Started'
<1>0. op \in OpRec /\ trim \in TrimRec /\ ctrl \in Ctrl
  BY DEF TypeOK
<1> DEFINE Window == {"stop_poll", "write", "write_yl", "write_yh", "start_read", "start_write"}
<1> USE DEF clock, alarmIf, ctrlReg, trimIf, faults
<1>1. ASSUME UNCHANGED <<ctrl, lostUpdate>>,
             UNCHANGED boot \/ boot = "probe",
             op.pc \in Window => op'.pc \in Window
      PROVE  Started'
  BY <1>1 DEF Started
<1>2. CASE Hw
  BY <1>1, <1>2 DEF Hw, HwTick, HwFollow, HwOther, HwTestDone
<1>3. CASE \/ \E tm \in Times : SetTime(tm)
           \/ \E tm \in Alarms, en \in BOOLEAN : SetAlarm(tm, en)
           \/ \E en \in BOOLEAN : AlarmIrqEnable(en)
  BY <1>1, <1>3 DEF SetTime, SetAlarm, AlarmIrqEnable, Enter
<1>4. CASE SetStopRead \/ SetStartRead
  BY <1>0, <1>1, <1>4 DEF SetStopRead, SetStartRead, SetRead, opFrame, OpRec
<1>5. CASE SetPoll \/ SetWriteTime
  <2>1. UNCHANGED <<ctrl, lostUpdate, boot>>
    BY <1>5 DEF SetPoll, SetWriteTime, SetWriteSec, SetWriteYl, SetWriteYh, opFrame
  <2>2. op.pc \in Window => op'.pc \in Window
    BY <1>0, <1>5 DEF SetPoll, SetWriteTime, SetWriteSec, SetWriteYl, SetWriteYh, OpStep,
       Return, Fault, OpRec
  <2> QED
    BY <1>1, <2>1, <2>2
<1>6. CASE AlarmStop \/ AlarmWrite \/ AlarmClear \/ AlarmEnable
  <2>1. op.pc \notin Window
    BY <1>6 DEF AlarmStop, AlarmWrite, AlarmWriteReg, AlarmClear, AlarmEnable, OpStep, Return
  <2> QED
    BY <1>1, <1>6, <2>1 DEF AlarmStop, AlarmWrite, AlarmWriteReg, AlarmClear, AlarmEnable, opFrame
<1>7. CASE SetStopWrite
  <2>1. op'.pc = "stop_poll"
    BY <1>0, <1>7 DEF SetStopWrite, SetWriteCtrl, OpStep, Return, Fault, OpRec
  <2> QED
    BY <2>1 DEF Started
<1>8. CASE SetStartWrite
  <2>1. op.pc = "start_write"
    BY <1>8 DEF SetStartWrite, SetWriteCtrl, OpStep, Return
  <2>2. ~gated
    BY <2>1 DEF Phases
  <2>3. op.ctrl \in Ctrl
    BY <1>0 DEF OpRec
  <2>4. ctrl' = [op.ctrl EXCEPT !.start = TRUE]
    BY <1>8, <2>2 DEF SetStartWrite, SetWriteCtrl, WriteCtrl, Fault
  <2> QED
    BY <2>3, <2>4 DEF Started, Ctrl
<1>9. CASE Irq
  BY <1>1, <1>9 DEF Irq, IrqRead, IrqWrite, IrqReport, irqFrame
<1>10. CASE TrimBegin \/ TrimPoll \/ TrimRead \/ TrimEnableRead
  BY <1>1, <1>10 DEF TrimBegin, TrimPoll, TrimRead, TrimEnableRead, TrimAbort, trimFrame
<1>11. CASE TrimCompH \/ TrimCompD \/ TrimCompM
  BY <1>1, <1>11 DEF TrimCompH, TrimCompD, TrimCompM, TrimComp, trimFrame
<1>12. CASE TrimEnableWrite
  <2>1. UNCHANGED trimFrame
    BY <1>12 DEF TrimEnableWrite
  <2>2. \/ UNCHANGED <<ctrl, lostUpdate>>
        \/ /\ ctrl' = [trim.ctrl EXCEPT !.comp = TRUE]
           /\ ~lostUpdate' => ~lostUpdate /\ trim.ctrl = ctrl
    BY <1>12 DEF TrimEnableWrite, TrimAbort, WriteCtrl
  <2> QED
    BY <1>0, <2>1, <2>2 DEF Started, trimFrame, Ctrl
<1>13. CASE Pm
  BY <1>1, <1>13 DEF Pm, SuspendClose, SuspendCancel, SuspendGate, Resume, pmFrame
<1>14. CASE ProbeStart
  BY <1>0, <1>14 DEF ProbeStart, Fault, Started, Ctrl
<1>15. CASE ProbeRegister \/ ProbeFail
  BY <1>1, <1>15 DEF ProbeRegister, ProbeFail, registerFrame
<1>16. CASE Reset
  BY <1>16 DEF Reset, Started
<1>17. CASE UNCHANGED vars
  BY <1>1, <1>17 DEF vars
<1> HIDE DEF clock, alarmIf, ctrlReg, trimIf, faults
<1> QED
  BY <1>2, <1>3, <1>4, <1>5, <1>6, <1>7, <1>8, <1>9, <1>10, <1>11, <1>12, <1>13, <1>14,
     <1>15, <1>16, <1>17 DEF Next, Ops, Trim, Boot

\* Calls are made to a probed driver that is not asleep, whatever step is taken.
LEMMA SerialStep == TypeOK /\ Serial /\ [Next]_vars => Serial'
<1> SUFFICES ASSUME TypeOK, Serial, [Next]_vars PROVE Serial'
  OBVIOUS
<1>0. op \in OpRec
  BY DEF TypeOK
<1>1. ASSUME UNCHANGED <<op, boot, pm>> PROVE Serial'
  BY <1>1 DEF Serial
<1>2. ASSUME op.pc # "idle", UNCHANGED opFrame PROVE Serial'
  BY <1>2 DEF Serial, opFrame
<1>3. CASE Hw
  BY <1>1, <1>3 DEF Hw, HwTick, HwFollow, HwOther, HwTestDone
<1>4. CASE \/ \E tm \in Times : SetTime(tm)
           \/ \E tm \in Alarms, en \in BOOLEAN : SetAlarm(tm, en)
           \/ \E en \in BOOLEAN : AlarmIrqEnable(en)
  BY <1>4 DEF SetTime, SetAlarm, AlarmIrqEnable, Enter, Serial
<1>5. CASE SetStopRead \/ SetStartRead \/ SetStopWrite \/ SetStartWrite \/ SetPoll \/ SetWriteTime
  BY <1>2, <1>5 DEF SetStopRead, SetStartRead, SetRead, SetStopWrite, SetStartWrite,
     SetWriteCtrl, SetPoll, SetWriteTime, SetWriteSec, SetWriteYl, SetWriteYh, OpStep, Return
<1>6. CASE AlarmStop \/ AlarmWrite \/ AlarmClear \/ AlarmEnable
  BY <1>2, <1>6 DEF AlarmStop, AlarmWrite, AlarmWriteReg, AlarmClear, AlarmEnable, OpStep, Return
<1>7. CASE Irq
  BY <1>1, <1>7 DEF Irq, IrqRead, IrqWrite, IrqReport, irqFrame
<1>8. CASE Trim
  BY <1>1, <1>8 DEF Trim, TrimBegin, TrimPoll, TrimRead, TrimCompH, TrimCompD, TrimCompM,
     TrimEnableRead, TrimEnableWrite, TrimComp, trimFrame
<1>9. CASE Pm
  <2>1. op.pc = "idle" /\ boot = "up" /\ UNCHANGED <<op, boot>>
    BY <1>9 DEF Pm, SuspendClose, SuspendCancel, SuspendGate, Resume, pmFrame, Serial
  <2> QED
    BY <2>1 DEF Serial
<1>10. CASE ProbeStart
  <2>1. boot' = "probe" \/ UNCHANGED op
    BY <1>10 DEF ProbeStart
  <2>2. boot = "off" /\ UNCHANGED pm
    BY <1>10 DEF ProbeStart, probeFrame
  <2>3. op.pc = "idle"
    BY <2>2 DEF Serial
  <2>4. pm = "awake"
    BY <2>2 DEF Serial
  <2> QED
    BY <2>1, <2>2, <2>3, <2>4 DEF Serial
<1>11. CASE ProbeRegister \/ ProbeFail
  BY <1>11 DEF ProbeRegister, ProbeFail, registerFrame, Serial
<1>12. CASE Reset
  BY <1>12 DEF Reset, IdleOp, Serial
<1>13. CASE UNCHANGED vars
  BY <1>1, <1>13 DEF vars
<1> QED
  BY <1>3, <1>4, <1>5, <1>6, <1>7, <1>8, <1>9, <1>10, <1>11, <1>12, <1>13 DEF Next, Ops, Boot

\* A second counted keeps the registers' seconds those of the time set.
LEMMA TickKeeps ==
  ASSUME TypeOK, ReadInv, HwTick PROVE ReadInv'
<1>0. /\ op \in OpRec /\ time \in Reg /\ civil \in [sec : Nat, year : Nat]
      /\ Decode(time) \in [sec : Nat, year : Nat]
  BY DecodeType DEF TypeOK
<1> DEFINE s == Decode(time).sec
<1>1. s \in Nat /\ s < 59 /\ s = bcd2bin(time.sec % 128)
  BY <1>0 DEF HwTick, Decode
<1>2. time' = [time EXCEPT !.sec = bin2bcd(s + 1)] /\ civil' = [civil EXCEPT !.sec = civil.sec + 1]
  BY DEF HwTick
<1>3. UNCHANGED <<op, gated, torn>>
  BY DEF HwTick
<1>4. bcd2bin(time'.sec % 128) = s + 1
  <2> HIDE DEF s
  <2>1. bin2bcd(s + 1) % 128 = bin2bcd(s + 1)
    BY <1>1 DEF bin2bcd
  <2>2. bcd2bin(bin2bcd(s + 1)) = s + 1
    BY <1>1, Bcd
  <2>3. time'.sec = bin2bcd(s + 1)
    BY <1>0, <1>2 DEF Reg
  <2> QED
    BY <2>1, <2>2, <2>3
<1>5. time'.yl = time.yl /\ time'.yh = time.yh
  BY <1>0, <1>2 DEF Reg
<1>6. civil'.sec = civil.sec + 1 /\ civil'.year = civil.year
  BY <1>0, <1>2
<1>7. Matches => Matches'
  <2> SUFFICES ASSUME Matches, civil'.year \in 100 .. 299 PROVE Decode(time') = civil'
    BY DEF Matches
  <2>1. Decode(time) = civil
    BY <1>6 DEF Matches
  <2>2. Decode(time') = [sec |-> s + 1, year |-> Decode(time).year]
    BY <1>4, <1>5 DEF Decode
  <2> QED
    BY <1>0, <1>2, <2>1, <2>2
<1>8. op.pc \in Writing /\ ~gated
        => civil'.year = op.tm.year /\ bcd2bin(time'.sec % 128) = civil'.sec
  BY <1>1, <1>4, <1>6 DEF ReadInv
<1> QED
  BY <1>3, <1>5, <1>7, <1>8 DEF ReadInv

\* The seconds of the call's time are written first.
LEMMA SecWritten ==
  ASSUME op \in OpRec, time \in Reg, ~gated, UNCHANGED gated,
         op' = [op EXCEPT !.pc = "write_yl"], civil' = op.tm,
         time' = [time EXCEPT !["sec"] = Encode(op.tm)["sec"]]
  PROVE  ReadInv'
<1>1. op'.pc = "write_yl" /\ op'.tm = op.tm /\ op.tm \in Tm
  BY DEF OpRec
<1>2. time'.sec = bin2bcd(op.tm.sec)
  BY DEF Encode, Reg
<1>3. bcd2bin(time'.sec % 128) = op.tm.sec
  <2> DEFINE s == op.tm.sec
  <2>1. s \in 0 .. 59
    BY <1>1 DEF Tm
  <2> HIDE DEF s
  <2>2. bin2bcd(s) % 128 = bin2bcd(s) /\ bcd2bin(bin2bcd(s)) = s
    <3>1. bin2bcd(s) % 128 = bin2bcd(s)
      BY <2>1 DEF bin2bcd
    <3>2. bcd2bin(bin2bcd(s)) = s
      BY <2>1, Bcd
    <3> QED
      BY <3>1, <3>2
  <2> QED
    BY <1>2, <2>2 DEF s
<1> QED
  BY <1>1, <1>3 DEF ReadInv, Writing

\* The bulk write of set_time.
LEMMA WriteKeeps ==
  ASSUME TypeOK, ReadInv, SetWriteTime PROVE ReadInv'
<1>0. /\ op \in OpRec /\ op.tm \in Tm /\ time \in Reg /\ civil \in [sec : Nat, year : Nat]
      /\ torn \in BOOLEAN
  BY DEF TypeOK, OpRec
<1>1. UNCHANGED gated
  BY DEF SetWriteTime, SetWriteSec, SetWriteYl, SetWriteYh, opFrame
<1>2. CASE SetWriteSec
  <2>1. op.pc \notin Writing /\ UNCHANGED torn
    BY <1>2 DEF SetWriteSec, OpStep, Return, Writing
  <2>2. CASE UNCHANGED <<time, civil>>
    <3>1. op'.pc \in Writing => gated \/ (OpStep("write", "write_yl") /\ NoFault)
      BY <1>2 DEF SetWriteSec, Return, IdleOp, Writing
    <3>2. ~torn => Matches
      BY <2>1 DEF ReadInv
    <3>3. CASE gated \/ op'.pc \notin Writing
      <4>1. op'.pc # "write_yh" \/ gated
        BY <3>3 DEF Writing
      <4> QED
        BY <1>1, <2>1, <2>2, <3>2, <3>3, <4>1 DEF ReadInv, Matches, Writing
    <3>4. CASE ~gated /\ op'.pc \in Writing
      <4>1. /\ op' = [op EXCEPT !.pc = "write_yl"] /\ civil' = op.tm
            /\ time' = [time EXCEPT !["sec"] = Encode(op.tm)["sec"]]
        BY <1>2, <3>4 DEF SetWriteSec, Return, IdleOp, OpStep, Writing, Put, Store
      <4> QED
        BY <1>0, <1>1, <3>4, <4>1, SecWritten
    <3> QED
      BY <3>3, <3>4
  <2>3. CASE ~ UNCHANGED <<time, civil>>
    <3>1. ~gated /\ op' = [op EXCEPT !.pc = "write_yl"] /\ civil' = op.tm
          /\ time' = [time EXCEPT !["sec"] = Encode(op.tm)["sec"]]
      BY <1>2, <2>3 DEF SetWriteSec, OpStep, Put, Store
    <3> QED
      BY <1>0, <1>1, <3>1, SecWritten
  <2> QED
    BY <2>2, <2>3
<1>3. CASE SetWriteYl
  <2>1. op.pc = "write_yl" /\ op.pc \in Writing /\ UNCHANGED civil
    BY <1>3 DEF SetWriteYl, OpStep, Return, Writing
  <2>2. CASE torn' = TRUE /\ op' = IdleOp("error")
    BY <1>1, <2>2 DEF ReadInv, Writing, IdleOp
  <2>3. CASE UNCHANGED torn /\ op' = [op EXCEPT !.pc = "write_yh"] /\ time' = Put(time, "yl")
    <3>1. op'.pc = "write_yh" /\ op'.tm = op.tm
      BY <1>0, <2>3 DEF OpRec
    <3>2. CASE gated
      BY <1>1, <2>1, <2>3, <3>1, <3>2 DEF ReadInv, Matches, Put, Store, Writing
    <3>3. CASE ~gated
      <4>1. time'.yl = Encode(op.tm).yl /\ time'.sec = time.sec
        BY <1>0, <2>3, <3>3 DEF Put, Store, Reg
      <4> QED
        BY <1>1, <2>1, <3>1, <3>3, <4>1 DEF ReadInv, Writing
    <3> QED
      BY <3>2, <3>3
  <2> QED
    BY <1>3, <2>2, <2>3 DEF SetWriteYl, OpStep, Return
<1>4. CASE SetWriteYh
  <2>1. op.pc = "write_yh" /\ op.pc \in Writing /\ UNCHANGED civil
    BY <1>4 DEF SetWriteYh, OpStep, Return, Writing
  <2>2. op'.pc \notin Writing
    <3>1. op' = IdleOp("error") \/ op' = [op EXCEPT !.pc = "start_read"]
      BY <1>4 DEF SetWriteYh, OpStep, Return
    <3> QED
      BY <1>0, <3>1 DEF IdleOp, Writing, OpRec
  <2>3. CASE torn' = TRUE
    BY <2>2, <2>3 DEF ReadInv, Writing
  <2>4. CASE torn' = Store(torn, FALSE) /\ time' = Put(time, "yh")
    <3>1. CASE gated
      BY <2>1, <2>2, <2>4, <3>1 DEF ReadInv, Matches, Put, Store, Writing
    <3>2. CASE ~gated
      <4>1. /\ time'.yh = Encode(op.tm).yh /\ time'.yl = time.yl /\ time'.sec = time.sec
        BY <1>0, <2>4, <3>2 DEF Put, Store, Reg
      <4>2. /\ civil.year = op.tm.year /\ bcd2bin(time.sec % 128) = civil.sec
            /\ time.yl = Encode(op.tm).yl
        BY <2>1, <3>2 DEF ReadInv
      <4>3. Decode(time') = [sec |-> civil.sec, year |-> Decode(Encode(op.tm)).year]
        BY <4>1, <4>2 DEF Decode
      <4>4. Matches'
        <5> SUFFICES ASSUME civil'.year \in 100 .. 299 PROVE Decode(time') = civil'
          BY DEF Matches
        <5>1. op.tm.year \in Nat /\ 100 <= op.tm.year /\ op.tm.year <= 10099
          BY <2>1, <4>2
        <5>2. Decode(Encode(op.tm)) = op.tm
          BY <1>0, <5>1, ReadReturnsWhatWasSet
        <5> QED
          BY <1>0, <2>1, <4>2, <4>3, <5>2
      <4> QED
        BY <2>2, <4>4 DEF ReadInv, Writing
    <3> QED
      BY <3>1, <3>2
  <2> QED
    BY <1>4, <2>3, <2>4 DEF SetWriteYh
<1> QED
  BY <1>2, <1>3, <1>4 DEF SetWriteTime

\* The time read back stays the time set, whatever step is taken.
LEMMA ReadInvStep == TypeOK /\ Serial /\ ReadInv /\ [Next]_vars => ReadInv'
<1> SUFFICES ASSUME TypeOK, Serial, ReadInv, [Next]_vars PROVE ReadInv'
  OBVIOUS
<1>0. op \in OpRec
  BY DEF TypeOK
<1>1. ASSUME UNCHANGED <<clock, op, gated>> PROVE ReadInv'
  BY <1>1 DEF ReadInv, Matches, clock
<1>2. ASSUME UNCHANGED clock, op.pc \notin Writing, op'.pc \notin Writing PROVE ReadInv'
  BY <1>2 DEF ReadInv, Matches, Writing, clock
<1>3. CASE HwTick
  BY <1>3, TickKeeps
<1>4. CASE HwFollow \/ HwOther \/ \E c \in Counts : HwTestDone(c)
  BY <1>1, <1>4 DEF HwFollow, HwOther, HwTestDone
<1>5. CASE \/ \E tm \in Times : SetTime(tm)
           \/ \E tm \in Alarms, en \in BOOLEAN : SetAlarm(tm, en)
           \/ \E en \in BOOLEAN : AlarmIrqEnable(en)
  <2>1. ASSUME NEW pc \in {"stop_read", "alarm_stop", "alarm_clear", "irq_stop"},
               NEW tm, NEW en, Enter(pc, tm, en)
        PROVE  ReadInv'
    <3>1. op'.pc = pc /\ op.pc = "idle"
      BY <1>0, <2>1 DEF Enter, OpRec
    <3> QED
      BY <1>2, <2>1, <3>1 DEF Enter, Writing
  <2> QED
    BY <1>5, <2>1 DEF SetTime, SetAlarm, AlarmIrqEnable
<1>6. CASE SetStopRead \/ SetStartRead \/ SetStopWrite \/ SetStartWrite \/ SetPoll
  <2>1. op.pc \notin Writing /\ op'.pc \notin Writing
    <3>1. CASE SetStopRead \/ SetStartRead
      BY <1>0, <3>1 DEF SetStopRead, SetStartRead, SetRead, OpRec, Writing
    <3>2. CASE SetStopWrite \/ SetStartWrite \/ SetPoll
      <4>1. \/ op' = IdleOp("error") \/ op' = IdleOp("set")
            \/ \E pc \in {"stop_poll", "start_poll", "write"} : op' = [op EXCEPT !.pc = pc]
        BY <3>2 DEF SetStopWrite, SetStartWrite, SetWriteCtrl, SetPoll, OpStep, Return
      <4>2. op.pc \notin Writing
        BY <3>2 DEF SetStopWrite, SetStartWrite, SetWriteCtrl, SetPoll, OpStep, Return, Writing
      <4> QED
        BY <1>0, <4>1, <4>2 DEF IdleOp, OpRec, Writing
    <3> QED
      BY <1>6, <3>1, <3>2
  <2>2. UNCHANGED clock
    BY <1>6 DEF SetStopRead, SetStartRead, SetRead, SetStopWrite, SetStartWrite,
       SetWriteCtrl, SetPoll
  <2> QED
    BY <1>2, <2>1, <2>2
<1>7. CASE AlarmStop \/ AlarmWrite \/ AlarmClear \/ AlarmEnable
  <2>1. \/ op' = IdleOp("ok") \/ op' = IdleOp("error")
        \/ \E pc \in {"alarm_write", "alarm_yl", "alarm_yh", "alarm_clear", "alarm_enable"} :
             op' = [op EXCEPT !.pc = pc]
    BY <1>7 DEF AlarmStop, AlarmWrite, AlarmWriteReg, AlarmClear, AlarmEnable, OpStep, Return
  <2>2. op.pc \notin Writing
    BY <1>7 DEF AlarmStop, AlarmWrite, AlarmWriteReg, AlarmClear, AlarmEnable, OpStep,
       Return, Writing
  <2>3. op'.pc \notin Writing
    BY <1>0, <2>1 DEF IdleOp, OpRec, Writing
  <2>4. UNCHANGED clock
    BY <1>7 DEF AlarmStop, AlarmWrite, AlarmWriteReg, AlarmClear, AlarmEnable
  <2> QED
    BY <1>2, <2>2, <2>3, <2>4
<1>8. CASE Irq
  BY <1>1, <1>8 DEF Irq, IrqRead, IrqWrite, IrqReport, irqFrame
<1>9. CASE Trim
  BY <1>1, <1>9 DEF Trim, TrimBegin, TrimPoll, TrimRead, TrimCompH, TrimCompD, TrimCompM,
     TrimEnableRead, TrimEnableWrite, TrimComp, trimFrame
<1>10. CASE Pm
  <2>1. UNCHANGED <<clock, op>> /\ op.pc = "idle"
    BY <1>10 DEF Pm, SuspendClose, SuspendCancel, SuspendGate, Resume, pmFrame, Serial
  <2> QED
    BY <1>2, <2>1 DEF Writing
<1>11. CASE ProbeStart
  <2>1. op.pc = "idle" /\ UNCHANGED clock
    BY <1>11 DEF ProbeStart, probeFrame, Serial
  <2>2. UNCHANGED op \/ op' = [op EXCEPT !.pc = "stop_read", !.tm = DefaultTm, !.ret = "none"]
    BY <1>11 DEF ProbeStart, ProbeTime
  <2>3. op'.pc \in {"idle", "stop_read"}
    BY <1>0, <2>1, <2>2 DEF OpRec
  <2> QED
    BY <1>2, <2>1, <2>3 DEF Writing
<1>12. CASE ProbeRegister \/ ProbeFail
  BY <1>2, <1>12 DEF ProbeRegister, ProbeFail, registerFrame, Writing
<1>13. CASE Reset
  <2>1. op'.pc \notin Writing /\ UNCHANGED <<time, civil>> /\ torn' = (torn \/ op.pc \in Writing)
    BY <1>13 DEF Reset, IdleOp, Writing
  <2>2. ~torn' => Matches
    BY <2>1 DEF ReadInv
  <2> QED
    BY <2>1, <2>2 DEF ReadInv, Matches, Writing
<1>14. CASE UNCHANGED vars
  BY <1>1, <1>14 DEF vars
<1>15. CASE SetWriteTime
  BY <1>15, WriteKeeps
<1> QED
  BY <1>3, <1>4, <1>5, <1>6, <1>7, <1>8, <1>9, <1>10, <1>11, <1>12, <1>13, <1>14, <1>15
     DEF Next, Hw, Ops, Boot

\* A bus error is remembered.
LEMMA FaultStays == TypeOK /\ [Next]_vars /\ ~faulted' => ~faulted
<1> SUFFICES ASSUME TypeOK, [Next]_vars, ~faulted' PROVE UNCHANGED faulted
  OBVIOUS
<1> USE DEF faults, Fault, NoFault
<1>1. CASE Hw
  BY <1>1 DEF Hw, HwTick, HwFollow, HwOther, HwTestDone
<1>2. CASE \/ \E tm \in Times : SetTime(tm)
           \/ \E tm \in Alarms, en \in BOOLEAN : SetAlarm(tm, en)
           \/ \E en \in BOOLEAN : AlarmIrqEnable(en)
  BY <1>2 DEF SetTime, SetAlarm, AlarmIrqEnable, Enter
<1>3. CASE SetStopRead \/ SetStartRead \/ SetStopWrite \/ SetStartWrite \/ SetPoll \/ SetWriteTime
  BY <1>3 DEF SetStopRead, SetStartRead, SetRead, ReadCtrl, SetStopWrite, SetStartWrite,
     SetWriteCtrl, WriteCtrl, SetPoll, SetWriteTime, SetWriteSec, SetWriteYl, SetWriteYh
<1>4. CASE AlarmStop \/ AlarmWrite \/ AlarmClear \/ AlarmEnable
  BY <1>4 DEF AlarmStop, AlarmWrite, AlarmWriteReg, AlarmClear, AlarmEnable
<1>5. CASE Irq
  BY <1>5 DEF Irq, IrqRead, IrqWrite, IrqReport
<1>6. CASE TrimBegin \/ TrimPoll \/ TrimRead
  BY <1>6 DEF TrimBegin, TrimPoll, TrimRead, TrimAbort
<1>7. CASE TrimCompH \/ TrimCompD \/ TrimCompM
  BY <1>7 DEF TrimCompH, TrimCompD, TrimCompM, TrimComp
<1>8. CASE TrimEnableRead \/ TrimEnableWrite
  BY <1>8 DEF TrimEnableRead, TrimEnableWrite, TrimAbort, ReadCtrl, WriteCtrl
<1>9. CASE Pm
  BY <1>9 DEF Pm, SuspendClose, SuspendCancel, SuspendGate, Resume
<1>10. CASE Boot
  BY <1>10 DEF Boot, ProbeStart, ProbeRegister, ProbeFail, Reset
<1>11. CASE UNCHANGED vars
  BY <1>11 DEF vars
<1> QED
  BY <1>1, <1>2, <1>3, <1>4, <1>5, <1>6, <1>7, <1>8, <1>9, <1>10, <1>11 DEF Next, Ops, Trim

\* The initial states satisfy the invariant.
LEMMA InitInv == Init => RtcInv
<1> SUFFICES ASSUME Init PROVE RtcInv
  OBVIOUS
<1>1. TypeOK
  BY InitType
<1>2. Serial /\ ReadInv
  BY DEF Init, Serial, ReadInv, Matches, Writing, IdleOp
<1>3. Phases
  BY DEF Init, Phases, IdleOp, IdleTrim
<1>4. Programming
  <2>1. ctrl.comp => \E c \in Counts : comp = Compensation(c)
    BY DEF Init
  <2> QED
    BY <2>1 DEF Init, Programming, IdleTrim, Cnt
<1>5. Started
  BY DEF Init, Started
<1> QED
  BY <1>1, <1>2, <1>3, <1>4, <1>5 DEF RtcInv

\* The invariant is inductive.
LEMMA RtcInvHolds == Spec => []RtcInv
<1>1. RtcInv /\ [Next]_vars => RtcInv'
  <2> SUFFICES ASSUME RtcInv, [Next]_vars PROVE RtcInv'
    OBVIOUS
  <2>1. TypeOK' /\ Serial' /\ ReadInv'
    BY TypeStep, SerialStep, ReadInvStep DEF RtcInv
  <2>2. ASSUME ~faulted' PROVE Phases' /\ Programming' /\ Started'
    <3>1. TypeOK /\ ~faulted /\ Phases /\ Programming /\ Started
      BY <2>2, FaultStays DEF RtcInv
    <3> QED
      BY <2>2, <3>1, PhasesStep, ProgrammingStep, StartedStep
  <2> QED
    BY <2>1, <2>2 DEF RtcInv
<1> QED
  BY <1>1, InitInv, PTL DEF Spec

\* What read_time decodes is what set_time was given plus the seconds counted:
\* the BCD image of a time is exact, the clock's carry included, nothing but
\* set_time writes it, and only a reset or a bus error between two registers of
\* its bulk write leaves another time behind, until a set_time writes them all.
THEOREM TimeReadsBack == Spec => []ReadBack
<1>1. RtcInv => ReadBack
  BY DEF RtcInv, ReadInv, Matches, ReadBack
<1> QED
  BY <1>1, RtcInvHolds, PTL

\* Without a bus error or a lost update of RTC_CTRL a registered clock outside
\* set_time is running: probe restarts one that a reset found stopped, and no
\* interleaving of the four actors stops it again.
THEOREM ClockKeepsRunning == Spec => []ClockRuns
<1>1. RtcInv => ClockRuns
  BY DEF RtcInv, Started, ClockRuns
<1> QED
  BY <1>1, RtcInvHolds, PTL

\* Compensation that is enabled was programmed whole from one measurement.
THEOREM EnabledComesLast == Spec => []EnabledIsProgrammed
<1>1. RtcInv => EnabledIsProgrammed
  BY DEF RtcInv, Programming, EnabledIsProgrammed
<1> QED
  BY <1>1, RtcInvHolds, PTL

\* Suspend gates the block only when the trim work is over.
THEOREM SuspendWaitsForTrim == Spec => []TrimNeverGated
<1>1. RtcInv => TrimNeverGated
  BY DEF RtcInv, Phases, TrimNeverGated
<1> QED
  BY <1>1, RtcInvHolds, PTL

\* Whatever the frequency test counted, no compensation spills over its register.
THEOREM CompensationInRange == Spec => []CompensationFits
<1>1. RtcInv => CompensationFits
  <2> SUFFICES ASSUME RtcInv PROVE FitsRegisters(trim.counts)
    BY DEF CompensationFits
  <2>1. trim.counts \in Nat
    BY CntNat DEF RtcInv, TypeOK, TrimRec
  <2> QED
    BY <2>1, CompensationAlwaysFits
<1> QED
  BY <1>1, RtcInvHolds, PTL
=============================================================================
