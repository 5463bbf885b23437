----------------------------- MODULE CruProofs -----------------------------
(***************************************************************************)
(* Proofs about the two models of the clock and reset unit: about Cru, the  *)
(* simulator's reset ladder, for any set of timeouts, poll period, boot-mode *)
(* words and bounds on the clock and on the resets; and about Pvtpll, the   *)
(* kernel's calibration of its ring oscillators, for any length field, curve, *)
(* target and drift.                                                        *)
(***************************************************************************)
EXTENDS Cru, Pvtpll, TLAPS

\* The clocks: poll runs at least every PollPeriod, and what the history
\* variables date has happened.
ClocksInv ==
  /\ last_poll <= now /\ now <= last_poll + PollPeriod
  /\ quiet_since <= now
  /\ pet_at <= now

\* Whatever makes the next poll arm the timer or reset is younger than the
\* last poll.
PendingIsYoung ==
  wdt_en /\ (srst \/ crr \/ wdt_deadline = NoDeadline) => last_poll <= quiet_since

\* A running timer was armed by the first poll after a quiet period began,
\* with a selectable timeout.
DeadlineIsBounded ==
  wdt_deadline # NoDeadline =>
    \E k \in Torr : wdt_deadline <= quiet_since + PollPeriod + Ticks(k)

\* The last poll did not overlook a timer that had run out.
DeadlineWasJudged ==
  wdt_deadline # NoDeadline => last_poll < wdt_deadline \/ last_poll <= quiet_since

BitesInv == ClocksInv /\ PendingIsYoung /\ DeadlineIsBounded /\ DeadlineWasJudged

\* A timer whose pet was seen runs at least as long as the pet promises, and
\* the promise is at most the timeout now selected.
PetInv ==
  /\ window <= Ticks(torr)
  /\ wdt_deadline # NoDeadline /\ ~ crr => pet_at + window <= wdt_deadline

\* The boot mode the register stands for was asked for, as well as the one the
\* last reset read from it.
ModeInv ==
  /\ FromReg(boot_reg) # "Normal" => FromReg(boot_reg) \in asked
  /\ BootModeWasAsked

-----------------------------------------------------------------------------
\* A timeout is a positive number of ticks.
LEMMA TicksPositive == \A k \in Torr : Ticks(k) \in Nat /\ 1 <= Ticks(k)
<1> TAKE k \in Torr
<1>1. Ticks(k) \in Nat \ {0}
  BY WindowAssumption
<1> QED
  BY <1>1

\* Every step keeps the variables in their types.
LEMMA TypeNext == TypeOK /\ [Next]_vars => TypeOK'
<1> SUFFICES ASSUME TypeOK, [Next]_vars PROVE TypeOK'
  OBVIOUS
<1> USE CruAssumption, TicksPositive DEF TypeOK, regs, sim, hist, clock
<1>1. FromReg(boot_reg) \in BootMode
  BY DEF FromReg, BootMode
<1>2. Window \in Nat /\ ArmWdt \in Nat
  BY DEF Window, ArmWdt
<1>3. CASE Poll
  <2>1. CASE PollCru
    <3>1. "cru" \in Cause
      BY DEF Cause
    <3>2. reset_count' \in Nat /\ quiet_since' \in Nat /\ last_poll' \in Nat
      BY <1>3, <2>1 DEF Poll, PollCru, Fire
    <3>3. last_cause' \in Cause /\ boot_mode' \in BootMode /\ srst' \in BOOLEAN
      BY <1>1, <2>1, <3>1 DEF PollCru, Fire
    <3> QED
      BY <1>3, <2>1, <3>2, <3>3 DEF Poll, PollCru
  <2>2. CASE PollWdt
    <3>1. "watchdog" \in Cause
      BY DEF Cause
    <3>2. /\ reset_count' \in Nat /\ quiet_since' \in Nat /\ last_poll' \in Nat
          /\ wdt_deadline' \in Nat \cup {NoDeadline}
      BY <1>2, <1>3, <2>2 DEF Poll, PollWdt, Fire
    <3>3. last_cause' \in Cause /\ boot_mode' \in BootMode /\ crr' \in BOOLEAN
      BY <1>1, <2>2, <3>1 DEF PollWdt, Fire
    <3> QED
      BY <1>3, <2>2, <3>2, <3>3 DEF Poll, PollWdt
  <2>3. CASE PollOff
    BY <1>3, <2>3 DEF Poll, PollOff
  <2> QED
    BY <1>3, <2>1, <2>2, <2>3 DEF Poll
<1>4. CASE PowerOnReset
  BY <1>4 DEF PowerOnReset, BootReg, BootMode
<1>5. CASE RequestReset
  BY <1>5 DEF RequestReset
<1>6. CASE Pet
  BY <1>2, <1>6 DEF Pet
<1>7. CASE AdvanceTime
  BY <1>7 DEF AdvanceTime
<1>8. ASSUME NEW en \in BOOLEAN, PokeCr(en) PROVE TypeOK'
  BY <1>8 DEF PokeCr
<1>9. ASSUME NEW k \in Torr, PokeTorr(k) PROVE TypeOK'
  BY <1>9 DEF PokeTorr
<1>10. ASSUME NEW v \in BootPokes, PokeBootMode(v) PROVE TypeOK'
  <2>1. v \in BootReg /\ FromReg(v) \in BootMode
    BY DEF FromReg, BootMode
  <2> QED
    BY <1>10, <2>1 DEF PokeBootMode
<1>11. CASE UNCHANGED vars
  BY <1>11 DEF vars
<1> QED
  BY <1>3, <1>4, <1>5, <1>6, <1>7, <1>8, <1>9, <1>10, <1>11 DEF Next

\* The variables have their types in every state.
LEMMA TypeCorrect == Spec => []TypeOK
<1>1. Init => TypeOK
  <2>1. BOOT_OTHER \in BootReg /\ "none" \in Cause /\ "Normal" \in BootMode
    BY DEF BootReg, Cause, BootMode
  <2>2. Init => torr \in Torr /\ wdt_deadline \in Nat \cup {NoDeadline}
    BY CruAssumption DEF Init
  <2>3. Init => /\ srst \in BOOLEAN /\ wdt_en \in BOOLEAN /\ crr \in BOOLEAN
                /\ boot_reg \in BootReg /\ last_cause \in Cause /\ boot_mode \in BootMode
                /\ asked \subseteq BootMode
    BY <2>1 DEF Init
  <2>4. Init => /\ reset_count \in Nat /\ now \in Nat /\ last_poll \in Nat
                /\ pet_at \in Nat /\ window \in Nat /\ quiet_since \in Nat
    BY DEF Init
  <2> QED
    BY <2>2, <2>3, <2>4 DEF TypeOK
<1> QED
  BY <1>1, TypeNext, PTL DEF Spec

-----------------------------------------------------------------------------
\* A poll keeps what bounds the watchdog's next bite: it arms the timer within
\* a poll period of the event that put it off, and overlooks no timer that ran
\* out.
LEMMA PollKeepsBites == TypeOK /\ BitesInv /\ Poll => BitesInv'
<1> SUFFICES ASSUME TypeOK, BitesInv, Poll PROVE BitesInv'
  OBVIOUS
<1> USE CruAssumption, TicksPositive
    DEF TypeOK, BitesInv, ClocksInv, PendingIsYoung, DeadlineIsBounded,
        DeadlineWasJudged, NoDeadline, Poll
<1>1. CASE PollCru
  BY <1>1 DEF PollCru
<1>2. CASE PollWdt
  <2> DEFINE deadline == IF crr \/ wdt_deadline = NoDeadline THEN ArmWdt ELSE wdt_deadline
  <2>1. \E k \in Torr : deadline <= quiet_since + PollPeriod + Ticks(k)
    <3>1. CASE crr \/ wdt_deadline = NoDeadline
      <4>1. deadline <= quiet_since + PollPeriod + Ticks(torr)
        BY <1>2, <3>1 DEF PollWdt, ArmWdt, Window
      <4> QED
        BY <4>1
    <3>2. CASE ~ (crr \/ wdt_deadline = NoDeadline)
      BY <3>2
    <3> QED
      BY <3>1, <3>2
  <2>2. deadline \in Nat
    BY DEF ArmWdt, Window
  <2> HIDE DEF deadline
  <2>3. CASE now >= deadline
    <3>1. wdt_deadline' = NoDeadline /\ quiet_since' = now /\ last_poll' = now
          /\ UNCHANGED <<now, pet_at>>
      BY <1>2, <2>3 DEF PollWdt, deadline
    <3> QED
      BY <3>1
  <2>4. CASE ~ (now >= deadline)
    <3>1. wdt_deadline' = deadline /\ last_poll' = now /\ crr' = FALSE /\ srst' = FALSE
          /\ UNCHANGED <<now, pet_at, quiet_since>>
      BY <1>2, <2>4 DEF PollWdt, deadline
    <3> QED
      BY <2>1, <2>2, <2>4, <3>1
  <2> QED
    BY <2>3, <2>4
<1>3. CASE PollOff
  BY <1>3 DEF PollOff, hist, regs
<1> QED
  BY <1>1, <1>2, <1>3 DEF Poll

\* A bound on a deadline carries over to a later quiet period.
LEMMA LaterQuiet ==
  ASSUME TypeOK, BitesInv, quiet_since' \in Nat, quiet_since <= quiet_since',
         wdt_deadline' = wdt_deadline
  PROVE  DeadlineIsBounded'
<1> SUFFICES ASSUME wdt_deadline # NoDeadline PROVE DeadlineIsBounded'
  BY DEF DeadlineIsBounded
<1> PICK k \in Torr : wdt_deadline <= quiet_since + PollPeriod + Ticks(k)
  BY DEF BitesInv, DeadlineIsBounded
<1>1. wdt_deadline <= quiet_since' + PollPeriod + Ticks(k)
  BY CruAssumption, TicksPositive DEF TypeOK, NoDeadline
<1> QED
  BY <1>1 DEF DeadlineIsBounded

\* So does every other step.
LEMMA BitesNext == TypeOK /\ BitesInv /\ [Next]_vars => BitesInv'
<1> SUFFICES ASSUME TypeOK, BitesInv, [Next]_vars PROVE BitesInv'
  OBVIOUS
<1> USE CruAssumption
    DEF TypeOK, BitesInv, ClocksInv, PendingIsYoung, DeadlineWasJudged,
        NoDeadline, regs, sim, hist, clock
<1>1. CASE Poll
  BY <1>1, PollKeepsBites
<1>2. CASE PowerOnReset
  BY <1>2 DEF PowerOnReset, DeadlineIsBounded
<1>3. CASE RequestReset
  BY <1>3, LaterQuiet DEF RequestReset
<1>4. CASE Pet
  BY <1>4, LaterQuiet DEF Pet
<1>5. CASE AdvanceTime
  BY <1>5, LaterQuiet DEF AdvanceTime
<1>6. ASSUME NEW en \in BOOLEAN, PokeCr(en) PROVE BitesInv'
  BY <1>6, LaterQuiet DEF PokeCr
<1>7. ASSUME NEW k \in Torr, PokeTorr(k) PROVE BitesInv'
  BY <1>7, LaterQuiet DEF PokeTorr
<1>8. ASSUME NEW v \in BootPokes, PokeBootMode(v) PROVE BitesInv'
  BY <1>8, LaterQuiet DEF PokeBootMode
<1>9. CASE UNCHANGED vars
  BY <1>9, LaterQuiet DEF vars
<1> QED
  BY <1>1, <1>2, <1>3, <1>4, <1>5, <1>6, <1>7, <1>8, <1>9 DEF Next

\* The backstop bites: with the watchdog enabled and nothing putting it off, a
\* reset comes within the longest selectable timeout plus two poll periods,
\* however the timer was armed, disabled, re-enabled or cleared before.
THEOREM BackstopBites == Spec => []WatchdogBites
<1>1. Init => BitesInv
  BY CruAssumption DEF Init, BitesInv, ClocksInv, PendingIsYoung,
     DeadlineIsBounded, DeadlineWasJudged, NoDeadline
<1>2. TypeOK /\ BitesInv => WatchdogBites
  <2> SUFFICES ASSUME TypeOK, BitesInv, wdt_en PROVE WatchdogBites
    BY DEF WatchdogBites
  <2> USE CruAssumption, TicksPositive
      DEF TypeOK, BitesInv, ClocksInv, PendingIsYoung, DeadlineWasJudged, NoDeadline
  <2>1. CASE last_poll <= quiet_since
    <3>1. now <= quiet_since + Ticks(0) + 2 * PollPeriod
      BY <2>1
    <3> QED
      BY <3>1 DEF WatchdogBites
  <2>2. CASE ~ (last_poll <= quiet_since)
    <3>1. wdt_deadline # NoDeadline /\ last_poll < wdt_deadline
      BY <2>2
    <3>2. PICK k \in Torr : wdt_deadline <= quiet_since + PollPeriod + Ticks(k)
      BY <3>1 DEF DeadlineIsBounded
    <3>3. now <= quiet_since + Ticks(k) + 2 * PollPeriod
      BY <3>1, <3>2
    <3> QED
      BY <3>3 DEF WatchdogBites
  <2> QED
    BY <2>1, <2>2
<1> QED
  BY <1>1, <1>2, BitesNext, TypeCorrect, PTL DEF Spec

-----------------------------------------------------------------------------
\* No step breaks what a pet promised.
LEMMA PetNext == TypeOK /\ ClocksInv /\ PetInv /\ [Next]_vars => PetInv'
<1> SUFFICES ASSUME TypeOK, ClocksInv, PetInv, [Next]_vars PROVE PetInv'
  OBVIOUS
<1> USE CruAssumption, TicksPositive
    DEF TypeOK, ClocksInv, PetInv, NoDeadline, regs, sim, hist, clock
<1>1. CASE Poll
  <2>1. CASE PollCru
    BY <1>1, <2>1 DEF Poll, PollCru
  <2>2. CASE PollWdt
    BY <1>1, <2>2 DEF Poll, PollWdt, ArmWdt, Window
  <2>3. CASE PollOff
    BY <1>1, <2>3 DEF Poll, PollOff
  <2> QED
    BY <1>1, <2>1, <2>2, <2>3 DEF Poll
<1>2. CASE PowerOnReset
  BY <1>2 DEF PowerOnReset
<1>3. CASE RequestReset
  BY <1>3 DEF RequestReset
<1>4. CASE Pet
  BY <1>4 DEF Pet, Window
<1>5. CASE AdvanceTime
  BY <1>5 DEF AdvanceTime
<1>6. ASSUME NEW en \in BOOLEAN, PokeCr(en) PROVE PetInv'
  BY <1>6 DEF PokeCr
<1>7. ASSUME NEW k \in Torr, PokeTorr(k) PROVE PetInv'
  BY <1>7 DEF PokeTorr
<1>8. ASSUME NEW v \in BootPokes, PokeBootMode(v) PROVE PetInv'
  BY <1>8 DEF PokeBootMode
<1>9. CASE UNCHANGED vars
  BY <1>9 DEF vars
<1> QED
  BY <1>1, <1>2, <1>3, <1>4, <1>5, <1>6, <1>7, <1>8, <1>9 DEF Next

\* A pet holds the watchdog off for the timeout it selected, for every set of
\* timeouts and every poll period: no watchdog reset comes earlier, however
\* late poll sees the pet and whatever happened in between.
THEOREM PetHolds == Spec => PetHoldsOff
<1>1. Init => BitesInv /\ PetInv
  <2>1. Init => BitesInv
    BY CruAssumption DEF Init, BitesInv, ClocksInv, PendingIsYoung,
       DeadlineIsBounded, DeadlineWasJudged, NoDeadline
  <2>2. Init => PetInv
    BY CruAssumption, TicksPositive DEF Init, PetInv, NoDeadline
  <2> QED
    BY <2>1, <2>2
<1>2. TypeOK /\ BitesInv /\ PetInv /\ [Next]_vars => PetInv'
  BY PetNext DEF BitesInv
<1>3. TypeOK /\ PetInv /\ [Next]_vars
        => [reset_count' # reset_count /\ last_cause' = "watchdog"
              => now >= pet_at + window]_vars
  <2> SUFFICES ASSUME TypeOK, PetInv, Next,
                      reset_count' # reset_count, last_cause' = "watchdog"
               PROVE  now >= pet_at + window
    OBVIOUS
  <2>1. PollWdt
    BY DEF Next, Poll, PollCru, PollOff, Fire, PowerOnReset, RequestReset, Pet,
       AdvanceTime, PokeCr, PokeTorr, PokeBootMode, regs, sim
  <2> QED
    BY <2>1, TicksPositive DEF PollWdt, ArmWdt, Window, TypeOK, PetInv, NoDeadline
<1> QED
  BY <1>1, <1>2, <1>3, BitesNext, TypeCorrect, PTL DEF Spec, PetHoldsOff

-----------------------------------------------------------------------------
\* A stale MaskRom or Loader request does not survive power-on: the mode any
\* reset lands in was poked after the last power-on reset, for every choice of
\* words that software pokes.
THEOREM ModeWasAsked == Spec => []BootModeWasAsked
<1>1. Init => ModeInv
  BY DEF Init, ModeInv, BootModeWasAsked, FromReg, BOOT_OTHER, BOOT_LOADER, BOOT_MASKROM
<1>2. ModeInv /\ [Next]_vars => ModeInv'
  <2> SUFFICES ASSUME ModeInv, [Next]_vars PROVE ModeInv'
    OBVIOUS
  <2> USE DEF ModeInv, BootModeWasAsked, regs, sim, hist
  <2>1. CASE Poll
    BY <2>1 DEF Poll, PollCru, PollWdt, PollOff, Fire
  <2>2. CASE PowerOnReset
    BY <2>2 DEF PowerOnReset, FromReg, BOOT_NORMAL, BOOT_LOADER, BOOT_MASKROM
  <2>3. ASSUME NEW v \in BootPokes, PokeBootMode(v) PROVE ModeInv'
    BY <2>3 DEF PokeBootMode
  <2>4. CASE RequestReset \/ Pet \/ AdvanceTime \/ UNCHANGED vars
    BY <2>4 DEF RequestReset, Pet, AdvanceTime, vars
  <2>5. ASSUME NEW en \in BOOLEAN, PokeCr(en) PROVE ModeInv'
    BY <2>5 DEF PokeCr
  <2>6. ASSUME NEW k \in Torr, PokeTorr(k) PROVE ModeInv'
    BY <2>6 DEF PokeTorr
  <2> QED
    BY <2>1, <2>2, <2>3, <2>4, <2>5, <2>6 DEF Next
<1>3. ModeInv => BootModeWasAsked
  BY DEF ModeInv
<1> QED
  BY <1>1, <1>2, <1>3, PTL DEF Spec

-----------------------------------------------------------------------------
(* The calibration of the ring oscillators *)

\* The length the ring had when the calibration began.
From == rockchip_rv1106_pvtpll_init

\* A rate above the target and not close to it.
TooFast(rate) == rate >= Target + Target \div 32

\* The field is what is left of the driver's length, which is never below the
\* one the ring had.
LengthInv ==
  /\ RingTypeOK /\ f \in Falling
  /\ field = length % (MASK + 1) /\ From <= length
  /\ pc = "start" => length = From
  /\ pc = "second" => length = From + 1
  /\ pc \in {"second", "loop"} => length_ori = From + (IF ring = "grf" THEN high ELSE 0)

\* What the readings of a ring that stayed cold say of its first two lengths:
\* both too fast, so that no length the search may not return to is close.
SearchInv ==
  /\ ~ warm /\ pc = "second" => rate0 = f[From] /\ TooFast(f[From])
  /\ ~ warm /\ pc = "loop" => TooFast(f[From]) /\ TooFast(f[From + 1])
  /\ CloseIsFound

\* The low bits of a length: the length itself while the field holds it.
LEMMA FieldOfLength ==
  ASSUME NEW l \in Nat
  PROVE  l % (MASK + 1) \in 0 .. MASK /\ (l <= MASK => l % (MASK + 1) = l)
<1> DEFINE M == MASK + 1
<1>1. MASK \in Nat /\ M \in Nat \ {0} /\ M = MASK + 1
  BY FieldAssumption
<1> HIDE DEF M
<1>2. l = M * (l \div M) + (l % M) /\ l \div M \in Int /\ l % M \in 0 .. M - 1
  BY <1>1
<1>3. PICK q \in Int, r \in 0 .. M - 1 : l = M * q + r /\ l % M = r
  BY <1>2
<1>4. ASSUME l <= MASK PROVE r = l
  <2>1. ~ q >= 1
    <3>1. \A x \in Nat : x >= 1 => M * x >= M
      BY <1>1
    <3> QED
      BY <1>1, <1>3, <1>4, <3>1
  <2>2. ~ q <= -1
    <3>1. \A x \in Int : x <= -1 => M * x <= - M
      BY <1>1
    <3> QED
      BY <1>1, <1>3, <1>4, <3>1
  <2>3. q = 0
    BY <2>1, <2>2
  <2> QED
    BY <1>1, <1>3, <2>3
<1> QED
  BY <1>1, <1>3, <1>4 DEF M

\* The first length and the one after it are lengths the field holds.
LEMMA FromIsShort ==
  RingTypeOK => From \in 0 .. MASK - 1 /\ From \in 0 .. MASK /\ From + 1 \in 0 .. MASK
BY FieldAssumption DEF RingTypeOK, From, rockchip_rv1106_pvtpll_init

\* A reading is a rate, and without drift the curve's own.
LEMMA Reading ==
  ASSUME RingTypeOK
  PROVE  /\ Count \in Nat /\ (~ warm => Count = f[field])
         /\ \A l \in 0 .. MASK : f[l] \in Nat
         /\ Target \in Nat /\ Target \div 32 \in Nat
<1>1. \A l \in 0 .. MASK : f[l] \in Nat /\ f[l] >= Drift
  BY RateAssumption, WarmAssumption DEF RingTypeOK
<1>2. field \in 0 .. MASK /\ Drift \in Nat /\ Target \in Nat
  BY RateAssumption DEF RingTypeOK
<1>3. f[field] \in Nat /\ f[field] >= Drift
  BY <1>1, <1>2
<1>4. Count \in Nat /\ (~ warm => Count = f[field])
  BY <1>2, <1>3 DEF Count
<1> QED
  BY <1>1, <1>2, <1>4

\* A quotient of a rate by a positive one.
LEMMA Quotient ==
  ASSUME NEW a \in Nat, NEW b \in Nat \ {0}
  PROVE  a \div b \in Nat
<1>1. a \div b \in Int /\ a = b * (a \div b) + (a % b) /\ a % b \in 0 .. b - 1
  OBVIOUS
<1>2. PICK q \in Int, r \in 0 .. b - 1 : a \div b = q /\ a = b * q + r
  BY <1>1
<1>3. \A x \in Int : x <= -1 => b * x <= - b
  OBVIOUS
<1>4. q >= 0
  BY <1>2, <1>3
<1> QED
  BY <1>2, <1>4

\* A correction is by one stage.
LEMMA CorrectIsNext ==
  RingTypeOK => Correct \in Int /\ Correct \in {length - 1, length + 1}
BY Reading DEF Correct, RingTypeOK

\* Every step keeps the lengths in order.
LEMMA LengthNext ==
  ASSUME LengthInv, [RingNext]_ringvars
  PROVE  LengthInv' /\ From' = From
<1>1. /\ RingTypeOK /\ f \in Falling /\ field = length % (MASK + 1) /\ From <= length
      /\ MASK \in Nat /\ length \in Nat /\ high \in Nat /\ MAX_TRIES \in Nat
  BY FieldAssumption, TriesAssumption DEF LengthInv, RingTypeOK, HighBits
<1>2. /\ Count \in Nat /\ Target \in Nat /\ Target \div 32 \in Nat
      /\ From \in 0 .. MASK - 1 /\ From \in Nat
  BY <1>1, Reading, FromIsShort
<1>3. UNCHANGED <<ring, f, high>>
  BY DEF RingNext, rockchip_rv1106_pvtpll_calibrate, Start, Second, Loop, WarmUp, ringvars
<1>4. From' = From
  BY <1>3 DEF From, rockchip_rv1106_pvtpll_init
<1>5. CASE WarmUp \/ UNCHANGED ringvars
  <2>1. UNCHANGED <<field, pc, length, length_ori, rate0, i>> /\ warm' \in BOOLEAN
    BY <1>1, <1>5 DEF WarmUp, ringvars, RingTypeOK
  <2>2. RingTypeOK'
    BY <1>1, <1>3, <2>1 DEF RingTypeOK, HighBits
  <2> QED
    BY <1>1, <1>3, <1>4, <2>1, <2>2 DEF LengthInv, Falling
<1>6. ASSUME Finish, UNCHANGED warm PROVE LengthInv'
  <2>1. UNCHANGED <<field, length, length_ori, rate0, i>> /\ pc' = "done"
    BY <1>6 DEF Finish
  <2>2. RingTypeOK'
    BY <1>1, <1>3, <1>6, <2>1 DEF RingTypeOK, HighBits
  <2> QED
    BY <1>1, <1>3, <1>4, <2>1, <2>2 DEF LengthInv, Falling
<1>7. CASE Start /\ ~ Finish
  <2>1. /\ pc = "start" /\ rate0' = Count
        /\ length_ori' = field + (IF ring = "grf" THEN high ELSE 0)
        /\ length' = field + 1 /\ field' = (field + 1) % (MASK + 1)
        /\ pc' = "second" /\ i' = i /\ UNCHANGED warm
    BY <1>7 DEF Start, Write
  <2>2. length = From /\ field = From
    BY <1>1, <1>2, <2>1, FieldOfLength DEF LengthInv
  <2>3. length' \in Nat /\ field' \in 0 .. MASK
    BY <1>2, <2>1, <2>2, FieldOfLength
  <2>4. length_ori' = From + (IF ring = "grf" THEN high ELSE 0) /\ length_ori' \in Nat
    BY <1>1, <1>2, <2>1, <2>2
  <2>5. RingTypeOK'
    BY <1>1, <1>2, <1>3, <2>1, <2>3, <2>4 DEF RingTypeOK, HighBits
  <2> QED
    BY <1>1, <1>2, <1>3, <1>4, <2>1, <2>2, <2>4, <2>5 DEF LengthInv, Falling
<1>8. CASE Second /\ ~ Finish
  <2>1. /\ pc = "second" /\ length' = length + (Count - Target) \div Slope(Count)
        /\ field' = length' % (MASK + 1) /\ pc' = "loop"
        /\ UNCHANGED <<length_ori, rate0, i, warm>>
        /\ Count >= Target /\ (ring = "grf" => Count < rate0)
    <3>1. ~ (Count < Target) /\ ~ (ring = "grf" /\ Count >= rate0)
      BY <1>8 DEF Second
    <3>2. rate0 \in Nat
      BY <1>1 DEF RingTypeOK
    <3>3. Count >= Target
      BY <1>2, <3>1
    <3>4. ring = "grf" => Count < rate0
      BY <1>2, <3>1, <3>2
    <3> QED
      BY <1>8, <3>3, <3>4 DEF Second, Write
  <2>2. Slope(Count) \in Nat \ {0}
    BY <1>1, <1>2, <2>1 DEF Slope, RingTypeOK, MIN_STEP
  <2>3. Count - Target \in Nat
    BY <1>2, <2>1
  <2>4. (Count - Target) \div Slope(Count) \in Nat
    BY <2>2, <2>3, Quotient
  <2>5. length' \in Nat /\ length <= length'
    BY <1>1, <2>1, <2>4
  <2>6. field' \in 0 .. MASK
    BY <2>1, <2>5, FieldOfLength
  <2>7. RingTypeOK'
    BY <1>1, <1>3, <2>1, <2>5, <2>6 DEF RingTypeOK, HighBits
  <2> QED
    BY <1>1, <1>2, <1>3, <1>4, <2>1, <2>5, <2>7 DEF LengthInv, Falling
<1>9. CASE Loop /\ ~ Finish
  <2>1. /\ pc = "loop" /\ ~ Stop(Correct) /\ i' = i + 1 /\ length' = Correct
        /\ field' = Correct % (MASK + 1)
        /\ UNCHANGED <<pc, length_ori, rate0, warm>>
    BY <1>9 DEF Loop, Write, Tries
  <2>2. Correct \in Int /\ length_ori \in Nat /\ i \in Nat
    BY <1>1, CorrectIsNext DEF RingTypeOK
  <2>3. i <= MAX_TRIES /\ Correct > length_ori
    BY <1>1, <2>1, <2>2 DEF Stop
  <2>4. length_ori >= From
    BY <1>1, <1>2, <2>1 DEF LengthInv
  <2>5. length' \in Nat /\ From <= length' /\ i' \in 0 .. MAX_TRIES + 1
    BY <1>1, <1>2, <2>1, <2>2, <2>3, <2>4
  <2>6. field' \in 0 .. MASK
    BY <2>1, <2>5, FieldOfLength
  <2>7. RingTypeOK'
    BY <1>1, <1>3, <2>1, <2>5, <2>6 DEF RingTypeOK, HighBits
  <2> QED
    BY <1>1, <1>2, <1>3, <1>4, <2>1, <2>5, <2>7 DEF LengthInv, Falling
<1>10. LengthInv'
  <2>1. Start \/ Second \/ Loop => UNCHANGED warm
    BY DEF Start, Second, Loop
  <2> QED
    BY <1>5, <1>6, <1>7, <1>8, <1>9, <2>1 DEF RingNext, rockchip_rv1106_pvtpll_calibrate
<1> QED
  BY <1>4, <1>10

\* The calibration begins with the length the init left.
LEMMA LengthInit == RingInit => LengthInv
<1> SUFFICES ASSUME RingInit PROVE LengthInv
  OBVIOUS
<1>1. From \in 0 .. MASK - 1 /\ MASK \in Nat /\ From \in Nat /\ From \in 0 .. MASK
  BY FieldAssumption DEF RingInit, From, rockchip_rv1106_pvtpll_init
<1>2. field = From /\ length = From /\ length_ori = From /\ pc = "start" /\ i = 0 /\ rate0 = 0
  BY DEF RingInit, From
<1>3. From % (MASK + 1) = From
  BY <1>1, FieldOfLength
<1>4. RingTypeOK
  <2>1. f \in [0 .. MASK -> Rates] /\ warm \in BOOLEAN /\ high \in HighBits
    BY DEF RingInit, Falling
  <2>2. ring \in {"cru", "grf"}
    BY DEF RingInit
  <2>3. field \in 0 .. MASK /\ length \in Nat /\ length_ori \in Nat /\ i \in 0 .. MAX_TRIES + 1
    BY <1>1, <1>2, TriesAssumption
  <2> QED
    BY <1>2, <2>1, <2>2, <2>3 DEF RingTypeOK
<1> QED
  BY <1>1, <1>2, <1>3, <1>4 DEF LengthInv, RingInit

\* The calibration never leaves a ring shorter than the init did while it asks
\* for lengths the field holds (_cru_pvtpll_calibrate and
\* _grf_pvtpll_calibrate), for any field, curve, target, drift and moment of it.
THEOREM RingIsKept == RingSpec => []RingNotShortened
<1>1. LengthInv => RingNotShortened
  <2> SUFFICES ASSUME LengthInv, ~ Wrapped PROVE field >= From
    BY DEF RingNotShortened, From
  <2>1. /\ length \in Nat /\ MASK \in Nat /\ field = length % (MASK + 1) /\ From <= length
    BY FieldAssumption DEF LengthInv, RingTypeOK
  <2>2. length <= MASK
    BY <2>1 DEF Wrapped
  <2>3. From \in Nat
    BY FromIsShort DEF LengthInv
  <2> QED
    BY <2>1, <2>2, <2>3, FieldOfLength
<1>2. LengthInv /\ [RingNext]_ringvars => LengthInv'
  BY LengthNext
<1> QED
  BY <1>1, <1>2, LengthInit, PTL DEF RingSpec

\* A rate between a close one and the target is close.
LEMMA CloserIsClose ==
  ASSUME Target \in Nat, Target \div 32 \in Nat, NEW r \in Nat, NEW s \in Nat,
         Close(r), r <= s, s <= Target
  PROVE  Close(s)
BY DEF Close, Abs

\* A rate that is not below the target and not close is too fast, and no rate
\* that is too fast is close.
LEMMA FastIsFar ==
  ASSUME Target \in Nat, Target \div 32 \in Nat, NEW r \in Nat
  PROVE  /\ r >= Target /\ ~ Close(r) => TooFast(r)
         /\ r >= Target /\ ~ TooFast(r) => Close(r)
         /\ TooFast(r) => ~ Close(r) /\ r >= Target
BY DEF Close, Abs, TooFast

\* The states CloseIsFound is about: it claims nothing of a warm ring, or of a
\* CPU's ring whose registers or curve confuse the search.
Plain == ~ warm /\ (ring = "grf" => high = 0 /\ f[From + 1] < f[From])

\* A ring that stayed cold and the lengths it may still be given.
LEMMA SearchNext ==
  ASSUME LengthInv, SearchInv, [RingNext]_ringvars
  PROVE  SearchInv'
<1>1. /\ RingTypeOK /\ f \in Falling /\ field = length % (MASK + 1) /\ From <= length
      /\ MASK \in Nat /\ length \in Nat /\ high \in Nat /\ MAX_TRIES \in Nat
  BY FieldAssumption, TriesAssumption DEF LengthInv, RingTypeOK, HighBits
<1>2. /\ Count \in Nat /\ Target \in Nat /\ Target \div 32 \in Nat
      /\ ~ warm => Count = f[field]
      /\ \A l \in 0 .. MASK : f[l] \in Nat
      /\ From \in 0 .. MASK - 1 /\ From \in 0 .. MASK /\ From + 1 \in 0 .. MASK /\ From \in Nat
      /\ field \in 0 .. MASK
  <2>1. /\ Count \in Nat /\ Target \in Nat /\ Target \div 32 \in Nat
        /\ ~ warm => Count = f[field]
        /\ \A l \in 0 .. MASK : f[l] \in Nat
    BY <1>1, Reading, Zenon
  <2>2. From \in 0 .. MASK - 1 /\ From \in 0 .. MASK /\ From + 1 \in 0 .. MASK
    BY <1>1, FromIsShort
  <2>3. From \in Nat
    BY <1>1, <2>2
  <2>4. field \in 0 .. MASK
    BY <1>1 DEF RingTypeOK
  <2> QED
    BY <2>1, <2>2, <2>3, <2>4
<1>3. UNCHANGED <<ring, f, high>>
  BY DEF RingNext, rockchip_rv1106_pvtpll_calibrate, Start, Second, Loop, WarmUp, ringvars
<1>4. From' = From
  BY LengthNext
<1>5. \A l, m \in 0 .. MASK : l <= m => f[m] <= f[l]
  BY <1>1 DEF Falling
<1>6. CASE WarmUp
  BY <1>6 DEF WarmUp, SearchInv, CloseIsFound
<1>7. CASE UNCHANGED ringvars
  <2>1. CloseIsFound'
    BY <1>7 DEF ringvars, SearchInv, CloseIsFound, rockchip_rv1106_pvtpll_init, Close, Wrapped
  <2>2. /\ ~ warm' /\ pc' = "second" => rate0' = f'[From] /\ TooFast(f'[From])
        /\ ~ warm' /\ pc' = "loop" => TooFast(f'[From]) /\ TooFast(f'[From + 1])
    BY <1>7 DEF ringvars, SearchInv
  <2> QED
    BY <1>4, <2>1, <2>2 DEF SearchInv, TooFast
<1>8. ASSUME Finish, UNCHANGED warm,
             Plain /\ i <= MAX_TRIES /\ length <= MASK
               /\ (\E l \in From .. MASK : Close(f[l])) => Close(f[field])
      PROVE  SearchInv'
  <2>1. UNCHANGED <<field, length, length_ori, rate0, i>> /\ pc' = "done"
    BY <1>8 DEF Finish
  <2>2. CloseIsFound'
    <3>1. rockchip_rv1106_pvtpll_init' = From
      BY <1>4 DEF From
    <3>2. ~ Wrapped' => length <= MASK
      BY <1>1, <2>1 DEF Wrapped
    <3>3. Plain /\ i <= MAX_TRIES /\ ~ Wrapped' /\ (\E l \in From .. MASK : Close(f[l]))
            => Close(f[field])
      BY <1>8, <3>2
    <3>4. /\ ~ warm /\ (ring = "grf" => high = 0 /\ f[From + 1] < f[From])
              /\ i <= MAX_TRIES /\ ~ Wrapped' /\ (\E l \in From .. MASK : Close(f[l]))
            => Close(f[field])
      BY <3>3 DEF Plain
    <3> QED
      BY <1>3, <1>8, <2>1, <3>1, <3>4 DEF CloseIsFound, Close
  <2> QED
    BY <2>1, <2>2 DEF SearchInv
<1>9. CASE Start /\ Finish
  <2>1. pc = "start" /\ field = From /\ UNCHANGED warm
    BY <1>1, <1>2, <1>9, FieldOfLength DEF Start, LengthInv
  <2>2. Count < Target \/ Count - Target < Target \div 32
    BY <1>9, <2>1 DEF Start, Finish
  <2>3. ASSUME ~ warm, NEW l \in From .. MASK, Close(f[l]) PROVE Close(f[field])
    <3>1. Count = f[From] /\ l \in 0 .. MASK /\ From <= l
      BY <1>2, <2>1, <2>3
    <3>2. f[l] <= f[From] /\ f[l] \in Nat /\ f[From] \in Nat
      BY <1>2, <1>5, <3>1
    <3>3. CASE f[From] <= Target
      BY <1>2, <2>1, <2>3, <3>2, <3>3, CloserIsClose
    <3>4. CASE f[From] > Target
      <4>1. ~ TooFast(f[From]) /\ f[From] >= Target
        BY <1>2, <2>2, <3>1, <3>2, <3>4 DEF TooFast
      <4> QED
        BY <1>2, <2>1, <3>2, <4>1, FastIsFar
    <3> QED
      BY <1>2, <3>2, <3>3, <3>4
  <2> QED
    BY <1>8, <1>9, <2>1, <2>3 DEF Plain
<1>10. CASE Start /\ ~ Finish
  <2>1. /\ pc = "start" /\ rate0' = Count /\ pc' = "second" /\ UNCHANGED warm
        /\ ~ (Count < Target \/ Count - Target < Target \div 32)
    BY <1>10 DEF Start
  <2>2. field = From
    BY <1>1, <1>2, <2>1, FieldOfLength DEF LengthInv
  <2>3. TooFast(Count)
    BY <1>2, <2>1 DEF TooFast
  <2>4. ~ warm => rate0' = f[From] /\ TooFast(f[From])
    BY <1>2, <2>1, <2>2, <2>3
  <2> QED
    BY <1>3, <1>4, <2>1, <2>4 DEF SearchInv, CloseIsFound, TooFast
<1>11. CASE Second /\ Finish
  <2>1. pc = "second" /\ length = From + 1 /\ UNCHANGED warm
    BY <1>11 DEF Second, LengthInv
  <2>2. field = From + 1
    BY <1>1, <1>2, <2>1, FieldOfLength
  <2>3. Count < Target \/ Close(Count) \/ (ring = "grf" /\ Count >= rate0)
    BY <1>11, <2>1 DEF Second, Finish
  <2>4. ASSUME Plain, NEW l \in From .. MASK, Close(f[l]) PROVE Close(f[field])
    <3>1. ~ warm /\ Count = f[From + 1] /\ rate0 = f[From] /\ TooFast(f[From])
      BY <1>2, <2>1, <2>2, <2>4 DEF Plain, SearchInv
    <3>2. f[From] \in Nat /\ f[From + 1] \in Nat /\ l \in 0 .. MASK /\ f[l] \in Nat
      BY <1>2
    <3>3. ~ (ring = "grf" /\ Count >= rate0)
      BY <2>4, <3>1, <3>2 DEF Plain
    <3>4. CASE Close(Count)
      BY <2>2, <3>1, <3>4
    <3>5. CASE Count < Target
      <4>1. l # From
        BY <1>2, <2>4, <3>1, <3>2, FastIsFar
      <4>2. From + 1 <= l
        BY <1>2, <4>1
      <4>3. f[l] <= f[From + 1]
        BY <1>2, <1>5, <3>2, <4>2
      <4>4. f[From + 1] <= Target
        BY <1>2, <3>1, <3>5
      <4> QED
        BY <1>2, <2>2, <2>4, <3>2, <4>3, <4>4, CloserIsClose
    <3> QED
      BY <2>3, <3>3, <3>4, <3>5
  <2> QED
    BY <1>8, <1>11, <2>1, <2>4
<1>12. CASE Second /\ ~ Finish
  <2>1. pc = "second" /\ length = From + 1 /\ UNCHANGED warm /\ pc' = "loop"
    BY <1>12 DEF Second, LengthInv
  <2>2. field = From + 1
    BY <1>1, <1>2, <2>1, FieldOfLength
  <2>3. ~ (Count < Target) /\ ~ Close(Count)
    BY <1>12 DEF Second
  <2>4. Count >= Target
    BY <1>2, <2>3
  <2>5. TooFast(Count)
    BY <1>2, <2>3, <2>4, FastIsFar
  <2>6. ~ warm => TooFast(f[From]) /\ TooFast(f[From + 1])
    BY <1>2, <2>1, <2>2, <2>5 DEF SearchInv
  <2> QED
    BY <1>3, <1>4, <2>1, <2>6 DEF SearchInv, CloseIsFound, TooFast
<1>13. CASE Loop /\ Finish
  <2>1. pc = "loop" /\ UNCHANGED warm
    BY <1>13 DEF Loop
  <2>2. Close(Count) \/ Stop(Correct)
    BY <1>13, <2>1 DEF Loop, Finish
  <2>3. ASSUME Plain, i <= MAX_TRIES, length <= MASK,
               NEW l \in From .. MASK, Close(f[l])
        PROVE  Close(f[field])
    <3>0. Target \div 32 > 0
      <4>1. f[l] \in Nat
        BY <1>2
      <4> QED
        BY <1>2, <2>3, <4>1 DEF Close, Abs
    <3>1. field = length /\ ~ warm /\ Count = f[length]
      BY <1>1, <1>2, <2>3, FieldOfLength DEF Plain
    <3>2. length_ori = From
      BY <1>1, <1>2, <2>1, <2>3 DEF LengthInv, Plain
    <3>3. ASSUME Stop(Correct) PROVE FALSE
      <4>1. Correct <= From
        <5>1. i \in Nat
          BY <1>1 DEF RingTypeOK
        <5> QED
          BY <1>1, <2>3, <3>2, <3>3, <5>1 DEF Stop
      <4>2. ~ (Count > Target) /\ length <= From + 1
        BY <1>1, <1>2, <4>1 DEF Correct
      <4>3. length \in 0 .. MASK /\ f[From + 1] <= f[length]
        BY <1>1, <1>2, <1>5, <2>3, <4>2
      <4>4. TooFast(f[From + 1]) /\ f[From + 1] \in Nat
        BY <1>2, <2>1, <3>1 DEF SearchInv
      <4>5. f[length] > Target
        BY <1>2, <3>0, <4>3, <4>4 DEF TooFast
      <4> QED
        BY <1>2, <3>1, <4>2, <4>5
    <3> QED
      BY <2>2, <3>1, <3>3
  <2> QED
    BY <1>8, <1>13, <2>1, <2>3
<1>14. CASE Loop /\ ~ Finish
  <2>1. pc = "loop" /\ pc' = "loop" /\ UNCHANGED warm
    BY <1>14 DEF Loop
  <2> QED
    BY <1>3, <1>4, <2>1 DEF SearchInv, CloseIsFound, TooFast
<1> QED
  BY <1>6, <1>7, <1>9, <1>10, <1>11, <1>12, <1>13, <1>14
     DEF RingNext, rockchip_rv1106_pvtpll_calibrate

\* A ring that stays as warm as it was ends close to the target whenever a
\* length it could be given does: the first two readings rule out the lengths
\* it never returns to, and from there it leaves only a length that is close
\* (the loop's exits in _cru_pvtpll_calibrate and _grf_pvtpll_calibrate).  Not
\* said of a search that gave up after its tries or asked for a length past the
\* field's end, nor of a CPU ring whose first stage does not slow it down or
\* whose register has bits set above the length field.
THEOREM SearchFinds == RingSpec => []CloseIsFound
<1>1. RingInit => LengthInv /\ SearchInv
  <2>1. RingInit => SearchInv
    BY DEF RingInit, SearchInv, CloseIsFound
  <2> QED
    BY <2>1, LengthInit
<1>2. LengthInv /\ SearchInv /\ [RingNext]_ringvars => LengthInv' /\ SearchInv'
  BY LengthNext, SearchNext
<1>3. SearchInv => CloseIsFound
  BY DEF SearchInv
<1> QED
  BY <1>1, <1>2, <1>3, PTL DEF RingSpec

\* The driver's variables keep their types: no length or slope it computes is
\* negative, and it corrects at most one time more than its tries.
THEOREM RingTyped == RingSpec => []RingTypeOK
<1>1. LengthInv => RingTypeOK
  BY DEF LengthInv
<1>2. LengthInv /\ [RingNext]_ringvars => LengthInv'
  BY LengthNext
<1> QED
  BY <1>1, <1>2, LengthInit, PTL DEF RingSpec

=============================================================================
