---------------------------- MODULE HpmcuProofs ----------------------------
(***************************************************************************)
(* Proofs about the HPMCU watchdog: for every timeout, poll period, beat   *)
(* period, boot time and counter width that satisfy the assumptions of     *)
(* module Hpmcu, and for behaviours of any length.                         *)
(***************************************************************************)
EXTENDS Hpmcu, TLAPS

\* The next value of the heartbeat counter is a word, and not the current one.
LEMMA SuccType ==
  ASSUME NEW c \in Counter
  PROVE  Succ(c) \in Counter /\ Succ(c) # c
BY BoundAssumption DEF Counter, Succ

\* Firing, and not firing, keep the types of what they write.
LEMMA FireType ==
  ASSUME TypeOK, NEW s \in State, Fire \/ NoFire(s)
  PROVE  fired' \in BOOLEAN /\ fire_count' \in Nat /\ state' \in State
<1>1. CASE Fire
  <2>1. fire_count' \in Nat /\ state' \in State
    BY <1>1 DEF TypeOK, Fire, State
  <2> QED
    BY <1>1, <2>1, Zenon DEF Fire
<1>2. CASE NoFire(s)
  BY <1>2 DEF TypeOK, NoFire
<1> QED
  BY <1>1, <1>2

\* Every step of the specification keeps the types.
LEMMA TypeStep == TypeOK /\ [Next]_vars => TypeOK'
<1> SUFFICES ASSUME TypeOK, [Next]_vars
             PROVE  TypeOK'
  OBVIOUS
<1> USE DEF TypeOK, mailbox, mcu, tickvars, linuxvars
<1>0. 0 \in Counter
  BY BoundAssumption DEF Counter
<1>1. CASE TickReadMagic
  BY <1>1 DEF TickReadMagic
<1>2. CASE TickFinish
  <2>1. CASE TickDisarmed
    BY <1>2, <2>1 DEF TickFinish, TickDisarmed, NoFire, State, STATE_DISARMED
  <2>2. CASE TickArmed
    <3>1. last_seen' \in Counter /\ seen' \in Counter /\ last_change' \in Nat
      BY <2>2 DEF TickArmed
    <3>2. fired' \in BOOLEAN /\ fire_count' \in Nat /\ state' \in State
      BY <2>2, FireType DEF TickArmed, State
    <3> QED
      BY <1>2, <2>2, <3>1, <3>2 DEF TickFinish, TickArmed
  <2>3. CASE TickUnarmed
    <3>1. fired' \in BOOLEAN /\ fire_count' \in Nat /\ state' \in State
      BY <2>3, FireType DEF TickUnarmed, State
    <3> QED
      BY <1>2, <2>3, <3>1 DEF TickFinish, TickUnarmed
  <2> QED
    BY <1>2, <2>1, <2>2, <2>3 DEF TickFinish
<1>3. CASE BeatCounter
  BY <1>3, SuccType DEF BeatCounter
<1>4. CASE BeatMagic
  BY <1>4 DEF BeatMagic, Magic
<1>5. CASE Disarm
  BY <1>5 DEF Disarm, Magic
<1>6. CASE Die
  BY <1>6 DEF Die, Magic
<1>7. CASE Reboot
  <2>1. armed_ever' \in BOOLEAN /\ fired' \in BOOLEAN /\ spoken' \in BOOLEAN
    BY <1>7, Zenon DEF Reboot, New
  <2>2. magic' \in Magic /\ counter' \in Counter
    BY <1>0, <1>7 DEF Reboot, Magic
  <2>3. state' \in State /\ magic_read' \in Magic
    BY <1>7 DEF Reboot, New, Magic, State
  <2> QED
    BY <1>0, <1>7, <2>1, <2>2, <2>3 DEF Reboot, New
<1>8. CASE AdvanceTime
  BY <1>8 DEF AdvanceTime
<1>9. CASE UNCHANGED vars
  BY <1>9 DEF vars
<1> QED
  BY <1>1, <1>2, <1>3, <1>4, <1>5, <1>6, <1>7, <1>8, <1>9 DEF Next

\* The initial state has the types.
LEMMA TypeInit == Init => TypeOK
<1> SUFFICES ASSUME Init PROVE TypeOK
  OBVIOUS
<1>1. 0 \in Counter
  BY BoundAssumption DEF Counter
<1>2. magic \in Magic /\ state \in State /\ magic_read \in Magic
  BY DEF Init, Magic, State
<1>3. armed_ever \in BOOLEAN /\ fired \in BOOLEAN /\ spoken \in BOOLEAN
  BY Zenon DEF Init
<1> QED
  BY <1>1, <1>2, <1>3 DEF Init, TypeOK

\* Type correctness: the words of the mailbox and the fields of the simulator
\* keep their types, the heartbeat counter included when it wraps.
THEOREM TypeCorrect == Spec => []TypeOK
BY TypeInit, TypeStep, PTL DEF Spec
-----------------------------------------------------------------------------
(* Safety: no spurious reset *)

\* A tick that read ARMED: what it has seen, and when it fires.
LEMMA ArmedVerdict ==
  ASSUME TypeOK, Clocks, TickArmed
  PROVE  /\ armed_ever' = TRUE /\ t0' = t0
         /\ last_seen' = counter
         /\ counter # last_seen => last_change' = tick_now /\ fired' = fired
         /\ counter = last_seen => last_change' = last_change
         /\ last_change' <= tick_now /\ last_change <= last_change'
         /\ \/ /\ counter = last_seen /\ fired' = TRUE
               /\ tick_now > last_change + HEARTBEAT_TIMEOUT_S
            \/ fired' = fired /\ tick_now <= last_change' + HEARTBEAT_TIMEOUT_S
<1> USE DeadlineAssumption DEF TypeOK, Clocks
<1>1. CASE counter # last_seen
  BY <1>1 DEF TickArmed, NoFire
<1>2. CASE counter = last_seen
  BY <1>2 DEF TickArmed, Fire, NoFire
<1> QED
  BY <1>1, <1>2

\* A tick that read another magic: when it fires.
LEMMA UnarmedVerdict ==
  ASSUME TypeOK, TickUnarmed
  PROVE  /\ armed_ever' = armed_ever /\ t0' = t0
         /\ last_seen' = last_seen /\ last_change' = last_change
         /\ \/ fired' = TRUE /\ tick_now > Verdict
            \/ fired' = fired /\ tick_now <= Verdict
BY DeadlineAssumption DEF TypeOK, TickUnarmed, Verdict, Fire, NoFire

\* The order of the clocks, kept by every step.
LEMMA ClocksStep == TypeOK /\ Clocks /\ [Next]_vars => Clocks'
<1> SUFFICES ASSUME TypeOK, Clocks, [Next]_vars
             PROVE  Clocks'
  OBVIOUS
<1> USE TimingAssumption DEF TypeOK, Clocks, mailbox, mcu, tickvars, linuxvars
<1>1. CASE TickReadMagic
  BY <1>1 DEF TickReadMagic
<1>2. CASE TickFinish
  <2>1. CASE TickDisarmed
    BY <1>2, <2>1 DEF TickFinish, TickDisarmed, NoFire
  <2>2. CASE TickArmed
    BY <1>2, <2>2, ArmedVerdict DEF TickFinish
  <2>3. CASE TickUnarmed
    BY <1>2, <2>3, UnarmedVerdict DEF TickFinish
  <2> QED
    BY <1>2, <2>1, <2>2, <2>3 DEF TickFinish
<1>3. CASE BeatCounter
  BY <1>3 DEF BeatCounter
<1>4. CASE BeatMagic
  BY <1>4 DEF BeatMagic
<1>5. CASE Disarm
  BY <1>5 DEF Disarm
<1>6. CASE Die
  BY <1>6 DEF Die
<1>7. CASE Reboot
  BY <1>7 DEF Reboot, New
<1>8. CASE AdvanceTime
  BY <1>8 DEF AdvanceTime
<1>9. CASE UNCHANGED vars
  BY <1>9 DEF vars
<1> QED
  BY <1>1, <1>2, <1>3, <1>4, <1>5, <1>6, <1>7, <1>8, <1>9 DEF Next

\* The safety invariant is inductive when a warm reset clears the mailbox.
LEMMA SafetyStep ==
  ASSUME ~SramSurvives
  PROVE  SafetyInv /\ [Next]_vars => SafetyInv'
<1> SUFFICES ASSUME SafetyInv, [Next]_vars
             PROVE  SafetyInv'
  OBVIOUS
<1>t. TypeOK' /\ Clocks'
  BY TypeStep, ClocksStep DEF SafetyInv
<1> USE TimingAssumption DEF mailbox, mcu, tickvars, linuxvars, MAGIC_NONE,
        MAGIC_ARMED, MAGIC_DISARM
<1>i. /\ TypeOK /\ Clocks /\ Unspoken /\ OnTime /\ SeenInTime /\ InFlight
      /\ FiredMeansDead /\ DisarmStandsDown /\ NewBootGrace
  BY DEF SafetyInv
<1> SUFFICES /\ Unspoken' /\ OnTime' /\ SeenInTime' /\ InFlight'
             /\ FiredMeansDead' /\ DisarmStandsDown' /\ NewBootGrace'
  BY <1>t DEF SafetyInv
<1>1. CASE TickReadMagic
  <2> USE <1>1, <1>i DEF TickReadMagic, TypeOK
  <2>1. Unspoken' /\ OnTime' /\ SeenInTime'
    BY DEF Unspoken, OnTime, SeenInTime
  <2>2. InFlight'
    BY DEF InFlight, Unspoken, OnTime
  <2>3. FiredMeansDead' /\ DisarmStandsDown' /\ NewBootGrace'
    BY DEF FiredMeansDead, DisarmStandsDown, NewBootGrace
  <2> QED
    BY <2>1, <2>2, <2>3
<1>2. CASE TickFinish
  <2> USE <1>2, <1>i DEF TickFinish, TypeOK, Clocks
  <2>1. CASE TickDisarmed
    <3> USE <2>1 DEF TickDisarmed, NoFire
    <3>1. Unspoken' /\ OnTime' /\ SeenInTime' /\ InFlight'
      BY DEF Unspoken, OnTime, SeenInTime, InFlight
    <3>2. FiredMeansDead' /\ DisarmStandsDown' /\ NewBootGrace'
      BY DEF FiredMeansDead, DisarmStandsDown, NewBootGrace
    <3> QED
      BY <3>1, <3>2
  <2>2. CASE TickArmed
    <3>1. magic_read = MAGIC_ARMED
      BY <2>2 DEF TickArmed
    <3>2. spoken
      BY <3>1 DEF Unspoken
    <3>v. /\ last_seen' = counter
          /\ counter # last_seen => last_change' = tick_now /\ fired' = fired
          /\ counter = last_seen => last_change' = last_change
          /\ fired' = fired
             \/ /\ counter = last_seen
                /\ tick_now > last_change + HEARTBEAT_TIMEOUT_S
      BY <1>i, <2>2, ArmedVerdict
    <3>3. Unspoken' /\ OnTime' /\ InFlight'
      BY <3>2 DEF Unspoken, OnTime, InFlight
    <3>6. SeenInTime'
      BY <3>v DEF SeenInTime
    <3>4. FiredMeansDead' /\ DisarmStandsDown'
      BY <3>1, <3>v, DeadlineAssumption
         DEF FiredMeansDead, DisarmStandsDown, InFlight, SeenInTime
    <3>5. NewBootGrace'
      BY <3>2 DEF NewBootGrace
    <3> QED
      BY <3>3, <3>4, <3>5, <3>6
  <2>3. CASE TickUnarmed
    <3>1. magic_read = MAGIC_NONE
      BY <2>3 DEF TickUnarmed
    <3>v. /\ armed_ever' = armed_ever /\ t0' = t0
          /\ last_seen' = last_seen /\ last_change' = last_change
          /\ fired' = fired \/ tick_now > Verdict
      BY <1>i, <2>3, UnarmedVerdict
    <3>2. Unspoken' /\ OnTime' /\ SeenInTime' /\ InFlight'
      BY <3>v DEF Unspoken, OnTime, SeenInTime, InFlight
    <3>3. FiredMeansDead' /\ DisarmStandsDown'
      BY <3>1, <3>v, DeadlineAssumption
         DEF FiredMeansDead, DisarmStandsDown, InFlight, Verdict
    <3>4. NewBootGrace'
      <4> SUFFICES ASSUME fired', ~spoken
                   PROVE  tick_now - t0 > BOOT_GRACE_S
        BY <3>v DEF NewBootGrace
      <4>1. tick_now > Verdict
        BY <3>v
      <4>2. Verdict = t0 + BOOT_GRACE_S
        BY DEF Unspoken, Verdict
      <4> QED
        BY <4>1, <4>2, DeadlineAssumption
    <3> QED
      BY <3>2, <3>3, <3>4
  <2> QED
    BY <2>1, <2>2, <2>3
<1>3. CASE BeatCounter
  <2> USE <1>3, <1>i DEF BeatCounter, TypeOK
  <2>1. Succ(beats) # last_seen
    BY BoundAssumption DEF Unspoken, Succ
  <2>2. Unspoken' /\ OnTime'
    BY DEF Unspoken, OnTime
  <2>3. SeenInTime'
    BY <2>1 DEF SeenInTime
  <2>4. InFlight'
    BY DEF InFlight, Clocks
  <2>5. FiredMeansDead' /\ DisarmStandsDown' /\ NewBootGrace'
    BY DEF FiredMeansDead, DisarmStandsDown, NewBootGrace
  <2> QED
    BY <2>2, <2>3, <2>4, <2>5
<1>4. CASE BeatMagic
  <2> USE <1>4, <1>i DEF BeatMagic, TypeOK
  <2>1. Unspoken' /\ OnTime' /\ SeenInTime'
    BY DEF Unspoken, OnTime, SeenInTime
  <2>2. InFlight'
    BY DEF InFlight
  <2>3. FiredMeansDead' /\ DisarmStandsDown' /\ NewBootGrace'
    BY DEF FiredMeansDead, DisarmStandsDown, NewBootGrace
  <2> QED
    BY <2>1, <2>2, <2>3
<1>5. CASE Disarm
  <2> USE <1>5, <1>i DEF Disarm, TypeOK
  <2>1. Unspoken' /\ OnTime' /\ SeenInTime'
    BY DEF Unspoken, OnTime, SeenInTime
  <2>2. InFlight'
    BY DEF InFlight
  <2>3. FiredMeansDead' /\ DisarmStandsDown' /\ NewBootGrace'
    BY DEF FiredMeansDead, DisarmStandsDown, NewBootGrace
  <2> QED
    BY <2>1, <2>2, <2>3
<1>6. CASE Die
  <2> USE <1>6, <1>i DEF Die, TypeOK
  <2>1. Unspoken' /\ OnTime' /\ SeenInTime'
    BY DEF Unspoken, OnTime, SeenInTime
  <2>2. InFlight'
    BY DEF InFlight
  <2>3. FiredMeansDead' /\ DisarmStandsDown' /\ NewBootGrace'
    BY DEF FiredMeansDead, DisarmStandsDown, NewBootGrace
  <2> QED
    BY <2>1, <2>2, <2>3
<1>7. CASE Reboot
  <2> USE <1>7, <1>i DEF Reboot, New, TypeOK
  <2>1. magic' = MAGIC_NONE /\ counter' = 0
    OBVIOUS
  <2>2. Unspoken' /\ OnTime' /\ SeenInTime' /\ InFlight'
    BY <2>1 DEF Unspoken, OnTime, SeenInTime, InFlight
  <2>3. FiredMeansDead' /\ DisarmStandsDown' /\ NewBootGrace'
    BY DEF FiredMeansDead, DisarmStandsDown, NewBootGrace
  <2> QED
    BY <2>2, <2>3
<1>8. CASE AdvanceTime
  <2> USE <1>8, <1>i DEF AdvanceTime, TypeOK
  <2>1. Unspoken' /\ SeenInTime' /\ InFlight'
    BY DEF Unspoken, SeenInTime, InFlight
  <2>2. OnTime'
    BY DEF OnTime, LinuxInTime
  <2>3. FiredMeansDead' /\ DisarmStandsDown' /\ NewBootGrace'
    BY DEF FiredMeansDead, DisarmStandsDown, NewBootGrace
  <2> QED
    BY <2>1, <2>2, <2>3
<1>9. CASE UNCHANGED vars
  BY <1>9, <1>i DEF vars, Unspoken, OnTime, SeenInTime, InFlight, FiredMeansDead,
     DisarmStandsDown, NewBootGrace
<1> QED
  BY <1>1, <1>2, <1>3, <1>4, <1>5, <1>6, <1>7, <1>8, <1>9 DEF Next

\* The initial state satisfies both invariants.
LEMMA InvInit == Init => SafetyInv /\ DetectionInv
<1> SUFFICES ASSUME Init PROVE SafetyInv /\ DetectionInv
  OBVIOUS
<1> USE TypeInit, TimingAssumption DEF Init, MAGIC_NONE, MAGIC_DISARM
<1>1. TypeOK
  OBVIOUS
<1>2. Clocks
  BY DEF Clocks
<1>3. Unspoken /\ OnTime /\ SeenInTime /\ InFlight
  BY DEF Unspoken, OnTime, SeenInTime, InFlight
<1>4. FiredMeansDead /\ DisarmStandsDown /\ NewBootGrace
  BY DEF FiredMeansDead, DisarmStandsDown, NewBootGrace
<1>5. DeadInv
  BY DEF DeadInv
<1> QED
  BY <1>1, <1>2, <1>3, <1>4, <1>5 DEF SafetyInv, DetectionInv

\* With a mailbox that a warm reset clears, a Linux that boots, arms and beats
\* on time is never reset, in any interleaving of its pokes with the reads of
\* a tick: a reset means that Linux is dead.
THEOREM NoSpuriousReset ==
  ASSUME ~SramSurvives
  PROVE  Spec => []FiredMeansDead
<1>1. SafetyInv => FiredMeansDead
  BY DEF SafetyInv
<1> QED
  BY <1>1, InvInit, SafetyStep, PTL DEF Spec

\* Under the same condition a watchdog that was stood down never fires, even
\* if Linux dies right after the stand-down.
THEOREM StandDownHolds ==
  ASSUME ~SramSurvives
  PROVE  Spec => []DisarmStandsDown
<1>1. SafetyInv => DisarmStandsDown
  BY DEF SafetyInv
<1> QED
  BY <1>1, InvInit, SafetyStep, PTL DEF Spec

\* Under the same condition every boot whose userspace stays silent is given
\* the whole boot grace.
THEOREM BootGraceIsGiven ==
  ASSUME ~SramSurvives
  PROVE  Spec => []NewBootGrace
<1>1. SafetyInv => NewBootGrace
  BY DEF SafetyInv
<1> QED
  BY <1>1, InvInit, SafetyStep, PTL DEF Spec

-----------------------------------------------------------------------------
(* Detection: a dead Linux is reset in bounded time *)

\* The detection invariant is inductive, whether or not SRAM survives a reset.
LEMMA DetectionStep == DetectionInv /\ [Next]_vars => DetectionInv'
<1> SUFFICES ASSUME DetectionInv, [Next]_vars
             PROVE  DetectionInv'
  OBVIOUS
<1>i. TypeOK /\ Clocks /\ DeadInv
  BY DEF DetectionInv
<1> SUFFICES DeadInv'
  BY <1>i, TypeStep, ClocksStep DEF DetectionInv
<1> USE TimingAssumption, DeadlineAssumption
    DEF mailbox, mcu, tickvars, linuxvars, Verdict,
        MAGIC_NONE, MAGIC_ARMED, MAGIC_DISARM
<1>1. CASE TickReadMagic
  BY <1>1, <1>i DEF TickReadMagic, TypeOK, Clocks, DeadInv
<1>2. CASE TickFinish
  <2> USE <1>2, <1>i DEF TickFinish, TypeOK, Clocks
  <2>1. CASE TickDisarmed
    BY <2>1 DEF TickDisarmed, NoFire, DeadInv
  <2>2. CASE TickArmed
    <3>1. magic_read = MAGIC_ARMED
      BY <2>2 DEF TickArmed
    <3>v. /\ armed_ever' = TRUE /\ t0' = t0
          /\ last_seen' = counter
          /\ last_change' = IF counter = last_seen THEN last_change ELSE tick_now
          /\ ~fired' => tick_now <= last_change' + HEARTBEAT_TIMEOUT_S
      BY <1>i, <2>2, ArmedVerdict
    <3> QED
      BY <3>1, <3>v DEF DeadInv
  <2>3. CASE TickUnarmed
    <3>1. magic_read = MAGIC_NONE
      BY <2>3 DEF TickUnarmed
    <3>v. /\ armed_ever' = armed_ever /\ t0' = t0
          /\ last_seen' = last_seen /\ last_change' = last_change
          /\ ~fired' => tick_now <= Verdict
      BY <1>i, <2>3, UnarmedVerdict
    <3> QED
      BY <3>1, <3>v DEF DeadInv
  <2> QED
    BY <2>1, <2>2, <2>3
<1>3. CASE BeatCounter
  BY <1>3, <1>i DEF BeatCounter, TypeOK, DeadInv
<1>4. CASE BeatMagic
  BY <1>4, <1>i DEF BeatMagic, TypeOK, DeadInv
<1>5. CASE Disarm
  BY <1>5, <1>i DEF Disarm, TypeOK, DeadInv
<1>6. CASE Die
  BY <1>6, <1>i DEF Die, TypeOK, Clocks, DeadInv
<1>7. CASE Reboot
  BY <1>7, <1>i DEF Reboot, New, TypeOK, DeadInv
<1>8. CASE AdvanceTime
  BY <1>8, <1>i DEF AdvanceTime, TypeOK, DeadInv
<1>9. CASE UNCHANGED vars
  BY <1>9, <1>i DEF vars, DeadInv
<1> QED
  BY <1>1, <1>2, <1>3, <1>4, <1>5, <1>6, <1>7, <1>8, <1>9 DEF Next

\* A Linux that died without standing the watchdog down is reset within the
\* heartbeat timeout (or the boot grace, if it never armed) and three poll
\* periods, whatever the death left in the mailbox.
THEOREM DeadLinuxIsReset == Spec => []DeadIsDetected
<1>1. DetectionInv => DeadIsDetected
  BY TimingAssumption, DeadlineAssumption
     DEF DetectionInv, TypeOK, Clocks, DeadInv, DeadIsDetected, Verdict,
         MAGIC_ARMED, MAGIC_DISARM
<1> QED
  BY <1>1, InvInit, DetectionStep, PTL DEF Spec
=============================================================================
