------------------------------- MODULE Hpmcu -------------------------------
(***************************************************************************)
(* The HPMCU watchdog firmware as sim/src/hpmcu.rs models it, running      *)
(* against the shared mailbox of sim/src/membus.rs, together with the      *)
(* Linux side (flared) that arms it, beats, stands it down, or dies.       *)
(*                                                                         *)
(* The mailbox is two Linux-owned words (magic, counter) and two MCU-owned *)
(* ones (state, seen).  Every peek and poke is atomic, nothing larger is:  *)
(* a tick reads the magic in one step and the counter in a later one, and  *)
(* flared writes the counter in one step and the magic in a later one.     *)
(* Time is the virtual clock `now`, in whole seconds.  The poll count that  *)
(* tick keeps in the low half of the state word and its runtime word (CYC) *)
(* are diagnostics nothing reads back: they are left out.                  *)
(***************************************************************************)
EXTENDS Integers

CONSTANTS
  HEARTBEAT_TIMEOUT_S, \* a frozen counter is tolerated this long
  BOOT_GRACE_S,        \* an unarmed boot is tolerated this long
  PollPeriod,          \* the firmware starts a tick at least this often
  BeatPeriod,          \* a live flared completes a beat at least this often
  BootTime,            \* a live Linux starts its first beat within this time
  CounterMod,          \* the heartbeat counter is a word modulo CounterMod
  SramSurvives,        \* whether a warm reset keeps the Linux-owned words
  MaxTime,             \* bound on the clock
  MaxBoots             \* bound on the number of times the MCU is brought up

ASSUME DeadlineAssumption ==
  /\ HEARTBEAT_TIMEOUT_S \in Nat
  /\ BOOT_GRACE_S \in Nat

\* The environment keeps its own deadlines: a beat and the poll that sees it
\* fit in the heartbeat window, and boot plus the first beat in the grace.
ASSUME TimingAssumption ==
  /\ PollPeriod \in Nat \ {0}
  /\ BeatPeriod \in Nat \ {0}
  /\ BootTime \in Nat \ {0}
  /\ PollPeriod + BeatPeriod <= HEARTBEAT_TIMEOUT_S
  /\ BootTime + BeatPeriod <= BOOT_GRACE_S

ASSUME BoundAssumption ==
  /\ CounterMod \in Nat /\ CounterMod > 1
  /\ SramSurvives \in BOOLEAN
  /\ MaxTime \in Nat
  /\ MaxBoots \in Nat

MAGIC_NONE   == "none"     \* any word that is neither of the two below
MAGIC_ARMED  == "armed"
MAGIC_DISARM == "disarm"
Magic == {MAGIC_NONE, MAGIC_ARMED, MAGIC_DISARM}

STATE_BOOT     == "boot"
STATE_ARMED    == "armed"
STATE_DISARMED == "disarmed"
STATE_FIRED    == "fired"
State == {STATE_BOOT, STATE_ARMED, STATE_DISARMED, STATE_FIRED}

Counter == 0 .. CounterMod - 1

VARIABLES
  magic, counter,      \* Linux-owned mailbox words
  state, seen,         \* MCU-owned mailbox words
  t0, last_change, last_seen, armed_ever, fired, fire_count,  \* HpmcuSim
  pc, magic_read, tick_now,  \* the tick in progress and when it started
  linux, lpc,          \* the Linux side: its life, and where in arm_beat it is
  spoken,              \* this boot's userspace has written the magic
  beats,               \* flared's own copy of the heartbeat counter
  last_sign,           \* when Linux last booted or wrote a counter
  died_at,             \* when Linux died
  now, boots

mailbox   == <<magic, counter>>
mcu       == <<state, seen, t0, last_change, last_seen, armed_ever, fired,
               fire_count>>
tickvars  == <<pc, magic_read, tick_now>>
linuxvars == <<linux, lpc, spoken, beats, last_sign, died_at>>
vars      == <<mailbox, mcu, tickvars, linuxvars, now, boots>>

TypeOK ==
  /\ magic \in Magic /\ counter \in Counter
  /\ state \in State /\ seen \in Counter
  /\ t0 \in Nat /\ last_change \in Nat /\ last_seen \in Counter
  /\ armed_ever \in BOOLEAN /\ fired \in BOOLEAN /\ fire_count \in Nat
  /\ pc \in {"idle", "counter"} /\ magic_read \in Magic /\ tick_now \in Nat
  /\ linux \in {"alive", "dead"} /\ lpc \in {"idle", "magic"}
  /\ spoken \in BOOLEAN
  /\ beats \in Counter /\ last_sign \in Nat /\ died_at \in Nat
  /\ now \in Nat /\ boots \in Nat

-----------------------------------------------------------------------------
(* The MCU *)

\* MUTANT of New: the re-created core keeps armed_ever.
NewKeepsArmedEver ==
  /\ state' = STATE_BOOT
  /\ seen' = 0
  /\ t0' = now /\ last_change' = now
  /\ last_seen' = 0
  /\ fired' = FALSE /\ fire_count' = 0
  /\ UNCHANGED armed_ever

\* HpmcuSim::new on an existing bus: only the MCU-owned words are written.
New ==
  /\ state' = STATE_BOOT
  /\ seen' = 0
  /\ t0' = now /\ last_change' = now
  /\ last_seen' = 0
  /\ armed_ever' = FALSE
  /\ fired' = FALSE /\ fire_count' = 0

\* The first half of tick(now): the early return, then the magic is read.
TickReadMagic ==
  /\ ~fired
  /\ pc = "idle"
  /\ pc' = "counter"
  /\ magic_read' = magic
  /\ tick_now' = now
  /\ UNCHANGED <<mailbox, mcu, linuxvars, now, boots>>

Fire ==
  /\ state' = STATE_FIRED
  /\ fired' = TRUE
  /\ fire_count' = fire_count + 1

NoFire(s) ==
  /\ state' = s
  /\ UNCHANGED <<fired, fire_count>>

\* MUTANT of TickDisarmed: a DISARM word is judged like an armed, silent one.
TickDisarmedTimesOut ==
  /\ magic_read = MAGIC_DISARM
  /\ IF tick_now - last_change > HEARTBEAT_TIMEOUT_S
     THEN Fire ELSE NoFire(STATE_DISARMED)
  /\ UNCHANGED <<seen, last_seen, armed_ever, t0, last_change>>

\* magic == MAGIC_DISARM: stand down and restart both clocks.
TickDisarmed ==
  /\ magic_read = MAGIC_DISARM
  /\ t0' = tick_now /\ last_change' = tick_now
  /\ NoFire(STATE_DISARMED)
  /\ UNCHANGED <<seen, last_seen, armed_ever>>

\* MUTANT of TickArmed: the timeout comparison is off by one.
TickArmedOffByOne ==
  /\ magic_read = MAGIC_ARMED
  /\ armed_ever' = TRUE
  /\ IF counter # last_seen
     THEN /\ last_seen' = counter /\ seen' = counter
          /\ last_change' = tick_now
     ELSE UNCHANGED <<last_seen, seen, last_change>>
  /\ IF tick_now - last_change' >= HEARTBEAT_TIMEOUT_S
     THEN Fire ELSE NoFire(STATE_ARMED)
  /\ UNCHANGED t0

\* MUTANT of TickArmed: any armed poll counts as a beat.
TickArmedNoCompare ==
  /\ magic_read = MAGIC_ARMED
  /\ armed_ever' = TRUE
  /\ last_seen' = counter /\ seen' = counter
  /\ last_change' = tick_now
  /\ NoFire(STATE_ARMED)
  /\ UNCHANGED t0

\* magic == MAGIC_ARMED: note a new counter, then judge how old it is.
TickArmed ==
  /\ magic_read = MAGIC_ARMED
  /\ armed_ever' = TRUE
  /\ IF counter # last_seen
     THEN /\ last_seen' = counter /\ seen' = counter
          /\ last_change' = tick_now
     ELSE UNCHANGED <<last_seen, seen, last_change>>
  /\ IF tick_now - last_change' > HEARTBEAT_TIMEOUT_S
     THEN Fire ELSE NoFire(STATE_ARMED)
  /\ UNCHANGED t0

\* MUTANT of TickUnarmed: only the boot grace is judged.
TickUnarmedGraceOnly ==
  /\ magic_read = MAGIC_NONE
  /\ IF ~armed_ever /\ tick_now - t0 > BOOT_GRACE_S
     THEN Fire ELSE NoFire(STATE_BOOT)
  /\ UNCHANGED <<seen, last_seen, armed_ever, t0, last_change>>

\* any other magic: boot grace before the first arming, heartbeat timeout after.
TickUnarmed ==
  /\ magic_read = MAGIC_NONE
  /\ IF \/ ~armed_ever /\ tick_now - t0 > BOOT_GRACE_S
        \/ armed_ever /\ tick_now - last_change > HEARTBEAT_TIMEOUT_S
     THEN Fire ELSE NoFire(STATE_BOOT)
  /\ UNCHANGED <<seen, last_seen, armed_ever, t0, last_change>>

\* The second half of tick(now): the counter is read and the verdict reached.
TickFinish ==
  /\ pc = "counter"
  /\ pc' = "idle"
  /\ TickDisarmed \/ TickArmed \/ TickUnarmed
  /\ UNCHANGED <<mailbox, magic_read, tick_now, linuxvars, now, boots>>

-----------------------------------------------------------------------------
(* The Linux side *)

Succ(c) == IF c = CounterMod - 1 THEN 0 ELSE c + 1

\* arm_beat, first poke: the counter.  A live flared never runs a whole turn
\* of the counter ahead of the MCU, which polls it every PollPeriod.
BeatCounter ==
  /\ linux # "dead" /\ lpc = "idle"
  /\ spoken => Succ(beats) # last_seen
  /\ beats' = Succ(beats)
  /\ counter' = Succ(beats)
  /\ lpc' = "magic"
  /\ last_sign' = now
  /\ UNCHANGED <<magic, mcu, tickvars, linux, spoken, died_at, now, boots>>

\* arm_beat, second poke: the magic.
BeatMagic ==
  /\ linux # "dead" /\ lpc = "magic"
  /\ magic' = MAGIC_ARMED
  /\ lpc' = "idle"
  /\ spoken' = TRUE
  /\ UNCHANGED <<counter, mcu, tickvars, linux, beats, last_sign, died_at, now,
                 boots>>

\* A deliberate stand-down by userspace.
Disarm ==
  /\ linux # "dead" /\ lpc = "idle"
  /\ magic' = MAGIC_DISARM
  /\ spoken' = TRUE
  /\ UNCHANGED <<counter, mcu, tickvars, linux, lpc, beats, last_sign, died_at,
                 now, boots>>

\* Linux hangs or crashes, between any two pokes; a crash may leave a magic
\* that is neither word.
Die ==
  /\ linux # "dead"
  /\ linux' = "dead"
  /\ died_at' = now
  /\ magic' \in {magic, MAGIC_NONE}
  /\ UNCHANGED <<counter, mcu, tickvars, lpc, spoken, beats, last_sign, now, boots>>

\* The warm reset the fired MCU asked for: Linux boots again, the MCU is
\* brought up anew, and the Linux-owned words survive or read as zero.
Reboot ==
  /\ fired
  /\ boots < MaxBoots
  /\ boots' = boots + 1
  /\ New
  /\ pc' = "idle" /\ magic_read' = MAGIC_NONE /\ tick_now' = now
  /\ linux' = "alive" /\ lpc' = "idle" /\ spoken' = FALSE /\ beats' = 0
  /\ last_sign' = now /\ died_at' = now
  /\ IF SramSurvives THEN UNCHANGED mailbox
                     ELSE magic' = MAGIC_NONE /\ counter' = 0
  /\ UNCHANGED now

-----------------------------------------------------------------------------
(* Time *)

\* A live Linux must act before the clock may pass this point.
LinuxInTime ==
  \/ linux = "dead"
  \/ spoken /\ lpc = "idle" /\ magic = MAGIC_DISARM
  \/ now < last_sign + (IF ~spoken /\ lpc = "idle"
                        THEN BootTime ELSE BeatPeriod)

AdvanceTime ==
  /\ now < MaxTime
  /\ fired \/ now < tick_now + PollPeriod
  /\ LinuxInTime
  /\ now' = now + 1
  /\ UNCHANGED <<mailbox, mcu, tickvars, linuxvars, boots>>

Init ==
  /\ magic = MAGIC_NONE /\ counter = 0
  /\ state = STATE_BOOT /\ seen = 0
  /\ t0 = 0 /\ last_change = 0 /\ last_seen = 0
  /\ armed_ever = FALSE /\ fired = FALSE /\ fire_count = 0
  /\ pc = "idle" /\ magic_read = MAGIC_NONE /\ tick_now = 0
  /\ linux = "alive" /\ lpc = "idle" /\ spoken = FALSE /\ beats = 0
  /\ last_sign = 0 /\ died_at = 0
  /\ now = 0 /\ boots = 1

Next ==
  \/ TickReadMagic \/ TickFinish
  \/ BeatCounter \/ BeatMagic \/ Disarm \/ Die \/ Reboot
  \/ AdvanceTime

Spec == Init /\ [][Next]_vars

\* The MCU core never stops polling, the clock never stops.
FairSpec ==
  Spec /\ WF_vars(TickReadMagic) /\ WF_vars(TickFinish) /\ WF_vars(AdvanceTime)

-----------------------------------------------------------------------------
(* Properties *)

\* A Linux that boots, arms and beats on time is never reset: no spurious
\* reset and no boot loop (the tests armed_and_beating_never_fires and
\* flared_arms_within_boot_grace_no_boot_loop), whatever the interleaving of
\* its pokes with the two reads of a tick.
FiredMeansDead == fired => linux = "dead"

\* "a disarm-then-silence never fires" (hpmcu.rs:102-103): Linux may die right
\* after the stand-down, with a tick that read the older magic still in flight.
DisarmStandsDown == fired => magic # MAGIC_DISARM

\* A dead Linux that did not stand the watchdog down is reset in bounded time:
\* the heartbeat timeout once the MCU has seen (or can see) the arming, the
\* boot grace before it, plus three poll periods (the last beat may be seen
\* late, the deadline falls between polls, the firing tick takes time).
DeadIsDetected ==
  linux = "dead" /\ magic # MAGIC_DISARM /\ ~fired =>
    now <= died_at + 3 * PollPeriod
           + (IF armed_ever \/ magic = MAGIC_ARMED
              THEN HEARTBEAT_TIMEOUT_S ELSE BOOT_GRACE_S)

\* A re-created MCU gets a "new boot grace" (hpmcu.rs:83-85): it does not fire
\* on a boot whose userspace never wrote the magic before the grace is over.
NewBootGrace ==
  fired /\ ~spoken => tick_now - t0 > BOOT_GRACE_S

\* "A hung A7/flared ends in a counted reset, not a dark panel"
\* (docs/workflows/hpmcu-watchdog.md): a dead, not stood-down Linux leads to a
\* reset that is counted once and visible in the state word.
DeadEndsInCountedReset ==
  (/\ linux = "dead" /\ magic # MAGIC_DISARM /\ ~fired
   /\ died_at + 3 * PollPeriod < MaxTime    \* the bounded clock gets that far
        - (IF armed_ever \/ magic = MAGIC_ARMED THEN HEARTBEAT_TIMEOUT_S
           ELSE BOOT_GRACE_S))
  ~> (fired /\ fire_count = 1 /\ state = STATE_FIRED)
-----------------------------------------------------------------------------
(* The inductive invariant behind the safety properties *)

Clocks ==
  /\ t0 <= tick_now /\ last_change <= tick_now /\ tick_now <= now
  /\ last_sign <= now /\ died_at <= now
  /\ pc = "counter" => ~fired
  /\ ~fired => now <= tick_now + PollPeriod

\* Until userspace has spoken the MCU knows nothing of it.
Unspoken ==
  ~spoken =>
    /\ magic = MAGIC_NONE /\ ~armed_ever /\ last_seen = 0
    /\ pc = "counter" => magic_read = MAGIC_NONE
    /\ lpc = "idle" => beats = 0 /\ last_sign <= t0
    /\ lpc = "magic" => last_sign <= t0 + BootTime

\* A live Linux is on time.
OnTime ==
  linux = "alive" =>
    /\ spoken => magic # MAGIC_NONE
    /\ \/ spoken /\ lpc = "idle" /\ magic = MAGIC_DISARM
       \/ now <= last_sign + (IF ~spoken /\ lpc = "idle"
                              THEN BootTime ELSE BeatPeriod)

\* A counter the MCU has already seen was written before it was seen.
SeenInTime == counter = last_seen => last_sign <= last_change + PollPeriod

\* What a tick in flight may conclude while Linux lives or has stood it down.
InFlight ==
  pc = "counter" /\ (linux = "alive" \/ magic = MAGIC_DISARM) =>
    /\ magic_read = MAGIC_ARMED => tick_now <= last_sign + BeatPeriod
    /\ magic_read = MAGIC_NONE =>
         ~armed_ever /\ tick_now <= t0 + BootTime + BeatPeriod

SafetyInv ==
  /\ TypeOK /\ Clocks /\ Unspoken /\ OnTime /\ SeenInTime /\ InFlight
  /\ FiredMeansDead /\ DisarmStandsDown /\ NewBootGrace

\* The deadline the last verdict respected.
Verdict == IF armed_ever THEN last_change + HEARTBEAT_TIMEOUT_S
                         ELSE t0 + BOOT_GRACE_S

\* After the death of a Linux that did not stand the watchdog down: the clocks
\* stop within a poll period, a tick that started after the death reads the
\* final mailbox, and each later tick that did not fire was within its deadline.
DeadInv ==
  linux = "dead" /\ magic # MAGIC_DISARM /\ ~fired =>
    /\ last_change <= died_at + PollPeriod
    /\ t0 <= died_at + PollPeriod
    /\ pc = "counter" /\ tick_now > died_at => magic_read = magic
    /\ pc = "idle" /\ tick_now > died_at =>
         /\ magic = MAGIC_ARMED => armed_ever /\ counter = last_seen
         /\ tick_now <= Verdict
    /\ pc = "counter" /\ tick_now > died_at + PollPeriod =>
         /\ magic = MAGIC_ARMED => armed_ever /\ counter = last_seen
         /\ tick_now <= Verdict + PollPeriod

DetectionInv == TypeOK /\ Clocks /\ DeadInv
=============================================================================
