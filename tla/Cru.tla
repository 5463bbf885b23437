-------------------------------- MODULE Cru --------------------------------
(***************************************************************************)
(* The RV1106 reset ladder of sim/src/cru.rs: the CRU global-first software *)
(* reset (rung 1), the DesignWare watchdog (rung 2) and the boot-mode      *)
(* register, driven by software that pokes their registers at any time and *)
(* by CruSim::poll, which applies what is pending at the virtual time `now`.*)
(* A poke of CRU_WRONG_OFFSET changes no word that poll reads: it is the   *)
(* stuttering step of this specification.                                  *)
(***************************************************************************)
EXTENDS Integers

CONSTANTS
  Torr,        \* the timeout ranges software selects, of the 16 TORR encodes
  BootPokes,   \* the boot-mode words software pokes
  PollPeriod,  \* poll runs at least this often
  MaxTime,     \* bound on the clock
  MaxResets    \* bound on the resets followed

BOOT_NORMAL  == "normal"
BOOT_LOADER  == "loader"
BOOT_MASKROM == "maskrom"
BOOT_OTHER   == "other"     \* any other word of the register, 0 included
BootReg  == {BOOT_NORMAL, BOOT_LOADER, BOOT_MASKROM, BOOT_OTHER}

ASSUME CruAssumption ==
  /\ Torr \subseteq 0 .. 15 /\ 0 \in Torr
  /\ BootPokes \subseteq BootReg
  /\ PollPeriod \in Nat \ {0}
  /\ MaxTime \in Nat /\ MaxResets \in Nat

\* The timeout that DW_WDT_TORR = k selects.
Ticks(k) == 2^k

\* It is a positive number of ticks.
ASSUME WindowAssumption == \A k \in Torr : Ticks(k) \in Nat \ {0}

Cause    == {"none", "cru", "watchdog"}
BootMode == {"Normal", "Loader", "Maskrom"}

NoDeadline == -1

VARIABLES
  srst,          \* CRU_GLB_SRST_FST holds the magic
  wdt_en, torr,  \* DW_WDT_CR bit 0, DW_WDT_TORR
  crr,           \* DW_WDT_CRR holds the pet
  boot_reg,      \* BOOT_MODE_REG
  reset_count, last_cause, boot_mode, wdt_deadline,  \* CruSim
  now, last_poll,
  pet_at, window,   \* history: the last pet, the shortest timeout since
  quiet_since,      \* history: the last event that may put the watchdog off
  asked             \* history: boot modes poked since power-on

regs  == <<srst, wdt_en, torr, crr, boot_reg>>
sim   == <<reset_count, last_cause, boot_mode, wdt_deadline>>
hist  == <<pet_at, window, quiet_since, asked>>
clock == <<now, last_poll>>
vars  == <<regs, sim, hist, clock>>

TypeOK ==
  /\ srst \in BOOLEAN /\ wdt_en \in BOOLEAN /\ torr \in Torr
  /\ crr \in BOOLEAN /\ boot_reg \in BootReg
  /\ reset_count \in Nat /\ last_cause \in Cause /\ boot_mode \in BootMode
  /\ wdt_deadline \in Nat \cup {NoDeadline}
  /\ now \in Nat /\ last_poll \in Nat
  /\ pet_at \in Nat /\ window \in Nat /\ quiet_since \in Nat
  /\ asked \subseteq BootMode

-----------------------------------------------------------------------------
(* CruSim *)

FromReg(v) == CASE v = BOOT_LOADER  -> "Loader"
                [] v = BOOT_MASKROM -> "Maskrom"
                [] OTHER            -> "Normal"

Window == Ticks(torr)

\* MUTANT of ArmWdt: the timer is re-armed from its old deadline.
ArmWdtFromOldDeadline ==
  IF wdt_deadline = NoDeadline THEN now + Window ELSE wdt_deadline

\* arm_wdt: the deadline a (re)armed timer gets.
ArmWdt == now + Window

\* fire(cause): counted, attributed, and the preserved boot mode is read.
Fire(cause) ==
  /\ reset_count' = reset_count + 1
  /\ last_cause' = cause
  /\ boot_mode' = FromReg(boot_reg)

\* Rung 1: the request is consumed and poll returns.
PollCru ==
  /\ srst
  /\ srst' = FALSE
  /\ Fire("cru")
  /\ quiet_since' = now
  /\ UNCHANGED <<wdt_en, torr, crr, boot_reg, wdt_deadline, pet_at, window, asked>>

\* MUTANT of PollWdt: a timer that ran out stays disarmed until the next pet.
PollWdtNoRearm ==
  LET deadline == IF crr THEN ArmWdt ELSE wdt_deadline IN
  /\ ~srst /\ wdt_en
  /\ crr' = FALSE
  /\ IF deadline # NoDeadline /\ now >= deadline
     THEN /\ wdt_deadline' = NoDeadline
          /\ Fire("watchdog")
          /\ quiet_since' = now
     ELSE /\ wdt_deadline' = deadline
          /\ UNCHANGED <<reset_count, last_cause, boot_mode,
                         quiet_since>>
  /\ UNCHANGED <<srst, wdt_en, torr, boot_reg, pet_at, window, asked>>

\* Rung 2, enabled: consume a pet or start the timer, then judge the deadline.
PollWdt ==
  LET deadline == IF crr \/ wdt_deadline = NoDeadline
                  THEN ArmWdt ELSE wdt_deadline IN
  /\ ~srst /\ wdt_en
  /\ crr' = FALSE
  /\ IF now >= deadline
     THEN /\ wdt_deadline' = NoDeadline
          /\ Fire("watchdog")
          /\ quiet_since' = now
     ELSE /\ wdt_deadline' = deadline
          /\ UNCHANGED <<reset_count, last_cause, boot_mode,
                         quiet_since>>
  /\ UNCHANGED <<srst, wdt_en, torr, boot_reg, pet_at, window, asked>>

\* Rung 2, disabled: no deadline.
PollOff ==
  /\ ~srst /\ ~wdt_en
  /\ wdt_deadline' = NoDeadline
  /\ UNCHANGED <<regs, reset_count, last_cause, boot_mode, hist>>

Poll ==
  /\ reset_count < MaxResets
  /\ last_poll' = now
  /\ PollCru \/ PollWdt \/ PollOff
  /\ UNCHANGED now

\* MUTANT of PowerOnReset: the boot-mode register survives it.
PowerOnResetKeepsMode ==
  /\ boot_mode' = "Normal"
  /\ wdt_deadline' = NoDeadline
  /\ asked' = {} /\ quiet_since' = now
  /\ UNCHANGED <<regs, reset_count, last_cause, pet_at, window,
                 clock>>

\* power_on_reset: the boot mode and the timer are cleared, nothing else is.
PowerOnReset ==
  /\ boot_reg' = BOOT_NORMAL
  /\ boot_mode' = "Normal"
  /\ wdt_deadline' = NoDeadline
  /\ asked' = {} /\ quiet_since' = now
  /\ UNCHANGED <<srst, wdt_en, torr, crr, reset_count, last_cause, pet_at,
                 window, clock>>

-----------------------------------------------------------------------------
(* Software's pokes *)

RequestReset ==
  /\ srst' = TRUE
  /\ quiet_since' = now
  /\ UNCHANGED <<wdt_en, torr, crr, boot_reg, sim, pet_at, window, asked, clock>>

PokeCr(en) ==
  /\ wdt_en' = en
  /\ quiet_since' = now
  /\ UNCHANGED <<srst, torr, crr, boot_reg, sim, pet_at, window, asked, clock>>

\* A shorter timeout shortens what the last pet promises; the running timer
\* keeps the one it was armed with.
PokeTorr(k) ==
  /\ torr' = k
  /\ window' = IF Ticks(k) < window THEN Ticks(k) ELSE window
  /\ UNCHANGED <<srst, wdt_en, crr, boot_reg, sim, pet_at, quiet_since, asked, clock>>

Pet ==
  /\ crr' = TRUE
  /\ pet_at' = now /\ window' = Window
  /\ quiet_since' = now
  /\ UNCHANGED <<srst, wdt_en, torr, boot_reg, sim, asked, clock>>

PokeBootMode(v) ==
  /\ boot_reg' = v
  /\ asked' = asked \cup {FromReg(v)}
  /\ UNCHANGED <<srst, wdt_en, torr, crr, sim, pet_at, window, quiet_since, clock>>

AdvanceTime ==
  /\ now < MaxTime
  /\ now < last_poll + PollPeriod
  /\ now' = now + 1
  /\ UNCHANGED <<regs, sim, hist, last_poll>>

Init ==
  /\ srst = FALSE /\ wdt_en = FALSE /\ torr = 0 /\ crr = FALSE   \* SimBus: an
  /\ boot_reg = BOOT_OTHER                     \* unwritten word reads 0
  /\ reset_count = 0 /\ last_cause = "none" /\ boot_mode = "Normal"
  /\ wdt_deadline = NoDeadline
  /\ now = 0 /\ last_poll = 0
  /\ pet_at = 0 /\ window = 0 /\ quiet_since = 0
  /\ asked = {}

Next ==
  \/ Poll \/ PowerOnReset \/ RequestReset \/ Pet \/ AdvanceTime
  \/ \E en \in BOOLEAN : PokeCr(en)
  \/ \E k \in Torr : PokeTorr(k)
  \/ \E v \in BootPokes : PokeBootMode(v)

Spec == Init /\ [][Next]_vars

-----------------------------------------------------------------------------
(* Properties *)

\* A pet holds the watchdog off for the timeout it selected (the shortest one
\* selected since), however late poll sees it and whatever was disabled,
\* re-enabled, reset or powered on in between.
PetHoldsOff ==
  [][reset_count' # reset_count /\ last_cause' = "watchdog"
       => now >= pet_at + window]_vars

\* The backstop bites: with the watchdog enabled and nothing putting it off, a
\* reset comes within the longest selectable timeout plus two poll periods.
WatchdogBites ==
  wdt_en /\ reset_count < MaxResets =>
    \E k \in Torr : now <= quiet_since + Ticks(k) + 2 * PollPeriod

\* A stale MaskRom or Loader request does not survive power-on (the test
\* power_on_reset_clears_maskrom_request): the mode a reset lands in was poked
\* after the last power-on reset.
BootModeWasAsked == boot_mode # "Normal" => boot_mode \in asked
=============================================================================
