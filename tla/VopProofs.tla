----------------------------- MODULE VopProofs -----------------------------
(***************************************************************************)
(* Proofs about Vop, for any set of framebuffers, any bounds and any set   *)
(* of failures: what holds whatever fails, and what holds until something  *)
(* does.                                                                   *)
(***************************************************************************)
EXTENDS Vop, TLAPS

\* Where a commit has the CRTC enabled.
Working == {"modeset", "begin", "lut_off", "lut_poll", "lut_write", "plane",
            "geom", "flush", "poll", "sync", "queue"}

\* What the places of the commit thread say of the driver's state.
PhaseInv ==
  /\ commit.pc \in Working \cup {"disable", "hold"} => vop.is_enabled
  /\ commit.pc \in Working \cup {"enable"} => crtc.active
  /\ commit.pc = "enable" => ~ vop.is_enabled
  /\ commit.pc \in {"idle", "done"} => (vop.is_enabled <=> crtc.active)
  /\ ~ vop.bound => commit.pc = "idle" /\ isr.pc = "idle" /\ ~ vop.is_enabled /\ ~ crtc.active
  /\ commit.pc \in {"hold", "modeset"} => hw.standby
  /\ isr.pc = "idle" => isr.active = {}

LogoWin == [fb |-> Logo, geom |-> Logo, en |-> TRUE]

\* While the logo is lit the block is the loader's; a block that is neither lit
\* nor enabled is in standby and has stopped.
LogoInv ==
  /\ vop.loader_active <=> (lit /\ vop.bound)
  /\ lit => /\ ~ vop.is_enabled /\ ~ hw.standby /\ hw.scanning
            /\ hw.win = LogoWin /\ hw.scan = LogoWin
  /\ ~ lit /\ ~ vop.is_enabled => hw.standby /\ ~ hw.scanning

\* The hold interrupt is raised once in a disable, by the frame end that stops
\* the block: it is in the status word, in the handler or in the completion,
\* and only once the block has stopped.
HoldInv ==
  /\ "HOLD" \in hw.enabled => commit.pc = "hold"
  /\ isr.pc = "handle" /\ "HOLD" \in isr.active =>
       /\ commit.pc = "hold" /\ ~ hw.scanning
       /\ ~ vop.held /\ "HOLD" \notin hw.raised
  /\ commit.pc = "hold" /\ "HOLD" \in hw.raised => ~ hw.scanning /\ ~ vop.held
  /\ commit.pc = "hold" /\ vop.held => ~ hw.scanning

\* The holders of references, whatever has failed: an enabled CRTC is active or
\* on its way off, and it is enabled and disabled once.
Holders ==
  /\ vop.is_enabled => crtc.active \/ commit.pc \in {"disable", "hold"}
  /\ commit.pc = "enable" => ~ vop.is_enabled /\ crtc.active
  /\ commit.pc = "hold" /\ ~ vop.is_enabled => "undo" \in upset
  /\ ~ vop.bound => /\ vop = NewVop /\ isr.pc = "idle"
                    /\ commit.pc = "idle" /\ ~ crtc.active

RefInv == Holders /\ ReferencesBalance

\* The lit block, as long as vop_initial and vop_enable do not fail: no
\* interrupt is enabled, and a commit on it does nothing but wait to enable.
LitInv ==
  lit /\ upset \cap {"initial", "enable"} = {} =>
    /\ ~ vop.is_enabled /\ vop.vblank = "modeset"
    /\ isr.pc = "idle" /\ hw.enabled = {}
    /\ ~ hw.standby /\ hw.scanning /\ hw.win = LogoWin /\ hw.scan = LogoWin
    /\ commit.pc = "enable" \/ (commit.pc \in {"idle", "done"} /\ ~ crtc.active)
    /\ ClocksOn

\* A driver that has met no failure.
BusInv == Healthy /\ TypeOK /\ RefInv /\ LitInv /\ PhaseInv /\ LogoInv /\ HoldInv

\* Its steps: all of Next but the failures.
Normal ==
  \/ FrameStart
  \/ \E ok \in BOOLEAN : vop_bind(ok)
  \/ vop_initial_fails \/ vop_unbind
  \/ \E a, l, c, m \in BOOLEAN, f \in Fbs \cup {NoFb} : StartCommit(a, f, l, c, m)
  \/ CommitStep \/ vop_crtc_disable_vblank
  \/ IsrStep \/ \E f \in Fbs : vop_fb_unref_worker(f)

-----------------------------------------------------------------------------
\* The window's registers show framebuffer f, whole.
Shows(f) == IF f = NoFb THEN ~ hw.win.en
            ELSE hw.win = [fb |-> f, geom |-> f, en |-> TRUE]

\* What the window's registers hold at each place of a commit.
WinInv ==
  /\ hw.win.en => hw.win.fb # NoFb
  /\ hw.scan.en => hw.scan.fb # NoFb
  /\ commit.pc \in {"flush", "poll", "sync", "queue"} => Shows(crtc.fb)
  /\ commit.pc \in {"done", "idle"} /\ vop.is_enabled => Shows(crtc.fb)
  /\ commit.pc \in {"disable", "hold", "begin", "lut_off", "lut_poll", "lut_write", "plane"}
       => ~ hw.win.en \/ Shows(crtc.old)
  /\ commit.pc = "modeset" => ~ hw.win.en
  /\ commit.pc = "geom" => crtc.fb # NoFb /\ hw.win.fb = crtc.fb
  /\ commit.pc = "idle" => crtc.old = NoFb

\* cfg_done: once the block has taken the registers over they are what it
\* scans, a block that starts does take them over, and between commits they
\* are pending only with the event.
CfgInv ==
  /\ commit.pc \notin {"geom", "flush"} /\ ~ hw.cfg => hw.scan = hw.win
  /\ ~ hw.scanning /\ ~ hw.standby => hw.cfg
  /\ commit.pc = "modeset" => hw.cfg
  /\ commit.pc \in {"queue", "done", "idle"} /\ vop.is_enabled /\ hw.cfg => vop.event
  /\ commit.pc \in {"lut_off", "lut_poll", "lut_write"} => commit.color \/ ~ hw.win.en
  /\ commit.pc \in {"begin", "plane", "geom"} /\ hw.cfg /\ hw.win.en => commit.color

\* The event: armed only after the handler is done with every frame start that
\* came before cfg_done.
EventInv ==
  /\ vop.event => commit.pc \in {"queue", "done", "idle"} /\ vop.is_enabled
  /\ vop.event /\ hw.cfg => "FS" \notin vop_get_intr_type /\ "FS" \notin isr.active
  /\ commit.pc = "sync" /\ hw.cfg => "FS" \notin vop_get_intr_type
  /\ vop.event => vop.vblank = "on"
  /\ ~ vop.is_enabled \/ commit.pc = "hold" => vop.vblank = "modeset"
  /\ vop.vblank = "on" <=> "FS" \in hw.enabled

\* A framebuffer that a flip replaced while the block still scans it is queued.
ScanInv ==
  /\ hw.scanning /\ hw.scan.en =>
       \/ hw.scan.fb \in {crtc.fb, crtc.old, Logo}
       \/ vop.event /\ hw.cfg /\ hw.scan.fb \in Fbs /\ work.queued[hw.scan.fb] > 0
  /\ commit.pc = "done" /\ vop.is_enabled /\ hw.cfg /\ crtc.old \in Fbs \ {crtc.fb}
       => work.queued[crtc.old] > 0

PictureInv == WinInv /\ CfgInv /\ EventInv /\ ScanInv /\ TornOnlyWithGamma
-----------------------------------------------------------------------------
(* The operators on the block's state *)

\* Writing a register of the block leaves a state of the block.
LEMMA HwWrites ==
  ASSUME NEW h \in Hw, NEW irq \in Irqs
  PROVE  ClearAndEnable(h, irq) \in Hw /\ Disable(h, irq) \in Hw
BY DEF Hw, ClearAndEnable, Disable

\* So does disabling a window.
LEMMA WinWrites ==
  ASSUME NEW w \in Win
  PROVE  /\ vop_win_disable(w) \in Win /\ vop_win_disable(w) = [w EXCEPT !.en = FALSE]
         /\ crtc \in Crtc => WriteAddress(w) \in Win
BY DEF Win, vop_win_disable, WriteAddress, Crtc

\* A count that drops stays a count.
LEMMA LessCounts ==
  ASSUME NEW n \in Nat
  PROVE  Less(n) \in Nat /\ (n > 0 => Less(n) = n - 1)
BY DEF Less

\* Taking the core references counts one more of each.
LEMMA TakeCoreCounts ==
  ASSUME NEW c \in Clk
  PROVE  /\ TakeCore(c) \in Clk
         /\ TakeCore(c).pm = c.pm + 1 /\ TakeCore(c).core = c.core + 1
         /\ TakeCore(c).dclk = c.dclk /\ TakeCore(c).bootDclk = c.bootDclk
<1>1. PICK p \in Nat : p = c.pm + 1
  BY DEF Clk
<1>2. PICK q \in Nat : q = c.core + 1
  BY DEF Clk
<1>3. TakeCore(c) = [c EXCEPT !.pm = p, !.core = q, !.bootCore = FALSE]
  BY <1>1, <1>2 DEF TakeCore
<1>4. TakeCore(c) \in Clk
  BY <1>3 DEF Clk
<1> QED
  BY <1>1, <1>2, <1>3, <1>4 DEF Clk

\* Dropping them counts one less.
LEMMA DropCoreCounts ==
  ASSUME NEW c \in Clk
  PROVE  /\ DropCore(c) \in Clk
         /\ DropCore(c).pm = Less(c.pm) /\ DropCore(c).core = Less(c.core)
         /\ DropCore(c).dclk = c.dclk
         /\ DropCore(c).bootCore = c.bootCore /\ DropCore(c).bootDclk = c.bootDclk
<1>1. Less(c.pm) \in Nat /\ Less(c.core) \in Nat
  BY LessCounts DEF Clk
<1> QED
  BY <1>1 DEF DropCore, Clk

\* The same for the references of an enabled CRTC, dclk's among them.
LEMMA TakeAllCounts ==
  ASSUME NEW c \in Clk
  PROVE  /\ TakeAll(c) \in Clk
         /\ TakeAll(c).pm = c.pm + 1 /\ TakeAll(c).core = c.core + 1
         /\ TakeAll(c).dclk = c.dclk + 1
<1> DEFINE t == TakeCore(c)
<1>1. t \in Clk /\ t.pm = c.pm + 1 /\ t.core = c.core + 1 /\ t.dclk = c.dclk
  BY TakeCoreCounts
<1> HIDE DEF t
<1>2. PICK d \in Nat : d = c.dclk + 1
  BY DEF Clk
<1>3. TakeAll(c) = [t EXCEPT !.dclk = d, !.bootDclk = FALSE]
  BY <1>1, <1>2 DEF TakeAll, t
<1>4. TakeAll(c) \in Clk /\ TakeAll(c).pm = t.pm /\ TakeAll(c).core = t.core
      /\ TakeAll(c).dclk = d
  BY <1>1, <1>3 DEF Clk
<1> QED
  BY <1>1, <1>2, <1>4

\* Dropping all three clocks takes one reference from each and none from the
\* loader.
LEMMA DropAllCounts ==
  ASSUME NEW c \in Clk
  PROVE  /\ DropAll(c) \in Clk
         /\ DropAll(c).pm = Less(c.pm) /\ DropAll(c).core = Less(c.core)
         /\ DropAll(c).dclk = Less(c.dclk)
<1> DEFINE t == DropCore(c)
<1>1. /\ t \in Clk /\ t.pm = Less(c.pm) /\ t.core = Less(c.core) /\ t.dclk = c.dclk
  BY DropCoreCounts
<1> HIDE DEF t
<1>2. Less(t.dclk) \in Nat
  BY <1>1, LessCounts DEF Clk
<1>3. DropAll(c) = [t EXCEPT !.dclk = Less(@)]
  BY DEF DropAll, t
<1>4. DropAll(c) \in Clk /\ DropAll(c).pm = t.pm /\ DropAll(c).core = t.core
      /\ DropAll(c).dclk = Less(t.dclk)
  BY <1>1, <1>2, <1>3 DEF Clk
<1> QED
  BY <1>1, <1>4

\* What is taken and given back was not counted.
LEMMA TakeDrop ==
  ASSUME NEW c \in Clk
  PROVE  /\ DropCore(TakeCore(c)) \in Clk /\ DropAll(TakeAll(c)) \in Clk
         /\ DropCore(TakeCore(c)).pm = c.pm /\ DropCore(TakeCore(c)).core = c.core
         /\ DropCore(TakeCore(c)).dclk = c.dclk
         /\ DropCore(TakeCore(c)).bootDclk = c.bootDclk
         /\ DropAll(TakeAll(c)).pm = c.pm /\ DropAll(TakeAll(c)).core = c.core
         /\ DropAll(TakeAll(c)).dclk = c.dclk
<1>0. c.pm \in Nat /\ c.core \in Nat /\ c.dclk \in Nat
  BY DEF Clk
<1>1. \A n \in Nat : Less(n + 1) = n
  BY DEF Less
<1>2. /\ DropCore(TakeCore(c)) \in Clk
      /\ DropCore(TakeCore(c)).pm = Less(c.pm + 1)
      /\ DropCore(TakeCore(c)).core = Less(c.core + 1)
      /\ DropCore(TakeCore(c)).dclk = c.dclk
      /\ DropCore(TakeCore(c)).bootDclk = c.bootDclk
  BY TakeCoreCounts, DropCoreCounts
<1>3. /\ DropAll(TakeAll(c)) \in Clk
      /\ DropAll(TakeAll(c)).pm = Less(c.pm + 1)
      /\ DropAll(TakeAll(c)).core = Less(c.core + 1)
      /\ DropAll(TakeAll(c)).dclk = Less(c.dclk + 1)
  BY TakeAllCounts, DropAllCounts
<1> QED
  BY <1>0, <1>1, <1>2, <1>3
-----------------------------------------------------------------------------
(* Type correctness *)

\* How many references of a framebuffer are queued, and room for the one that
\* the commit in progress may add.
WorkInv ==
  /\ \A f \in Fbs : work.queued[f] + work.commited[f] <= MaxQueued
  /\ commit.pc \notin {"idle", "done"} /\ crtc.old \in Fbs =>
       work.queued[crtc.old] + work.commited[crtc.old] < MaxQueued

\* The end of a disable keeps the variables it changes in their types.
LEMMA AfterHoldType ==
  ASSUME TypeOK, AfterHold
  PROVE  hw' \in Hw /\ vop' \in VopState /\ clk' \in Clk /\ commit' \in Commit
<1> USE DEF TypeOK
<1>1. hw' \in Hw
  BY HwWrites DEF AfterHold, Write, Irqs
<1>2. vop' \in VopState
  BY DEF AfterHold, VopState
<1>3. clk' \in Clk
  BY DropAllCounts DEF AfterHold
<1>4. commit' \in Commit
  BY DEF AfterHold, Step, Commit, Pcs
<1> QED
  BY <1>1, <1>2, <1>3, <1>4

\* Each step of the commit thread keeps the variables in their types.
LEMMA CommitType ==
  ASSUME TypeOK, WorkInv, CommitStep
  PROVE  TypeOK'
<1> USE DEF TypeOK, history
<1>p. ASSUME NEW p \in Pcs, commit' = [commit EXCEPT !.pc = p] PROVE commit' \in Commit
  BY <1>p DEF Commit
<1>i. "FS" \in Irqs /\ "HOLD" \in Irqs
  BY DEF Irqs
<1>1. CASE vop_crtc_atomic_disable
  <2>1. hw' \in Hw
    <3>1. ClearAndEnable(Disable(hw, "FS"), "HOLD") \in Hw
      BY <1>i, HwWrites
    <3>2. \A h \in Hw : [h EXCEPT !.standby = TRUE] \in Hw
      BY DEF Hw
    <3> QED
      BY <1>1, <3>1, <3>2 DEF vop_crtc_atomic_disable, Write
  <2>2. vop' \in VopState
    BY <1>1 DEF vop_crtc_atomic_disable, VopState
  <2>3. upset' \subseteq Kinds \cup {"undo"}
    BY <1>1 DEF vop_crtc_atomic_disable
  <2> QED
    BY <1>1, <1>p, <2>1, <2>2, <2>3 DEF vop_crtc_atomic_disable, Step, Pcs
<1>2. CASE DisableHeld
  BY <1>2, AfterHoldType DEF DisableHeld, AfterHold
<1>3. CASE vop_enable
  <2>1. hw' \in Hw
    <3> DEFINE h == [hw EXCEPT !.win = vop_win_disable(@), !.cfg = TRUE, !.standby = TRUE]
    <3>1. h \in Hw
      BY WinWrites DEF Hw
    <3> HIDE DEF h
    <3>2. hw' = h \/ hw' = ClearAndEnable(h, "FS")
      BY <1>3 DEF vop_enable, h
    <3> QED
      BY <1>i, <3>1, <3>2, HwWrites
  <2>2. vop' \in VopState
    BY <1>3 DEF vop_enable, VopState
  <2>3. clk' \in Clk
    BY <1>3, TakeAllCounts, TakeDrop DEF vop_enable, DropLoader
  <2> QED
    BY <1>3, <1>p, <2>1, <2>2, <2>3 DEF vop_enable, Step, Pcs
<1>4. CASE PlaneReturn \/ FlushReturn
  BY <1>4, <1>p DEF PlaneReturn, FlushReturn, Step, Pcs
<1>5. CASE vop_crtc_atomic_enable
  <2>1. hw' \in Hw
    BY <1>5 DEF vop_crtc_atomic_enable, Write, Hw
  <2>2. commit' \in Commit
    BY <1>5 DEF vop_crtc_atomic_enable, Commit, Pcs
  <2> QED
    BY <1>5, <2>1, <2>2 DEF vop_crtc_atomic_enable
<1>6. CASE vop_crtc_atomic_begin
  <2>1. commit' \in Commit
    BY <1>6 DEF vop_crtc_atomic_begin, Commit, Pcs
  <2> QED
    BY <1>6, <2>1 DEF vop_crtc_atomic_begin
<1>7. CASE vop_crtc_gamma_set \/ vop_crtc_write_gamma_lut \/ vop_crtc_atomic_flush
  <2>1. hw' \in Hw
    BY <1>7 DEF vop_crtc_gamma_set, vop_crtc_write_gamma_lut, vop_crtc_atomic_flush,
       Write, Hw
  <2>2. commit' \in Commit
    BY <1>7 DEF vop_crtc_gamma_set, vop_crtc_write_gamma_lut, vop_crtc_atomic_flush,
       Step, Commit, Pcs
  <2> QED
    BY <1>7, <2>1, <2>2 DEF vop_crtc_gamma_set, vop_crtc_write_gamma_lut,
       vop_crtc_atomic_flush
<1>8. CASE GammaPoll
  <2>1. commit' \in Commit
    BY <1>8 DEF GammaPoll, Step, Commit, Pcs
  <2> QED
    BY <1>8, <2>1 DEF GammaPoll
<1>9. CASE vop_plane_atomic_disable \/ vop_plane_atomic_update
  <2>1. hw' \in Hw
    BY <1>9, WinWrites DEF vop_plane_atomic_disable, vop_plane_atomic_update, Write, Hw
  <2> QED
    BY <1>9, <1>p, <2>1 DEF vop_plane_atomic_disable, vop_plane_atomic_update, Step, Pcs
<1>10. CASE PlaneGeometry
  <2>1. hw' \in Hw
    BY <1>10 DEF PlaneGeometry, Write, Hw, Win, Crtc
  <2> QED
    BY <1>10, <1>p, <2>1 DEF PlaneGeometry, Step, Pcs
<1>11. CASE vop_wait_for_irq_handler
  BY <1>11, <1>p DEF vop_wait_for_irq_handler, Step, Pcs
<1>12. CASE FlushArm
  <2>1. hw' \in Hw
    BY <1>12, <1>i, HwWrites DEF FlushArm, VblankGet, Write
  <2>2. vop' \in VopState
    BY <1>12 DEF FlushArm, VopState
  <2> QED
    BY <1>12, <1>p, <2>1, <2>2 DEF FlushArm, Step, Pcs
<1>13. CASE FlushQueue
  <2>1. hw' \in Hw
    BY <1>13, <1>i, HwWrites DEF FlushQueue, VblankGet, Write
  <2>2. vop' \in VopState
    BY <1>13 DEF FlushQueue, VopState
  <2>3. work' \in Work
    <3>1. CASE crtc.old \in Fbs \ {crtc.fb}
      <4>1. work.queued[crtc.old] + 1 \in 0 .. MaxQueued
        BY <1>13, <3>1, BoundsAssumption DEF FlushQueue, WorkInv, Work
      <4>2. PICK n \in 0 .. MaxQueued : n = work.queued[crtc.old] + 1
        BY <4>1
      <4>3. work' = [work EXCEPT !.queued[crtc.old] = n]
        BY <1>13, <3>1, <4>2 DEF FlushQueue
      <4> QED
        BY <4>3, <3>1 DEF Work
    <3> QED
      BY <1>13, <3>1 DEF FlushQueue
  <2> QED
    BY <1>13, <1>p, <2>1, <2>2, <2>3 DEF FlushQueue, Step, Pcs
<1>14. CASE EndCommit
  <2>1. crtc' \in Crtc
    BY <1>14 DEF EndCommit, Crtc
  <2>2. commit' \in Commit
    BY <1>14 DEF EndCommit, Commit, Pcs
  <2> QED
    BY <1>14, <2>1, <2>2 DEF EndCommit
<1> QED
  BY <1>1, <1>2, <1>3, <1>4, <1>5, <1>6, <1>7, <1>8, <1>9, <1>10, <1>11, <1>12, <1>13,
     <1>14 DEF CommitStep

\* vop_initial leaves a state of the block.
LEMMA InitialType ==
  ASSUME TypeOK
  PROVE  InitialHw \in Hw
<1> USE DEF TypeOK
<1>1. Off \in Win
  BY DEF Off, Win
<1>2. ResetHw \in Hw
  BY <1>1, WinWrites DEF ResetHw, Hw
<1> QED
  BY <1>2 DEF InitialHw, Hw

\* So does binding, whether or not dclk can be enabled.
LEMMA BindType ==
  ASSUME TypeOK, NEW ok \in BOOLEAN, NEW d \in BOOLEAN, Bind(ok, d)
  PROVE  /\ hw' \in Hw /\ clk' \in Clk /\ vop' \in VopState /\ work' \in Work
         /\ crtc' \in Crtc /\ stranded' \in 0 .. MaxStranded
<1> USE DEF TypeOK
<1>1. hw' \in Hw
  BY InitialType DEF Bind, vop_initial
<1>2. clk' \in Clk
  BY TakeDrop, TakeAllCounts, TakeCoreCounts DEF Bind, vop_initial
<1>3. vop' \in VopState
  BY DEF Bind, NewVop, VopState, LoaderScans, Hw, Win
<1>4. work' \in Work /\ crtc' \in Crtc
  <2>1. NoRefs \in [Fbs -> 0 .. MaxQueued]
    BY BoundsAssumption DEF NoRefs
  <2> QED
    BY <2>1 DEF Bind, vop_create_crtc, Work, Crtc
<1>5. stranded' \in 0 .. MaxStranded
  BY BoundsAssumption DEF Bind, Strand
<1> QED
  BY <1>1, <1>2, <1>3, <1>4, <1>5

\* And every other step.
LEMMA TypeNext == TypeOK /\ WorkInv /\ [Next]_vars => TypeOK'
<1> SUFFICES ASSUME TypeOK, WorkInv, [Next]_vars PROVE TypeOK'
  OBVIOUS
<1> USE DEF TypeOK, history
<1>0. NoRefs \in [Fbs -> 0 .. MaxQueued]
  BY BoundsAssumption DEF NoRefs
<1>1. CASE FrameStart
  <2>1. hw' \in Hw
    <3>1. hw.raised \cup {"FS"} \in SUBSET Irqs /\ hw.raised \cup {"HOLD"} \in SUBSET Irqs
      BY DEF Hw, Irqs
    <3>2. CASE hw.standby
      BY <1>1, <3>1, <3>2 DEF FrameStart, Hw
    <3>3. CASE ~ hw.standby
      BY <1>1, <3>1, <3>3 DEF FrameStart, Hw
    <3> QED
      BY <3>2, <3>3
  <2> QED
    BY <1>1, <2>1 DEF FrameStart
<1>2. ASSUME NEW ok \in BOOLEAN, vop_bind(ok) PROVE TypeOK'
  <2>1. Bind(ok, TRUE)
    BY <1>2 DEF vop_bind
  <2> QED
    BY <1>2, <2>1, BindType DEF vop_bind, Bind
<1>3. CASE vop_initial_fails
  <2>1. hw' \in Hw /\ clk' \in Clk
    BY <1>3, InitialType, TakeDrop DEF vop_initial_fails
  <2>2. upset' \subseteq Kinds \cup {"undo"}
    BY <1>3 DEF vop_initial_fails, Kinds
  <2> QED
    BY <1>3, <2>1, <2>2 DEF vop_initial_fails
<1>4. CASE vop_unbind
  <2>1. vop' \in VopState
    BY <1>4 DEF vop_unbind, NewVop, VopState
  <2>2. work' \in Work /\ crtc' \in Crtc
    BY <1>4, <1>0 DEF vop_unbind, vop_create_crtc, Work, Crtc
  <2>3. stranded' \in 0 .. MaxStranded
    BY <1>4, BoundsAssumption DEF vop_unbind, Strand
  <2> QED
    BY <1>4, <2>1, <2>2, <2>3 DEF vop_unbind
<1>5. ASSUME NEW a \in BOOLEAN, NEW l \in BOOLEAN, NEW c \in BOOLEAN,
             NEW m \in BOOLEAN, NEW f \in Fbs \cup {NoFb}, StartCommit(a, f, l, c, m)
      PROVE  TypeOK'
  <2>1. crtc' \in Crtc
    BY <1>5 DEF StartCommit, Crtc
  <2>2. commit' \in Commit
    BY <1>5 DEF StartCommit, Commit, Crtc, Pcs
  <2> QED
    BY <1>5, <2>1, <2>2 DEF StartCommit
<1>6. CASE CommitStep
  BY <1>6, CommitType
<1>7. CASE vop_crtc_disable_vblank
  <2>1. hw' \in Hw
    BY <1>7, HwWrites DEF vop_crtc_disable_vblank, Write, Irqs
  <2>2. vop' \in VopState
    BY <1>7 DEF vop_crtc_disable_vblank, VopState
  <2> QED
    BY <1>7, <2>1, <2>2 DEF vop_crtc_disable_vblank
<1>8. CASE vop_isr
  <2>1. hw' \in Hw
    BY <1>8 DEF vop_isr, Hw, Irqs
  <2>2. isr' \in Isr
    BY <1>8 DEF vop_isr, vop_get_intr_type, Hw, Isr
  <2>3. clk' \in Clk
    BY <1>8, TakeCoreCounts DEF vop_isr
  <2> QED
    BY <1>8, <2>1, <2>2, <2>3 DEF vop_isr
<1>9. CASE vop_handle_vblank
  <2>1. vop' \in VopState
    BY <1>9 DEF vop_handle_vblank, VopState
  <2>2. isr' \in Isr
    BY <1>9 DEF vop_handle_vblank, Isr
  <2> QED
    BY <1>9, <2>1, <2>2 DEF vop_handle_vblank
<1>10. CASE IsrExit
  <2>1. vop' \in VopState
    BY <1>10 DEF IsrExit, VopState
  <2>2. isr' \in Isr
    BY <1>10 DEF IsrExit, Isr
  <2>3. clk' \in Clk
    BY <1>10, DropCoreCounts DEF IsrExit
  <2>4. work' \in Work
    <3>1. \A f \in Fbs : work.queued[f] + work.commited[f] \in 0 .. MaxQueued
      BY BoundsAssumption DEF WorkInv, Work
    <3>2. [f \in Fbs |-> work.queued[f] + work.commited[f]] \in [Fbs -> 0 .. MaxQueued]
      BY <3>1
    <3> QED
      BY <1>10, <1>0, <3>2 DEF IsrExit, Work
  <2> QED
    BY <1>10, <2>1, <2>2, <2>3, <2>4 DEF IsrExit
<1>11. ASSUME NEW f \in Fbs, vop_fb_unref_worker(f) PROVE TypeOK'
  <2>1. PICK n \in 0 .. MaxQueued : n = work.commited[f] - 1
    BY <1>11, BoundsAssumption DEF vop_fb_unref_worker, Work
  <2>2. work' = [work EXCEPT !.commited[f] = n]
    BY <1>11, <2>1 DEF vop_fb_unref_worker
  <2>3. work' \in Work
    BY <2>2 DEF Work
  <2> QED
    BY <1>11, <2>3 DEF vop_fb_unref_worker
<1>12. CASE UNCHANGED vars
  BY <1>12 DEF vars
<1>13. ASSUME NEW ok \in BOOLEAN, LoaderDclkFails(ok) PROVE TypeOK'
  <2>1. Bind(ok, FALSE) /\ upset' \subseteq Kinds \cup {"undo"}
    BY <1>13 DEF LoaderDclkFails, Kinds
  <2> QED
    BY <2>1, BindType DEF Bind
<1>14. CASE vop_enable_fails
  <2>1. clk' \in Clk /\ upset' \subseteq Kinds \cup {"undo"}
    BY <1>14, TakeDrop DEF vop_enable_fails, Kinds
  <2>2. commit' \in Commit
    BY <1>14 DEF vop_enable_fails, Step, Commit, Pcs
  <2> QED
    BY <1>14, <2>1, <2>2 DEF vop_enable_fails
<1>15. CASE HoldTimeout
  <2>1. AfterHold /\ upset' \subseteq Kinds \cup {"undo"}
    BY <1>15 DEF HoldTimeout, Kinds
  <2> QED
    BY <2>1, AfterHoldType DEF AfterHold
<1>16. CASE PollTimeout
  <2>1. commit' \in Commit /\ upset' \subseteq Kinds \cup {"undo"}
    BY <1>16 DEF PollTimeout, Kinds, Step, Commit, Pcs
  <2> QED
    BY <1>16, <2>1 DEF PollTimeout
<1> QED
  BY <1>1, <1>2, <1>3, <1>4, <1>5, <1>6, <1>7, <1>8, <1>9, <1>10, <1>11, <1>12,
     <1>13, <1>14, <1>15, <1>16
  DEF Next, IsrStep, UpsetStep

\* The queue of references never outgrows its bound: a commit starts only
\* with room for the framebuffer it may queue.
LEMMA WorkNext == TypeOK /\ WorkInv /\ [Next]_vars => WorkInv'
<1> SUFFICES ASSUME TypeOK, WorkInv, [Next]_vars PROVE WorkInv'
  OBVIOUS
<1> USE DEF TypeOK, WorkInv
<1>0. \A f \in Fbs : work.queued[f] \in Nat /\ work.commited[f] \in Nat
  BY BoundsAssumption DEF Work
<1>1. ASSUME UNCHANGED work, crtc'.old = crtc.old,
             commit.pc \in {"idle", "done"} => commit'.pc \in {"idle", "done"}
      PROVE  WorkInv'
  BY <1>1
<1>2. CASE FrameStart \/ vop_initial_fails \/ vop_crtc_disable_vblank \/ vop_isr
           \/ vop_handle_vblank \/ UNCHANGED vars
  BY <1>1, <1>2 DEF FrameStart, vop_initial_fails, vop_crtc_disable_vblank, vop_isr,
     vop_handle_vblank, vars
<1>3. ASSUME work' = [queued |-> NoRefs, commited |-> NoRefs], crtc'.old = NoFb
      PROVE  WorkInv'
  BY <1>3, FbsAssumption, BoundsAssumption DEF NoRefs
<1>4. ASSUME NEW ok \in BOOLEAN, NEW d \in BOOLEAN, Bind(ok, d) PROVE WorkInv'
  BY <1>3, <1>4 DEF Bind, vop_create_crtc
<1>5. CASE vop_unbind
  BY <1>3, <1>5 DEF vop_unbind, vop_create_crtc
<1>6. ASSUME NEW a \in BOOLEAN, NEW l \in BOOLEAN, NEW c \in BOOLEAN,
             NEW m \in BOOLEAN, NEW f \in Fbs \cup {NoFb}, StartCommit(a, f, l, c, m)
      PROVE  WorkInv'
  BY <1>6 DEF StartCommit
<1>7. CASE CommitStep
  <2>1. CASE FlushQueue
    <3>1. CASE crtc.old \in Fbs \ {crtc.fb}
      <4>1. /\ work'.queued = [work.queued EXCEPT ![crtc.old] = @ + 1]
            /\ work'.commited = work.commited
            /\ crtc' = crtc /\ commit'.pc = "done"
        BY <2>1, <3>1 DEF FlushQueue, Step, Work, Commit
      <4>2. work.queued[crtc.old] + work.commited[crtc.old] < MaxQueued
        BY <2>1, <3>1 DEF FlushQueue
      <4> QED
        BY <1>0, <4>1, <4>2, <3>1, BoundsAssumption DEF Work
    <3>2. CASE crtc.old \notin Fbs \ {crtc.fb}
      BY <1>1, <2>1, <3>2 DEF FlushQueue, Step, Commit
    <3> QED
      BY <3>1, <3>2
  <2>2. CASE EndCommit
    BY <2>2, FbsAssumption DEF EndCommit, Crtc, Commit
  <2>3. CASE ~ FlushQueue /\ ~ EndCommit
    BY <1>1, <1>7, <2>3 DEF CommitStep, vop_crtc_atomic_disable, DisableHeld, AfterHold,
       vop_enable, PlaneReturn, FlushReturn, Step, Commit, vop_crtc_atomic_enable,
       vop_crtc_atomic_begin, vop_crtc_gamma_set,
       GammaPoll, vop_crtc_write_gamma_lut, vop_plane_atomic_disable,
       vop_plane_atomic_update, PlaneGeometry, vop_crtc_atomic_flush,
       vop_wait_for_irq_handler, FlushArm
  <2> QED
    BY <2>1, <2>2, <2>3
<1>8. CASE IsrExit
  <2>1. CASE UNCHANGED work
    BY <1>1, <1>8, <2>1 DEF IsrExit
  <2>2. CASE work' = [queued |-> NoRefs,
                      commited |-> [f \in Fbs |-> work.queued[f] + work.commited[f]]]
    <3>1. \A f \in Fbs : work'.queued[f] + work'.commited[f] = work.queued[f] + work.commited[f]
      BY <1>0, <2>2 DEF NoRefs
    <3> QED
      BY <1>8, <3>1 DEF IsrExit
  <2> QED
    BY <1>8, <2>1, <2>2 DEF IsrExit
<1>9. ASSUME NEW f \in Fbs, vop_fb_unref_worker(f) PROVE WorkInv'
  <2>1. /\ work'.commited = [work.commited EXCEPT ![f] = @ - 1]
        /\ work'.queued = work.queued
    BY <1>9 DEF vop_fb_unref_worker, Work
  <2>2. \A g \in Fbs : /\ work'.commited[g] \in Nat
                       /\ work'.commited[g] <= work.commited[g]
    BY <1>0, <1>9, <2>1 DEF vop_fb_unref_worker, Work
  <2> QED
    BY <1>0, <1>9, <2>1, <2>2, BoundsAssumption DEF vop_fb_unref_worker
<1>10. CASE vop_enable_fails \/ HoldTimeout \/ PollTimeout
  BY <1>1, <1>10 DEF vop_enable_fails, HoldTimeout, AfterHold, PollTimeout
<1> QED
  BY <1>2, <1>4, <1>5, <1>6, <1>7, <1>8, <1>9, <1>10
  DEF Next, IsrStep, UpsetStep, vop_bind, LoaderDclkFails
-----------------------------------------------------------------------------
(* References, whatever fails *)

\* What has failed is remembered.
LEMMA UpsetGrows == [Next]_vars => upset \subseteq upset'
<1> SUFFICES ASSUME [Next]_vars PROVE upset \subseteq upset'
  OBVIOUS
<1>1. CASE CommitStep
  <2>1. CASE vop_crtc_atomic_disable
    BY <2>1 DEF vop_crtc_atomic_disable
  <2>2. CASE ~ vop_crtc_atomic_disable
    BY <1>1, <2>2 DEF CommitStep, DisableHeld, vop_enable, vop_crtc_atomic_enable,
       vop_crtc_atomic_begin, vop_crtc_gamma_set, GammaPoll, vop_crtc_write_gamma_lut,
       vop_plane_atomic_disable, PlaneReturn, vop_plane_atomic_update, PlaneGeometry,
       vop_crtc_atomic_flush, FlushReturn, vop_wait_for_irq_handler, FlushArm,
       FlushQueue, EndCommit, history
  <2> QED
    BY <2>1, <2>2
<1>2. CASE UpsetStep
  BY <1>2 DEF UpsetStep, LoaderDclkFails, vop_enable_fails, HoldTimeout, PollTimeout
<1>3. CASE vop_initial_fails
  BY <1>3 DEF vop_initial_fails
<1>4. CASE ~ CommitStep /\ ~ UpsetStep /\ ~ vop_initial_fails
  BY <1>4 DEF Next, IsrStep, FrameStart, vop_bind, vop_unbind, StartCommit,
     vop_crtc_disable_vblank, vop_isr, vop_handle_vblank, IsrExit, vop_fb_unref_worker,
     vars, history
<1> QED
  BY <1>1, <1>2, <1>3, <1>4

\* The steps of a commit that neither enable nor disable nor end.
LEMMA MiddleEffects ==
  ASSUME TypeOK, CommitStep, ~ vop_crtc_atomic_disable, ~ DisableHeld, ~ vop_enable
  PROVE  /\ commit.pc \notin {"idle", "disable", "hold", "enable"}
         /\ commit'.pc \notin {"disable", "hold", "enable"}
         /\ UNCHANGED <<clk, isr, crtc.active, vop.bound, vop.is_enabled,
                        vop.loader_active, lit, history>>
<1> USE DEF TypeOK
<1>1. commit.pc \notin {"idle", "disable", "hold", "enable"}
  BY DEF CommitStep, vop_crtc_atomic_enable,
     vop_crtc_atomic_begin, vop_crtc_gamma_set, GammaPoll, vop_crtc_write_gamma_lut,
     vop_plane_atomic_disable, PlaneReturn, vop_plane_atomic_update, PlaneGeometry,
     vop_crtc_atomic_flush, FlushReturn, vop_wait_for_irq_handler, FlushArm,
     FlushQueue, EndCommit
<1>2. commit'.pc \notin {"disable", "hold", "enable"}
  <2>1. CASE vop_crtc_atomic_enable
    BY <2>1 DEF vop_crtc_atomic_enable, Commit
  <2>2. CASE vop_crtc_atomic_begin
    BY <2>2 DEF vop_crtc_atomic_begin, Commit
  <2>3. CASE GammaPoll
    BY <2>3 DEF GammaPoll, Step, Commit
  <2>4. CASE vop_crtc_write_gamma_lut
    BY <2>4 DEF vop_crtc_write_gamma_lut, Step, Commit
  <2>5. CASE EndCommit
    BY <2>5 DEF EndCommit, Commit
  <2>6. CASE ~ (\/ vop_crtc_atomic_enable \/ vop_crtc_atomic_begin \/ GammaPoll
                \/ vop_crtc_write_gamma_lut \/ EndCommit)
    BY <2>6 DEF CommitStep, Step, Commit, vop_crtc_gamma_set,
       vop_plane_atomic_disable, PlaneReturn, vop_plane_atomic_update, PlaneGeometry,
       vop_crtc_atomic_flush, FlushReturn, vop_wait_for_irq_handler, FlushArm, FlushQueue
  <2> QED
    BY <2>1, <2>2, <2>3, <2>4, <2>5, <2>6
<1>3. UNCHANGED <<clk, isr, lit, history>>
  BY DEF CommitStep, vop_crtc_atomic_enable,
     vop_crtc_atomic_begin, vop_crtc_gamma_set, GammaPoll, vop_crtc_write_gamma_lut,
     vop_plane_atomic_disable, PlaneReturn, vop_plane_atomic_update, PlaneGeometry,
     vop_crtc_atomic_flush, FlushReturn, vop_wait_for_irq_handler, FlushArm,
     FlushQueue, EndCommit
<1>4. UNCHANGED <<crtc.active, vop.bound, vop.is_enabled, vop.loader_active>>
  BY DEF CommitStep, vop_crtc_atomic_enable, Crtc, VopState,
     vop_crtc_atomic_begin, vop_crtc_gamma_set, GammaPoll, vop_crtc_write_gamma_lut,
     vop_plane_atomic_disable, PlaneReturn, vop_plane_atomic_update, PlaneGeometry,
     vop_crtc_atomic_flush, FlushReturn, vop_wait_for_irq_handler, FlushArm,
     FlushQueue, EndCommit
<1> QED
  BY <1>1, <1>2, <1>3, <1>4

\* An enabled CRTC stays the one that a disable finds.
LEMMA HoldersNext == TypeOK /\ Holders /\ [Next]_vars => Holders'
<1> SUFFICES ASSUME TypeOK, Holders, [Next]_vars PROVE Holders'
  OBVIOUS
<1> USE DEF TypeOK, Holders
<1>g. upset \subseteq upset'
  BY UpsetGrows
<1>1. CASE FrameStart \/ vop_initial_fails \/ (\E f \in Fbs : vop_fb_unref_worker(f))
           \/ UNCHANGED vars
  <2>1. UNCHANGED <<vop, crtc, commit, isr>>
    BY <1>1 DEF FrameStart, vop_initial_fails, vop_fb_unref_worker, vars
  <2> QED
    BY <1>g, <2>1
<1>2. ASSUME NEW ok \in BOOLEAN, NEW d \in BOOLEAN, Bind(ok, d) PROVE Holders'
  BY <1>2 DEF Bind, vop_create_crtc, NewVop
<1>3. CASE vop_unbind
  BY <1>3 DEF vop_unbind, vop_create_crtc, NewVop
<1>4. ASSUME NEW a \in BOOLEAN, NEW l \in BOOLEAN, NEW c \in BOOLEAN,
             NEW m \in BOOLEAN, NEW f \in Fbs \cup {NoFb}, StartCommit(a, f, l, c, m)
      PROVE  Holders'
  BY <1>4 DEF StartCommit, Commit, Crtc
<1>5. CASE CommitStep
  <2>1. CASE vop_crtc_atomic_disable
    BY <2>1 DEF vop_crtc_atomic_disable, Step, Commit, VopState
  <2>2. CASE DisableHeld
    BY <2>2 DEF DisableHeld, AfterHold, Step, Commit, VopState
  <2>3. CASE vop_enable
    BY <2>3 DEF vop_enable, Step, Commit, VopState
  <2>4. CASE ~ vop_crtc_atomic_disable /\ ~ DisableHeld /\ ~ vop_enable
    BY <1>5, <2>4, MiddleEffects
  <2> QED
    BY <2>1, <2>2, <2>3, <2>4
<1>6. CASE vop_crtc_disable_vblank
  <2>1. vop.bound
    BY <1>6 DEF vop_crtc_disable_vblank, NewVop
  <2> QED
    BY <1>6, <1>g, <2>1 DEF vop_crtc_disable_vblank, VopState
<1>7. CASE IsrStep
  <2>1. vop.bound /\ vop'.bound /\ vop'.is_enabled = vop.is_enabled
    BY <1>7 DEF IsrStep, vop_isr, vop_handle_vblank, IsrExit, VopState
  <2>2. UNCHANGED <<crtc, commit>>
    BY <1>7 DEF IsrStep, vop_isr, vop_handle_vblank, IsrExit
  <2> QED
    BY <1>g, <2>1, <2>2
<1>8. CASE vop_enable_fails \/ PollTimeout
  BY <1>8 DEF vop_enable_fails, PollTimeout, Step, Commit
<1>9. CASE HoldTimeout
  BY <1>9 DEF HoldTimeout, AfterHold, Step, Commit, VopState
<1> QED
  BY <1>1, <1>2, <1>3, <1>4, <1>5, <1>6, <1>7, <1>8, <1>9
  DEF Next, UpsetStep, vop_bind, LoaderDclkFails

\* Every step that takes or drops references changes a holder with them.
LEMMA BalanceNext == TypeOK /\ RefInv /\ [Next]_vars => ReferencesBalance'
<1> SUFFICES ASSUME TypeOK, RefInv, [Next]_vars, upset' \cap {"dclk", "undo"} = {}
             PROVE  /\ clk'.dclk = B(vop'.is_enabled) + B(vop'.loader_active) + stranded'
                    /\ clk'.core = clk'.dclk + B(isr'.pc # "idle")
                    /\ clk'.pm = clk'.core
  BY DEF ReferencesBalance
<1> USE DEF TypeOK, RefInv
<1>g. upset \cap {"dclk", "undo"} = {}
  BY UpsetGrows
<1>n. clk \in Clk /\ clk.pm \in Nat /\ clk.core \in Nat /\ clk.dclk \in Nat /\ stranded \in Nat
  BY BoundsAssumption DEF Clk
<1>c. /\ clk.dclk = B(vop.is_enabled) + B(vop.loader_active) + stranded
      /\ clk.core = clk.dclk + B(isr.pc # "idle")
      /\ clk.pm = clk.core
  BY <1>g DEF ReferencesBalance
<1>v. vop.is_enabled \in BOOLEAN /\ vop.loader_active \in BOOLEAN
  BY DEF VopState
<1> DEFINE Goal == /\ clk'.dclk = B(vop'.is_enabled) + B(vop'.loader_active) + stranded'
                   /\ clk'.core = clk'.dclk + B(isr'.pc # "idle")
                   /\ clk'.pm = clk'.core
<1>s. ASSUME UNCHANGED <<clk.pm, clk.core, clk.dclk, isr.pc, vop.is_enabled,
                         vop.loader_active, stranded>>
      PROVE  Goal
  BY <1>c, <1>s
<1>1. CASE FrameStart \/ (\E f \in Fbs : vop_fb_unref_worker(f)) \/ UNCHANGED vars
           \/ vop_crtc_disable_vblank \/ PollTimeout
  BY <1>1, <1>s DEF FrameStart, vop_fb_unref_worker, vars, vop_crtc_disable_vblank,
     PollTimeout, VopState, history
<1>2. CASE vop_initial_fails
  <2>1. UNCHANGED <<clk.pm, clk.core, clk.dclk>>
    BY <1>2, TakeDrop DEF vop_initial_fails
  <2> QED
    BY <1>2, <1>s, <2>1 DEF vop_initial_fails
<1>3. ASSUME NEW ok \in BOOLEAN, Bind(ok, TRUE) PROVE Goal
  <2>1. ~ vop.is_enabled /\ ~ vop.loader_active /\ isr.pc = "idle" /\ isr' = isr
    BY <1>3 DEF Bind, Holders, NewVop
  <2>2. clk.dclk = stranded /\ clk.core = stranded /\ clk.pm = stranded
    BY <1>c, <1>n, <2>1 DEF B
  <2>3. LoaderScans \in BOOLEAN
    BY DEF LoaderScans, Hw, Win
  <2>4. ~ vop'.is_enabled /\ (vop'.loader_active <=> ok /\ LoaderScans)
        /\ vop'.is_enabled \in BOOLEAN /\ vop'.loader_active \in BOOLEAN
    BY <1>3, <2>3 DEF Bind, NewVop
  <2>5. stranded' = IF ~ ok /\ LoaderScans THEN stranded + 1 ELSE stranded
    BY <1>3 DEF Bind, Strand
  <2>6. CASE LoaderScans
    <3>1. clk'.pm = clk.pm + 1 /\ clk'.core = clk.core + 1 /\ clk'.dclk = clk.dclk + 1
      BY <1>3, <2>6, TakeAllCounts DEF Bind, vop_initial
    <3> QED
      BY <1>n, <2>1, <2>2, <2>4, <2>5, <2>6, <3>1 DEF B
  <2>7. CASE ~ LoaderScans
    <3>1. clk'.pm = clk.pm /\ clk'.core = clk.core /\ clk'.dclk = clk.dclk
      BY <1>3, <2>7, TakeDrop DEF Bind, vop_initial
    <3> QED
      BY <1>n, <2>1, <2>2, <2>4, <2>5, <2>7, <3>1 DEF B
  <2> QED
    BY <2>6, <2>7
<1>4. CASE vop_unbind
  <2>1. ~ vop.is_enabled /\ isr.pc = "idle" /\ UNCHANGED <<clk, isr>>
    BY <1>4 DEF vop_unbind, Holders
  <2>2. ~ vop'.is_enabled /\ ~ vop'.loader_active
        /\ vop'.is_enabled \in BOOLEAN /\ vop'.loader_active \in BOOLEAN
    BY <1>4 DEF vop_unbind, NewVop
  <2>3. stranded' = IF vop.loader_active THEN stranded + 1 ELSE stranded
    BY <1>4 DEF vop_unbind, Strand
  <2> QED
    BY <1>c, <1>n, <1>v, <2>1, <2>2, <2>3 DEF B
<1>5. ASSUME NEW a \in BOOLEAN, NEW l \in BOOLEAN, NEW c \in BOOLEAN,
             NEW m \in BOOLEAN, NEW f \in Fbs \cup {NoFb}, StartCommit(a, f, l, c, m)
      PROVE  Goal
  BY <1>5, <1>s DEF StartCommit, history
<1>h. ASSUME AfterHold PROVE Goal
  <2>1. vop.is_enabled
    BY <1>g, <1>h DEF AfterHold, Holders
  <2>2. /\ clk'.pm = Less(clk.pm) /\ clk'.core = Less(clk.core)
        /\ clk'.dclk = Less(clk.dclk)
    BY <1>h, <1>n, DropAllCounts DEF AfterHold
  <2>3. /\ ~ vop'.is_enabled /\ vop'.is_enabled \in BOOLEAN
        /\ UNCHANGED <<vop.loader_active, isr, stranded>>
    BY <1>h DEF AfterHold, VopState
  <2>4. clk.dclk > 0 /\ clk.core > 0 /\ clk.pm > 0
    BY <1>c, <1>n, <1>v, <2>1 DEF B
  <2>5. clk'.pm = clk.pm - 1 /\ clk'.core = clk.core - 1 /\ clk'.dclk = clk.dclk - 1
    BY <1>n, <2>2, <2>4, LessCounts
  <2> QED
    BY <1>c, <1>n, <1>v, <2>1, <2>3, <2>5 DEF B
<1>6. CASE CommitStep
  <2>1. CASE vop_crtc_atomic_disable
    BY <2>1, <1>s DEF vop_crtc_atomic_disable, VopState
  <2>2. CASE DisableHeld
    BY <1>h, <2>2 DEF DisableHeld
  <2>3. CASE vop_enable
    <3>1. ~ vop.is_enabled
      BY <2>3 DEF vop_enable, Holders
    <3>2. /\ vop'.is_enabled /\ ~ vop'.loader_active
          /\ vop'.is_enabled \in BOOLEAN /\ vop'.loader_active \in BOOLEAN
          /\ UNCHANGED <<isr, stranded>>
      BY <2>3 DEF vop_enable, VopState, history
    <3>3. CASE vop.loader_active
      <4>1. UNCHANGED <<clk.pm, clk.core, clk.dclk>>
        BY <2>3, <3>3, <1>n, TakeDrop DEF vop_enable, DropLoader
      <4> QED
        BY <1>c, <1>n, <1>v, <3>1, <3>2, <3>3, <4>1 DEF B
    <3>4. CASE ~ vop.loader_active
      <4>1. clk'.pm = clk.pm + 1 /\ clk'.core = clk.core + 1 /\ clk'.dclk = clk.dclk + 1
        BY <2>3, <3>4, <1>n, TakeAllCounts DEF vop_enable, DropLoader
      <4> QED
        BY <1>c, <1>n, <1>v, <3>1, <3>2, <3>4, <4>1 DEF B
    <3> QED
      BY <3>3, <3>4
  <2>4. CASE ~ vop_crtc_atomic_disable /\ ~ DisableHeld /\ ~ vop_enable
    BY <1>6, <1>s, <2>4, MiddleEffects DEF history
  <2> QED
    BY <2>1, <2>2, <2>3, <2>4
<1>7. CASE vop_isr
  <2>1. clk'.pm = clk.pm + 1 /\ clk'.core = clk.core + 1 /\ clk'.dclk = clk.dclk
    BY <1>7, <1>n, TakeCoreCounts DEF vop_isr
  <2>2. isr.pc = "idle" /\ isr'.pc = "handle" /\ UNCHANGED <<vop, stranded>>
    BY <1>7 DEF vop_isr, history
  <2> QED
    BY <1>c, <1>n, <1>v, <2>1, <2>2 DEF B
<1>8. CASE vop_handle_vblank
  <2>1. isr.pc = "handle" /\ isr'.pc = "exit"
        /\ UNCHANGED <<clk, stranded, vop.is_enabled, vop.loader_active>>
    BY <1>8 DEF vop_handle_vblank, VopState, Isr, history
  <2> QED
    BY <1>c, <1>n, <1>v, <2>1 DEF B
<1>9. CASE IsrExit
  <2>1. isr.pc = "exit" /\ isr'.pc = "idle"
        /\ UNCHANGED <<stranded, vop.is_enabled, vop.loader_active>>
    BY <1>9 DEF IsrExit, VopState, history
  <2>2. clk.core > 0 /\ clk.pm > 0
    BY <1>c, <1>n, <1>v, <2>1 DEF B
  <2>3. clk'.pm = clk.pm - 1 /\ clk'.core = clk.core - 1 /\ clk'.dclk = clk.dclk
    BY <1>9, <1>n, <2>2, DropCoreCounts, LessCounts DEF IsrExit
  <2> QED
    BY <1>c, <1>n, <1>v, <2>1, <2>3 DEF B
<1>10. CASE vop_enable_fails
  <2>1. UNCHANGED <<clk.pm, clk.core, clk.dclk>>
    BY <1>10, <1>n, TakeDrop DEF vop_enable_fails
  <2> QED
    BY <1>10, <1>s, <2>1 DEF vop_enable_fails
<1>11. CASE HoldTimeout
  BY <1>h, <1>11 DEF HoldTimeout
<1>12. ~ (\E ok \in BOOLEAN : LoaderDclkFails(ok))
  BY DEF LoaderDclkFails
<1> QED
  BY <1>1, <1>2, <1>3, <1>4, <1>5, <1>6, <1>7, <1>8, <1>9, <1>10, <1>11, <1>12
  DEF Next, IsrStep, UpsetStep, vop_bind
-----------------------------------------------------------------------------
(* The block and the logo, whatever fails *)

\* Enabling and disabling an interrupt leaves the rest of the block alone.
LEMMA IrqWrites ==
  ASSUME NEW h \in Hw, NEW irq \in Irqs
  PROVE  LET e == ClearAndEnable(h, irq)
             d == Disable(h, irq)
         IN  /\ e.raised = h.raised \ {irq} /\ e.enabled = h.enabled \cup {irq}
             /\ d.raised = h.raised /\ d.enabled = h.enabled \ {irq}
             /\ e.cfg = h.cfg /\ e.win = h.win /\ e.scan = h.scan
             /\ e.standby = h.standby /\ e.scanning = h.scanning
             /\ d.cfg = h.cfg /\ d.win = h.win /\ d.scan = h.scan
             /\ d.standby = h.standby /\ d.scanning = h.scanning
BY DEF Hw, ClearAndEnable, Disable

\* A frame start either takes the registers over, or stops the block.
LEMMA FrameEffects ==
  ASSUME TypeOK, FrameStart
  PROVE  /\ UNCHANGED <<hw.win, hw.standby, hw.enabled, clk, vop, work, crtc, commit, isr, lit>>
         /\ \/ /\ ~ hw.standby /\ hw'.scanning /\ ~ hw'.cfg
               /\ hw'.scan = IF hw.cfg THEN hw.win ELSE hw.scan
            \/ /\ hw.standby /\ hw.scanning /\ ~ hw'.scanning
               /\ UNCHANGED <<hw.cfg, hw.scan>>
               /\ "FS" \in hw'.raised <=> "FS" \in hw.raised
<1> USE DEF TypeOK, FrameStart
<1>1. CASE hw.standby
  <2>1. hw.scanning /\ hw' = [hw EXCEPT !.scanning = FALSE, !.raised = @ \cup {"HOLD"}]
    BY <1>1
  <2>2. UNCHANGED <<hw.win, hw.standby, hw.enabled, hw.cfg, hw.scan>> /\ ~ hw'.scanning
        /\ hw'.raised = hw.raised \cup {"HOLD"}
    BY <2>1 DEF Hw
  <2>3. "FS" \in hw'.raised <=> "FS" \in hw.raised
    BY <2>2
  <2> QED
    BY <1>1, <2>1, <2>2, <2>3
<1>2. CASE ~ hw.standby
  <2>1. CASE hw.cfg
    BY <1>2, <2>1 DEF Hw
  <2>2. CASE ~ hw.cfg
    BY <1>2, <2>2 DEF Hw
  <2> QED
    BY <2>1, <2>2
<1> QED
  BY <1>1, <1>2

\* A bind over a lit block changes only its interrupt registers, and keeps or
\* takes its clocks.
LEMMA LitBind ==
  ASSUME TypeOK, LoaderScans, CoreOn(clk), DclkOn(clk),
         NEW d \in BOOLEAN, vop_initial(d)
  PROVE  /\ UNCHANGED <<hw.win, hw.scan, hw.standby, hw.scanning>> /\ hw'.enabled = {}
         /\ CoreOn(clk') /\ DclkOn(clk')
<1> USE DEF TypeOK
<1>1. UNCHANGED <<hw.win, hw.scan, hw.standby, hw.scanning>> /\ hw'.enabled = {}
  BY DEF vop_initial, InitialHw, Hw
<1>2. clk.core \in Nat /\ clk.dclk \in Nat
  BY DEF Clk
<1>3. CASE d
  <2>1. clk'.core = clk.core + 1 /\ clk'.dclk = clk.dclk + 1
    BY <1>3, TakeAllCounts DEF vop_initial
  <2>2. clk'.core > 0 /\ clk'.dclk > 0
    BY <1>2, <2>1
  <2> QED
    BY <1>1, <2>2 DEF CoreOn, DclkOn
<1>4. CASE ~ d
  <2>1. clk'.core = clk.core + 1 /\ UNCHANGED <<clk.dclk, clk.bootDclk>>
    BY <1>4, TakeCoreCounts DEF vop_initial
  <2>2. clk'.core > 0
    BY <1>2, <2>1
  <2> QED
    BY <1>1, <2>1, <2>2 DEF CoreOn, DclkOn
<1> QED
  BY <1>3, <1>4

\* The loader's picture is left alone until the first modeset, as long as
\* vop_initial and vop_enable do not fail.
LEMMA LitNext == TypeOK /\ Holders /\ LitInv /\ [Next]_vars => LitInv'
<1> SUFFICES ASSUME TypeOK, Holders, LitInv, [Next]_vars,
                    lit', upset' \cap {"initial", "enable"} = {}
             PROVE  LitInv'
  BY DEF LitInv
<1> USE DEF TypeOK
<1>g. upset \cap {"initial", "enable"} = {}
  BY UpsetGrows
<1>l. lit
  BY DEF Next, FrameStart, vop_bind, LoaderDclkFails, Bind, vop_initial_fails, vop_unbind,
     StartCommit, CommitStep, vop_crtc_atomic_disable, DisableHeld, AfterHold, vop_enable,
     vop_crtc_atomic_enable, vop_crtc_atomic_begin, vop_crtc_gamma_set, GammaPoll,
     vop_crtc_write_gamma_lut, vop_plane_atomic_disable, PlaneReturn,
     vop_plane_atomic_update, PlaneGeometry, vop_crtc_atomic_flush, FlushReturn,
     vop_wait_for_irq_handler, FlushArm, FlushQueue, EndCommit, vop_crtc_disable_vblank,
     IsrStep, vop_isr, vop_handle_vblank, IsrExit, vop_fb_unref_worker, UpsetStep,
     vop_enable_fails, HoldTimeout, PollTimeout, vars
<1>i. /\ ~ vop.is_enabled /\ vop.vblank = "modeset"
      /\ isr.pc = "idle" /\ hw.enabled = {}
      /\ ~ hw.standby /\ hw.scanning /\ hw.win = LogoWin /\ hw.scan = LogoWin
      /\ commit.pc = "enable" \/ (commit.pc \in {"idle", "done"} /\ ~ crtc.active)
      /\ CoreOn(clk) /\ DclkOn(clk)
  BY <1>g, <1>l DEF LitInv, ClocksOn
<1> DEFINE Keeps ==
      /\ UNCHANGED <<hw.win, hw.scan, hw.standby, hw.scanning, isr>>
      /\ hw'.enabled = {} /\ CoreOn(clk') /\ DclkOn(clk')
<1>k. ASSUME Keeps, ~ vop'.is_enabled, vop'.vblank = "modeset",
             commit'.pc = "enable" \/ (commit'.pc \in {"idle", "done"} /\ ~ crtc'.active)
      PROVE  LitInv'
  BY <1>i, <1>k DEF LitInv, ClocksOn
<1>u. ASSUME UNCHANGED <<hw, clk, isr>> PROVE Keeps
  BY <1>i, <1>u DEF CoreOn, DclkOn
<1>1. CASE FrameStart
  <2>1. hw'.enabled = {} /\ UNCHANGED <<hw.win, hw.scan, hw.standby, hw.scanning>>
        /\ UNCHANGED <<clk, vop, crtc, commit, isr>>
    BY <1>1, <1>i, FrameEffects
  <2>2. Keeps
    BY <1>i, <2>1 DEF CoreOn, DclkOn
  <2> QED
    BY <1>i, <1>k, <2>1, <2>2
<1>2. ASSUME NEW ok \in BOOLEAN, NEW d \in BOOLEAN, Bind(ok, d) PROVE LitInv'
  <2>1. LoaderScans
    BY <1>i DEF LoaderScans, LogoWin
  <2>2. Keeps
    BY <1>2, <1>i, <2>1, LitBind DEF Bind
  <2>3. ~ vop'.is_enabled /\ vop'.vblank = "modeset"
    BY <1>2 DEF Bind, NewVop
  <2>4. commit'.pc = "idle" /\ ~ crtc'.active
    BY <1>2 DEF Bind, vop_create_crtc, Holders
  <2> QED
    BY <1>k, <2>2, <2>3, <2>4
<1>3. CASE vop_initial_fails
  <2>1. ~ clk.bootCore
    BY <1>3 DEF vop_initial_fails
  <2>2. UNCHANGED <<clk.core, clk.dclk, clk.bootDclk>>
    BY <1>3, TakeDrop DEF vop_initial_fails
  <2>3. CoreOn(clk') /\ DclkOn(clk')
    BY <1>i, <2>1, <2>2 DEF CoreOn, DclkOn
  <2>4. LoaderScans
    BY <1>i DEF LoaderScans, LogoWin
  <2>5. UNCHANGED <<hw.win, hw.scan, hw.standby, hw.scanning>> /\ hw'.enabled = {}
    BY <1>3, <1>i, <2>4 DEF vop_initial_fails, InitialHw, Hw
  <2>6. UNCHANGED <<vop, crtc, commit, isr>>
    BY <1>3 DEF vop_initial_fails
  <2>7. Keeps
    BY <2>3, <2>5, <2>6
  <2> QED
    BY <1>i, <1>k, <2>6, <2>7
<1>4. CASE vop_unbind
  <2>1. ~ vop'.is_enabled /\ vop'.vblank = "modeset" /\ ~ crtc'.active /\ commit'.pc = "idle"
    BY <1>4 DEF vop_unbind, NewVop, vop_create_crtc
  <2>2. Keeps
    BY <1>4, <1>u DEF vop_unbind
  <2> QED
    BY <1>k, <2>1, <2>2
<1>5. ASSUME NEW a \in BOOLEAN, NEW l \in BOOLEAN, NEW c \in BOOLEAN,
             NEW m \in BOOLEAN, NEW f \in Fbs \cup {NoFb}, StartCommit(a, f, l, c, m)
      PROVE  LitInv'
  <2>1. commit'.pc = "enable" \/ (commit'.pc = "done" /\ ~ crtc'.active)
    BY <1>5, <1>i DEF StartCommit, Commit, Crtc
  <2>2. Keeps /\ vop' = vop
    BY <1>5, <1>u DEF StartCommit
  <2> QED
    BY <1>i, <1>k, <2>1, <2>2
<1>6. CASE CommitStep
  <2>1. CASE EndCommit
    <3>1. commit'.pc = "idle" /\ ~ crtc'.active /\ UNCHANGED vop
      BY <2>1, <1>i DEF EndCommit, Commit, Crtc
    <3>2. Keeps
      BY <2>1, <1>u DEF EndCommit
    <3> QED
      BY <1>i, <1>k, <3>1, <3>2
  <2>2. CASE ~ EndCommit
    <3>1. ~ vop_enable
      BY DEF vop_enable
    <3> QED
      BY <1>6, <1>i, <2>2, <3>1 DEF CommitStep, vop_crtc_atomic_disable, DisableHeld,
         AfterHold,
         vop_crtc_atomic_enable, vop_crtc_atomic_begin, vop_crtc_gamma_set, GammaPoll,
         vop_crtc_write_gamma_lut, vop_plane_atomic_disable, PlaneReturn,
         vop_plane_atomic_update, PlaneGeometry, vop_crtc_atomic_flush, FlushReturn,
         vop_wait_for_irq_handler, FlushArm, FlushQueue
  <2> QED
    BY <2>1, <2>2
<1>7. CASE IsrStep \/ vop_crtc_disable_vblank
  BY <1>7, <1>i DEF IsrStep, vop_isr, vop_get_intr_type, vop_handle_vblank, IsrExit,
     vop_crtc_disable_vblank
<1>8. CASE (\E f \in Fbs : vop_fb_unref_worker(f)) \/ UNCHANGED vars
  <2>1. UNCHANGED <<hw, clk, vop, crtc, commit, isr>>
    BY <1>8 DEF vop_fb_unref_worker, vars
  <2>2. Keeps
    BY <1>u, <2>1
  <2> QED
    BY <1>i, <1>k, <2>1, <2>2
<1>9. ~ vop_enable_fails
  BY DEF vop_enable_fails
<1>10. ~ HoldTimeout /\ ~ PollTimeout
  BY <1>i DEF HoldTimeout, AfterHold, PollTimeout
<1> QED
  BY <1>1, <1>2, <1>3, <1>4, <1>5, <1>6, <1>7, <1>8, <1>9, <1>10
  DEF Next, UpsetStep, vop_bind, LoaderDclkFails
-----------------------------------------------------------------------------
(* Until something fails: the clocks and the hold interrupt *)

\* A driver that meets no failure has met none.
LEMMA HealthyStep == Healthy' /\ [Next]_vars => Healthy /\ [Normal]_vars
<1> SUFFICES ASSUME Healthy', [Next]_vars PROVE Healthy /\ [Normal]_vars
  OBVIOUS
<1>1. upset = {}
  BY UpsetGrows DEF Healthy
<1>2. ~ UpsetStep
  BY DEF Healthy, UpsetStep, LoaderDclkFails, vop_enable_fails, HoldTimeout, PollTimeout
<1> QED
  BY <1>1, <1>2 DEF Healthy, Next, Normal

\* What the counts of references come to.
LEMMA Counts ==
  ASSUME BusInv
  PROVE  /\ vop.is_enabled \/ vop.loader_active => clk.dclk > 0 /\ clk.core > 0 /\ clk.pm > 0
         /\ isr.pc # "idle" => clk.core > 0 /\ clk.pm > 0
<1> USE DEF BusInv, TypeOK, RefInv
<1>1. /\ clk.dclk = B(vop.is_enabled) + B(vop.loader_active) + stranded
      /\ clk.core = clk.dclk + B(isr.pc # "idle")
      /\ clk.pm = clk.core
  BY DEF ReferencesBalance, Healthy
<1>2. stranded \in Nat
  BY BoundsAssumption
<1>3. vop.is_enabled \in BOOLEAN /\ vop.loader_active \in BOOLEAN
  BY DEF VopState
<1> QED
  BY <1>1, <1>2, <1>3 DEF B

\* Wherever the commit thread writes to the block, the VOP is enabled and the
\* block takes the write.
LEMMA WritesReach ==
  ASSUME BusInv
  PROVE  /\ vop.is_enabled => CoreOn(clk)
         /\ commit.pc \notin {"idle", "enable", "done"} => vop.is_enabled /\ CoreOn(clk)
<1>1. vop.is_enabled => CoreOn(clk)
  BY Counts DEF CoreOn
<1>2. commit.pc \notin {"idle", "enable", "done"} => vop.is_enabled
  BY DEF BusInv, TypeOK, Commit, Pcs, PhaseInv, Working
<1> QED
  BY <1>1, <1>2

\* The steps of a commit that only write the window's and the gamma registers.
PaintStep ==
  \/ vop_crtc_atomic_begin \/ vop_crtc_gamma_set \/ GammaPoll
  \/ vop_crtc_write_gamma_lut \/ vop_plane_atomic_disable \/ PlaneReturn
  \/ vop_plane_atomic_update \/ PlaneGeometry \/ vop_crtc_atomic_flush
  \/ vop_wait_for_irq_handler

\* They touch neither the clocks nor the interrupts nor what is scanned.
LEMMA PaintEffects ==
  ASSUME TypeOK, PaintStep
  PROVE  /\ commit.pc \in Working \ {"modeset", "sync", "queue"}
         /\ commit'.pc \in Working \ {"modeset", "queue"}
         /\ UNCHANGED <<clk, vop, work, crtc, isr, lit>>
         /\ UNCHANGED <<hw.standby, hw.scanning, hw.scan, hw.raised, hw.enabled>>
<1> USE DEF TypeOK
<1>1. UNCHANGED <<clk, vop, work, crtc, isr, lit>>
  BY DEF PaintStep, vop_crtc_atomic_begin, vop_crtc_gamma_set, GammaPoll,
     vop_crtc_write_gamma_lut, vop_plane_atomic_disable, PlaneReturn,
     vop_plane_atomic_update, PlaneGeometry, vop_crtc_atomic_flush,
     vop_wait_for_irq_handler
<1>2. UNCHANGED <<hw.standby, hw.scanning, hw.scan, hw.raised, hw.enabled>>
  BY DEF PaintStep, vop_crtc_atomic_begin, vop_crtc_gamma_set, GammaPoll,
     vop_crtc_write_gamma_lut, vop_plane_atomic_disable, PlaneReturn,
     vop_plane_atomic_update, PlaneGeometry, vop_crtc_atomic_flush,
     vop_wait_for_irq_handler, Write, Hw, Write
<1>3. commit.pc \in Working \ {"modeset", "sync", "queue"}
  BY DEF PaintStep, vop_crtc_atomic_begin, vop_crtc_gamma_set, GammaPoll,
     vop_crtc_write_gamma_lut, vop_plane_atomic_disable, PlaneReturn,
     vop_plane_atomic_update, PlaneGeometry, vop_crtc_atomic_flush,
     vop_wait_for_irq_handler, Working
<1>4. commit'.pc \in Working \ {"modeset", "queue"}
  BY DEF PaintStep, vop_crtc_atomic_begin, vop_crtc_gamma_set, GammaPoll,
     vop_crtc_write_gamma_lut, vop_plane_atomic_disable, PlaneReturn,
     vop_plane_atomic_update, PlaneGeometry, vop_crtc_atomic_flush,
     vop_wait_for_irq_handler, Step, Commit, Working
<1> QED
  BY <1>1, <1>2, <1>3, <1>4

\* The other steps of a commit, by what they do to the driver's state. The VOP
\* of a driver that has met no failure is enabled at flush.
LEMMA CommitCases ==
  ASSUME BusInv, CommitStep
  PROVE  \/ PaintStep \/ vop_crtc_atomic_disable \/ DisableHeld \/ vop_enable
         \/ vop_crtc_atomic_enable \/ FlushArm \/ FlushQueue \/ EndCommit
<1>1. ~ FlushReturn
  BY DEF FlushReturn, BusInv, PhaseInv, Working
<1> QED
  BY <1>1 DEF CommitStep, PaintStep

\* vop_initial clears a lit block's interrupts and leaves the rest alone; it
\* resets a dark one.
LEMMA InitialEffects ==
  ASSUME BusInv, ~ vop.bound, hw' = InitialHw
  PROVE  /\ commit.pc = "idle" /\ ~ vop.is_enabled /\ (LoaderScans <=> lit)
         /\ hw'.raised = {} /\ hw'.enabled = {}
         /\ \/ lit /\ UNCHANGED <<hw.win, hw.scan, hw.standby, hw.scanning, hw.cfg>>
            \/ /\ ~ lit /\ hw'.win = Off /\ hw'.scan = Off /\ hw'.standby
               /\ ~ hw'.scanning /\ ~ hw'.cfg
<1> USE DEF BusInv, TypeOK
<1>1. commit.pc = "idle" /\ ~ vop.is_enabled
  BY DEF PhaseInv
<1>2. LoaderScans <=> lit
  BY <1>1 DEF LoaderScans, LogoInv, LogoWin, Hw
<1>3. hw'.raised = {} /\ hw'.enabled = {}
  BY DEF InitialHw, ResetHw, Hw
<1>4. CASE lit
  <2>1. UNCHANGED <<hw.win, hw.scan, hw.standby, hw.scanning, hw.cfg>>
    BY <1>2, <1>4 DEF InitialHw, Hw
  <2> QED
    BY <1>1, <1>2, <1>3, <1>4, <2>1
<1>5. CASE ~ lit
  <2>1. vop_win_disable(Off) = Off
    <3>1. Off \in Win /\ Off.en = FALSE
      BY DEF Off, Win
    <3>2. \A w \in Win : w.en = FALSE => [w EXCEPT !.en = FALSE] = w
      BY DEF Win
    <3> QED
      BY <3>1, <3>2 DEF vop_win_disable
  <2>2. hw'.win = Off /\ hw'.scan = Off /\ hw'.standby /\ ~ hw'.scanning /\ ~ hw'.cfg
    BY <1>2, <1>5, <2>1 DEF InitialHw, ResetHw, Hw
  <2> QED
    BY <1>1, <1>2, <1>3, <1>5, <2>2
<1> QED
  BY <1>4, <1>5

\* A bind of a lit block changes only its interrupt registers; of a dark one,
\* it resets it.
LEMMA BindEffects ==
  ASSUME BusInv, NEW ok \in BOOLEAN, vop_bind(ok)
  PROVE  /\ commit.pc = "idle" /\ ~ vop.is_enabled /\ UNCHANGED <<commit, isr, lit>>
         /\ isr.active = {}
         /\ ~ vop'.is_enabled /\ ~ vop'.event /\ vop'.vblank = "modeset"
         /\ vop'.bound = ok /\ (vop'.loader_active <=> ok /\ lit)
         /\ crtc'.old = NoFb /\ crtc'.fb = NoFb
         /\ hw'.raised = {} /\ hw'.enabled = {}
         /\ \/ lit /\ UNCHANGED <<hw.win, hw.scan, hw.standby, hw.scanning, hw.cfg>>
            \/ /\ ~ lit /\ hw'.win = Off /\ hw'.scan = Off /\ hw'.standby
               /\ ~ hw'.scanning /\ ~ hw'.cfg
<1>1. ~ vop.bound /\ hw' = InitialHw
  BY DEF vop_bind, Bind, vop_initial
<1>2. isr.active = {}
  BY <1>1 DEF BusInv, PhaseInv
<1>3. UNCHANGED <<commit, isr, lit>> /\ crtc'.old = NoFb /\ crtc'.fb = NoFb
  BY DEF vop_bind, Bind, vop_create_crtc
<1>4. /\ ~ vop'.is_enabled /\ ~ vop'.event /\ vop'.vblank = "modeset"
      /\ vop'.bound = ok /\ (vop'.loader_active <=> ok /\ LoaderScans)
  BY DEF vop_bind, Bind, NewVop, LoaderScans
<1> QED
  BY <1>1, <1>2, <1>3, <1>4, InitialEffects

\* A vop_initial that fails leaves the block, or does the same to it.
LEMMA FailEffects ==
  ASSUME BusInv, vop_initial_fails
  PROVE  /\ commit.pc = "idle" /\ ~ vop.is_enabled /\ ~ vop.bound
         /\ UNCHANGED <<vop, work, crtc, commit, isr, lit>>
         /\ \/ hw' = hw
            \/ /\ hw'.raised = {} /\ hw'.enabled = {}
               /\ \/ lit /\ UNCHANGED <<hw.win, hw.scan, hw.standby, hw.scanning, hw.cfg>>
                  \/ /\ ~ lit /\ hw'.win = Off /\ hw'.scan = Off /\ hw'.standby
                     /\ ~ hw'.scanning /\ ~ hw'.cfg
<1>1. ~ vop.bound /\ UNCHANGED <<vop, work, crtc, commit, isr, lit>>
      /\ (hw' = hw \/ hw' = InitialHw)
  BY DEF vop_initial_fails
<1>2. commit.pc = "idle" /\ ~ vop.is_enabled
  BY <1>1 DEF BusInv, PhaseInv
<1> QED
  BY <1>1, <1>2, InitialEffects

\* The places of the commit thread keep their meaning.
LEMMA PhaseNext == BusInv /\ [Normal]_vars => PhaseInv'
<1> SUFFICES ASSUME BusInv, [Normal]_vars PROVE PhaseInv'
  OBVIOUS
<1> USE DEF BusInv, TypeOK, PhaseInv
<1>w. commit.pc \notin {"idle", "enable", "done"} => vop.is_enabled /\ CoreOn(clk)
  BY WritesReach
<1>1. CASE FrameStart
  BY <1>1 DEF FrameStart, Hw
<1>2. ASSUME NEW ok \in BOOLEAN, vop_bind(ok) PROVE PhaseInv'
  BY <1>2 DEF vop_bind, Bind, vop_create_crtc, NewVop, Working
<1>3. CASE vop_initial_fails \/ UNCHANGED vars
  BY <1>3 DEF vop_initial_fails, vars, Working
<1>4. CASE vop_unbind
  BY <1>4 DEF vop_unbind, vop_create_crtc, NewVop, Working
<1>5. ASSUME NEW a \in BOOLEAN, NEW l \in BOOLEAN, NEW c \in BOOLEAN,
             NEW m \in BOOLEAN, NEW f \in Fbs \cup {NoFb}, StartCommit(a, f, l, c, m)
      PROVE  PhaseInv'
  BY <1>5 DEF StartCommit, Working, Commit, Crtc
<1>6. CASE CommitStep
  <2>1. CASE PaintStep
    BY <2>1, PaintEffects DEF Working
  <2>2. CASE vop_crtc_atomic_disable
    BY <1>w, <2>2 DEF vop_crtc_atomic_disable, Step, Commit, VopState, Working, Hw,
       ClearAndEnable, Disable, Write
  <2>3. CASE DisableHeld
    BY <1>w, <2>3 DEF DisableHeld, AfterHold, Step, Commit, VopState, Working, Hw,
       Disable, Write
  <2>4. CASE vop_enable
    BY <2>4 DEF vop_enable, Step, Commit, VopState, Working, Hw, ClearAndEnable
  <2>6. CASE vop_crtc_atomic_enable
    BY <1>w, <2>6 DEF vop_crtc_atomic_enable, Commit, Working, Hw, Write
  <2>7. CASE FlushArm
    BY <2>7 DEF FlushArm, Step, Commit, VopState, Working
  <2>8. CASE FlushQueue
    BY <2>8 DEF FlushQueue, Step, Commit, VopState, Working
  <2>9. CASE EndCommit
    BY <2>9 DEF EndCommit, Commit, Crtc, Working
  <2> QED
    BY <1>6, <2>1, <2>2, <2>3, <2>4, <2>6, <2>7, <2>8, <2>9, CommitCases
<1>7. CASE vop_crtc_disable_vblank
  BY <1>7 DEF vop_crtc_disable_vblank, VopState, Disable, Hw, Write
<1>8. CASE vop_isr
  BY <1>8 DEF vop_isr, Hw
<1>9. CASE vop_handle_vblank
  BY <1>9 DEF vop_handle_vblank, VopState, Isr
<1>10. CASE IsrExit
  BY <1>10 DEF IsrExit, VopState
<1>11. ASSUME NEW f \in Fbs, vop_fb_unref_worker(f) PROVE PhaseInv'
  BY <1>11 DEF vop_fb_unref_worker
<1> QED
  BY <1>1, <1>2, <1>3, <1>4, <1>5, <1>6, <1>7, <1>8, <1>9, <1>10, <1>11
  DEF Normal, IsrStep

\* The hold interrupt is seen once in a disable, and only for a stopped block.
LEMMA HoldNext == BusInv /\ [Normal]_vars => HoldInv'
<1> SUFFICES ASSUME BusInv, [Normal]_vars PROVE HoldInv'
  OBVIOUS
<1> USE DEF BusInv, TypeOK, HoldInv
<1>w. commit.pc \notin {"idle", "enable", "done"} => vop.is_enabled /\ CoreOn(clk)
  BY WritesReach
<1>1. CASE FrameStart
  <2>1. CASE hw.standby
    BY <1>1, <2>1 DEF FrameStart, Hw, Isr
  <2>2. CASE ~ hw.standby
    BY <1>1, <2>2 DEF FrameStart, Hw, Isr, PhaseInv
  <2> QED
    BY <2>1, <2>2
<1>2. ASSUME NEW ok \in BOOLEAN, vop_bind(ok) PROVE HoldInv'
  BY <1>2, BindEffects
<1>3. CASE vop_initial_fails
  BY <1>3, FailEffects
<1>4. CASE vop_unbind
  BY <1>4 DEF vop_unbind
<1>5. ASSUME NEW a \in BOOLEAN, NEW l \in BOOLEAN, NEW c \in BOOLEAN,
             NEW m \in BOOLEAN, NEW f \in Fbs \cup {NoFb}, StartCommit(a, f, l, c, m)
      PROVE  HoldInv'
  BY <1>5 DEF StartCommit, Commit
<1>6. CASE CommitStep
  <2>1. CASE PaintStep
    BY <2>1, PaintEffects DEF Working
  <2>2. CASE vop_crtc_atomic_disable
    BY <1>w, <2>2 DEF vop_crtc_atomic_disable, Step, Commit, VopState, Hw,
       ClearAndEnable, Disable, Write
  <2>3. CASE DisableHeld
    BY <1>w, <2>3 DEF DisableHeld, AfterHold, HoldSeen, Step, Commit, VopState, Hw,
       Disable, Write
  <2>4. CASE vop_enable
    BY <2>4 DEF vop_enable, Step, Commit, VopState, Hw, ClearAndEnable
  <2>6. CASE vop_crtc_atomic_enable
    BY <1>w, <2>6 DEF vop_crtc_atomic_enable, Commit, Hw, Write
  <2>7. CASE FlushArm
    BY <1>w, <2>7 DEF FlushArm, VblankGet, Step, Commit, VopState, Hw, ClearAndEnable,
       Write
  <2>8. CASE FlushQueue
    <3>1. commit.pc = "queue" /\ commit'.pc = "done" /\ isr' = isr
      BY <2>8 DEF FlushQueue, Step, Commit
    <3>2. "HOLD" \notin hw'.enabled
      <4>1. hw' = hw \/ hw' = ClearAndEnable(hw, "FS")
        BY <1>w, <2>8 DEF FlushQueue, VblankGet, Write
      <4>2. "HOLD" \notin hw.enabled
        BY <3>1
      <4>3. "HOLD" \notin ClearAndEnable(hw, "FS").enabled
        BY <4>2 DEF Hw, ClearAndEnable
      <4> QED
        BY <4>1, <4>2, <4>3
    <3> QED
      BY <3>1, <3>2
  <2>9. CASE EndCommit
    BY <2>9 DEF EndCommit, Commit
  <2> QED
    BY <1>6, <2>1, <2>2, <2>3, <2>4, <2>6, <2>7, <2>8, <2>9, CommitCases
<1>7. CASE vop_crtc_disable_vblank
  BY <1>7 DEF vop_crtc_disable_vblank, VopState, Disable, Hw, Write
<1>8. CASE vop_isr
  BY <1>8 DEF vop_isr, vop_get_intr_type, Hw
<1>9. CASE vop_handle_vblank
  BY <1>9 DEF vop_handle_vblank, VopState, Isr
<1>10. CASE IsrExit
  BY <1>10 DEF IsrExit, VopState
<1>11. ASSUME NEW f \in Fbs, vop_fb_unref_worker(f) PROVE HoldInv'
  BY <1>11 DEF vop_fb_unref_worker
<1>12. CASE UNCHANGED vars
  BY <1>12 DEF vars
<1> QED
  BY <1>1, <1>2, <1>3, <1>4, <1>5, <1>6, <1>7, <1>8, <1>9, <1>10, <1>11,
     <1>12
  DEF Normal, IsrStep

\* The loader's picture is left alone until the first modeset, and a block
\* that was switched off has stopped.
LEMMA LogoNext == BusInv /\ LitInv' /\ Healthy' /\ [Normal]_vars => LogoInv'
<1> SUFFICES ASSUME BusInv, LitInv', Healthy', [Normal]_vars PROVE LogoInv'
  OBVIOUS
<1> USE DEF BusInv, TypeOK, LogoInv
<1>w. commit.pc \notin {"idle", "enable", "done"} => vop.is_enabled /\ CoreOn(clk)
  BY WritesReach
<1>l. lit' => /\ ~ vop'.is_enabled /\ ~ hw'.standby /\ hw'.scanning
              /\ hw'.win = LogoWin /\ hw'.scan = LogoWin
  BY DEF LitInv, Healthy
<1>s. ASSUME UNCHANGED <<vop.loader_active, vop.bound, vop.is_enabled, lit>>,
             ~ lit /\ ~ vop.is_enabled => UNCHANGED <<hw.standby, hw.scanning>>
      PROVE  LogoInv'
  BY <1>l, <1>s
<1>1. CASE FrameStart
  BY <1>1, <1>s, FrameEffects
<1>2. ASSUME NEW ok \in BOOLEAN, vop_bind(ok) PROVE LogoInv'
  BY <1>2, <1>l, BindEffects
<1>3. CASE vop_initial_fails
  BY <1>3, <1>l, FailEffects
<1>4. CASE vop_unbind
  BY <1>4, <1>l DEF vop_unbind, NewVop, PhaseInv
<1>5. ASSUME NEW a \in BOOLEAN, NEW l \in BOOLEAN, NEW c \in BOOLEAN,
             NEW m \in BOOLEAN, NEW f \in Fbs \cup {NoFb}, StartCommit(a, f, l, c, m)
      PROVE  LogoInv'
  BY <1>5, <1>s DEF StartCommit
<1>6. CASE CommitStep
  <2>1. CASE PaintStep
    <3>1. vop.is_enabled
      BY <2>1, PaintEffects DEF PhaseInv
    <3> QED
      BY <2>1, <1>s, <3>1, PaintEffects
  <2>2. CASE vop_crtc_atomic_disable
    <3>1. /\ vop.is_enabled
          /\ UNCHANGED <<vop.loader_active, vop.bound, vop.is_enabled, lit>>
      BY <2>2 DEF vop_crtc_atomic_disable, VopState, PhaseInv
    <3> QED
      BY <1>s, <3>1
  <2>3. CASE DisableHeld
    <3>1. /\ vop.is_enabled /\ hw.standby /\ ~ hw.scanning
          /\ UNCHANGED <<vop.loader_active, vop.bound, lit>>
      BY <2>3 DEF DisableHeld, AfterHold, HoldSeen, HoldInv, VopState, PhaseInv
    <3>2. hw'.standby /\ ~ hw'.scanning
      BY <1>w, <2>3, <3>1 DEF DisableHeld, AfterHold, Write, Disable, Hw
    <3> QED
      BY <1>l, <3>1, <3>2
  <2>4. CASE vop_enable
    <3>1. vop'.is_enabled /\ ~ vop'.loader_active /\ ~ lit'
      BY <2>4 DEF vop_enable, VopState
    <3> QED
      BY <3>1
  <2>5. CASE EndCommit
    BY <1>s, <2>5 DEF EndCommit
  <2>6. CASE vop_crtc_atomic_enable \/ FlushArm \/ FlushQueue
    <3>1. vop.is_enabled
      BY <1>w, <2>6 DEF vop_crtc_atomic_enable, FlushArm, FlushQueue
    <3>2. UNCHANGED <<vop.loader_active, vop.bound, vop.is_enabled, lit>>
      BY <2>6 DEF vop_crtc_atomic_enable, FlushArm, FlushQueue, VopState
    <3> QED
      BY <1>s, <3>1, <3>2
  <2> QED
    BY <1>6, <2>1, <2>2, <2>3, <2>4, <2>5, <2>6, CommitCases
<1>7. CASE vop_crtc_disable_vblank
  BY <1>7, <1>s DEF vop_crtc_disable_vblank, VopState, Disable, Hw, Write
<1>8. CASE vop_isr
  BY <1>8, <1>s DEF vop_isr, Hw
<1>9. CASE vop_handle_vblank
  BY <1>9, <1>s DEF vop_handle_vblank, VopState
<1>10. CASE IsrExit
  BY <1>10, <1>s DEF IsrExit, VopState
<1>11. ASSUME NEW f \in Fbs, vop_fb_unref_worker(f) PROVE LogoInv'
  BY <1>11, <1>s DEF vop_fb_unref_worker
<1>12. CASE UNCHANGED vars
  BY <1>12, <1>s DEF vars
<1> QED
  BY <1>1, <1>2, <1>3, <1>4, <1>5, <1>6, <1>7, <1>8, <1>9, <1>10, <1>11, <1>12
  DEF Normal, IsrStep
-----------------------------------------------------------------------------
(* Until something fails: the picture *)

\* vop_enable's own references have the core clocks running when it is done.
LEMMA EnableClocks ==
  ASSUME BusInv, vop_enable
  PROVE  CoreOn(clk')
<1> USE DEF BusInv, TypeOK
<1>1. clk.core \in Nat
  BY DEF Clk
<1>2. CASE vop.loader_active
  <2>1. clk'.core = clk.core
    BY <1>2, TakeDrop DEF vop_enable, DropLoader
  <2>2. clk.core > 0
    BY <1>2, Counts
  <2> QED
    BY <2>1, <2>2 DEF CoreOn
<1>3. CASE ~ vop.loader_active
  <2>1. clk'.core = clk.core + 1
    BY <1>3, TakeAllCounts DEF vop_enable, DropLoader
  <2> QED
    BY <1>1, <2>1 DEF CoreOn
<1> QED
  BY <1>2, <1>3

\* What the window's registers hold at each place of a commit.
LEMMA WinNext == BusInv /\ WinInv /\ [Normal]_vars => WinInv'
<1> SUFFICES ASSUME BusInv, WinInv, [Normal]_vars PROVE WinInv'
  OBVIOUS
<1> USE DEF BusInv, TypeOK
<1>w. commit.pc \notin {"idle", "enable", "done"} => vop.is_enabled /\ CoreOn(clk)
  BY WritesReach
<1>0. hw.win \in Win
  BY DEF Hw
<1>1. CASE FrameStart
  BY <1>1, FrameEffects DEF WinInv, Shows
<1>2. ASSUME NEW ok \in BOOLEAN, vop_bind(ok) PROVE WinInv'
  BY <1>2, BindEffects DEF WinInv, Off
<1>3. CASE vop_initial_fails
  BY <1>3, FailEffects DEF WinInv, Off
<1>11. CASE UNCHANGED vars
  BY <1>11 DEF vars, WinInv, Shows
<1>4. CASE vop_unbind
  <2>1. ~ vop'.is_enabled /\ crtc'.old = NoFb /\ UNCHANGED <<hw, commit>>
        /\ commit.pc = "idle"
    BY <1>4 DEF vop_unbind, NewVop, vop_create_crtc
  <2> QED
    BY <2>1 DEF WinInv
<1>5. ASSUME NEW a \in BOOLEAN, NEW l \in BOOLEAN, NEW c \in BOOLEAN,
             NEW m \in BOOLEAN, NEW f \in Fbs \cup {NoFb}, StartCommit(a, f, l, c, m)
      PROVE  WinInv'
  <2>1. /\ commit.pc = "idle" /\ UNCHANGED <<hw, vop>>
        /\ crtc'.old = crtc.fb
    BY <1>5 DEF StartCommit
  <2>3. \/ commit'.pc \in {"disable", "begin"} /\ crtc.active
        \/ commit'.pc = "enable"
        \/ commit'.pc = "done" /\ ~ crtc.active
    BY <1>5 DEF StartCommit, Commit
  <2>2. vop.is_enabled <=> crtc.active
    BY <2>1 DEF PhaseInv
  <2> QED
    BY <2>1, <2>2, <2>3 DEF WinInv, Shows
<1>6. CASE CommitStep
  <2>1. CASE vop_crtc_atomic_begin \/ GammaPoll \/ vop_wait_for_irq_handler
    BY <2>1 DEF vop_crtc_atomic_begin, GammaPoll, vop_wait_for_irq_handler, Step,
       Commit, WinInv, Shows
  <2>2. CASE vop_crtc_gamma_set \/ vop_crtc_write_gamma_lut \/ vop_crtc_atomic_flush
    <3>1. UNCHANGED <<hw.win, hw.scan, crtc, vop>>
      BY <1>w, <2>2 DEF vop_crtc_gamma_set, vop_crtc_write_gamma_lut,
         vop_crtc_atomic_flush, Hw, Write
    <3> QED
      BY <2>2, <3>1 DEF vop_crtc_gamma_set, vop_crtc_write_gamma_lut,
         vop_crtc_atomic_flush, Step, Commit, WinInv, Shows
  <2>3. CASE vop_plane_atomic_disable
    <3>1. /\ ~ hw'.win.en /\ hw'.scan = hw.scan /\ commit'.pc = "flush"
          /\ crtc' = crtc /\ crtc.fb = NoFb
      BY <1>w, <2>3, <1>0 DEF vop_plane_atomic_disable, vop_win_disable, Hw, Win, Step,
         Commit, Write
    <3> QED
      BY <3>1 DEF WinInv, Shows
  <2>4. CASE vop_plane_atomic_update
    <3>1. /\ hw'.win.fb = crtc.fb /\ hw'.scan = hw.scan /\ commit'.pc = "geom"
          /\ crtc' = crtc /\ crtc.fb # NoFb
      BY <1>w, <2>4, <1>0 DEF vop_plane_atomic_update, WriteAddress, Hw, Win, Step,
         Commit, Write
    <3> QED
      BY <3>1 DEF WinInv
  <2>5. CASE PlaneGeometry
    <3>1. /\ hw'.win = [fb |-> crtc.fb, geom |-> crtc.fb, en |-> TRUE]
          /\ hw'.scan = hw.scan /\ commit'.pc = "flush" /\ crtc' = crtc /\ crtc.fb # NoFb
      BY <1>w, <2>5, <1>0 DEF PlaneGeometry, WinInv, Hw, Win, Step, Commit, Write
    <3> QED
      BY <3>1 DEF WinInv, Shows
  <2>6. CASE vop_crtc_atomic_disable
    <3>1. UNCHANGED <<hw.win, hw.scan>>
      BY <1>w, <2>6 DEF vop_crtc_atomic_disable, ClearAndEnable, Disable, Hw, Write
    <3> QED
      BY <2>6, <3>1 DEF vop_crtc_atomic_disable, Step, Commit, WinInv, Shows
  <2>7. CASE DisableHeld
    <3>1. UNCHANGED <<hw.win, hw.scan>> /\ ~ vop'.is_enabled
      BY <1>w, <2>7 DEF DisableHeld, AfterHold, Disable, Hw, VopState, Write
    <3> QED
      BY <2>7, <3>1 DEF DisableHeld, AfterHold, Step, Commit, WinInv
  <2>8. CASE vop_enable
    <3>1. ~ hw'.win.en /\ hw'.scan = hw.scan /\ commit'.pc = "modeset"
      BY <2>8, <1>0 DEF vop_enable, vop_win_disable, ClearAndEnable, Hw, Win, Step,
         Commit
    <3> QED
      BY <3>1 DEF WinInv
  <2>9. CASE vop_crtc_atomic_enable
    <3>1. /\ commit.pc = "modeset" /\ UNCHANGED <<hw.win, hw.scan>>
          /\ commit'.pc \in {"lut_off", "begin"}
      BY <1>w, <2>9 DEF vop_crtc_atomic_enable, Hw, Commit, Write
    <3> QED
      BY <3>1 DEF WinInv
  <2>10. CASE FlushArm
    <3>1. UNCHANGED <<hw.win, hw.scan, crtc>>
      BY <1>w, <2>10 DEF FlushArm, VblankGet, ClearAndEnable, Hw, Write
    <3> QED
      BY <2>10, <3>1 DEF FlushArm, Step, Commit, WinInv, Shows
  <2>11. CASE FlushQueue
    <3>1. hw' = hw \/ hw' = ClearAndEnable(hw, "FS")
      BY <1>w, <2>11 DEF FlushQueue, VblankGet, Write
    <3>2. UNCHANGED <<hw.win, hw.scan, crtc>>
      BY <2>11, <3>1, IrqWrites DEF FlushQueue, Irqs
    <3> QED
      BY <2>11, <3>2 DEF FlushQueue, Step, Commit, WinInv, Shows
  <2>12. CASE EndCommit
    <3>1. /\ commit.pc = "done" /\ commit'.pc = "idle" /\ UNCHANGED <<hw, vop>>
          /\ crtc'.old = NoFb /\ crtc'.fb = crtc.fb
      BY <2>12 DEF EndCommit, Commit, Crtc
    <3> QED
      BY <3>1 DEF WinInv, Shows
  <2>13. CASE PlaneReturn
    <3>1. /\ commit.pc = "plane" /\ commit'.pc = "flush" /\ UNCHANGED <<hw, vop, crtc>>
          /\ crtc.fb = NoFb /\ crtc.old = NoFb
      BY <1>w, <2>13 DEF PlaneReturn, Step, Commit
    <3> QED
      BY <3>1 DEF WinInv, Shows
  <2>14. ~ FlushReturn
    BY <1>w DEF FlushReturn
  <2> QED
    BY <1>6, <2>1, <2>2, <2>3, <2>4, <2>5, <2>6, <2>7, <2>8, <2>9, <2>10, <2>11, <2>12,
       <2>13, <2>14 DEF CommitStep
<1>7. CASE vop_crtc_disable_vblank
  <2>1. UNCHANGED <<hw.win, hw.scan, vop.is_enabled>>
    BY <1>7 DEF vop_crtc_disable_vblank, VopState, Disable, Hw, Write
  <2> QED
    BY <1>7, <2>1 DEF vop_crtc_disable_vblank, WinInv, Shows
<1>8. CASE vop_isr
  <2>1. UNCHANGED <<hw.win, hw.scan>>
    BY <1>8 DEF vop_isr, Hw
  <2> QED
    BY <1>8, <2>1 DEF vop_isr, WinInv, Shows
<1>9. CASE vop_handle_vblank \/ IsrExit
  <2>1. vop'.is_enabled = vop.is_enabled
    BY <1>9 DEF vop_handle_vblank, IsrExit, VopState
  <2> QED
    BY <1>9, <2>1 DEF vop_handle_vblank, IsrExit, WinInv, Shows
<1>10. ASSUME NEW f \in Fbs, vop_fb_unref_worker(f) PROVE WinInv'
  BY <1>10 DEF vop_fb_unref_worker, WinInv, Shows
<1> QED
  BY <1>1, <1>2, <1>3, <1>4, <1>5, <1>6, <1>7, <1>8, <1>9, <1>10, <1>11 DEF Normal, IsrStep

\* cfg_done: what is written is what is scanned from the next frame on.
LEMMA CfgNext == BusInv /\ WinInv /\ CfgInv /\ EventInv /\ [Normal]_vars => CfgInv'
<1> SUFFICES ASSUME BusInv, WinInv, CfgInv, EventInv, [Normal]_vars PROVE CfgInv'
  OBVIOUS
<1> USE DEF BusInv, TypeOK
<1>w. commit.pc \notin {"idle", "enable", "done"} => vop.is_enabled /\ CoreOn(clk)
  BY WritesReach
<1>0. hw.win \in Win
  BY DEF Hw
<1>s. ASSUME UNCHANGED <<hw.win, hw.scan, hw.standby, hw.scanning, hw.cfg>>,
             UNCHANGED <<commit, vop.is_enabled, vop.event>>
      PROVE  CfgInv'
  BY <1>s DEF CfgInv
<1>1. CASE FrameStart
  <2>1. commit.pc = "modeset" => hw.standby
    BY DEF PhaseInv
  <2> QED
    BY <1>1, <2>1, FrameEffects DEF CfgInv
<1>2. ASSUME NEW ok \in BOOLEAN, vop_bind(ok) PROVE CfgInv'
  <2>1. commit.pc = "idle" /\ commit' = commit /\ ~ vop'.is_enabled
    BY <1>2, BindEffects
  <2>2. CASE lit /\ UNCHANGED <<hw.win, hw.scan, hw.standby, hw.scanning, hw.cfg>>
    BY <2>1, <2>2 DEF CfgInv
  <2>3. CASE hw'.win = Off /\ hw'.scan = Off /\ hw'.standby
    BY <2>1, <2>3 DEF CfgInv
  <2> QED
    BY <1>2, <2>2, <2>3, BindEffects
<1>3. CASE vop_initial_fails
  <2>1. commit.pc = "idle" /\ commit' = commit /\ UNCHANGED vop /\ ~ vop.is_enabled
    BY <1>3, FailEffects
  <2>2. CASE hw' = hw \/ UNCHANGED <<hw.win, hw.scan, hw.standby, hw.scanning, hw.cfg>>
    BY <1>s, <2>1, <2>2
  <2>3. CASE hw'.win = Off /\ hw'.scan = Off /\ hw'.standby
    BY <2>1, <2>3 DEF CfgInv
  <2> QED
    BY <1>3, <2>2, <2>3, FailEffects
<1>12. CASE UNCHANGED vars
  BY <1>12, <1>s DEF vars
<1>4. CASE vop_unbind
  <2>1. ~ vop'.is_enabled /\ UNCHANGED <<hw, commit>> /\ commit.pc = "idle"
    BY <1>4 DEF vop_unbind, NewVop
  <2> QED
    BY <2>1 DEF CfgInv
<1>5. ASSUME NEW a \in BOOLEAN, NEW l \in BOOLEAN, NEW c \in BOOLEAN,
             NEW m \in BOOLEAN, NEW f \in Fbs \cup {NoFb}, StartCommit(a, f, l, c, m)
      PROVE  CfgInv'
  <2>1. commit.pc = "idle" /\ UNCHANGED <<hw, vop>> /\ ~ vop.event
    BY <1>5 DEF StartCommit
  <2>2. \/ commit'.pc \in {"disable", "begin"} /\ crtc.active
        \/ commit'.pc = "enable"
        \/ commit'.pc = "done" /\ ~ crtc.active
    BY <1>5 DEF StartCommit, Commit
  <2>3. vop.is_enabled <=> crtc.active
    BY <2>1 DEF PhaseInv
  <2> QED
    BY <2>1, <2>2, <2>3 DEF CfgInv
<1>6. CASE CommitStep
  <2>1. CASE vop_crtc_atomic_begin
    <3>1. /\ commit.pc = "begin" /\ UNCHANGED <<hw, vop>> /\ commit'.color = commit.color
          /\ commit'.pc = "plane" \/ (commit'.pc = "lut_off" /\ commit.color)
      BY <2>1 DEF vop_crtc_atomic_begin, Commit
    <3> QED
      BY <3>1 DEF CfgInv
  <2>2. CASE vop_crtc_gamma_set \/ vop_crtc_write_gamma_lut
    <3>1. /\ UNCHANGED <<hw.win, hw.scan, hw.standby, hw.scanning, vop>> /\ hw'.cfg
          /\ commit.pc \in {"lut_off", "lut_write"}
      BY <1>w, <2>2 DEF vop_crtc_gamma_set, vop_crtc_write_gamma_lut, Hw, Write
    <3>2. /\ commit'.pc \in {"lut_poll", "begin", "plane"} /\ commit'.color = commit.color
      BY <2>2 DEF vop_crtc_gamma_set, vop_crtc_write_gamma_lut, Step, Commit
    <3> QED
      BY <3>1, <3>2 DEF CfgInv
  <2>3. CASE GammaPoll
    <3>1. /\ commit.pc = "lut_poll" /\ UNCHANGED <<hw, vop>>
          /\ commit'.pc \in {"lut_write", "begin", "plane"} /\ commit'.color = commit.color
      BY <2>3 DEF GammaPoll, Step, Commit
    <3> QED
      BY <3>1 DEF CfgInv
  <2>4. CASE vop_plane_atomic_disable \/ vop_plane_atomic_update
    <3>1. /\ UNCHANGED <<hw.scan, hw.standby, hw.scanning, hw.cfg, vop>>
          /\ hw'.win.en => hw.win.en
      BY <1>w, <2>4, <1>0 DEF vop_plane_atomic_disable, vop_plane_atomic_update,
         vop_win_disable, WriteAddress, Hw, Win, Write
    <3>2. /\ commit.pc = "plane" /\ commit'.pc \in {"flush", "geom"}
          /\ commit'.color = commit.color
      BY <2>4 DEF vop_plane_atomic_disable, vop_plane_atomic_update, Step, Commit
    <3> QED
      BY <3>1, <3>2 DEF CfgInv
  <2>5. CASE PlaneGeometry
    <3>1. UNCHANGED <<hw.scan, hw.standby, hw.scanning, hw.cfg, vop>>
      BY <1>w, <2>5 DEF PlaneGeometry, Hw, Write
    <3>2. commit'.pc = "flush"
      BY <2>5 DEF PlaneGeometry, Step, Commit
    <3> QED
      BY <3>1, <3>2 DEF CfgInv
  <2>6. CASE vop_crtc_atomic_flush
    <3>1. hw'.cfg /\ commit'.pc = "poll"
      BY <1>w, <2>6 DEF vop_crtc_atomic_flush, Hw, Step, Commit, Write
    <3> QED
      BY <3>1 DEF CfgInv
  <2>7. CASE vop_wait_for_irq_handler
    <3>1. commit.pc = "poll" /\ commit'.pc = "sync" /\ UNCHANGED <<hw, vop>>
      BY <2>7 DEF vop_wait_for_irq_handler, Step, Commit
    <3> QED
      BY <3>1 DEF CfgInv
  <2>9. CASE vop_crtc_atomic_disable
    <3>1. /\ UNCHANGED <<hw.win, hw.scan, hw.cfg>> /\ hw'.standby
          /\ commit.pc = "disable" /\ commit'.pc = "hold"
      BY <1>w, <2>9 DEF vop_crtc_atomic_disable, ClearAndEnable, Disable, Hw, Step,
         Commit, Write
    <3> QED
      BY <3>1 DEF CfgInv
  <2>10. CASE DisableHeld
    <3>1. /\ UNCHANGED <<hw.win, hw.scan, hw.cfg, hw.standby, hw.scanning>>
          /\ ~ vop'.is_enabled
          /\ commit.pc = "hold" /\ commit'.pc \in {"enable", "done"}
      BY <1>w, <2>10 DEF DisableHeld, AfterHold, Disable, Hw, VopState, Step, Commit,
         Write
    <3> QED
      BY <3>1 DEF CfgInv
  <2>11. CASE vop_enable
    <3>1. hw'.cfg /\ hw'.standby /\ commit'.pc = "modeset"
      BY <2>11 DEF vop_enable, ClearAndEnable, Hw, Step, Commit
    <3> QED
      BY <3>1 DEF CfgInv
  <2>12. CASE vop_crtc_atomic_enable
    <3>1. /\ commit.pc = "modeset" /\ UNCHANGED <<hw.win, hw.cfg>>
          /\ commit'.pc \in {"lut_off", "begin"}
      BY <1>w, <2>12 DEF vop_crtc_atomic_enable, Hw, Commit, Write
    <3> QED
      BY <3>1 DEF CfgInv, WinInv
  <2>13. CASE FlushArm
    <3>1. UNCHANGED <<hw.win, hw.scan, hw.cfg, hw.standby, hw.scanning>>
      BY <1>w, <2>13 DEF FlushArm, VblankGet, ClearAndEnable, Hw, Write
    <3>2. vop'.event /\ commit.pc = "sync" /\ commit'.pc = "queue"
      BY <2>13 DEF FlushArm, VopState, Step, Commit
    <3> QED
      BY <3>1, <3>2 DEF CfgInv
  <2>14. CASE FlushQueue
    <3>1. hw' = hw \/ hw' = ClearAndEnable(hw, "FS")
      BY <1>w, <2>14 DEF FlushQueue, VblankGet, Write
    <3>2. UNCHANGED <<hw.win, hw.scan, hw.cfg, hw.standby, hw.scanning>>
      BY <3>1, IrqWrites DEF Irqs
    <3>3. UNCHANGED <<vop.is_enabled, vop.event>> /\ commit.pc = "queue" /\ commit'.pc = "done"
      BY <2>14 DEF FlushQueue, VopState, Step, Commit
    <3> QED
      BY <3>2, <3>3 DEF CfgInv
  <2>15. CASE EndCommit
    <3>1. commit.pc = "done" /\ commit'.pc = "idle" /\ UNCHANGED <<hw, vop>>
      BY <2>15 DEF EndCommit, Commit
    <3> QED
      BY <3>1 DEF CfgInv
  <2>8. CASE PlaneReturn
    <3>1. commit.pc = "plane" /\ commit'.pc = "flush" /\ UNCHANGED <<hw, vop>>
      BY <2>8 DEF PlaneReturn, Step, Commit
    <3> QED
      BY <3>1 DEF CfgInv
  <2>16. ~ FlushReturn
    BY <1>w DEF FlushReturn
  <2> QED
    BY <1>6, <2>1, <2>2, <2>3, <2>4, <2>5, <2>6, <2>7, <2>8, <2>9, <2>10, <2>11, <2>12,
       <2>13, <2>14, <2>15, <2>16 DEF CommitStep
<1>7. CASE vop_crtc_disable_vblank
  BY <1>7, <1>s DEF vop_crtc_disable_vblank, VopState, Disable, Hw, Write
<1>8. CASE vop_isr
  BY <1>8, <1>s DEF vop_isr, Hw
<1>9. CASE vop_handle_vblank
  <2>1. /\ vop'.is_enabled = vop.is_enabled /\ UNCHANGED <<hw, commit>>
        /\ vop'.event <=> (vop.event /\ "FS" \notin isr.active)
    BY <1>9 DEF vop_handle_vblank, VopState
  <2>2. vop.event /\ hw.cfg => vop'.event
    BY <2>1 DEF EventInv
  <2> QED
    BY <2>1, <2>2 DEF CfgInv
<1>10. CASE IsrExit
  BY <1>10, <1>s DEF IsrExit, VopState
<1>11. ASSUME NEW f \in Fbs, vop_fb_unref_worker(f) PROVE CfgInv'
  BY <1>11, <1>s DEF vop_fb_unref_worker
<1> QED
  BY <1>1, <1>2, <1>3, <1>4, <1>5, <1>6, <1>7, <1>8, <1>9, <1>10, <1>11,
     <1>12
  DEF Normal, IsrStep

\* The event stays unsent until a frame start that came after cfg_done.
LEMMA EventNext == BusInv /\ EventInv /\ [Normal]_vars => EventInv'
<1> SUFFICES ASSUME BusInv, EventInv, [Normal]_vars PROVE EventInv'
  OBVIOUS
<1> USE DEF BusInv, TypeOK, vop_get_intr_type
<1>w. commit.pc \notin {"idle", "enable", "done"} => vop.is_enabled /\ CoreOn(clk)
  BY WritesReach
<1>1. CASE FrameStart
  BY <1>1, FrameEffects DEF EventInv
<1>2. ASSUME NEW ok \in BOOLEAN, vop_bind(ok) PROVE EventInv'
  BY <1>2, BindEffects DEF EventInv
<1>3. CASE vop_initial_fails
  BY <1>3, FailEffects DEF EventInv
<1>12. CASE UNCHANGED vars
  BY <1>12 DEF vars, EventInv
<1>4. CASE vop_unbind
  <2>1. ~ vop.is_enabled /\ commit.pc = "idle"
    BY <1>4 DEF vop_unbind, PhaseInv
  <2>2. ~ vop'.is_enabled /\ ~ vop'.event /\ vop'.vblank = "modeset"
        /\ UNCHANGED <<hw, commit>>
    BY <1>4 DEF vop_unbind, NewVop
  <2> QED
    BY <2>1, <2>2 DEF EventInv
<1>5. ASSUME NEW a \in BOOLEAN, NEW l \in BOOLEAN, NEW c \in BOOLEAN,
             NEW m \in BOOLEAN, NEW f \in Fbs \cup {NoFb}, StartCommit(a, f, l, c, m)
      PROVE  EventInv'
  <2>1. /\ ~ vop.event /\ UNCHANGED <<hw, vop, isr>>
        /\ commit'.pc \in {"disable", "begin", "enable", "done"}
    BY <1>5 DEF StartCommit, Commit
  <2> QED
    BY <2>1 DEF EventInv
<1>6. CASE CommitStep
  <2>1. CASE vop_wait_for_irq_handler
    <3>1. commit.pc = "poll" /\ commit'.pc = "sync" /\ UNCHANGED <<hw, vop, isr>>
          /\ "FS" \notin vop_get_intr_type
      BY <2>1 DEF vop_wait_for_irq_handler, Step, Commit
    <3> QED
      BY <3>1 DEF EventInv
  <2>2. CASE PaintStep /\ ~ vop_wait_for_irq_handler
    <3>1. commit'.pc # "sync"
      BY <2>2 DEF PaintStep, vop_crtc_atomic_begin, vop_crtc_gamma_set, GammaPoll,
         vop_crtc_write_gamma_lut, vop_plane_atomic_disable, PlaneReturn,
         vop_plane_atomic_update, PlaneGeometry, vop_crtc_atomic_flush, Step, Commit
    <3> QED
      BY <2>2, <3>1, PaintEffects DEF EventInv, Working
  <2>3. CASE vop_crtc_atomic_disable
    <3>1. commit.pc = "disable" /\ commit'.pc = "hold" /\ vop'.vblank = "modeset"
          /\ UNCHANGED <<vop.event, vop.is_enabled, isr>>
      BY <2>3 DEF vop_crtc_atomic_disable, Step, Commit, VopState
    <3>2. "FS" \notin hw'.enabled
      BY <1>w, <2>3 DEF vop_crtc_atomic_disable, ClearAndEnable, Disable, Hw, Write
    <3> QED
      BY <3>1, <3>2 DEF EventInv
  <2>4. CASE DisableHeld
    <3>1. /\ commit.pc = "hold" /\ commit'.pc \in {"enable", "done"}
          /\ ~ vop'.is_enabled /\ UNCHANGED <<vop.event, vop.vblank, isr>>
      BY <2>4 DEF DisableHeld, AfterHold, Step, Commit, VopState
    <3>2. "FS" \in hw'.enabled <=> "FS" \in hw.enabled
      BY <1>w, <2>4 DEF DisableHeld, AfterHold, Disable, Hw, Write
    <3> QED
      BY <3>1, <3>2 DEF EventInv
  <2>5. CASE vop_enable
    <3>1. /\ commit.pc = "enable" /\ commit'.pc = "modeset"
          /\ vop'.is_enabled /\ UNCHANGED <<vop.event, isr>>
          /\ vop'.vblank = IF VblankUsers THEN "on" ELSE "off"
      BY <2>5 DEF vop_enable, Step, Commit, VopState
    <3>2. ~ vop.is_enabled
      BY <3>1 DEF PhaseInv
    <3>3. "FS" \notin hw.enabled /\ ~ vop.event
      BY <3>1, <3>2 DEF EventInv
    <3>4. hw'.enabled = IF VblankUsers THEN hw.enabled \cup {"FS"} ELSE hw.enabled
      BY <2>5, EnableClocks DEF vop_enable, ClearAndEnable, Hw
    <3> QED
      BY <3>1, <3>3, <3>4 DEF EventInv
  <2>7. CASE vop_crtc_atomic_enable
    <3>1. /\ commit.pc = "modeset" /\ UNCHANGED <<hw.enabled, vop, isr>>
          /\ commit'.pc \in {"lut_off", "begin"}
      BY <1>w, <2>7 DEF vop_crtc_atomic_enable, Hw, Commit, Write
    <3> QED
      BY <3>1 DEF EventInv
  <2>8. CASE FlushArm
    <3>1. /\ commit.pc = "sync" /\ commit'.pc = "queue" /\ isr.pc = "idle" /\ isr' = isr
          /\ vop'.event /\ vop'.vblank = "on" /\ vop'.is_enabled = vop.is_enabled
          /\ vop.vblank # "modeset"
      BY <1>w, <2>8 DEF FlushArm, VblankGet, Step, Commit, VopState, Write
    <3>2. vop.is_enabled /\ isr.active = {}
      BY <3>1 DEF PhaseInv, Working
    <3>3. hw' = IF vop.vblank = "off" THEN ClearAndEnable(hw, "FS") ELSE hw
      BY <1>w, <2>8 DEF FlushArm, VblankGet, Write
    <3>4. CASE vop.vblank = "off"
      <4>1. "FS" \in hw'.enabled /\ "FS" \notin hw'.raised
        BY <3>3, <3>4, IrqWrites DEF Irqs
      <4> QED
        BY <3>1, <3>2, <4>1 DEF EventInv
    <3>5. CASE vop.vblank # "off"
      <4>1. vop.vblank = "on"
        BY <3>1, <3>5 DEF VopState
      <4> QED
        BY <3>1, <3>2, <3>3, <3>5, <4>1 DEF EventInv
    <3> QED
      BY <3>4, <3>5
  <2>9. CASE FlushQueue
    <3>1. /\ commit.pc = "queue" /\ commit'.pc = "done" /\ isr' = isr
          /\ UNCHANGED <<vop.event, vop.is_enabled>>
      BY <2>9 DEF FlushQueue, Step, Commit, VopState
    <3>2. CASE UNCHANGED <<hw, vop>>
      BY <3>1, <3>2 DEF EventInv
    <3>3. CASE VblankGet /\ vop'.vblank = "on"
      <4>1. vop.is_enabled
        BY <3>1 DEF PhaseInv, Working
      <4>2. CASE vop.vblank = "off"
        <5>1. "FS" \in hw'.enabled /\ "FS" \notin hw'.raised
          BY <1>w, <3>1, <3>3, <4>2, IrqWrites DEF VblankGet, Irqs, Write
        <5> QED
          BY <3>1, <3>3, <4>1, <4>2, <5>1 DEF EventInv
      <4>3. CASE vop.vblank # "off"
        <5>1. vop.vblank = "on" /\ hw' = hw
          BY <1>w, <3>3, <4>3 DEF VblankGet, VopState, Write
        <5> QED
          BY <3>1, <3>3, <4>1, <5>1 DEF EventInv
      <4> QED
        BY <4>2, <4>3
    <3> QED
      BY <2>9, <3>2, <3>3 DEF FlushQueue, VopState
  <2>10. CASE EndCommit
    <3>1. commit.pc = "done" /\ commit'.pc = "idle" /\ UNCHANGED <<hw, vop, isr>>
      BY <2>10 DEF EndCommit, Commit
    <3> QED
      BY <3>1 DEF EventInv
  <2> QED
    BY <1>6, <2>1, <2>2, <2>3, <2>4, <2>5, <2>7, <2>8, <2>9, <2>10, CommitCases
<1>7. CASE vop_crtc_disable_vblank
  <2>1. ~ vop.event /\ vop.vblank = "on"
    BY <1>7 DEF vop_crtc_disable_vblank, VblankUsers
  <2>2. vop'.vblank = "off" /\ UNCHANGED <<vop.event, vop.is_enabled, commit, isr>>
    BY <1>7 DEF vop_crtc_disable_vblank, VopState
  <2>4. CoreOn(clk)
    BY <2>1, WritesReach DEF EventInv
  <2>3. "FS" \notin hw'.enabled
    BY <1>7, <2>4 DEF vop_crtc_disable_vblank, Disable, Hw, Write
  <2> QED
    BY <2>1, <2>2, <2>3 DEF EventInv
<1>8. CASE vop_isr
  <2>1. /\ UNCHANGED <<hw.cfg, hw.enabled, vop, commit>>
        /\ hw'.raised = hw.raised \ vop_get_intr_type
        /\ isr'.active = vop_get_intr_type
    BY <1>8 DEF vop_isr, Hw
  <2> QED
    BY <2>1 DEF EventInv
<1>9. CASE vop_handle_vblank
  <2>1. /\ UNCHANGED <<hw, commit, vop.is_enabled, vop.vblank, isr.active>>
        /\ vop'.event => vop.event
    BY <1>9 DEF vop_handle_vblank, VopState, Isr
  <2> QED
    BY <2>1 DEF EventInv
<1>10. CASE IsrExit
  <2>1. /\ UNCHANGED <<hw, commit, vop.is_enabled, vop.vblank, vop.event>>
        /\ isr'.active = {}
    BY <1>10 DEF IsrExit, VopState
  <2> QED
    BY <2>1 DEF EventInv
<1>11. ASSUME NEW f \in Fbs, vop_fb_unref_worker(f) PROVE EventInv'
  BY <1>11 DEF vop_fb_unref_worker, EventInv
<1> QED
  BY <1>1, <1>2, <1>3, <1>4, <1>5, <1>6, <1>7, <1>8, <1>9, <1>10, <1>11,
     <1>12
  DEF Normal, IsrStep

\* What the block scans is referenced: by the plane's state, by a commit's old
\* state, or by the queue while the frame that drops it has not started.
LEMMA ScanNext ==
  BusInv /\ WinInv /\ CfgInv /\ EventInv /\ ScanInv /\ [Normal]_vars => ScanInv'
<1> SUFFICES ASSUME BusInv, WinInv, CfgInv, EventInv, ScanInv, [Normal]_vars PROVE ScanInv'
  OBVIOUS
<1> USE DEF BusInv, TypeOK
<1>w. commit.pc \notin {"idle", "enable", "done"} => vop.is_enabled /\ CoreOn(clk)
  BY WritesReach
<1>s. ASSUME UNCHANGED <<hw.scan, hw.cfg, work.queued, crtc, vop.is_enabled, vop.event>>,
             hw'.scanning => hw.scanning,
             commit'.pc = "done" => commit.pc = "done"
      PROVE  ScanInv'
  BY <1>s DEF ScanInv
<1>1. CASE FrameStart
  <2>1. CASE hw.standby
    BY <1>1, <2>1, FrameEffects DEF ScanInv
  <2>2. CASE ~ hw.standby /\ ~ hw.cfg
    <3>1. hw.scanning
      BY <2>2 DEF CfgInv
    <3> QED
      BY <1>1, <2>2, <3>1, FrameEffects DEF ScanInv
  <2>3. CASE ~ hw.standby /\ hw.cfg
    <3>1. hw.win.en => hw.win.fb \in {crtc.fb, crtc.old, Logo}
      <4>1. CASE lit
        BY <4>1 DEF LogoInv, LogoWin
      <4>2. CASE ~ lit
        <5>1. vop.is_enabled
          BY <2>3, <4>2 DEF LogoInv
        <5>2. commit.pc # "enable"
          BY <5>1 DEF PhaseInv
        <5>3. CASE Shows(crtc.fb)
          BY <5>3 DEF Shows
        <5>4. CASE Shows(crtc.old)
          BY <5>4 DEF Shows
        <5> QED
          BY <5>1, <5>2, <5>3, <5>4 DEF WinInv, Commit, Pcs
      <4> QED
        BY <4>1, <4>2
    <3>2. hw'.scan = hw.win /\ ~ hw'.cfg /\ UNCHANGED <<crtc, commit, vop, work>>
      BY <1>1, <2>3, FrameEffects
    <3> QED
      BY <3>1, <3>2 DEF ScanInv
  <2> QED
    BY <2>1, <2>2, <2>3
<1>2. ASSUME NEW ok \in BOOLEAN, vop_bind(ok) PROVE ScanInv'
  BY <1>2, BindEffects DEF ScanInv, LogoInv, LogoWin
<1>3. CASE vop_initial_fails
  BY <1>3, FailEffects DEF ScanInv, Off
<1>12. CASE UNCHANGED vars
  BY <1>12, <1>s DEF vars
<1>4. CASE vop_unbind
  <2>1. ~ vop.is_enabled /\ ~ vop'.is_enabled /\ UNCHANGED <<hw, commit>>
    BY <1>4 DEF vop_unbind, NewVop, PhaseInv
  <2>2. hw.scanning => hw.scan.fb = Logo
    BY <2>1 DEF LogoInv, LogoWin
  <2> QED
    BY <2>1, <2>2 DEF ScanInv
<1>5. ASSUME NEW a \in BOOLEAN, NEW l \in BOOLEAN, NEW c \in BOOLEAN,
             NEW m \in BOOLEAN, NEW f \in Fbs \cup {NoFb}, StartCommit(a, f, l, c, m)
      PROVE  ScanInv'
  <2>1. commit.pc = "idle" /\ ~ vop.event /\ UNCHANGED <<hw, vop, work>>
        /\ crtc'.old = crtc.fb
    BY <1>5 DEF StartCommit
  <2>2. commit'.pc = "done" => ~ vop.is_enabled
    <3>1. commit'.pc = "done" => ~ crtc.active
      BY <1>5 DEF StartCommit, Commit
    <3> QED
      BY <2>1, <3>1 DEF PhaseInv
  <2>3. hw.scan.en => hw.scan.fb # NoFb
    BY DEF WinInv
  <2>4. crtc.old = NoFb
    BY <2>1 DEF WinInv
  <2> QED
    BY <2>1, <2>2, <2>3, <2>4 DEF ScanInv
<1>6. CASE CommitStep
  <2>1. CASE PaintStep
    <3>1. ~ vop.event
      BY <2>1, PaintEffects DEF EventInv, Working
    <3>2. commit'.pc # "done"
      BY <2>1, PaintEffects DEF Working
    <3> QED
      BY <2>1, <3>1, <3>2, PaintEffects DEF ScanInv
  <2>2. CASE vop_crtc_atomic_disable
    <3>1. commit'.pc = "hold" /\ UNCHANGED <<vop.is_enabled, vop.event>>
      BY <2>2 DEF vop_crtc_atomic_disable, VopState, Step, Commit
    <3>2. UNCHANGED <<hw.scan, hw.cfg, hw.scanning>>
      BY <1>w, <2>2 DEF vop_crtc_atomic_disable, ClearAndEnable, Disable, Hw, Write
    <3> QED
      BY <1>s, <2>2, <3>1, <3>2 DEF vop_crtc_atomic_disable
  <2>3. CASE DisableHeld
    <3>1. ~ vop'.is_enabled /\ ~ hw'.scanning
      BY <1>w, <2>3 DEF DisableHeld, AfterHold, HoldSeen, HoldInv, VopState, Disable,
         Hw, Write
    <3> QED
      BY <3>1 DEF ScanInv
  <2>4. CASE vop_enable
    <3>1. commit.pc = "enable" /\ commit'.pc = "modeset" /\ crtc' = crtc
      BY <2>4 DEF vop_enable, Step, Commit
    <3>2. ~ vop.is_enabled
      BY <3>1 DEF PhaseInv
    <3>3. UNCHANGED <<hw.scan, hw.scanning>>
      BY <2>4 DEF vop_enable, ClearAndEnable, Hw
    <3>4. hw.scanning => hw.scan.fb = Logo
      BY <3>2 DEF LogoInv, LogoWin
    <3> QED
      BY <3>1, <3>3, <3>4 DEF ScanInv
  <2>6. CASE vop_crtc_atomic_enable
    BY <1>w, <1>s, <2>6 DEF vop_crtc_atomic_enable, Commit, Hw, Write
  <2>7. CASE FlushArm
    <3>1. commit.pc = "sync" /\ commit'.pc = "queue" /\ UNCHANGED <<crtc, work>>
      BY <2>7 DEF FlushArm, Step, Commit
    <3>2. ~ vop.event
      BY <3>1 DEF EventInv
    <3>3. UNCHANGED <<hw.scan, hw.scanning>>
      BY <1>w, <2>7 DEF FlushArm, VblankGet, ClearAndEnable, Hw, Write
    <3> QED
      BY <3>1, <3>2, <3>3 DEF ScanInv
  <2>8. CASE FlushQueue
    <3>1. /\ commit.pc = "queue" /\ commit'.pc = "done"
          /\ UNCHANGED <<crtc, vop.event, vop.is_enabled>>
      BY <2>8 DEF FlushQueue, VopState, Step, Commit
    <3>2. hw' = hw \/ hw' = ClearAndEnable(hw, "FS")
      BY <1>w, <2>8 DEF FlushQueue, VblankGet, Write
    <3>3. UNCHANGED <<hw.scan, hw.scanning, hw.cfg>>
      BY <3>2, IrqWrites DEF Irqs
    <3>4. CASE crtc.old \in Fbs \ {crtc.fb}
      <4>1. work'.queued = [work.queued EXCEPT ![crtc.old] = @ + 1]
        BY <2>8, <3>4 DEF FlushQueue, Work
      <4>2. work.queued \in [Fbs -> Nat]
        BY BoundsAssumption DEF Work
      <4>3. work'.queued[crtc.old] > 0
        BY <3>4, <4>1, <4>2
      <4>4. \A f \in Fbs : work.queued[f] > 0 => work'.queued[f] > 0
        BY <3>4, <4>1, <4>2
      <4> QED
        BY <3>1, <3>3, <4>3, <4>4 DEF ScanInv
    <3>5. CASE crtc.old \notin Fbs \ {crtc.fb}
      <4>1. work' = work
        BY <2>8, <3>5 DEF FlushQueue
      <4> QED
        BY <3>1, <3>3, <3>5, <4>1 DEF ScanInv
    <3> QED
      BY <3>4, <3>5
  <2>9. CASE EndCommit
    <3>1. /\ commit.pc = "done" /\ commit'.pc = "idle" /\ UNCHANGED <<hw, vop, work>>
          /\ crtc'.fb = crtc.fb /\ crtc.old \in Fbs \cup {NoFb}
      BY <2>9 DEF EndCommit, Commit, Crtc
    <3>2. CASE ~ vop.is_enabled
      <4>1. hw.scanning => hw.scan.fb = Logo
        BY <3>2 DEF LogoInv, LogoWin
      <4> QED
        BY <3>1, <4>1 DEF ScanInv
    <3>3. CASE vop.is_enabled /\ ~ hw.cfg
      <4>1. hw.scan = hw.win
        BY <3>1, <3>3 DEF CfgInv
      <4>2. hw.scan.en => hw.scan.fb = crtc.fb
        BY <3>1, <3>3, <4>1 DEF WinInv, Shows
      <4> QED
        BY <3>1, <4>2 DEF ScanInv
    <3>4. CASE vop.is_enabled /\ hw.cfg
      <4>1. vop.event
        BY <3>1, <3>4 DEF CfgInv
      <4>2. hw.scan.en => hw.scan.fb # NoFb
        BY DEF WinInv
      <4> QED
        BY <3>1, <3>4, <4>1, <4>2 DEF ScanInv
    <3> QED
      BY <3>2, <3>3, <3>4
  <2> QED
    BY <1>6, <2>1, <2>2, <2>3, <2>4, <2>6, <2>7, <2>8, <2>9, CommitCases
<1>7. CASE vop_crtc_disable_vblank
  BY <1>7, <1>s DEF vop_crtc_disable_vblank, VopState, Disable, Hw, Write
<1>8. CASE vop_isr
  BY <1>8, <1>s DEF vop_isr, Hw
<1>9. CASE vop_handle_vblank
  <2>1. /\ UNCHANGED <<hw, commit, crtc, work, vop.is_enabled>>
        /\ vop'.event <=> (vop.event /\ "FS" \notin isr.active)
    BY <1>9 DEF vop_handle_vblank, VopState
  <2>2. vop.event /\ hw.cfg => vop'.event
    BY <2>1 DEF EventInv
  <2> QED
    BY <2>1, <2>2 DEF ScanInv
<1>10. CASE IsrExit
  <2>1. UNCHANGED <<hw, commit, crtc, vop.is_enabled, vop.event>>
    BY <1>10 DEF IsrExit, VopState
  <2>2. CASE vop.event /\ hw.cfg
    <3>1. UNCHANGED work
      BY <1>10, <2>2 DEF IsrExit, EventInv
    <3> QED
      BY <1>s, <2>1, <3>1
  <2>3. CASE ~ (vop.event /\ hw.cfg)
    <3>1. commit.pc = "done" /\ vop.is_enabled => ~ hw.cfg
      BY <2>3 DEF CfgInv
    <3> QED
      BY <2>1, <2>3, <3>1 DEF ScanInv
  <2> QED
    BY <2>2, <2>3
<1>11. ASSUME NEW f \in Fbs, vop_fb_unref_worker(f) PROVE ScanInv'
  BY <1>11, <1>s DEF vop_fb_unref_worker, Work
<1> QED
  BY <1>1, <1>2, <1>3, <1>4, <1>5, <1>6, <1>7, <1>8, <1>9, <1>10, <1>11,
     <1>12
  DEF Normal, IsrStep

\* A torn frame is scanned only in a commit that changes the gamma table.
LEMMA TornNext ==
  BusInv /\ WinInv /\ CfgInv /\ TornOnlyWithGamma /\ [Normal]_vars => TornOnlyWithGamma'
<1> SUFFICES ASSUME BusInv, WinInv, CfgInv, TornOnlyWithGamma, [Normal]_vars
             PROVE  TornOnlyWithGamma'
  OBVIOUS
<1> USE DEF BusInv, TypeOK
<1>w. commit.pc \notin {"idle", "enable", "done"} => vop.is_enabled /\ CoreOn(clk)
  BY WritesReach
<1>s. ASSUME hw'.scan = hw.scan, hw'.scanning => hw.scanning, commit'.color = commit.color
      PROVE  TornOnlyWithGamma'
  BY <1>s DEF TornOnlyWithGamma
<1>1. CASE FrameStart
  <2>1. CASE hw.standby
    BY <1>1, <1>s, <2>1, FrameEffects
  <2>2. CASE ~ hw.standby /\ ~ hw.cfg
    <3>1. hw.scanning
      BY <2>2 DEF CfgInv
    <3> QED
      BY <1>1, <2>2, <3>1, FrameEffects DEF TornOnlyWithGamma
  <2>3. CASE ~ hw.standby /\ hw.cfg
    <3>1. hw.win.en /\ hw.win.fb # hw.win.geom => commit.color
      <4>1. CASE lit
        BY <4>1 DEF LogoInv, LogoWin
      <4>2. CASE ~ lit
        <5>1. vop.is_enabled
          BY <2>3, <4>2 DEF LogoInv
        <5>2. commit.pc # "enable"
          BY <5>1 DEF PhaseInv
        <5>3. CASE Shows(crtc.fb)
          BY <5>3 DEF Shows
        <5>4. CASE Shows(crtc.old)
          BY <5>4 DEF Shows
        <5>5. CASE commit.pc = "geom"
          BY <2>3, <5>5 DEF CfgInv
        <5> QED
          BY <5>1, <5>2, <5>3, <5>4, <5>5 DEF WinInv, Commit, Pcs
      <4> QED
        BY <4>1, <4>2
    <3>2. hw'.scan = hw.win /\ commit' = commit
      BY <1>1, <2>3, FrameEffects
    <3> QED
      BY <3>1, <3>2 DEF TornOnlyWithGamma
  <2> QED
    BY <2>1, <2>2, <2>3
<1>2. ASSUME NEW ok \in BOOLEAN, vop_bind(ok) PROVE TornOnlyWithGamma'
  BY <1>2, BindEffects DEF TornOnlyWithGamma
<1>3. CASE vop_unbind \/ UNCHANGED vars
  BY <1>3, <1>s DEF vop_unbind, vars
<1>9. CASE vop_initial_fails
  BY <1>9, FailEffects DEF TornOnlyWithGamma
<1>4. ASSUME NEW a \in BOOLEAN, NEW l \in BOOLEAN, NEW c \in BOOLEAN,
             NEW m \in BOOLEAN, NEW f \in Fbs \cup {NoFb}, StartCommit(a, f, l, c, m)
      PROVE  TornOnlyWithGamma'
  <2>1. commit.pc = "idle" /\ ~ vop.event /\ hw' = hw
    BY <1>4 DEF StartCommit
  <2>2. CASE vop.is_enabled
    <3>1. hw.scan = hw.win
      BY <2>1, <2>2 DEF CfgInv
    <3>2. hw.scan.en => hw.scan.fb = hw.scan.geom
      BY <2>1, <2>2, <3>1 DEF WinInv, Shows
    <3> QED
      BY <2>1, <3>2 DEF TornOnlyWithGamma
  <2>3. CASE ~ vop.is_enabled
    BY <2>1, <2>3 DEF LogoInv, LogoWin, TornOnlyWithGamma
  <2> QED
    BY <2>2, <2>3
<1>5. CASE CommitStep
  <2>1. commit'.color = commit.color
    BY <1>5 DEF CommitStep, vop_crtc_atomic_disable, DisableHeld, AfterHold, vop_enable,
       vop_crtc_atomic_enable, vop_crtc_atomic_begin, vop_crtc_gamma_set, GammaPoll,
       vop_crtc_write_gamma_lut, vop_plane_atomic_disable, PlaneReturn,
       vop_plane_atomic_update, PlaneGeometry, vop_crtc_atomic_flush, FlushReturn, vop_wait_for_irq_handler, FlushArm,
       FlushQueue, EndCommit, Step, Commit
  <2>2. UNCHANGED <<hw.scan, hw.scanning>>
    <3>1. CASE PaintStep
      BY <3>1, PaintEffects
    <3>2. CASE vop_crtc_atomic_disable \/ DisableHeld \/ vop_enable
               \/ vop_crtc_atomic_enable
      BY <1>w, <3>2 DEF vop_crtc_atomic_disable, DisableHeld, AfterHold, vop_enable,
         vop_crtc_atomic_enable, ClearAndEnable, Disable, Hw, Write
    <3>3. CASE EndCommit
      BY <3>3 DEF EndCommit
    <3>4. CASE FlushArm \/ FlushQueue
      <4>1. hw' = hw \/ hw' = ClearAndEnable(hw, "FS")
        BY <1>w, <3>4 DEF FlushArm, FlushQueue, VblankGet, Write
      <4> QED
        BY <4>1, IrqWrites DEF Irqs
    <3> QED
      BY <1>5, <3>1, <3>2, <3>3, <3>4, CommitCases
  <2> QED
    BY <1>s, <2>1, <2>2
<1>6. CASE vop_crtc_disable_vblank \/ vop_isr
  BY <1>6, <1>s DEF vop_crtc_disable_vblank, vop_isr, Disable, Hw, Write
<1>7. CASE vop_handle_vblank \/ IsrExit
  BY <1>7, <1>s DEF vop_handle_vblank, IsrExit
<1>8. ASSUME NEW f \in Fbs, vop_fb_unref_worker(f) PROVE TornOnlyWithGamma'
  BY <1>8, <1>s DEF vop_fb_unref_worker
<1> QED
  BY <1>1, <1>2, <1>3, <1>4, <1>5, <1>6, <1>7, <1>8, <1>9 DEF Normal, IsrStep
-----------------------------------------------------------------------------
(* The invariant and the theorems *)

\* What holds whatever fails, and what holds until something does.
BigInv == TypeOK /\ WorkInv /\ RefInv /\ LitInv /\ (Healthy => BusInv /\ PictureInv)

\* The initial states satisfy it.
LEMMA BigInit == Init => BigInv
<1> SUFFICES ASSUME Init PROVE BigInv
  OBVIOUS
<1>1. TypeOK
  <2>1. hw \in Hw
    BY DEF Init, Off, Win, Hw, Irqs
  <2>2. clk \in Clk
    BY DEF Init, Clk
  <2>3. work \in Work
    BY BoundsAssumption DEF Init, NoRefs, Work
  <2>4. stranded \in 0 .. MaxStranded
    BY BoundsAssumption DEF Init
  <2> QED
    BY <2>1, <2>2, <2>3, <2>4 DEF Init, TypeOK, NewVop, VopState, Crtc, Commit, Pcs, Isr
<1>2. WorkInv
  BY FbsAssumption, BoundsAssumption DEF Init, WorkInv, NoRefs
<1>3. RefInv
  BY DEF Init, RefInv, Holders, ReferencesBalance, B, NewVop
<1>4. LitInv
  BY DEF Init, LitInv, LogoWin, NewVop, ClocksOn, CoreOn, DclkOn
<1>5. PhaseInv /\ LogoInv /\ HoldInv
  BY DEF Init, PhaseInv, NewVop, Working, LogoInv, LogoWin, HoldInv
<1>6. WinInv
  BY FbsAssumption DEF Init, WinInv, Off, NewVop
<1>7. CfgInv /\ EventInv
  BY DEF Init, CfgInv, NewVop, EventInv, vop_get_intr_type
<1>8. ScanInv /\ TornOnlyWithGamma
  BY DEF Init, ScanInv, TornOnlyWithGamma, Off
<1> QED
  BY <1>1, <1>2, <1>3, <1>4, <1>5, <1>6, <1>7, <1>8 DEF BigInv, BusInv, PictureInv

\* Every step keeps it.
LEMMA BigNext == BigInv /\ [Next]_vars => BigInv'
<1> SUFFICES ASSUME BigInv, [Next]_vars PROVE BigInv'
  OBVIOUS
<1>1. TypeOK' /\ WorkInv'
  BY TypeNext, WorkNext DEF BigInv
<1>2. RefInv'
  BY HoldersNext, BalanceNext DEF BigInv, RefInv
<1>3. LitInv'
  BY LitNext DEF BigInv, RefInv
<1>4. ASSUME Healthy' PROVE BusInv' /\ PictureInv'
  <2>1. BusInv /\ PictureInv /\ [Normal]_vars
    BY <1>4, HealthyStep DEF BigInv
  <2>2. PhaseInv' /\ HoldInv' /\ LogoInv'
    BY <1>3, <1>4, <2>1, PhaseNext, HoldNext, LogoNext
  <2>3. PictureInv'
    BY <2>1, WinNext, CfgNext, EventNext, ScanNext, TornNext DEF PictureInv
  <2> QED
    BY <1>1, <1>2, <1>3, <1>4, <2>2, <2>3 DEF BusInv
<1> QED
  BY <1>1, <1>2, <1>3, <1>4 DEF BigInv

\* It holds in every state, whatever fails.
LEMMA BigInvariant == Spec => []BigInv
BY BigInit, BigNext, PTL DEF Spec

\* The driver's and the block's state keep their types, whatever fails: no
\* reference count goes below zero and no queue above its bound.
THEOREM TypeCorrect == Spec => []TypeOK
<1>1. BigInv => TypeOK
  BY DEF BigInv
<1> QED
  BY <1>1, BigInvariant, PTL

\* Runtime-PM and clock references are those of the enabled CRTC, the kept
\* logo, the running handler and the binds over a kept logo that were deferred
\* or undone, through commits, interrupts, timeouts, failed enables and failed
\* vop_initials, until dclk cannot be enabled over a kept logo or a CRTC that
\* vop_enable did not enable is disabled (ReferencesBalance says so itself).
THEOREM ReferencesAreBalanced == Spec => []ReferencesBalance
<1>1. BigInv => ReferencesBalance
  BY DEF BigInv, RefInv
<1> QED
  BY <1>1, BigInvariant, PTL

\* As long as nothing has failed, the clocks run for as long as the block scans
\* and references are held wherever the driver accesses a register:
\* vop_crtc_atomic_disable lets go of them only after the frame end that stops
\* the block. Binds over a lit block may have been deferred before.
THEOREM BusStaysSafe == Spec => []BusIsSafe
<1>1. BigInv => BusIsSafe
  <2> SUFFICES ASSUME BusInv
               PROVE  /\ ScanIsClocked
                      /\ Touches \/ isr.pc # "idle" => clk.pm > 0 /\ clk.core > 0
    BY DEF BigInv, BusIsSafe
  <2>1. ScanIsClocked
    <3> SUFFICES ASSUME hw.scanning PROVE CoreOn(clk) /\ DclkOn(clk)
      BY DEF ScanIsClocked, ClocksOn
    <3>1. CASE lit
      BY <3>1 DEF BusInv, Healthy, LitInv, ClocksOn
    <3>2. CASE ~ lit
      <4>1. vop.is_enabled
        BY <3>2 DEF BusInv, LogoInv
      <4> QED
        BY <4>1, Counts DEF CoreOn, DclkOn
    <3> QED
      BY <3>1, <3>2
  <2>2. Touches => vop.is_enabled
    BY WritesReach DEF Touches
  <2> QED
    BY <2>1, <2>2, Counts
<1> QED
  BY <1>1, BigInvariant, PTL

\* The loader's picture stays on the panel, clocks on, until the first modeset,
\* as long as neither vop_initial nor vop_enable fails: binds that are deferred
\* over it, binds that are undone, commits that leave the CRTC off and a dclk
\* that cannot be enabled do not touch it.
THEOREM LogoStays == Spec => []LogoIsKept
<1>1. BigInv => LogoIsKept
  BY DEF BigInv, LitInv, LogoIsKept, LogoIsLit, LogoWin
<1> QED
  BY <1>1, BigInvariant, PTL

\* As long as nothing has failed, the block never scans a framebuffer whose
\* last reference is gone, for any set of framebuffers: not the one a flip
\* replaced, however late its frame and its interrupt come, and not one left in
\* the window's registers when the CRTC was switched off.
THEOREM BufferIsLive == Spec => []ScansLiveBuffer
<1>1. BigInv => ScansLiveBuffer
  <2> SUFFICES ASSUME BusInv, PictureInv, hw.scanning, hw.scan.en
               PROVE  hw.scan.fb \in Live
    BY DEF BigInv, ScansLiveBuffer
  <2>1. \A f \in Fbs : work.queued[f] \in Nat /\ work.commited[f] \in Nat
    BY BoundsAssumption DEF BusInv, TypeOK, Work
  <2>2. \A f \in Fbs : work.queued[f] > 0 => work.queued[f] + work.commited[f] > 0
    BY <2>1
  <2> QED
    BY <2>2 DEF PictureInv, ScanInv, Live
<1> QED
  BY <1>1, BigInvariant, PTL

\* As long as nothing has failed, a frame with the address of one framebuffer
\* and the geometry of another is scanned only if the last commit to start
\* changes the gamma table.
THEOREM TornIsGamma == Spec => []TornOnlyWithGamma
<1>1. BigInv => TornOnlyWithGamma
  BY DEF BigInv, PictureInv, TornOnlyWithGamma
<1> QED
  BY <1>1, BigInvariant, PTL

\* As long as nothing has failed, a flip's event is sent when its framebuffer is
\* what the block scans, never for a frame that started before cfg_done, in
\* every interleaving of the commit thread, the handler and the frame starts.
THEOREM FlipWasShown == Spec => FlipIsOnScreen
<1> DEFINE OnScreen ==
      Healthy /\ vop.event /\ ~ vop'.event =>
        /\ ~ hw.cfg
        /\ IF crtc.fb = NoFb THEN ~ hw.scan.en
           ELSE hw.scan = [fb |-> crtc.fb, geom |-> crtc.fb, en |-> TRUE]
<1>1. BigInv /\ [Next]_vars => [OnScreen]_vars
  <2> SUFFICES ASSUME BusInv, PictureInv, Next, vop.event, ~ vop'.event
               PROVE  OnScreen
    BY DEF BigInv
  <2> USE DEF BusInv, TypeOK, PictureInv
  <2>e. commit.pc \in {"queue", "done", "idle"} /\ vop.is_enabled /\ vop.bound
    BY DEF EventInv, PhaseInv
  <2>1. vop_handle_vblank
    <3>1. ASSUME NEW ok \in BOOLEAN, NEW d \in BOOLEAN PROVE ~ Bind(ok, d)
      BY <2>e DEF Bind
    <3>2. ~ vop_unbind
      BY DEF vop_unbind
    <3>3. ~ CommitStep
      <4> SUFFICES ASSUME CommitStep PROVE vop'.event
        OBVIOUS
      <4>1. CASE PaintStep
        BY <4>1, PaintEffects
      <4>2. CASE vop_crtc_atomic_enable \/ EndCommit
        BY <4>2 DEF vop_crtc_atomic_enable, EndCommit
      <4>3. CASE vop_crtc_atomic_disable \/ DisableHeld \/ vop_enable \/ FlushArm
                 \/ FlushQueue
        BY <4>3 DEF vop_crtc_atomic_disable, DisableHeld, AfterHold, vop_enable, FlushArm,
           FlushQueue, VopState
      <4> QED
        BY <4>1, <4>2, <4>3, CommitCases
    <3>4. ~ vop_crtc_disable_vblank /\ ~ IsrExit
      BY DEF vop_crtc_disable_vblank, IsrExit, VopState
    <3>5. ~ vop_enable_fails /\ ~ HoldTimeout /\ ~ PollTimeout
      BY <2>e DEF vop_enable_fails, HoldTimeout, AfterHold, PollTimeout
    <3> QED
      BY <3>1, <3>2, <3>3, <3>4, <3>5 DEF Next, UpsetStep, vop_bind, LoaderDclkFails,
         IsrStep, FrameStart, vop_initial_fails, StartCommit, vop_isr, vop_fb_unref_worker
  <2>2. "FS" \in isr.active
    BY <2>1 DEF vop_handle_vblank, VopState
  <2>3. ~ hw.cfg
    BY <2>2 DEF EventInv
  <2>5. hw.scan = hw.win
    BY <2>3, <2>e DEF CfgInv
  <2>6. Shows(crtc.fb)
    BY <2>e DEF WinInv
  <2> QED
    BY <2>3, <2>5, <2>6 DEF Shows
<1> QED
  BY <1>1, BigInvariant, PTL DEF Spec, FlipIsOnScreen
=============================================================================
