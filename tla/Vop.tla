------------------------------- MODULE Vop --------------------------------
(***************************************************************************)
(* The display controller driver, kernel/.../display/rockchip_drm_vop.c,   *)
(* on the RV1106: one window (WIN1), no IOMMU, no AFBC, no self refresh.   *)
(*                                                                         *)
(* Five actors share the block: the bind/unbind path, the DRM commit       *)
(* thread, the interrupt handler, the worker that drops framebuffer        *)
(* references, and the hardware, which at a frame start takes over the     *)
(* window registers if cfg_done was written, and raises an interrupt.      *)
(* The DRM core's part (commit_tail_rpm's order of callbacks, waiting for  *)
(* the previous commit's event, the vblank reference count) is external.   *)
(*                                                                         *)
(* Clock preparation is left out: it gates nothing. A register write to a  *)
(* block without its core clocks is lost (a bus that hangs is a behaviour  *)
(* that stops there).                                                      *)
(*                                                                         *)
(* The failures the driver goes on from are steps of their own, each in    *)
(* Upsets only, and upset remembers the ones that happened.                *)
(***************************************************************************)
EXTENDS Naturals

CONSTANTS
  Fbs,          \* framebuffers userspace shows
  Logo,         \* the loader's picture, in reserved memory
  NoFb,         \* no framebuffer
  MaxQueued,    \* references one framebuffer may have in fb_unref_work
  MaxStranded,  \* times a bind over a kept logo may defer or be undone
  Upsets        \* the failures that may happen

ASSUME FbsAssumption == Logo \notin Fbs /\ NoFb \notin Fbs /\ Logo # NoFb
ASSUME BoundsAssumption == MaxQueued \in Nat \ {0} /\ MaxStranded \in Nat

\* vop_enable fails; a timed wait ends without what it waited for (200 ms for
\* the hold interrupt, 10 ms for the handler to take a frame interrupt);
\* clk_enable of dclk fails over a kept logo; vop_initial fails with the
\* loader's clocks running.
Kinds == {"enable", "timeout", "dclk", "initial"}
ASSUME UpsetsAssumption == Upsets \subseteq Kinds

VARIABLES
  hw,      \* registers, and what the block scans out
  clk,     \* runtime-PM and clock enable counts
  vop,     \* struct vop and the CRTC's vblank state
  work,    \* fb_unref_work: references queued, and committed to the worker
  crtc,    \* the CRTC and plane state, and the old framebuffer of a commit
  commit,  \* the commit thread
  isr,     \* the interrupt handler
  lit,     \* the loader's logo is on the panel and no modeset has come yet
  stranded,\* history: sets of references a deferred or undone bind left behind
  upset    \* history: failures that happened; "undo" is a disable of a CRTC
           \* that vop_enable did not enable

vars == <<hw, clk, vop, work, crtc, commit, isr, lit, stranded, upset>>
history == <<stranded, upset>>

Off == [fb |-> NoFb, geom |-> NoFb, en |-> FALSE]
Win == [fb : Fbs \cup {Logo, NoFb}, geom : Fbs \cup {Logo, NoFb}, en : BOOLEAN]
Irqs == {"FS", "HOLD"}
NoRefs == [f \in Fbs |-> 0]
Pcs == {"idle", "disable", "hold", "enable", "modeset", "begin", "lut_off",
        "lut_poll", "lut_write", "plane", "geom", "flush", "poll", "sync",
        "queue", "done"}

\* The values each of them takes.
Hw == [standby : BOOLEAN, scanning : BOOLEAN, cfg : BOOLEAN, win : Win, scan : Win,
       lut : BOOLEAN, lutOn : BOOLEAN, raised : SUBSET Irqs, enabled : SUBSET Irqs]
Clk == [pm : Nat, core : Nat, dclk : Nat, bootCore : BOOLEAN, bootDclk : BOOLEAN]
VopState == [bound : BOOLEAN, is_enabled : BOOLEAN, loader_active : BOOLEAN,
             event : BOOLEAN, pending : BOOLEAN, held : BOOLEAN,
             vblank : {"modeset", "off", "on"}]
Work == [queued : [Fbs -> 0 .. MaxQueued], commited : [Fbs -> 0 .. MaxQueued]]
Crtc == [active : BOOLEAN, fb : Fbs \cup {NoFb}, lut : BOOLEAN, old : Fbs \cup {NoFb}]
Commit == [pc : Pcs, color : BOOLEAN, switched : BOOLEAN, then : {"begin", "plane"}]
Isr == [pc : {"idle", "handle", "exit"}, active : SUBSET Irqs]

\* Type correctness of the driver's and the block's state.
TypeOK ==
  /\ hw \in Hw /\ clk \in Clk /\ vop \in VopState /\ work \in Work
  /\ crtc \in Crtc /\ commit \in Commit /\ isr \in Isr /\ lit \in BOOLEAN
  /\ stranded \in 0 .. MaxStranded /\ upset \subseteq Kinds \cup {"undo"}

-----------------------------------------------------------------------------
(* The block and its references *)

\* A clock runs: the framework's count says so, or the loader started it and
\* the framework has not touched it yet.
CoreOn(c) == c.bootCore \/ c.core > 0
DclkOn(c) == c.bootDclk \/ c.dclk > 0
ClocksOn == CoreOn(clk) /\ DclkOn(clk)

\* Register writes, which only a clocked block takes.
Write(h) == IF CoreOn(clk) THEN h ELSE hw

\* The interrupt status the driver reads: raised and enabled.
vop_get_intr_type == hw.raised \cap hw.enabled

\* MUTANT of ClearAndEnable: the enable bit is not written.
ClearOnly(h, irq) == [h EXCEPT !.raised = @ \ {irq}]

\* VOP_INTR_SET_TYPE clear, then enable.
ClearAndEnable(h, irq) ==
  [h EXCEPT !.raised = @ \ {irq}, !.enabled = @ \cup {irq}]

Disable(h, irq) == [h EXCEPT !.enabled = @ \ {irq}]

\* pm_runtime_put and clk_disable stop, with a warning, at zero.
Less(n) == IF n = 0 THEN 0 ELSE n - 1

\* A runtime-PM reference and the core clocks (hclk and aclk).
TakeCore(c) == [c EXCEPT !.pm = @ + 1, !.core = @ + 1, !.bootCore = FALSE]
DropCore(c) == [c EXCEPT !.pm = Less(@), !.core = Less(@)]

\* The same with dclk: what an enabled CRTC holds, and what a kept logo holds.
TakeAll(c) == [TakeCore(c) EXCEPT !.dclk = @ + 1, !.bootDclk = FALSE]
DropAll(c) == [DropCore(c) EXCEPT !.dclk = Less(@)]

\* The end of one frame is the start of the next. With standby set the block
\* stops there and raises DSP_HOLD_VALID; otherwise it takes the registers
\* over if cfg_done was written, and raises FS.
FrameStart ==
  /\ ClocksOn
  /\ \/ /\ ~ hw.standby
        /\ hw' = [hw EXCEPT !.scanning = TRUE,
                            !.raised = @ \cup {"FS"},
                            !.scan = IF hw.cfg THEN hw.win ELSE @,
                            !.lutOn = IF hw.cfg THEN hw.lut ELSE @,
                            !.cfg = FALSE]
     \/ /\ hw.standby /\ hw.scanning
        /\ hw' = [hw EXCEPT !.scanning = FALSE, !.raised = @ \cup {"HOLD"}]
  /\ UNCHANGED <<clk, vop, work, crtc, commit, isr, lit, history>>

-----------------------------------------------------------------------------
(* Bind and unbind *)

\* MUTANT of vop_win_disable: the enable bit is left.
WinDisableMissing(w) == w

\* vop_win_disable.
vop_win_disable(w) == [w EXCEPT !.en = FALSE]

\* What a bind allocates and vop_create_crtc sets up.
NewVop == [bound |-> FALSE, is_enabled |-> FALSE, loader_active |-> FALSE,
           event |-> FALSE, pending |-> FALSE, held |-> FALSE,
           vblank |-> "modeset"]
vop_create_crtc ==
  /\ work' = [queued |-> NoRefs, commited |-> NoRefs]
  /\ crtc' = [active |-> FALSE, fb |-> NoFb, lut |-> FALSE, old |-> NoFb]

\* MUTANT of LoaderScans: the block is always taken for dark.
LoaderIgnored == FALSE

\* vop_initial's question: a window enabled and standby clear.
LoaderScans == hw.win.en /\ ~ hw.standby

\* The block after an AHB and a dclk reset, windows disabled.
ResetHw == [hw EXCEPT !.standby = TRUE, !.scanning = FALSE, !.cfg = FALSE,
                      !.win = vop_win_disable(Off), !.scan = Off, !.lut = FALSE, !.lutOn = FALSE]

\* What vop_initial does to the block: its interrupts are cleared, and a dark
\* block is reset. A lit one is left scanning.
InitialHw == [(IF LoaderScans THEN hw ELSE ResetHw) EXCEPT !.raised = {}, !.enabled = {}]

\* vop_initial enables the core clocks. Over a kept logo it keeps them, dclk
\* (if it can be enabled) and the PM reference; otherwise all is given back.
vop_initial(dclk) ==
  /\ hw' = InitialHw
  /\ clk' = CASE ~ LoaderScans -> DropCore(TakeCore(clk))
            [] LoaderScans /\ dclk -> TakeAll(clk)
            [] LoaderScans /\ ~ dclk -> TakeCore(clk)

\* A struct vop is lost with the references it held for a logo.
Strand(held) ==
  /\ held => stranded < MaxStranded
  /\ stranded' = IF held THEN stranded + 1 ELSE stranded

\* vop_bind after vop_initial: it may still fail, because the interrupt is
\* taken or rockchip_rgb_init defers as the panel has not probed. Nothing undoes
\* vop_initial then, and the next attempt starts from a new struct vop.
Bind(ok, dclk) ==
  /\ ~ vop.bound
  /\ vop_create_crtc
  /\ vop_initial(dclk)
  /\ vop' = IF ok THEN [NewVop EXCEPT !.bound = TRUE, !.loader_active = LoaderScans]
            ELSE NewVop
  /\ Strand(~ ok /\ LoaderScans)
  /\ UNCHANGED <<commit, isr, lit>>

vop_bind(ok) == Bind(ok, TRUE) /\ UNCHANGED upset

\* clk_enable of dclk fails over a kept logo: logged, and loader_active stays.
LoaderDclkFails(ok) ==
  /\ LoaderScans /\ "dclk" \in Upsets
  /\ Bind(ok, FALSE)
  /\ upset' = upset \cup {"dclk"}

\* vop_initial fails once the core clocks are enabled, before or after it wrote
\* to the block, and disables them: the loader's too, if nothing else has
\* counted them. (Failing earlier, it changes nothing.)
vop_initial_fails ==
  /\ ~ vop.bound
  /\ clk.bootCore => "initial" \in Upsets
  /\ hw' \in {hw, InitialHw}
  /\ clk' = DropCore(TakeCore(clk))
  /\ upset' = IF clk.bootCore THEN upset \cup {"initial"} ELSE upset
  /\ UNCHANGED <<vop, work, crtc, commit, isr, lit, stranded>>

\* vop_unbind, after the DRM core has shut the CRTC down.
vop_unbind ==
  /\ vop.bound /\ commit.pc = "idle" /\ isr.pc = "idle"
  /\ ~ crtc.active /\ ~ vop.event
  /\ vop_create_crtc
  /\ vop' = NewVop
  /\ Strand(vop.loader_active)
  /\ UNCHANGED <<hw, clk, commit, isr, lit, upset>>

-----------------------------------------------------------------------------
(* The commit thread *)

Step(pc) == commit' = [commit EXCEPT !.pc = pc]

\* The vblank references: one per pending event, one per queued framebuffer.
VblankUsers ==
  vop.event \/ \E f \in Fbs : work.queued[f] + work.commited[f] > 0

\* drm_crtc_vblank_get, which enables the interrupt if it was off.
VblankGet ==
  /\ hw' = IF vop.vblank = "off" THEN Write(ClearAndEnable(hw, "FS")) ELSE hw
  /\ vop.vblank # "modeset"

\* DRM starts a commit once the event of the one before was sent, or was never
\* armed. The states are swapped, then commit_tail_rpm calls the disables, the
\* enables, and, if the CRTC is active, begin, the plane and flush. color is
\* color_mgmt_changed: a table comes, goes or is replaced.
StartCommit(active, fb, lut, color, modeset) ==
  /\ vop.bound /\ commit.pc = "idle" /\ ~ vop.event
  /\ crtc.fb \in Fbs =>
       work.queued[crtc.fb] + work.commited[crtc.fb] < MaxQueued
  /\ modeset => active /\ crtc.active
  /\ lut # crtc.lut => color
  /\ color => lut \/ crtc.lut
  /\ commit' = [commit EXCEPT
       !.pc = CASE crtc.active /\ (~ active \/ modeset) -> "disable"
                [] active /\ ~ crtc.active -> "enable"
                [] active /\ crtc.active -> "begin"
                [] OTHER -> "done",
       !.color = color,
       !.switched = (active # crtc.active)]
  /\ crtc' = [active |-> active, fb |-> fb, lut |-> lut, old |-> crtc.fb]
  /\ UNCHANGED <<hw, clk, vop, work, isr, lit, history>>

\* vop_crtc_atomic_disable up to its wait: vblank off, the hold interrupt
\* armed (not of a VOP that is disabled), then standby.
vop_crtc_atomic_disable ==
  /\ commit.pc = "disable"
  /\ LET h == IF vop.is_enabled THEN ClearAndEnable(Disable(hw, "FS"), "HOLD") ELSE hw
     IN  hw' = Write([h EXCEPT !.standby = TRUE])
  /\ vop' = [vop EXCEPT !.vblank = "modeset", !.held = FALSE]
  /\ upset' = IF vop.is_enabled THEN upset ELSE upset \cup {"undo"}
  /\ Step("hold")
  /\ UNCHANGED <<clk, work, crtc, isr, lit, stranded>>

\* MUTANT of HoldSeen: the completion is not waited for.
HoldIgnored == TRUE

\* wait_for_completion_timeout on dsp_hold_completion.
HoldSeen == vop.held

\* The rest, which the code runs however the wait ended: the VOP counts as
\* disabled and the references are dropped. The event of a commit that ends
\* inactive is sent here.
AfterHold ==
  /\ commit.pc = "hold"
  /\ hw' = IF vop.is_enabled THEN Write(Disable(hw, "HOLD")) ELSE hw
  /\ vop' = [vop EXCEPT !.is_enabled = FALSE]
  /\ clk' = DropAll(clk)
  /\ Step(IF crtc.active THEN "enable" ELSE "done")
  /\ UNCHANGED <<work, crtc, isr, lit, stranded>>

\* The handler has seen the hold interrupt.
DisableHeld == HoldSeen /\ AfterHold /\ UNCHANGED upset

\* 200 ms pass without it: always, when it was not armed.
HoldTimeout ==
  /\ ~ HoldSeen
  /\ vop.is_enabled => "timeout" \in Upsets
  /\ AfterHold
  /\ upset' = upset \cup {"timeout"}

\* MUTANT of DropLoader: the logo's references are kept.
DropLoaderMissing(c) == c

\* The end of the logo's hold on the clocks.
DropLoader(c) == IF vop.loader_active THEN DropAll(c) ELSE c

\* vop_enable: references, the registers from their backup with the window
\* disabled, standby, the loader's references dropped if it left any, and the
\* frame interrupt if a vblank reference is held.
vop_enable ==
  /\ commit.pc = "enable"
  /\ clk' = DropLoader(TakeAll(clk))
  /\ LET h == [hw EXCEPT !.win = vop_win_disable(@), !.cfg = TRUE, !.standby = TRUE]
     IN  hw' = IF VblankUsers /\ CoreOn(clk') THEN ClearAndEnable(h, "FS") ELSE h
  /\ vop' = [vop EXCEPT !.is_enabled = TRUE, !.loader_active = FALSE,
                        !.vblank = IF VblankUsers THEN "on" ELSE "off"]
  /\ lit' = FALSE
  /\ Step("modeset")
  /\ UNCHANGED <<work, crtc, isr, history>>

\* vop_enable fails, with its references not taken or given back, and
\* vop_crtc_atomic_enable returns. DRM goes on with begin, the plane and flush
\* of a VOP that is disabled. The event stays in the CRTC's state, and DRM's
\* wait for it ends by time.
vop_enable_fails ==
  /\ commit.pc = "enable" /\ "enable" \in Upsets
  /\ clk' \in {clk, DropAll(TakeAll(clk))}
  /\ upset' = upset \cup {"enable"}
  /\ Step("begin")
  /\ UNCHANGED <<hw, vop, work, crtc, isr, lit, stranded>>

\* vop_crtc_atomic_enable after vop_enable: polarities, timings, clock rate,
\* standby off, and the gamma table if the state has one.
vop_crtc_atomic_enable ==
  /\ commit.pc = "modeset"
  /\ hw' = Write([hw EXCEPT !.standby = FALSE])
  /\ commit' = [commit EXCEPT !.pc = IF crtc.lut THEN "lut_off" ELSE "begin",
                              !.then = "begin"]
  /\ UNCHANGED <<clk, vop, work, crtc, isr, lit, history>>

\* vop_crtc_atomic_begin: a changed table, unless the enable wrote it. It does
\* not ask whether the VOP is enabled.
vop_crtc_atomic_begin ==
  /\ commit.pc = "begin"
  /\ commit' = [commit EXCEPT
       !.pc = IF commit.color /\ ~ commit.switched THEN "lut_off" ELSE "plane",
       !.then = "plane"]
  /\ UNCHANGED <<hw, clk, vop, work, crtc, isr, lit, history>>

\* vop_crtc_gamma_set: the table is switched off, ...
vop_crtc_gamma_set ==
  /\ commit.pc = "lut_off"
  /\ hw' = Write([hw EXCEPT !.lut = FALSE, !.cfg = TRUE])
  /\ Step("lut_poll")
  /\ UNCHANGED <<clk, vop, work, crtc, isr, lit, history>>

\* ... the driver polls vop_dsp_lut_is_enabled until the block has let go of
\* it, or gives up (a block without clocks reads as anything), ...
GammaPoll ==
  /\ commit.pc = "lut_poll"
  /\ \/ /\ ~ hw.lutOn \/ ~ CoreOn(clk)
        /\ Step(IF crtc.lut THEN "lut_write" ELSE commit.then)
     \/ /\ hw.lutOn \/ ~ CoreOn(clk)
        /\ Step(commit.then)
  /\ UNCHANGED <<hw, clk, vop, work, crtc, isr, lit, history>>

\* ... and the new table is written and switched on.
vop_crtc_write_gamma_lut ==
  /\ commit.pc = "lut_write"
  /\ hw' = Write([hw EXCEPT !.lut = TRUE, !.cfg = TRUE])
  /\ Step(commit.then)
  /\ UNCHANGED <<clk, vop, work, crtc, isr, lit, history>>

\* vop_plane_atomic_disable, for a plane that had a framebuffer. It does not
\* ask whether the VOP is enabled either.
vop_plane_atomic_disable ==
  /\ commit.pc = "plane" /\ crtc.fb = NoFb /\ crtc.old # NoFb
  /\ hw' = Write([hw EXCEPT !.win = vop_win_disable(@)])
  /\ Step("flush")
  /\ UNCHANGED <<clk, vop, work, crtc, isr, lit, history>>

\* Nothing for the plane: it has no framebuffer and had none, or
\* vop_plane_atomic_update finds the VOP disabled.
PlaneReturn ==
  /\ commit.pc = "plane"
  /\ \/ crtc.fb = NoFb /\ crtc.old = NoFb
     \/ crtc.fb # NoFb /\ ~ vop.is_enabled
  /\ Step("flush")
  /\ UNCHANGED <<hw, clk, vop, work, crtc, isr, lit, history>>

\* MUTANT of WriteAddress: the window is enabled with its address.
WriteAddressEnables(w) == [w EXCEPT !.fb = crtc.fb, !.en = TRUE]

\* Format, stride and address of the new framebuffer.
WriteAddress(w) == [w EXCEPT !.fb = crtc.fb]

\* vop_plane_atomic_update: format, stride and address ...
vop_plane_atomic_update ==
  /\ commit.pc = "plane" /\ crtc.fb # NoFb /\ vop.is_enabled
  /\ hw' = Write([hw EXCEPT !.win = WriteAddress(@)])
  /\ Step("geom")
  /\ UNCHANGED <<clk, vop, work, crtc, isr, lit, history>>

\* ... then sizes, position and blending, and the enable bit last.
PlaneGeometry ==
  /\ commit.pc = "geom"
  /\ hw' = Write([hw EXCEPT !.win.geom = crtc.fb, !.win.en = TRUE])
  /\ Step("flush")
  /\ UNCHANGED <<clk, vop, work, crtc, isr, lit, history>>

\* vop_crtc_atomic_flush: cfg_done.
vop_crtc_atomic_flush ==
  /\ commit.pc = "flush" /\ vop.is_enabled
  /\ hw' = Write([hw EXCEPT !.cfg = TRUE])
  /\ Step("poll")
  /\ UNCHANGED <<clk, vop, work, crtc, isr, lit, history>>

\* Its return when the VOP is disabled: no event is armed, nothing is queued.
FlushReturn ==
  /\ commit.pc = "flush" /\ ~ vop.is_enabled
  /\ Step("done")
  /\ UNCHANGED <<hw, clk, vop, work, crtc, isr, lit, history>>

\* MUTANT of vop_wait_for_irq_handler: the status is not polled.
SkipIrqPoll ==
  /\ commit.pc = "poll"
  /\ Step("sync")
  /\ UNCHANGED <<hw, clk, vop, work, crtc, isr, lit, history>>

\* vop_wait_for_irq_handler: a frame start that came before cfg_done has been
\* taken by the handler, ...
vop_wait_for_irq_handler ==
  /\ commit.pc = "poll"
  /\ "FS" \notin vop_get_intr_type
  /\ Step("sync")
  /\ UNCHANGED <<hw, clk, vop, work, crtc, isr, lit, history>>

\* ... or 10 ms have passed, which is logged, ...
PollTimeout ==
  /\ commit.pc = "poll" /\ "timeout" \in Upsets
  /\ "FS" \in vop_get_intr_type
  /\ upset' = upset \cup {"timeout"}
  /\ Step("sync")
  /\ UNCHANGED <<hw, clk, vop, work, crtc, isr, lit, stranded>>

\* ... and the handler has returned (synchronize_irq). Then the event is armed
\* with a vblank reference.
FlushArm ==
  /\ commit.pc = "sync"
  /\ isr.pc = "idle"
  /\ VblankGet
  /\ vop' = [vop EXCEPT !.event = TRUE, !.vblank = "on"]
  /\ Step("queue")
  /\ UNCHANGED <<clk, work, crtc, isr, lit, history>>

\* The framebuffer replaced is queued for release, with a reference and a
\* vblank reference of its own, and the pending bit set.
FlushQueue ==
  /\ commit.pc = "queue"
  /\ \/ /\ crtc.old \in Fbs \ {crtc.fb}
        /\ VblankGet
        /\ work' = [work EXCEPT !.queued[crtc.old] = @ + 1]
        /\ vop' = [vop EXCEPT !.pending = TRUE, !.vblank = "on"]
     \/ crtc.old \notin Fbs \ {crtc.fb} /\ UNCHANGED <<hw, vop, work>>
  /\ Step("done")
  /\ UNCHANGED <<clk, crtc, isr, lit, history>>

\* DRM drops the old state and its framebuffer reference, here at the
\* earliest moment it may (its own wait for a vblank may time out).
EndCommit ==
  /\ commit.pc = "done"
  /\ crtc' = [crtc EXCEPT !.old = NoFb]
  /\ commit' = [commit EXCEPT !.pc = "idle", !.switched = FALSE, !.then = "plane"]
  /\ UNCHANGED <<hw, clk, vop, work, isr, lit, history>>

\* vop_crtc_disable_vblank, from DRM's timer when nobody holds a reference.
vop_crtc_disable_vblank ==
  /\ vop.vblank = "on" /\ ~ VblankUsers
  /\ hw' = Write(Disable(hw, "FS"))
  /\ vop' = [vop EXCEPT !.vblank = "off"]
  /\ UNCHANGED <<clk, work, crtc, commit, isr, lit, history>>

-----------------------------------------------------------------------------
(* The interrupt handler and the worker *)

\* vop_isr takes its references, reads the active interrupts and clears them.
vop_isr ==
  /\ vop.bound /\ isr.pc = "idle" /\ vop_get_intr_type # {}
  /\ clk.pm > 0
  /\ clk' = TakeCore(clk)
  /\ isr' = [pc |-> "handle", active |-> vop_get_intr_type]
  /\ hw' = [hw EXCEPT !.raised = @ \ vop_get_intr_type]
  /\ UNCHANGED <<vop, work, crtc, commit, lit, history>>

\* It completes the hold, and vop_handle_vblank sends the pending event.
vop_handle_vblank ==
  /\ isr.pc = "handle"
  /\ vop' = [vop EXCEPT !.held = @ \/ "HOLD" \in isr.active,
                        !.event = @ /\ "FS" \notin isr.active]
  /\ isr' = [isr EXCEPT !.pc = "exit"]
  /\ UNCHANGED <<hw, clk, work, crtc, commit, lit, history>>

\* vop_handle_vblank hands what is queued to the worker if the pending bit is
\* set; the handler drops its references.
IsrExit ==
  /\ isr.pc = "exit"
  /\ IF "FS" \in isr.active /\ vop.pending
     THEN /\ work' = [queued |-> NoRefs,
                      commited |-> [f \in Fbs |-> work.queued[f] + work.commited[f]]]
          /\ vop' = [vop EXCEPT !.pending = FALSE]
     ELSE UNCHANGED <<work, vop>>
  /\ clk' = DropCore(clk)
  /\ isr' = [pc |-> "idle", active |-> {}]
  /\ UNCHANGED <<hw, crtc, commit, lit, history>>

\* vop_fb_unref_worker: one framebuffer and one vblank reference.
vop_fb_unref_worker(f) ==
  /\ work.commited[f] > 0
  /\ work' = [work EXCEPT !.commited[f] = @ - 1]
  /\ UNCHANGED <<hw, clk, vop, crtc, commit, isr, lit, history>>

-----------------------------------------------------------------------------
Init ==
  /\ lit \in BOOLEAN
  /\ hw = LET logo == [fb |-> Logo, geom |-> Logo, en |-> TRUE]
              w == IF lit THEN logo ELSE Off
          IN  [standby |-> ~ lit, scanning |-> lit, cfg |-> FALSE,
               win |-> w, scan |-> w, lut |-> FALSE, lutOn |-> FALSE,
               raised |-> {}, enabled |-> {}]
  /\ clk = [pm |-> 0, core |-> 0, dclk |-> 0, bootCore |-> lit, bootDclk |-> lit]
  /\ vop = NewVop
  /\ work = [queued |-> NoRefs, commited |-> NoRefs]
  /\ crtc = [active |-> FALSE, fb |-> NoFb, lut |-> FALSE, old |-> NoFb]
  /\ commit = [pc |-> "idle", color |-> FALSE, switched |-> FALSE, then |-> "plane"]
  /\ isr = [pc |-> "idle", active |-> {}]
  /\ stranded = 0 /\ upset = {}

CommitStep ==
  \/ vop_crtc_atomic_disable \/ DisableHeld \/ vop_enable
  \/ vop_crtc_atomic_enable \/ vop_crtc_atomic_begin \/ vop_crtc_gamma_set
  \/ GammaPoll \/ vop_crtc_write_gamma_lut \/ vop_plane_atomic_disable
  \/ PlaneReturn \/ vop_plane_atomic_update \/ PlaneGeometry
  \/ vop_crtc_atomic_flush \/ FlushReturn \/ vop_wait_for_irq_handler \/ FlushArm \/ FlushQueue \/ EndCommit

IsrStep == vop_isr \/ vop_handle_vblank \/ IsrExit

\* The failures. None is fair: they may happen, and need not.
UpsetStep ==
  \/ \E ok \in BOOLEAN : LoaderDclkFails(ok)
  \/ vop_enable_fails \/ HoldTimeout \/ PollTimeout

Next ==
  \/ FrameStart
  \/ \E ok \in BOOLEAN : vop_bind(ok)
  \/ vop_initial_fails \/ vop_unbind
  \/ \E a, l, c, m \in BOOLEAN, f \in Fbs \cup {NoFb} : StartCommit(a, f, l, c, m)
  \/ CommitStep \/ vop_crtc_disable_vblank
  \/ IsrStep \/ \E f \in Fbs : vop_fb_unref_worker(f)
  \/ UpsetStep

Spec == Init /\ [][Next]_vars

\* Frames go on while the block scans; the handler and the commit thread run.
\* The commit thread's poll reads the status without pause and an interrupt is
\* low for most of a frame, so its step is taken if it is possible again and
\* again.
FairSpec == /\ Spec
            /\ WF_vars(FrameStart)
            /\ WF_vars(IsrStep)
            /\ SF_vars(CommitStep)

-----------------------------------------------------------------------------
(* Properties *)

\* The references of framebuffers: the plane state's, the old state's of a
\* commit, and those queued for release. The logo's memory is reserved.
Live == {crtc.fb, crtc.old, Logo} \cup
        {f \in Fbs : work.queued[f] + work.commited[f] > 0}

\* No failure has happened. What the driver does after one is held against its
\* own comments by the last properties below.
Healthy == upset = {}

\* The block never scans a framebuffer whose last reference is gone: not while
\* a frame still shows the one a flip replaced, and not when a CRTC that was
\* switched off with a window enabled comes back (vop_enable's comment).
ScansLiveBuffer == Healthy /\ hw.scanning /\ hw.scan.en => hw.scan.fb \in Live

\* A flip's event is sent when its framebuffer is what the block scans, never
\* for a frame that started before cfg_done (vop_crtc_atomic_flush's comment).
FlipIsOnScreen ==
  [][Healthy /\ vop.event /\ ~ vop'.event =>
       /\ ~ hw.cfg
       /\ IF crtc.fb = NoFb THEN ~ hw.scan.en
          ELSE hw.scan = [fb |-> crtc.fb, geom |-> crtc.fb, en |-> TRUE]]_vars

\* The commit thread's next step accesses a register: some callbacks always
\* do, the others ask is_enabled first.
Touches ==
  \/ commit.pc \in {"disable", "modeset", "lut_off", "lut_poll", "lut_write"}
  \/ commit.pc = "plane" /\ crtc.fb = NoFb /\ crtc.old # NoFb
  \/ commit.pc \in {"hold", "plane", "geom", "flush", "poll", "sync", "queue"}
     /\ vop.is_enabled

ScanIsClocked == hw.scanning => ClocksOn

\* As long as no failure has happened, the clocks run for as long as the block
\* scans ("if not, memory bus maybe dead"), and PM and core references are held
\* whenever the commit thread or the handler is at a register access, however
\* often a bind over a lit block was deferred before.
BusIsSafe ==
  Healthy => /\ ScanIsClocked
             /\ Touches \/ isr.pc # "idle" => clk.pm > 0 /\ clk.core > 0

B(p) == IF p THEN 1 ELSE 0

\* Runtime-PM and clock references are those of their holders and no more: the
\* enabled CRTC, the kept logo, the running handler, and one set for every bind
\* that was deferred or undone while it kept a logo. Failed enables, timeouts
\* and failed vop_initials keep the balance; a dclk that could not be enabled
\* over a kept logo and the disable of a CRTC that was never enabled do not.
ReferencesBalance ==
  LET held == B(vop.is_enabled) + B(vop.loader_active) + stranded
      isrs == B(isr.pc # "idle")
  IN  upset \cap {"dclk", "undo"} = {} =>
        /\ clk.dclk = held
        /\ clk.core = held + isrs
        /\ clk.pm = held + isrs

LogoIsLit ==
  lit => hw.scanning /\ hw.scan.en /\ hw.scan.fb = Logo /\ ClocksOn

\* The loader's picture stays on the panel, clocks on, until the first modeset
\* (vop_initial's "seamless takeover"), through binds that are deferred, binds
\* that are undone and a dclk that cannot be enabled, unless vop_initial or
\* vop_enable fails.
LogoIsKept == upset \cap {"initial", "enable"} = {} => LogoIsLit

\* A frame with the address of one framebuffer and the geometry of another is
\* scanned only when the last commit to start changes the gamma table: its
\* cfg_done is pending while the plane's registers are written.
TornOnlyWithGamma ==
  Healthy /\ hw.scanning /\ hw.scan.en /\ hw.scan.fb # hw.scan.geom => commit.color

\* A commit ends with its event sent, unless a failure comes.
CommitCompletes ==
  commit.pc # "idle" \/ vop.event ~>
    (commit.pc = "idle" /\ ~ vop.event) \/ ~ Healthy

-----------------------------------------------------------------------------
(* What the driver's comments say of its failures *)

\* The references that vop_initial keeps for the logo "are dropped by the first
\* vop_enable()": an enabled CRTC is dclk's only holder.
LoaderReferencesDropped == vop.is_enabled => clk.dclk <= 1

\* When vop_enable drops them, "this enable now holds its own PM + clock
\* references".
EnableHoldsItsOwn == vop.is_enabled => clk.dclk >= 1

\* "can't update plane when vop is disabled."
PlaneNeedsVop == commit.pc = "plane" /\ Touches => vop.is_enabled

=============================================================================
