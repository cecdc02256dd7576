------------------------------ MODULE VpuStream ------------------------------
(***************************************************************************)
(* The player apps/vpu_stream.c: the main thread with its sessions, the    *)
(* watchdog thread, the signal handlers, and the parent that starts the    *)
(* process again when it ends (external, as are firmware and network).     *)
(*                                                                         *)
(* pc is where the main thread is; an action stands for the code from one  *)
(* label to the next.  Time is the age of the heartbeat: an action adds    *)
(* the most, in full seconds, that its code can take without the library   *)
(* hanging.  A hang is the action Hang.                                    *)
(***************************************************************************)
EXTENDS Resize, FiniteSetsExt

CONSTANTS
  Configs,     \* command lines, with the stream's geometry and the driver's allow_prp
  FbW, FbH,    \* size of the screen
  NFrames,     \* frame buffers
  MaxRounds,   \* bound on the rounds without a picture that NO_FRAME_TIMEOUT_MS lets pass
  MaxRatio     \* bound on the scaling ratios of RatiosSampled

ASSUME StreamConstants ==
  /\ FbW \in Nat /\ FbH \in Nat /\ NFrames \in Nat /\ MaxRounds \in Nat /\ MaxRatio \in Nat
  /\ Configs \subseteq [codec : STRING, input : STRING, out : STRING, overlay : BOOLEAN,
                        bpp : {16, 32}, warm : BOOLEAN, prp : BOOLEAN,
                        geo : [w : Nat, h : Nat, rx : Int, ry : Int, rw : Int, rh : Int]]

VARIABLES
  cfg,       \* the command line; fixed, also over restarts
  pc,
  show, armed, \* g_show, g_armed
  wish,      \* ghost: the last wish of the user, to see the video or not
  gw,        \* ov_gw_on
  gwe,       \* the enable bit of the graphic window: outlives the process
  hb_on,     \* g_hb_active
  age,       \* now - g_hb_ms, in seconds
  hung,      \* is the main thread in a library call that does not return?
  s          \* locals of a session, and its decoder

vars == <<cfg, pc, show, armed, wish, gw, gwe, hb_on, age, hung, s>>
signals == <<show, armed, wish>>
window == <<gw, gwe>>
timing == <<hb_on, age, hung>>

Stall == 10                     \* WATCHDOG_STALL_MS, in seconds
Guarded == 4                    \* most full seconds of a call under alarm(5)
Frames == 0..NFrames-1
Idle == -1

\* A session's variables: pending_idx, pending_display, rendered_pending (and whether
\* last_render_ms is this round's), pp_ok, pp_pipeline_ok; the conversions the driver
\* accepts; of the decoder the frames with a display flag, those decoded and not yet
\* displayed, the one it decodes into, and its last answer (indexFrameDecoded,
\* indexFrameDisplay, picType = 0); ghosts: an I picture was decoded, and the main
\* thread was in a wait without a bound since the last heartbeat.
Fresh ==
  [pending |-> Idle, pdisp |-> FALSE, rendered |-> FALSE, pp_ok |-> TRUE, pipe |-> TRUE,
   can |-> {}, flags |-> {}, due |-> {}, target |-> Idle,
   dec |-> Idle, disp |-> Idle, itype |-> FALSE, rounds |-> 0,
   iclean |-> FALSE, late |-> FALSE]

-----------------------------------------------------------------------------
At(p) == pc = p /\ ~hung
Goto(p) == pc' = p

\* hb(), and then up to d seconds.
Hb(d) == age' = d /\ hung' = hung

Took(d) == age' = Min({age + d, Stall + 1}) /\ UNCHANGED <<hb_on, hung>>

\* gw_set: the driver's bit and the process's copy of it.
GwSet(on) ==
  IF cfg.overlay THEN gw' = on /\ gwe' = on ELSE UNCHANGED window

\* The process image is gone: statics are as at the start of main, the graphic
\* window is as it was.  Without --warm the next one starts shown.
Image(p) ==
  /\ Goto(p)
  /\ show' = TRUE /\ armed' = TRUE /\ wish' = (wish \/ ~cfg.warm)
  /\ gw' = FALSE /\ hb_on' = FALSE /\ age' = 0 /\ hung' = FALSE
  /\ s' = Fresh
  /\ UNCHANGED <<cfg, gwe>>

-----------------------------------------------------------------------------
\* main, up to the connection loop.

InstallHandlers ==
  /\ At("boot0")
  /\ Goto("boot1")
  /\ UNCHANGED <<cfg, signals, window, timing, s>>

\* --warm starts hidden.
ParseArgs ==
  /\ At("boot1")
  /\ Goto("outputs")
  /\ show' = (show /\ ~cfg.warm) /\ armed' = (armed /\ ~cfg.warm)
  /\ UNCHANGED <<cfg, wish, window, timing, s>>

\* A start that trusts the graphic window to be off.
OpenOutputs_trusting ==
  /\ At("outputs")
  /\ hb_on' = TRUE /\ Hb(0)
  /\ Goto("init")
  /\ UNCHANGED <<cfg, signals, window, s>>

\* Listening socket and frame buffer; a graphic window that the process before
\* left on is turned off.  Then the watchdog is armed for vpu_Init.
OpenOutputs ==
  /\ At("outputs")
  /\ GwSet(FALSE)
  /\ hb_on' = TRUE /\ Hb(0)
  /\ Goto("init")
  /\ UNCHANGED <<cfg, signals, s>>

VpuInit ==
  /\ At("init")
  /\ Goto("loop")
  /\ UNCHANGED <<cfg, signals, window, timing, s>>

\* What ends the process: no socket, no frame buffer, no VPU, no memory for the
\* frames, a failed execv.
Fails ==
  /\ \E p \in {"outputs", "init", "idle", "register", "exec"} : At(p)
  /\ Image("dead")

-----------------------------------------------------------------------------
\* From a connection to a decoder that streams.

\* The top of the connection loop: no heartbeat is due while nobody is connected.
AwaitClient ==
  /\ At("loop")
  /\ hb_on' = FALSE
  /\ Goto("idle")
  /\ UNCHANGED <<cfg, signals, window, age, hung, s>>

\* A reconnection that keeps showing.
Accept_armed ==
  /\ At("idle")
  /\ hb_on' = TRUE /\ Hb(0)
  /\ s' = Fresh
  /\ Goto("open")
  /\ UNCHANGED <<cfg, signals, window>>

\* A client or source is there; what is shown waits for an I picture again.
Accept ==
  /\ At("idle")
  /\ armed' = (armed /\ ~show)
  /\ hb_on' = TRUE /\ Hb(0)
  /\ s' = Fresh
  /\ Goto("open")
  /\ UNCHANGED <<cfg, show, wish, window>>

DecOpen ==
  /\ At("open")
  /\ pc' \in {"prime", "loop"}
  /\ Took(1)
  /\ UNCHANGED <<cfg, signals, window, s>>

\* A prime loop without a heartbeat of its own.
PrimeTry_quiet ==
  /\ At("prime")
  /\ Goto("feed")
  /\ UNCHANGED <<cfg, signals, window, timing, s>>

\* The prime loop: a try starts with a heartbeat, ...
PrimeTry ==
  /\ At("prime")
  /\ Hb(0) /\ s' = [s EXCEPT !.late = FALSE]
  /\ Goto("feed")
  /\ UNCHANGED <<cfg, signals, window, hb_on>>

\* ... waits for input, in rtp_feed_direct without a bound, ...
PrimeIdle ==
  /\ At("feed") /\ cfg.input = "rtp"
  /\ Took(Stall + 1) /\ s' = [s EXCEPT !.late = TRUE]
  /\ UNCHANGED <<cfg, pc, signals, window>>

PrimeFeed ==
  /\ At("feed")
  /\ pc' \in {"prime", "info"} \cup {IF cfg.input = "rtp" /\ cfg.codec = "avc"
                                     THEN "restart" ELSE "drop"}
  /\ UNCHANGED <<cfg, signals, window, timing, s>>

\* ... and looks for a sequence header (dec_get_initial_info_guarded).  After the
\* last try, or on EOF, the session is given up.
PrimeInfo ==
  /\ At("info")
  /\ pc' \in {"prime", "setup"} \cup {IF cfg.input = "rtp" /\ cfg.codec = "avc"
                                      THEN "restart" ELSE "drop"}
  /\ Took(Guarded)
  /\ UNCHANGED <<cfg, signals, window, s>>

\* has_rect: a --rect without a width or a height is none.
HasRect == cfg.geo.rw > 0 /\ cfg.geo.rh > 0

\* The output rectangle: --rect or the centred picture, clipped to the screen.
OutRect ==
  LET g == cfg.geo
      pos(v) == IF v < 0 THEN 0 ELSE v
      x == pos(IF HasRect THEN g.rx ELSE (FbW - g.w) \div 2)
      y == pos(IF HasRect THEN g.ry ELSE (FbH - g.h) \div 2)
      w == IF HasRect THEN g.rw ELSE g.w
      h == IF HasRect THEN g.rh ELSE g.h
  IN [x |-> x, y |-> y, w |-> Min({w, FbW - x}), h |-> Min({h, FbH - y})]

\* What Setup fills with black: when --rect had to be clipped, its part to the left
\* of and above the far edges of the screen; the position is the one asked for, a
\* negative one too.
Nothing == [x |-> 0, y |-> 0, w |-> 0, h |-> 0]

Blackened ==
  LET g == cfg.geo
  IN IF /\ ~cfg.overlay /\ cfg.out \in {"fb", "cpu"}
        /\ HasRect /\ (OutRect.w < g.rw \/ OutRect.h < g.rh)
     THEN [x |-> g.rx, y |-> g.ry, w |-> Min({g.rw, FbW - g.rx}), h |-> Min({g.rh, FbH - g.ry})]
     ELSE Nothing

PpDimsSupported(sw, sh, dw, dh) ==
  /\ sw >= 32 /\ sh >= 32 /\ dw >= 8 /\ dh >= 8
  /\ sw % 8 = 0 /\ sh % 8 = 0 /\ dw % 2 = 0 /\ dh % 2 = 0

Align16(x) == ((x + 15) \div 16) * 16

\* The conversions of render_frame that the driver accepts for this geometry.
Conversions ==
  LET g == cfg.geo
      r == OutRect
  IN {c \in {"pp16", "pp32", "prp"} :
        CASE c = "pp16" -> PpAccepts(g.w, g.h, r.w, r.h, 16)
          [] c = "pp32" -> PpAccepts(g.w, g.h, r.w, r.h, 32)
          [] c = "prp" -> cfg.prp /\ PrpAccepts(g.w, Align16(g.h), r.w, r.h)}

\* The session is given up when nothing is left of the rectangle, or for H.264
\* when the PP cannot have it.
Setup ==
  /\ At("setup")
  /\ LET r == OutRect
     IN Goto(IF r.w < 2 \/ r.h < 2 THEN "drop"
             ELSE IF /\ cfg.out # "decode" /\ cfg.codec = "avc"
                     /\ ~PpDimsSupported(cfg.geo.w, cfg.geo.h, r.w, r.h)
             THEN "restart" ELSE "register")
  /\ UNCHANGED <<cfg, signals, window, timing, s>>

\* Frame buffers, once for each process, and vpu_DecRegisterFrameBuffer.
Register ==
  /\ At("register")
  /\ \/ Goto("top") /\ s' = [Fresh EXCEPT !.can = Conversions, !.late = s.late]
     \/ Goto("drop") /\ s' = s
  /\ Took(1)
  /\ UNCHANGED <<cfg, signals, window>>

-----------------------------------------------------------------------------
\* render_frame, one attempt: the PP if it is tried, then the PrP if allowed.  A
\* mode the PP refuses may disable it for the session; any conversion may fail for
\* once.
Convert(pp_ok, try, bpp, allow_prp, disable) ==
  LET mode == IF bpp = 32 THEN "pp32" ELSE "pp16"
      pp == try /\ mode \in s.can
      after == pp_ok /\ ~(try /\ ~pp /\ disable)
  IN {[ok |-> ok, pp_ok |-> after] :
        ok \in IF pp \/ (allow_prp /\ "prp" \in s.can) THEN BOOLEAN ELSE {FALSE}}

\* render_frame_cpu, into a 16bpp screen only.
RenderCpu == {[ok |-> cfg.bpp = 16, pp_ok |-> s.pp_ok]}

\* render_frame: what it may return and leave in pp_ok.  A 32bpp screen that cannot
\* be written directly is written through a 16bpp copy.
Render(allow_pp, allow_prp, disable) ==
  LET direct == IF cfg.out = "dummy" THEN 16 ELSE cfg.bpp
      first == Convert(s.pp_ok, allow_pp /\ s.pp_ok, direct, allow_prp, disable)
      again(r) == IF r.ok \/ direct = 16 THEN {r}
                  ELSE Convert(r.pp_ok, TRUE, 16, allow_prp, disable)
  IN IF cfg.out = "cpu"
     THEN RenderCpu
     ELSE UNION {again(r) : r \in first}

-----------------------------------------------------------------------------
\* The decode loop.

\* A round starts with a heartbeat; the pipeline may be tried again after its
\* cooldown; input is taken from the source, and EOF, starvation, backlog or
\* silence end the session.
Top ==
  /\ At("top")
  /\ Hb(1) /\ hb_on' = hb_on
  /\ pc' \in {"start", "disc"}
  /\ \E p \in {s.pipe, TRUE} : s' = [s EXCEPT !.pipe = p, !.late = FALSE]
  /\ UNCHANGED <<cfg, signals, window>>

\* The frame the decoder takes (external): one that is neither displayed nor to be
\* displayed; which one makes no difference.
FreeFrames == Frames \ (s.flags \cup s.due)

\* vpu_DecStartOneFrame.  The frame before may be rendered by the PP meanwhile.
Start ==
  /\ At("start")
  /\ \/ /\ s' = [s EXCEPT !.target = IF FreeFrames = {} THEN Idle ELSE Min(FreeFrames)]
        /\ Goto(IF /\ cfg.out # "decode" /\ cfg.codec # "avc"
                   /\ s.pending # Idle /\ s.pdisp /\ s.pp_ok /\ s.pipe
                THEN "pipe" ELSE "busy")
     \/ s' = s /\ Goto("disc")
  /\ UNCHANGED <<cfg, signals, window, timing>>

PipelineRender ==
  /\ At("pipe")
  /\ \E r \in Render(TRUE, FALSE, FALSE) :
       s' = [s EXCEPT !.rendered = r.ok, !.pipe = r.ok, !.pp_ok = r.pp_ok]
  /\ Goto("busy")
  /\ Took(1)
  /\ UNCHANGED <<cfg, signals, window>>

\* What the decoder answers (external): it decoded the frame or not, and displays
\* that one, an earlier one, or none; one frame at most is kept back.  It is taken
\* not to report an I picture when it decoded none: the loop looks at picType
\* whatever indexFrameDecoded is.
Answers ==
  {a \in [dec : {s.target, Idle}, disp : {Idle} \cup s.due \cup {s.target}, itype : BOOLEAN] :
     /\ a.dec = Idle => ~a.itype /\ (a.disp = s.target => a.disp = Idle)
     /\ a.dec # Idle /\ a.disp = Idle => s.due = {}}

\* The wait for the decoder and vpu_DecGetOutputInfo.  EOF while it decodes leaves
\* the loop with the decode outstanding.
WaitBusy ==
  /\ At("busy")
  /\ \/ \E a \in Answers :
          /\ s' = [s EXCEPT !.target = Idle, !.dec = a.dec, !.disp = a.disp, !.itype = a.itype,
                            !.due = (@ \cup {a.dec}) \ {a.disp, Idle},
                            !.flags = (@ \cup {a.disp}) \ {Idle},
                            !.iclean = @ \/ a.itype]
          /\ Goto("show")
     \/ Goto("disc") /\ s' = s
     \/ Goto("disc") /\ s' = [s EXCEPT !.target = Idle]
  /\ Took(2)
  /\ UNCHANGED <<cfg, signals, window>>

\* The frame before is rendered, unless the pipeline did it, and then given back.
ShowPending ==
  /\ At("show")
  /\ Goto(IF s.disp = Idle THEN "feedwait" ELSE "arm")
  /\ LET back == [s EXCEPT !.flags = @ \ {s.pending}, !.pending = Idle, !.pdisp = FALSE]
     IN IF s.pending # Idle /\ cfg.out # "decode" /\ s.pdisp /\ ~s.rendered
        THEN \E r \in Render(s.pp_ok, cfg.codec # "avc", TRUE) :
               s' = [back EXCEPT !.rendered = r.ok, !.pp_ok = r.pp_ok]
        ELSE s' = back
  /\ Took(1)
  /\ UNCHANGED <<cfg, signals, window>>

\* There is a frame to display: an I picture ends the wait after SIGUSR1.
Arm ==
  /\ At("arm")
  /\ armed' = (armed \/ (show /\ s.itype))
  /\ Goto("overlay")
  /\ UNCHANGED <<cfg, show, wish, window, timing, s>>

OverlayOnOff ==
  /\ At("overlay")
  /\ CASE show /\ armed /\ ~gw -> GwSet(TRUE)
       [] ~show /\ gw -> GwSet(FALSE)
       [] OTHER -> UNCHANGED window
  /\ Goto("pend")
  /\ UNCHANGED <<cfg, signals, timing, s>>

\* A hidden frame that is not given back.
Pend_keeps ==
  /\ At("pend")
  /\ s' = IF cfg.out = "decode" \/ (show /\ armed)
          THEN [s EXCEPT !.pending = s.disp, !.pdisp = cfg.out # "decode"]
          ELSE s
  /\ Goto("feedwait")
  /\ UNCHANGED <<cfg, signals, window, timing>>

\* The frame is kept for the next round, or given back at once when it is hidden.
Pend ==
  /\ At("pend")
  /\ s' = IF cfg.out = "decode" \/ (show /\ armed)
          THEN [s EXCEPT !.pending = s.disp, !.pdisp = cfg.out # "decode"]
          ELSE [s EXCEPT !.flags = @ \ {s.disp}]
  /\ Goto("feedwait")
  /\ UNCHANGED <<cfg, signals, window, timing>>

\* Nothing decoded and nothing to display: wait for input; without any, a hide
\* takes effect here.
FeedWait ==
  /\ At("feedwait")
  /\ \/ (s.dec # Idle \/ s.disp # Idle) /\ Goto("check") /\ UNCHANGED <<window, timing>>
     \/ /\ s.dec = Idle /\ s.disp = Idle
        /\ Took(1)
        /\ \/ pc' \in {"check", "disc"} /\ UNCHANGED window
           \/ Goto("check") /\ IF ~show /\ gw THEN GwSet(FALSE) ELSE UNCHANGED window
  /\ UNCHANGED <<cfg, signals, s>>

\* The session's own watchdogs: KEYFRAME_TIMEOUT_MS, RENDER_FAIL_TIMEOUT_MS and
\* NO_FRAME_TIMEOUT_MS, of which the last counts rounds here.
Check ==
  /\ At("check")
  /\ \/ /\ \/ show /\ ~armed
           \/ show /\ armed /\ cfg.out # "decode" /\ ~s.rendered
           \/ s.disp = Idle
        /\ Goto("disc") /\ s' = s
     \/ /\ s.disp = Idle => s.rounds < MaxRounds
        /\ Goto("top")
        /\ s' = [s EXCEPT !.rounds = IF s.disp = Idle THEN @ + 1 ELSE 0,
                          !.rendered = FALSE, !.dec = Idle, !.disp = Idle, !.itype = FALSE]
  /\ UNCHANGED <<cfg, signals, window, timing>>

\* disc: the frame that is pending is given back, for which an outstanding decode
\* makes vpu_DecClrDispFlag wait for its own lock until that times out.
Disc ==
  /\ At("disc")
  /\ LET locked == s.pending # Idle /\ s.target # Idle
     IN /\ s' = [s EXCEPT !.flags = IF locked THEN @ ELSE @ \ {s.pending}, !.pending = Idle,
                          !.pdisp = FALSE, !.late = @ \/ locked]
        /\ Took(IF locked THEN 10 ELSE 0)
  /\ GwSet(FALSE)
  /\ Goto(IF cfg.codec = "avc" THEN "restart" ELSE "drop")
  /\ UNCHANGED <<cfg, signals>>

\* dec_close_guarded, and on to the next connection ...
Drop ==
  /\ At("drop")
  /\ Goto("loop")
  /\ Took(Guarded)
  /\ UNCHANGED <<cfg, signals, window, s>>

\* ... or, after H.264, to a new image of the program.
Restart ==
  /\ At("restart")
  /\ Goto("exec")
  /\ Took(Guarded)
  /\ UNCHANGED <<cfg, signals, window, s>>

Exec ==
  /\ At("exec")
  /\ Image("boot0")

-----------------------------------------------------------------------------
\* The handlers; before they are installed a signal ends the process.
Sigusr1 ==
  /\ pc \notin {"dead", "boot0"}
  /\ show' = TRUE /\ armed' = FALSE /\ wish' = TRUE
  /\ UNCHANGED <<cfg, pc, window, timing, s>>

Sigusr2 ==
  /\ pc \notin {"dead", "boot0"}
  /\ show' = FALSE /\ armed' = armed /\ wish' = FALSE
  /\ UNCHANGED <<cfg, pc, window, timing, s>>

EarlySignal ==
  /\ pc = "boot0"
  /\ Image("dead")

\* A library call that never returns.
LibraryCalls == {"init", "open", "info", "register", "top", "start", "busy", "show",
                 "pend", "disc", "drop", "restart", "exec"}

Hang ==
  /\ pc \in LibraryCalls /\ ~hung
  /\ hung' = TRUE
  /\ UNCHANGED <<cfg, pc, signals, window, hb_on, age, s>>

\* The clock goes on while the main thread hangs, or waits for a client.
TimePasses ==
  /\ hung \/ pc = "idle"
  /\ age' = Stall + 1
  /\ UNCHANGED <<cfg, pc, signals, window, hb_on, hung, s>>

\* on_sigalrm: _exit, which in the static libc ends the main thread and not the
\* process.
Alarm ==
  /\ hung /\ pc \in {"info", "drop", "restart"}
  /\ Goto("gone")
  /\ UNCHANGED <<cfg, signals, window, timing, s>>

\* watchdog_main
Watchdog ==
  /\ hb_on /\ age > Stall
  /\ Image("dead")

\* The parent starts the process again (external).
Respawn ==
  /\ pc = "dead"
  /\ Image("boot0")

-----------------------------------------------------------------------------
Init ==
  /\ cfg \in Configs
  /\ pc = "boot0" /\ show = TRUE /\ armed = TRUE /\ wish = ~cfg.warm
  /\ gw = FALSE /\ gwe = FALSE
  /\ hb_on = FALSE /\ age = 0 /\ hung = FALSE
  /\ s = Fresh

\* The main thread, apart from what it waits for.
Main ==
  \/ InstallHandlers \/ ParseArgs \/ OpenOutputs \/ VpuInit \/ Fails
  \/ AwaitClient \/ DecOpen \/ PrimeTry \/ PrimeFeed \/ PrimeInfo \/ Setup \/ Register
  \/ Top \/ Start \/ PipelineRender \/ WaitBusy \/ ShowPending
  \/ Arm \/ OverlayOnOff \/ Pend \/ FeedWait \/ Check
  \/ Disc \/ Drop \/ Restart \/ Exec

Next ==
  \/ Main \/ Accept \/ PrimeIdle
  \/ Sigusr1 \/ Sigusr2 \/ EarlySignal
  \/ Hang \/ TimePasses \/ Alarm \/ Watchdog \/ Respawn

\* The scheduler runs every thread, the clock runs, and the parent respawns; not
\* every start runs into a signal or a missing resource.
Fairness ==
  /\ WF_vars(Main) /\ WF_vars(TimePasses) /\ WF_vars(Watchdog) /\ WF_vars(Respawn)
  /\ SF_vars(InstallHandlers) /\ SF_vars(OpenOutputs)

Spec == Init /\ [][Next]_vars /\ Fairness

-----------------------------------------------------------------------------
\* Every frame with a display flag is one the loop knows of and gives back: the
\* pending one, or the one just reported.  A frame that is pending, and so may be
\* read by the PP, is never the one the decoder writes.
BuffersAccounted ==
  /\ pc \in {"top", "start", "pipe", "busy", "feedwait", "check"} =>
       s.flags = {s.pending} \ {Idle}
  /\ pc = "show" => s.flags = {s.pending, s.disp} \ {Idle}
  /\ pc \in {"arm", "overlay", "pend"} => s.flags = {s.disp}
  /\ s.pending # Idle => s.pending # s.target

\* Nothing is shown in a session before it has decoded an I picture, whenever
\* SIGUSR1, SIGUSR2 and reconnections come.
ShownAfterI == s.pdisp \/ gw => s.iclean

\* The watchdog finds a stale heartbeat only if a library call hangs, apart from
\* the two waits of the main thread that have no bound: for the first RTP packet,
\* and for a lock that it holds itself.
HeartbeatFresh == hb_on /\ age > Stall => hung \/ s.late

\* A main thread that hangs is replaced by one that starts afresh; and a graphic
\* window that is on against the user's wish goes off, over hangs and restarts.
Recovers ==
  /\ hung ~> pc = "boot1"
  /\ gwe /\ ~wish ~> ~gwe \/ wish

\* Tables of all the reduced ratios up to MaxRatio.
RatiosSampled ==
  \A n, d \in 1..MaxRatio : Gcd[n, d] = 1 =>
    /\ PpRatioOk(n, d) => PpSamples(Pp1d(n, d), n, d)
    /\ n >= d /\ n <= PrpTblMax => PrpSamples(PrpBuild(n, d), n, d)

\* Where a session that is not given up puts the picture (the output rectangle of
\* main): on the screen; exactly where --rect asks for it if that lies on the screen;
\* without --rect in the middle, to within a pixel, and as large as it is if it fits.
\* For a --rect with no negative position the black fill, if any, covers this
\* rectangle and no more.
OnScreen ==
  LET g == cfg.geo
      r == OutRect
  IN pc = "register" \/ (pc = "setup" /\ r.w >= 2 /\ r.h >= 2) =>
       /\ r.x >= 0 /\ r.w >= 2 /\ r.x + r.w <= FbW
       /\ r.y >= 0 /\ r.h >= 2 /\ r.y + r.h <= FbH
       /\ HasRect /\ g.rx >= 0 /\ g.ry >= 0 /\ g.rx + g.rw <= FbW /\ g.ry + g.rh <= FbH =>
            r.x = g.rx /\ r.y = g.ry /\ r.w = g.rw /\ r.h = g.rh
       /\ ~HasRect /\ g.w <= FbW => r.w = g.w /\ (FbW - r.w) - 2 * r.x \in {0, 1}
       /\ ~HasRect /\ g.h <= FbH => r.h = g.h /\ (FbH - r.h) - 2 * r.y \in {0, 1}
       /\ g.rx >= 0 /\ g.ry >= 0 => Blackened \in {Nothing, r}

\* What is set up is sampled as a resize has to be: the tables of the driver for
\* this session's geometry, and for all small ratios, sample and cover the line,
\* and fit into the block; and the picture goes where it should.
ResizeFaithful ==
  /\ OnScreen
  /\ pc = "register" =>
    LET g == cfg.geo
        r == OutRect
        t == PpBuildResize(g.w, g.h, r.w, r.h)
        gw_ == Gcd[g.w, r.w]
        gh_ == Gcd[g.h, r.h]
    IN /\ t.h # None =>
            /\ PpSamples(t.h, g.w \div gw_, r.w \div gw_)
            /\ PpSamples(t.v, g.h \div gh_, r.h \div gh_)
            /\ Len(t.h) <= PpTblMax /\ Len(t.v) <= PpTblMax
       /\ RatiosSampled
=============================================================================
