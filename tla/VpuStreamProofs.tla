--------------------------- MODULE VpuStreamProofs ---------------------------
(***************************************************************************)
(* Safety of the player for every screen, number of frame buffers and      *)
(* command line, over hangs, signals, restarts and reconnections.          *)
(***************************************************************************)
EXTENDS VpuStream, WellFoundedInduction, TLAPS

Fields ==
  [pending : Frames \cup {Idle}, pdisp : BOOLEAN, rendered : BOOLEAN, pp_ok : BOOLEAN,
   pipe : BOOLEAN, can : SUBSET {"pp16", "pp32", "prp"}, flags : SUBSET Frames,
   due : SUBSET Frames, target : Frames \cup {Idle}, dec : Frames \cup {Idle},
   disp : Frames \cup {Idle}, itype : BOOLEAN, rounds : Nat, iclean : BOOLEAN,
   late : BOOLEAN]

\* The labels of the main thread: without a session, before its decoder streams, in
\* the decode loop, and after it.
Outside == {"dead", "boot0", "boot1", "outputs", "init", "loop", "idle"}
Opening == {"open", "prime", "feed", "info", "setup", "register"}
Looping == {"top", "start", "pipe", "busy", "show", "arm", "overlay", "pend", "feedwait",
            "check", "disc"}
Closing == {"drop", "restart", "exec", "gone"}

PlayerTypeOK ==
  /\ cfg \in Configs
  /\ pc \in Outside \cup Opening \cup Looping \cup Closing
  /\ show \in BOOLEAN /\ armed \in BOOLEAN /\ wish \in BOOLEAN
  /\ gw \in BOOLEAN /\ gwe \in BOOLEAN
  /\ hb_on \in BOOLEAN /\ age \in 0..Stall + 1 /\ hung \in BOOLEAN
  /\ s \in Fields

\* How old the heartbeat can be where, if nothing hangs and no wait without a bound
\* came since.
Clock ==
  /\ pc \in {"dead", "boot0", "boot1", "outputs", "idle"} => ~hb_on
  /\ pc = "gone" => hung
  /\ hb_on /\ ~hung /\ ~s.late =>
       /\ pc \in {"init", "open", "feed", "info"} => age = 0
       /\ pc \in {"prime", "setup", "register"} => age <= Guarded
       /\ pc \in {"start", "pipe"} => age <= 1
       /\ pc = "busy" => age <= 2
       /\ pc = "show" => age <= 4
       /\ pc \in {"arm", "overlay", "pend", "feedwait"} => age <= 5
       /\ pc \in {"top", "check", "disc", "drop", "restart"} => age <= 6
       /\ pc \in {"loop", "exec"} => age <= 6 + Guarded

\* What is shown: only the decode loop shows anything, and there, as before it, who
\* wants to see waits for an I picture of this session.
Shown ==
  /\ ~cfg.overlay => ~gw
  /\ pc \notin Looping => ~gw /\ ~s.pdisp
  /\ pc \in Opening => ~s.iclean
  /\ pc \in Opening \cup Looping /\ show /\ armed => s.iclean
  /\ pc \in Looping => /\ s.itype => s.iclean
                       /\ s.pdisp \/ gw => s.iclean

\* Where the frames are: displayed and to be given back, to be displayed, or being
\* decoded into.
Account ==
  /\ pc \in {"top", "start", "pipe", "busy", "feedwait", "check"} =>
       s.flags = {s.pending} \ {Idle}
  /\ pc = "show" => s.flags = {s.pending, s.disp} \ {Idle}
  /\ pc = "show" /\ s.disp # Idle => s.disp # s.pending
  /\ pc \in {"arm", "overlay", "pend"} => s.pending = Idle /\ s.disp # Idle /\ s.flags = {s.disp}
  /\ pc \in Opening \cup Closing \cup Outside => s.pending = Idle
  /\ pc \in {"top", "start", "show", "arm", "overlay", "pend", "feedwait", "check"} =>
       s.target = Idle
  /\ s.target # Idle => s.target # s.pending /\ s.target \notin s.due
  /\ pc \in Looping \ {"disc"} => s.flags \cap s.due = {}

\* Where the output goes.
Placed ==
  pc = "register" => OutRect.w >= 2 /\ OutRect.h >= 2

\* The inductive invariant.
PlayerInv == PlayerTypeOK /\ Clock /\ Shown /\ Account /\ Placed

-----------------------------------------------------------------------------
\* Took: the clock runs on by at most d.
LEMMA TookAges ==
  ASSUME age \in 0..Stall + 1, NEW d \in Nat, Took(d)
  PROVE  age' \in 0..Stall + 1 /\ age' <= age + d /\ hb_on' = hb_on /\ hung' = hung
<1> DEFINE S == {age + d, Stall + 1}
<1>1. \E x \in S : \A y \in S : x <= y
  BY DEF Stall
<1>2. Min(S) \in S /\ \A y \in S : Min(S) <= y
  BY <1>1 DEF Min
<1>3. age' = Min(S)
  BY DEF Took
<1>4. hb_on' = hb_on /\ hung' = hung
  BY DEF Took
<1> QED
  BY <1>2, <1>3, <1>4 DEF Stall

\* The decoder's choice of a frame is one of those that are free.
LEMMA MinOfFrames ==
  ASSUME NEW S \in SUBSET Frames, S # {}
  PROVE  Min(S) \in S
<1>1. S \subseteq Nat
  BY StreamConstants DEF Frames
<1> DEFINE less == {p \in Nat \X Nat : p[1] < p[2]}
<1>2. IsWellFoundedOn(less, Nat)
  BY NatLessThanWellFounded DEF OpToRel
<1>3. PICK m \in S : \A r \in S : <<r, m>> \notin less
  BY <1>1, <1>2, WFMin
<1>4. ASSUME NEW r \in S PROVE m <= r
  <2>1. r \in Nat /\ m \in Nat /\ <<r, m>> \in Nat \X Nat
    BY <1>1
  <2>2. ~(<<r, m>>[1] < <<r, m>>[2])
    BY <1>3, <2>1
  <2> QED
    BY <2>1, <2>2
<1> QED
  BY <1>4 DEF Min

\* render_frame says whether it rendered, and whether the PP stays enabled.
LEMMA RenderAnswers ==
  ASSUME s \in Fields, NEW allow_pp \in BOOLEAN, NEW allow_prp \in BOOLEAN, NEW disable \in BOOLEAN,
         NEW r \in Render(allow_pp, allow_prp, disable)
  PROVE  r.ok \in BOOLEAN /\ r.pp_ok \in BOOLEAN
<1> DEFINE Answer == [ok : BOOLEAN, pp_ok : BOOLEAN]
<1>1. s.pp_ok \in BOOLEAN
  BY DEF Fields
<1>2. ASSUME NEW pp_ok \in BOOLEAN, NEW try \in BOOLEAN, NEW bpp
      PROVE  Convert(pp_ok, try, bpp, allow_prp, disable) \subseteq Answer
  <2> DEFINE mode == IF bpp = 32 THEN "pp32" ELSE "pp16"
             pp == try /\ mode \in s.can
             after == pp_ok /\ ~(try /\ ~pp /\ disable)
             oks == IF pp \/ (allow_prp /\ "prp" \in s.can) THEN BOOLEAN ELSE {FALSE}
  <2>1. after \in BOOLEAN /\ oks \subseteq BOOLEAN
    OBVIOUS
  <2>2. Convert(pp_ok, try, bpp, allow_prp, disable) = {[ok |-> ok, pp_ok |-> after] : ok \in oks}
    BY DEF Convert
  <2> HIDE DEF after, oks
  <2> QED
    BY <2>1, <2>2
<1>3. RenderCpu \subseteq Answer
  BY <1>1 DEF RenderCpu
<1>4. Render(allow_pp, allow_prp, disable) \subseteq Answer
  <2> DEFINE direct == IF cfg.out = "dummy" THEN 16 ELSE cfg.bpp
             first == Convert(s.pp_ok, allow_pp /\ s.pp_ok, direct, allow_prp, disable)
             again(a) == IF a.ok \/ direct = 16 THEN {a}
                         ELSE Convert(a.pp_ok, TRUE, 16, allow_prp, disable)
  <2>1. first \subseteq Answer
    BY <1>1, <1>2
  <2>2. ASSUME NEW a \in first PROVE again(a) \subseteq Answer
    <3>1. a \in Answer /\ a.pp_ok \in BOOLEAN
      BY <2>1
    <3> QED
      BY <3>1, <1>2
  <2>3. Render(allow_pp, allow_prp, disable) =
          IF cfg.out = "cpu" THEN RenderCpu ELSE UNION {again(a) : a \in first}
    BY DEF Render
  <2> HIDE DEF first, again
  <2> QED
    BY <1>3, <2>2, <2>3
<1> QED
  BY <1>4

\* What a session starts with.
LEMMA FreshFields == Fresh \in Fields
<1>1. Idle \in Frames \cup {Idle}
  OBVIOUS
<1> QED
  BY <1>1 DEF Fresh, Fields

\* A process that has just started.
LEMMA FreshInv ==
  ASSUME PlayerTypeOK, s = Fresh, ~gw, ~hb_on, ~hung, pc \in {"dead", "boot0"}
  PROVE  PlayerInv
BY DEF PlayerInv, Clock, Shown, Account, Placed, Fresh, Outside, Opening, Looping, Closing, Idle

\* The first image of the program, and every later one.
LEMMA InitInv == Init => PlayerInv
<1> SUFFICES ASSUME Init PROVE PlayerInv
  OBVIOUS
<1>1. PlayerTypeOK
  <2>1. wish \in BOOLEAN
    BY StreamConstants, Zenon DEF Init
  <2> QED
    <3>1. pc \in Outside /\ age \in 0..Stall + 1
      BY DEF Init, Outside, Stall
    <3> QED
      BY <2>1, <3>1, FreshFields, Zenon DEF Init, PlayerTypeOK
<1> QED
  BY <1>1, FreshInv DEF Init

\* Images that replace one: execv, a death, the parent.
LEMMA ImageInv ==
  ASSUME PlayerInv, NEW p \in {"dead", "boot0"}, Image(p)
  PROVE  PlayerInv'
<1>1. PlayerTypeOK'
  <2>1. wish' \in BOOLEAN
    BY Zenon DEF Image
  <2>2. s' \in Fields
    BY FreshFields DEF Image
  <2> QED
    <3>1. pc' \in Outside /\ age' \in 0..Stall + 1
      BY DEF Image, Goto, Outside, Stall
    <3> QED
      BY <2>1, <2>2, <3>1, Zenon DEF Image, PlayerInv, PlayerTypeOK
<1>2. (s = Fresh /\ ~gw /\ ~hb_on /\ ~hung /\ pc \in {"dead", "boot0"})'
  BY DEF Image, Goto, Fresh, Idle
<1> QED
  BY <1>1, <1>2 DEF PlayerInv, Clock, Shown, Account, Placed, Fresh, Outside, Opening, Looping,
     Closing, Idle

\* The rectangle is a matter of the command line, and has no fractions.
LEMMA PlacedKept ==
  ASSUME Placed, cfg' = cfg, pc' = "register" => pc = "register"
  PROVE  Placed'
<1>1. OutRect' = OutRect
  BY DEF OutRect, HasRect
<1> QED
  BY <1>1 DEF Placed

\* The smaller of two integers.
LEMMA MinOfTwo ==
  ASSUME NEW a \in Int, NEW b \in Int
  PROVE  Min({a, b}) = IF a <= b THEN a ELSE b
<1>1. \E m \in {a, b} : \A o \in {a, b} : m <= o
  OBVIOUS
<1> QED
  BY <1>1 DEF Min

\* The command line's geometry.
LEMMA GeoInts ==
  ASSUME cfg \in Configs
  PROVE  /\ cfg.geo.w \in Nat /\ cfg.geo.h \in Nat /\ cfg.geo.rx \in Int /\ cfg.geo.ry \in Int
         /\ cfg.geo.rw \in Int /\ cfg.geo.rh \in Int /\ FbW \in Nat /\ FbH \in Nat
  BY StreamConstants

\* One coordinate of the rectangle: p and n asked for, at least at 0 and clipped to f.
Start1(p) == IF p < 0 THEN 0 ELSE p
Clip1(p, n, f) == IF n <= f - p THEN n ELSE f - p

\* The rectangle, coordinate by coordinate.
LEMMA RectIs ==
  ASSUME cfg \in Configs
  PROVE  LET g == cfg.geo
             x == Start1(IF HasRect THEN g.rx ELSE (FbW - g.w) \div 2)
             y == Start1(IF HasRect THEN g.ry ELSE (FbH - g.h) \div 2)
         IN /\ OutRect.x = x /\ OutRect.w = Clip1(x, IF HasRect THEN g.rw ELSE g.w, FbW)
            /\ OutRect.y = y /\ OutRect.h = Clip1(y, IF HasRect THEN g.rh ELSE g.h, FbH)
            /\ OutRect = [x |-> OutRect.x, y |-> OutRect.y, w |-> OutRect.w, h |-> OutRect.h]
<1> DEFINE g == cfg.geo
           x == Start1(IF HasRect THEN g.rx ELSE (FbW - g.w) \div 2)
           y == Start1(IF HasRect THEN g.ry ELSE (FbH - g.h) \div 2)
           w == IF HasRect THEN g.rw ELSE g.w
           h == IF HasRect THEN g.rh ELSE g.h
<1>1. /\ g.w \in Nat /\ g.h \in Nat /\ g.rx \in Int /\ g.ry \in Int /\ g.rw \in Int /\ g.rh \in Int
      /\ FbW \in Nat /\ FbH \in Nat
  BY GeoInts
<1>2. x \in Nat /\ y \in Nat /\ w \in Int /\ h \in Int
  BY <1>1 DEF Start1
<1>3. OutRect = [x |-> x, y |-> y, w |-> Min({w, FbW - x}), h |-> Min({h, FbH - y})]
  BY DEF OutRect, Start1
<1> HIDE DEF g, x, y, w, h
<1>4. Min({w, FbW - x}) = Clip1(x, w, FbW) /\ Min({h, FbH - y}) = Clip1(y, h, FbH)
  BY <1>1, <1>2, MinOfTwo DEF Clip1
<1>5. /\ OutRect.x = x /\ OutRect.w = Clip1(x, w, FbW)
      /\ OutRect.y = y /\ OutRect.h = Clip1(y, h, FbH)
      /\ OutRect = [x |-> OutRect.x, y |-> OutRect.y, w |-> OutRect.w, h |-> OutRect.h]
  BY <1>3, <1>4
<1> QED
  BY <1>5 DEF g, x, y, w, h

\* The corners of the rectangle: integers, and none beyond the screen.
LEMMA RectInts ==
  ASSUME cfg \in Configs
  PROVE  /\ OutRect.x \in Nat /\ OutRect.y \in Nat /\ OutRect.w \in Int /\ OutRect.h \in Int
         /\ OutRect.x + OutRect.w <= FbW /\ OutRect.y + OutRect.h <= FbH
<1> DEFINE p == IF HasRect THEN cfg.geo.rx ELSE (FbW - cfg.geo.w) \div 2
           q == IF HasRect THEN cfg.geo.ry ELSE (FbH - cfg.geo.h) \div 2
           w == IF HasRect THEN cfg.geo.rw ELSE cfg.geo.w
           h == IF HasRect THEN cfg.geo.rh ELSE cfg.geo.h
<1>1. p \in Int /\ q \in Int /\ w \in Int /\ h \in Int /\ FbW \in Nat /\ FbH \in Nat
  BY GeoInts
<1>2. /\ OutRect.x = Start1(p) /\ OutRect.w = Clip1(Start1(p), w, FbW)
      /\ OutRect.y = Start1(q) /\ OutRect.h = Clip1(Start1(q), h, FbH)
  BY RectIs
<1> HIDE DEF p, q, w, h
<1> QED
  BY <1>1, <1>2 DEF Start1, Clip1

\* The rectangle where it is asked for, or in the middle.
LEMMA RectWhere ==
  ASSUME cfg \in Configs
  PROVE  LET g == cfg.geo
             r == OutRect
         IN /\ HasRect /\ g.rx >= 0 /\ g.ry >= 0 /\ g.rx + g.rw <= FbW /\ g.ry + g.rh <= FbH =>
                 r.x = g.rx /\ r.y = g.ry /\ r.w = g.rw /\ r.h = g.rh
            /\ ~HasRect /\ g.w <= FbW => r.w = g.w /\ (FbW - r.w) - 2 * r.x \in {0, 1}
            /\ ~HasRect /\ g.h <= FbH => r.h = g.h /\ (FbH - r.h) - 2 * r.y \in {0, 1}
<1> DEFINE g == cfg.geo
<1>1. /\ g.w \in Nat /\ g.h \in Nat /\ g.rx \in Int /\ g.ry \in Int /\ g.rw \in Int /\ g.rh \in Int
      /\ FbW \in Nat /\ FbH \in Nat
  BY GeoInts
<1>2. ASSUME NEW n \in Nat, NEW f \in Nat, n <= f
      PROVE  /\ Start1((f - n) \div 2) = (f - n) \div 2
             /\ Clip1((f - n) \div 2, n, f) = n
             /\ (f - n) - 2 * ((f - n) \div 2) \in {0, 1}
  BY <1>2 DEF Start1, Clip1
<1>3. CASE HasRect
  <2>1. /\ OutRect.x = Start1(g.rx) /\ OutRect.w = Clip1(Start1(g.rx), g.rw, FbW)
        /\ OutRect.y = Start1(g.ry) /\ OutRect.h = Clip1(Start1(g.ry), g.rh, FbH)
    BY <1>3, RectIs
  <2> QED
    BY <1>1, <1>3, <2>1 DEF Start1, Clip1
<1>4. CASE ~HasRect
  <2>1. /\ OutRect.x = Start1((FbW - g.w) \div 2)
        /\ OutRect.w = Clip1(Start1((FbW - g.w) \div 2), g.w, FbW)
        /\ OutRect.y = Start1((FbH - g.h) \div 2)
        /\ OutRect.h = Clip1(Start1((FbH - g.h) \div 2), g.h, FbH)
    BY <1>4, RectIs
  <2>2. ASSUME g.w <= FbW PROVE OutRect.w = g.w /\ (FbW - OutRect.w) - 2 * OutRect.x \in {0, 1}
    <3>1. OutRect.x = (FbW - g.w) \div 2 /\ OutRect.w = g.w
      BY <1>1, <1>2, <2>1, <2>2
    <3> QED
      BY <1>1, <1>2, <2>2, <3>1
  <2>3. ASSUME g.h <= FbH PROVE OutRect.h = g.h /\ (FbH - OutRect.h) - 2 * OutRect.y \in {0, 1}
    <3>1. OutRect.y = (FbH - g.h) \div 2 /\ OutRect.h = g.h
      BY <1>1, <1>2, <2>1, <2>3
    <3> QED
      BY <1>1, <1>2, <2>3, <3>1
  <2> QED
    BY <1>4, <2>2, <2>3
<1> QED
  BY <1>3, <1>4

\* The black fill of a --rect without a negative position is the rectangle.
LEMMA FillIsRect ==
  ASSUME cfg \in Configs, cfg.geo.rx >= 0, cfg.geo.ry >= 0
  PROVE  Blackened \in {Nothing, OutRect}
<1> DEFINE g == cfg.geo
<1>1. g.rx \in Nat /\ g.ry \in Nat /\ g.rw \in Int /\ g.rh \in Int /\ FbW \in Nat /\ FbH \in Nat
  BY GeoInts
<1>2. CASE Blackened # Nothing
  <2>1. /\ HasRect
        /\ Blackened = [x |-> g.rx, y |-> g.ry,
                         w |-> Min({g.rw, FbW - g.rx}), h |-> Min({g.rh, FbH - g.ry})]
    BY <1>2 DEF Blackened
  <2>2. /\ Min({g.rw, FbW - g.rx}) = Clip1(g.rx, g.rw, FbW)
        /\ Min({g.rh, FbH - g.ry}) = Clip1(g.ry, g.rh, FbH)
    BY <1>1, MinOfTwo DEF Clip1
  <2>3. Start1(g.rx) = g.rx /\ Start1(g.ry) = g.ry
    BY <1>1 DEF Start1
  <2>4. /\ OutRect.x = g.rx /\ OutRect.w = Clip1(g.rx, g.rw, FbW)
        /\ OutRect.y = g.ry /\ OutRect.h = Clip1(g.ry, g.rh, FbH)
        /\ OutRect = [x |-> OutRect.x, y |-> OutRect.y, w |-> OutRect.w, h |-> OutRect.h]
    BY <2>1, <2>3, RectIs
  <2> QED
    BY <2>1, <2>2, <2>4
<1> QED
  BY <1>2

\* The main thread up to the connection loop.
LEMMA BootInv ==
  ASSUME PlayerInv, InstallHandlers \/ ParseArgs \/ OpenOutputs \/ VpuInit \/ AwaitClient
  PROVE  PlayerInv'
<1> USE StreamConstants DEF PlayerInv, signals, window, timing, At, Goto, Hb
<1>1. CASE InstallHandlers
  <2>1. age' \in 0..Stall + 1
    BY <1>1 DEF InstallHandlers, PlayerTypeOK, Stall
  <2>2. s' = s
    BY <1>1 DEF InstallHandlers
  <2>3. cfg' = cfg /\ pc' \in Outside \cup Opening \cup Looping \cup Closing
    BY <1>1 DEF InstallHandlers, PlayerTypeOK, Outside, Opening, Looping, Closing
  <2>4. PlayerTypeOK'
    BY <1>1, <2>1, <2>2, <2>3, Zenon DEF InstallHandlers, PlayerTypeOK
  <2>5. Clock'
    BY <1>1, <2>1, <2>2 DEF InstallHandlers, PlayerTypeOK, Clock, Fields, Guarded, Stall
  <2>6. Shown'
    BY <1>1, <2>2, <2>3 DEF InstallHandlers, PlayerTypeOK, Shown, Fields, Outside, Opening, Looping, Closing
  <2>7. Account'
    BY <1>1, <2>2, <2>3 DEF InstallHandlers, PlayerTypeOK, Account, Fields, Idle, Frames, Outside, Opening, Looping, Closing
  <2>8. Placed'
    BY <1>1, <2>3, PlacedKept DEF InstallHandlers
  <2> QED
    BY <2>4, <2>5, <2>6, <2>7, <2>8
<1>2. CASE ParseArgs
  <2>1. age' \in 0..Stall + 1
    BY <1>2 DEF ParseArgs, PlayerTypeOK, Stall
  <2>2. s' = s
    BY <1>2 DEF ParseArgs
  <2>3. cfg' = cfg /\ pc' \in Outside \cup Opening \cup Looping \cup Closing
    BY <1>2 DEF ParseArgs, PlayerTypeOK, Outside, Opening, Looping, Closing
  <2>4. PlayerTypeOK'
    BY <1>2, <2>1, <2>2, <2>3, Zenon DEF ParseArgs, PlayerTypeOK
  <2>5. Clock'
    BY <1>2, <2>1, <2>2 DEF ParseArgs, PlayerTypeOK, Clock, Fields, Guarded, Stall
  <2>6. Shown'
    BY <1>2, <2>2, <2>3 DEF ParseArgs, PlayerTypeOK, Shown, Fields, Outside, Opening, Looping, Closing
  <2>7. Account'
    BY <1>2, <2>2, <2>3 DEF ParseArgs, PlayerTypeOK, Account, Fields, Idle, Frames, Outside, Opening, Looping, Closing
  <2>8. Placed'
    BY <1>2, <2>3, PlacedKept DEF ParseArgs
  <2> QED
    BY <2>4, <2>5, <2>6, <2>7, <2>8
<1>3. CASE OpenOutputs
  <2>1. age' \in 0..Stall + 1
    BY <1>3 DEF OpenOutputs, GwSet, PlayerTypeOK, Stall
  <2>2. s' = s
    BY <1>3 DEF OpenOutputs, GwSet
  <2>3. cfg' = cfg /\ pc' \in Outside \cup Opening \cup Looping \cup Closing
    BY <1>3 DEF OpenOutputs, GwSet, PlayerTypeOK, Outside, Opening, Looping, Closing
  <2>4. PlayerTypeOK'
    BY <1>3, <2>1, <2>2, <2>3, Zenon DEF OpenOutputs, GwSet, PlayerTypeOK
  <2>5. Clock'
    BY <1>3, <2>1, <2>2 DEF OpenOutputs, GwSet, PlayerTypeOK, Clock, Fields, Guarded, Stall
  <2>6. Shown'
    BY <1>3, <2>2, <2>3 DEF OpenOutputs, GwSet, PlayerTypeOK, Shown, Fields, Outside, Opening, Looping, Closing
  <2>7. Account'
    BY <1>3, <2>2, <2>3 DEF OpenOutputs, GwSet, PlayerTypeOK, Account, Fields, Idle, Frames, Outside, Opening, Looping, Closing
  <2>8. Placed'
    BY <1>3, <2>3, PlacedKept DEF OpenOutputs, GwSet
  <2> QED
    BY <2>4, <2>5, <2>6, <2>7, <2>8
<1>4. CASE VpuInit
  <2>1. age' \in 0..Stall + 1
    BY <1>4 DEF VpuInit, PlayerTypeOK, Stall
  <2>2. s' = s
    BY <1>4 DEF VpuInit
  <2>3. cfg' = cfg /\ pc' \in Outside \cup Opening \cup Looping \cup Closing
    BY <1>4 DEF VpuInit, PlayerTypeOK, Outside, Opening, Looping, Closing
  <2>4. PlayerTypeOK'
    BY <1>4, <2>1, <2>2, <2>3, Zenon DEF VpuInit, PlayerTypeOK
  <2>5. Clock'
    BY <1>4, <2>1, <2>2 DEF VpuInit, PlayerTypeOK, Clock, Fields, Guarded, Stall
  <2>6. Shown'
    BY <1>4, <2>2, <2>3 DEF VpuInit, PlayerTypeOK, Shown, Fields, Outside, Opening, Looping, Closing
  <2>7. Account'
    BY <1>4, <2>2, <2>3 DEF VpuInit, PlayerTypeOK, Account, Fields, Idle, Frames, Outside, Opening, Looping, Closing
  <2>8. Placed'
    BY <1>4, <2>3, PlacedKept DEF VpuInit
  <2> QED
    BY <2>4, <2>5, <2>6, <2>7, <2>8
<1>5. CASE AwaitClient
  <2>1. age' \in 0..Stall + 1
    BY <1>5 DEF AwaitClient, PlayerTypeOK, Stall
  <2>2. s' = s
    BY <1>5 DEF AwaitClient
  <2>3. cfg' = cfg /\ pc' \in Outside \cup Opening \cup Looping \cup Closing
    BY <1>5 DEF AwaitClient, PlayerTypeOK, Outside, Opening, Looping, Closing
  <2>4. PlayerTypeOK'
    BY <1>5, <2>1, <2>2, <2>3, Zenon DEF AwaitClient, PlayerTypeOK
  <2>5. Clock'
    BY <1>5, <2>1, <2>2 DEF AwaitClient, PlayerTypeOK, Clock, Fields, Guarded, Stall
  <2>6. Shown'
    BY <1>5, <2>2, <2>3 DEF AwaitClient, PlayerTypeOK, Shown, Fields, Outside, Opening, Looping, Closing
  <2>7. Account'
    BY <1>5, <2>2, <2>3 DEF AwaitClient, PlayerTypeOK, Account, Fields, Idle, Frames, Outside, Opening, Looping, Closing
  <2>8. Placed'
    BY <1>5, <2>3, PlacedKept DEF AwaitClient
  <2> QED
    BY <2>4, <2>5, <2>6, <2>7, <2>8
<1> QED
  BY <1>1, <1>2, <1>3, <1>4, <1>5

\* From a connection to a decoder that streams.
LEMMA OpeningInv ==
  ASSUME PlayerInv, Accept \/ DecOpen \/ PrimeTry \/ PrimeIdle \/ PrimeFeed \/ PrimeInfo \/ Setup \/ Register
  PROVE  PlayerInv'
<1> USE StreamConstants DEF PlayerInv, signals, window, timing, At, Goto, Hb
<1>1. CASE Accept
  <2>1. age' \in 0..Stall + 1
    BY <1>1 DEF Accept, PlayerTypeOK, Stall
  <2>2. s' = Fresh /\ s' \in Fields
    BY <1>1, FreshFields DEF Accept
  <2>3. cfg' = cfg /\ pc' \in Outside \cup Opening \cup Looping \cup Closing
    BY <1>1 DEF Accept, PlayerTypeOK, Outside, Opening, Looping, Closing
  <2>4. PlayerTypeOK'
    BY <1>1, <2>1, <2>2, <2>3, Zenon DEF Accept, PlayerTypeOK
  <2>5. Clock'
    BY <1>1, <2>1, <2>2 DEF Accept, PlayerTypeOK, Clock, Fields, Guarded, Stall
  <2>6. Shown'
    BY <1>1, <2>2, <2>3 DEF Accept, PlayerTypeOK, Shown, Fresh, Outside, Opening, Looping, Closing
  <2>7. Account'
    BY <1>1, <2>2, <2>3 DEF Accept, PlayerTypeOK, Account, Fresh, Idle, Frames, Outside, Opening, Looping, Closing
  <2>8. Placed'
    BY <1>1, <2>3, PlacedKept DEF Accept
  <2> QED
    BY <2>4, <2>5, <2>6, <2>7, <2>8
<1>2. CASE DecOpen
  <2>1. age' \in 0..Stall + 1 /\ age' <= age + 1 /\ hb_on' = hb_on /\ hung' = hung
    BY <1>2, TookAges DEF DecOpen, PlayerTypeOK, Guarded, Stall
  <2>2. s' = s
    BY <1>2 DEF DecOpen
  <2>3. cfg' = cfg /\ pc' \in Outside \cup Opening \cup Looping \cup Closing
    BY <1>2 DEF DecOpen, PlayerTypeOK, Outside, Opening, Looping, Closing
  <2>4. PlayerTypeOK'
    BY <1>2, <2>1, <2>2, <2>3, Zenon DEF DecOpen, PlayerTypeOK
  <2>5. Clock'
    BY <1>2, <2>1, <2>2 DEF DecOpen, PlayerTypeOK, Clock, Fields, Guarded, Stall
  <2>6. Shown'
    BY <1>2, <2>2, <2>3 DEF DecOpen, PlayerTypeOK, Shown, Fields, Outside, Opening, Looping, Closing
  <2>7. Account'
    BY <1>2, <2>2, <2>3 DEF DecOpen, PlayerTypeOK, Account, Fields, Idle, Frames, Outside, Opening, Looping, Closing
  <2>8. Placed'
    BY <1>2, <2>3, PlacedKept DEF DecOpen
  <2> QED
    BY <2>4, <2>5, <2>6, <2>7, <2>8
<1>3. CASE PrimeTry
  <2>1. age' \in 0..Stall + 1
    BY <1>3 DEF PrimeTry, PlayerTypeOK, Stall
  <2>2. s' \in Fields
    BY <1>3 DEF PrimeTry, PlayerTypeOK, Fields, Frames, Idle
  <2>3. cfg' = cfg /\ pc' \in Outside \cup Opening \cup Looping \cup Closing
    BY <1>3 DEF PrimeTry, PlayerTypeOK, Outside, Opening, Looping, Closing
  <2>4. PlayerTypeOK'
    BY <1>3, <2>1, <2>2, <2>3, Zenon DEF PrimeTry, PlayerTypeOK
  <2>5. Clock'
    BY <1>3, <2>1, <2>2 DEF PrimeTry, PlayerTypeOK, Clock, Fields, Guarded, Stall
  <2>6. Shown'
    BY <1>3, <2>2, <2>3 DEF PrimeTry, PlayerTypeOK, Shown, Fields, Outside, Opening, Looping, Closing
  <2>7. Account'
    BY <1>3, <2>2, <2>3 DEF PrimeTry, PlayerTypeOK, Account, Fields, Idle, Frames, Outside, Opening, Looping, Closing
  <2>8. Placed'
    BY <1>3, <2>3, PlacedKept DEF PrimeTry
  <2> QED
    BY <2>4, <2>5, <2>6, <2>7, <2>8
<1>4. CASE PrimeIdle
  <2>1. age' \in 0..Stall + 1 /\ age' <= age + Stall + 1 /\ hb_on' = hb_on /\ hung' = hung
    BY <1>4, TookAges DEF PrimeIdle, PlayerTypeOK, Guarded, Stall
  <2>2. s' \in Fields
    BY <1>4 DEF PrimeIdle, PlayerTypeOK, Fields, Frames, Idle
  <2>3. cfg' = cfg /\ pc' \in Outside \cup Opening \cup Looping \cup Closing
    BY <1>4 DEF PrimeIdle, PlayerTypeOK, Outside, Opening, Looping, Closing
  <2>4. PlayerTypeOK'
    BY <1>4, <2>1, <2>2, <2>3, Zenon DEF PrimeIdle, PlayerTypeOK
  <2>5. Clock'
    BY <1>4, <2>1, <2>2 DEF PrimeIdle, PlayerTypeOK, Clock, Fields, Guarded, Stall
  <2>6. Shown'
    BY <1>4, <2>2, <2>3 DEF PrimeIdle, PlayerTypeOK, Shown, Fields, Outside, Opening, Looping, Closing
  <2>7. Account'
    BY <1>4, <2>2, <2>3 DEF PrimeIdle, PlayerTypeOK, Account, Fields, Idle, Frames, Outside, Opening, Looping, Closing
  <2>8. Placed'
    BY <1>4, <2>3, PlacedKept DEF PrimeIdle
  <2> QED
    BY <2>4, <2>5, <2>6, <2>7, <2>8
<1>5. CASE PrimeFeed
  <2>1. age' \in 0..Stall + 1
    BY <1>5 DEF PrimeFeed, PlayerTypeOK, Stall
  <2>2. s' = s
    BY <1>5 DEF PrimeFeed
  <2>3. cfg' = cfg /\ pc' \in Outside \cup Opening \cup Looping \cup Closing
    BY <1>5 DEF PrimeFeed, PlayerTypeOK, Outside, Opening, Looping, Closing
  <2>4. PlayerTypeOK'
    BY <1>5, <2>1, <2>2, <2>3, Zenon DEF PrimeFeed, PlayerTypeOK
  <2>5. Clock'
    BY <1>5, <2>1, <2>2 DEF PrimeFeed, PlayerTypeOK, Clock, Fields, Guarded, Stall
  <2>6. Shown'
    BY <1>5, <2>2, <2>3 DEF PrimeFeed, PlayerTypeOK, Shown, Fields, Outside, Opening, Looping, Closing
  <2>7. Account'
    BY <1>5, <2>2, <2>3 DEF PrimeFeed, PlayerTypeOK, Account, Fields, Idle, Frames, Outside, Opening, Looping, Closing
  <2>8. Placed'
    BY <1>5, <2>3, PlacedKept DEF PrimeFeed
  <2> QED
    BY <2>4, <2>5, <2>6, <2>7, <2>8
<1>6. CASE PrimeInfo
  <2>1. age' \in 0..Stall + 1 /\ age' <= age + Guarded /\ hb_on' = hb_on /\ hung' = hung
    BY <1>6, TookAges DEF PrimeInfo, PlayerTypeOK, Guarded, Stall
  <2>2. s' = s
    BY <1>6 DEF PrimeInfo
  <2>3. cfg' = cfg /\ pc' \in Outside \cup Opening \cup Looping \cup Closing
    BY <1>6 DEF PrimeInfo, PlayerTypeOK, Outside, Opening, Looping, Closing
  <2>4. PlayerTypeOK'
    BY <1>6, <2>1, <2>2, <2>3, Zenon DEF PrimeInfo, PlayerTypeOK
  <2>5. Clock'
    BY <1>6, <2>1, <2>2 DEF PrimeInfo, PlayerTypeOK, Clock, Fields, Guarded, Stall
  <2>6. Shown'
    BY <1>6, <2>2, <2>3 DEF PrimeInfo, PlayerTypeOK, Shown, Fields, Outside, Opening, Looping, Closing
  <2>7. Account'
    BY <1>6, <2>2, <2>3 DEF PrimeInfo, PlayerTypeOK, Account, Fields, Idle, Frames, Outside, Opening, Looping, Closing
  <2>8. Placed'
    BY <1>6, <2>3, PlacedKept DEF PrimeInfo
  <2> QED
    BY <2>4, <2>5, <2>6, <2>7, <2>8
<1>7. CASE Setup
  <2>1. age' \in 0..Stall + 1
    BY <1>7 DEF Setup, PlayerTypeOK, Stall
  <2>2. s' = s
    BY <1>7 DEF Setup
  <2>3. cfg' = cfg /\ pc' \in Outside \cup Opening \cup Looping \cup Closing
    BY <1>7 DEF Setup, PlayerTypeOK, Outside, Opening, Looping, Closing
  <2>4. PlayerTypeOK'
    BY <1>7, <2>1, <2>2, <2>3, Zenon DEF Setup, PlayerTypeOK
  <2>5. Clock'
    BY <1>7, <2>1, <2>2 DEF Setup, PlayerTypeOK, Clock, Fields, Guarded, Stall
  <2>6. Shown'
    BY <1>7, <2>2, <2>3 DEF Setup, PlayerTypeOK, Shown, Fields, Outside, Opening, Looping, Closing
  <2>7. Account'
    BY <1>7, <2>2, <2>3 DEF Setup, PlayerTypeOK, Account, Fields, Idle, Frames, Outside, Opening, Looping, Closing
  <2>8. Placed'
    <3>1. OutRect' = OutRect
      BY <2>3 DEF OutRect, HasRect
    <3>2. OutRect.w \in Int /\ OutRect.h \in Int
      BY RectInts DEF PlayerTypeOK
    <3> QED
      BY <1>7, <3>1, <3>2 DEF Setup, Placed
  <2> QED
    BY <2>4, <2>5, <2>6, <2>7, <2>8
<1>8. CASE Register
  <2>1. age' \in 0..Stall + 1 /\ age' <= age + 1 /\ hb_on' = hb_on /\ hung' = hung
    BY <1>8, TookAges DEF Register, PlayerTypeOK, Guarded, Stall
  <2>2. s' \in Fields
    <3>1. Conversions \subseteq {"pp16", "pp32", "prp"}
      BY DEF Conversions
    <3>2. s \in Fields /\ s.late \in BOOLEAN
      BY DEF PlayerTypeOK, Fields
    <3>3. [Fresh EXCEPT !.can = Conversions, !.late = s.late] \in Fields
      BY <3>1, <3>2, FreshFields DEF Fields
    <3> QED
      BY <1>8, <3>2, <3>3 DEF Register
  <2>3. \/ s' = s /\ pc' = "drop"
        \/ /\ pc' = "top" /\ s'.late = s.late
           /\ s'.pending = Idle /\ ~s'.pdisp /\ s'.flags = {} /\ s'.due = {} /\ s'.target = Idle
           /\ s'.itype = FALSE /\ s'.iclean = FALSE
    BY <1>8 DEF Register, Fresh
  <2>4. cfg' = cfg /\ pc' \in Outside \cup Opening \cup Looping \cup Closing
    BY <1>8 DEF Register, PlayerTypeOK, Outside, Opening, Looping, Closing
  <2>5. PlayerTypeOK'
    BY <1>8, <2>1, <2>2, <2>4, Zenon DEF Register, PlayerTypeOK
  <2>6. Clock'
    BY <1>8, <2>1, <2>3 DEF Register, PlayerTypeOK, Clock, Guarded, Stall
  <2>7. Shown'
    BY <1>8, <2>3, <2>4 DEF Register, PlayerTypeOK, Shown, Outside, Opening, Looping, Closing
  <2>8. Account'
    BY <1>8, <2>3, <2>4 DEF Register, PlayerTypeOK, Account, Idle, Outside, Opening, Looping, Closing
  <2>9. Placed'
    BY <1>8, <2>4, PlacedKept DEF Register
  <2> QED
    BY <2>5, <2>6, <2>7, <2>8, <2>9
<1> QED
  BY <1>1, <1>2, <1>3, <1>4, <1>5, <1>6, <1>7, <1>8

\* The decode loop, to the answer of the decoder.
LEMMA DecodeInv ==
  ASSUME PlayerInv, Top \/ Start \/ PipelineRender \/ WaitBusy
  PROVE  PlayerInv'
<1> USE StreamConstants DEF PlayerInv, signals, window, timing, At, Goto, Hb
<1>1. CASE Top
  <2>1. age' \in 0..Stall + 1
    BY <1>1 DEF Top, PlayerTypeOK, Stall
  <2>2. s' \in Fields
    BY <1>1 DEF Top, PlayerTypeOK, Fields, Frames, Idle
  <2>3. cfg' = cfg /\ pc' \in Outside \cup Opening \cup Looping \cup Closing
    BY <1>1 DEF Top, PlayerTypeOK, Outside, Opening, Looping, Closing
  <2>4. PlayerTypeOK'
    BY <1>1, <2>1, <2>2, <2>3, Zenon DEF Top, PlayerTypeOK
  <2>5. Clock'
    BY <1>1, <2>1, <2>2 DEF Top, PlayerTypeOK, Clock, Fields, Guarded, Stall
  <2>6. Shown'
    BY <1>1, <2>2, <2>3 DEF Top, PlayerTypeOK, Shown, Fields, Outside, Opening, Looping, Closing
  <2>7. Account'
    BY <1>1, <2>2, <2>3 DEF Top, PlayerTypeOK, Account, Fields, Idle, Frames, Outside, Opening, Looping, Closing
  <2>8. Placed'
    BY <1>1, <2>3, PlacedKept DEF Top
  <2> QED
    BY <2>4, <2>5, <2>6, <2>7, <2>8
<1>2. CASE Start
  <2>1. age' \in 0..Stall + 1
    BY <1>2 DEF Start, PlayerTypeOK, Stall
  <2> DEFINE t == IF FreeFrames = {} THEN Idle ELSE Min(FreeFrames)
  <2>2. t \in Frames \cup {Idle} /\ (t # Idle => t \notin s.flags \cup s.due)
    BY MinOfFrames DEF FreeFrames
  <2>3. s' = [s EXCEPT !.target = t] \/ (s' = s /\ pc' = "disc")
    BY <1>2 DEF Start
  <2> HIDE DEF t
  <2>4. s' \in Fields
    BY <2>2, <2>3 DEF PlayerTypeOK, Fields
  <2>5. cfg' = cfg /\ pc' \in Outside \cup Opening \cup Looping \cup Closing
    BY <1>2 DEF Start, PlayerTypeOK, Outside, Opening, Looping, Closing
  <2>6. PlayerTypeOK'
    BY <1>2, <2>1, <2>4, <2>5, Zenon DEF Start, PlayerTypeOK
  <2>7. Clock'
    BY <1>2, <2>1, <2>3 DEF Start, PlayerTypeOK, Clock, Fields, Guarded, Stall
  <2>8. Shown'
    BY <1>2, <2>3, <2>5 DEF Start, PlayerTypeOK, Shown, Fields, Outside, Opening, Looping, Closing
  <2>9. Account'
    <3>1. pc' \in {"pipe", "busy", "disc"}
      BY <1>2 DEF Start
    <3> QED
      BY <1>2, <3>1, <2>2, <2>3 DEF Start, PlayerTypeOK, Account, Fields, Idle, Frames, Outside, Opening, Looping, Closing
  <2>10. Placed'
    BY <1>2, <2>5, PlacedKept DEF Start
  <2> QED
    BY <2>6, <2>7, <2>8, <2>9, <2>10
<1>3. CASE PipelineRender
  <2>1. age' \in 0..Stall + 1 /\ age' <= age + 1 /\ hb_on' = hb_on /\ hung' = hung
    BY <1>3, TookAges DEF PipelineRender, PlayerTypeOK, Guarded, Stall
  <2>2. s \in Fields
    BY DEF PlayerTypeOK
  <2>3. PICK r \in Render(TRUE, FALSE, FALSE) :
           s' = [s EXCEPT !.rendered = r.ok, !.pipe = r.ok, !.pp_ok = r.pp_ok]
    BY <1>3 DEF PipelineRender
  <2>4. pc = "pipe" /\ ~hung /\ pc' = "busy" /\ UNCHANGED <<cfg, signals, window>>
    BY <1>3 DEF PipelineRender
  <2>5. r.ok \in BOOLEAN /\ r.pp_ok \in BOOLEAN
    BY <2>2, RenderAnswers
  <2>6. s' \in Fields
    BY <2>2, <2>3, <2>5 DEF Fields
  <2>7. cfg' = cfg /\ pc' \in Outside \cup Opening \cup Looping \cup Closing
    BY <1>3 DEF PipelineRender, PlayerTypeOK, Outside, Opening, Looping, Closing
  <2>8. PlayerTypeOK'
    BY <1>3, <2>1, <2>6, <2>7, Zenon DEF PipelineRender, PlayerTypeOK
  <2>9. Clock'
    BY <2>4, <2>1, <2>2, <2>3 DEF PlayerTypeOK, Clock, Fields, Guarded, Stall
  <2>10. Shown'
    BY <2>4, <2>2, <2>3, <2>7 DEF PlayerTypeOK, Shown, Fields, Outside, Opening, Looping, Closing
  <2>11. Account'
    BY <2>4, <2>2, <2>3, <2>7 DEF PlayerTypeOK, Account, Fields, Idle, Frames, Outside, Opening, Looping, Closing
  <2>12. Placed'
    BY <1>3, <2>7, PlacedKept DEF PipelineRender
  <2> QED
    BY <2>8, <2>9, <2>10, <2>11, <2>12
<1>4. CASE WaitBusy
  <2>1. age' \in 0..Stall + 1 /\ age' <= age + 2 /\ hb_on' = hb_on /\ hung' = hung
    BY <1>4, TookAges DEF WaitBusy, PlayerTypeOK, Guarded, Stall
  <2>2. s \in Fields /\ Idle \notin Frames
    BY StreamConstants DEF PlayerTypeOK, Frames, Idle
  <2> DEFINE answered(a) ==
               [s EXCEPT !.target = Idle, !.dec = a.dec, !.disp = a.disp, !.itype = a.itype,
                         !.due = (@ \cup {a.dec}) \ {a.disp, Idle},
                         !.flags = (@ \cup {a.disp}) \ {Idle},
                         !.iclean = @ \/ a.itype]
  <2>3. \/ pc' = "show" /\ \E a \in Answers : s' = answered(a)
        \/ pc' = "disc" /\ (s' = s \/ s' = [s EXCEPT !.target = Idle])
    BY <1>4 DEF WaitBusy
  <2>4. pc = "busy" /\ ~hung /\ UNCHANGED <<cfg, signals, window>>
    BY <1>4 DEF WaitBusy
  <2>5. ASSUME NEW a \in Answers
         PROVE  /\ a.dec \in {s.target, Idle} /\ a.disp \in {Idle} \cup s.due \cup {s.target}
                /\ a.itype \in BOOLEAN
    BY DEF Answers
  <2>6. ASSUME NEW a \in Answers PROVE answered(a) \in Fields
    <3> DEFINE b == s.iclean \/ a.itype
               d == (s.due \cup {a.dec}) \ {a.disp, Idle}
               f == (s.flags \cup {a.disp}) \ {Idle}
    <3>1. b \in BOOLEAN /\ d \in SUBSET Frames /\ f \in SUBSET Frames
      BY <2>2, <2>5 DEF Fields
    <3>2. a.dec \in Frames \cup {Idle} /\ a.disp \in Frames \cup {Idle}
      BY <2>2, <2>5 DEF Fields
    <3>3. answered(a) = [s EXCEPT !.target = Idle, !.dec = a.dec, !.disp = a.disp,
                                  !.itype = a.itype, !.due = d, !.flags = f, !.iclean = b]
      OBVIOUS
    <3> HIDE DEF answered, b, d, f
    <3> QED
      BY <2>2, <2>5, <3>1, <3>2, <3>3 DEF Fields
  <2>7. ASSUME NEW a \in Answers
         PROVE  /\ answered(a).target = Idle /\ answered(a).disp = a.disp
                /\ answered(a).itype = a.itype /\ answered(a).pending = s.pending
                /\ answered(a).pdisp = s.pdisp /\ answered(a).late = s.late
                /\ answered(a).iclean = (s.iclean \/ a.itype)
                /\ answered(a).due = (s.due \cup {a.dec}) \ {a.disp, Idle}
                /\ answered(a).flags = (s.flags \cup {a.disp}) \ {Idle}
    BY <2>2 DEF Fields
  <2> HIDE DEF answered
  <2>8. s' \in Fields
    BY <2>2, <2>3, <2>6 DEF Fields
  <2>9. cfg' = cfg /\ pc' \in Outside \cup Opening \cup Looping \cup Closing
    BY <1>4 DEF WaitBusy, PlayerTypeOK, Outside, Opening, Looping, Closing
  <2>10. PlayerTypeOK'
    BY <1>4, <2>1, <2>8, <2>9, Zenon DEF WaitBusy, PlayerTypeOK
  <2>11. Clock'
    <3>1. s'.late = s.late
      BY <2>2, <2>3, <2>7 DEF Fields
    <3> QED
      BY <2>4, <2>1, <2>3, <3>1 DEF PlayerTypeOK, Clock, Guarded, Stall
  <2>12. Shown'
    <3>1. CASE pc' = "show"
      <4>1. PICK a \in Answers : s' = answered(a)
        BY <2>3, <3>1
      <4>2. /\ s'.itype = a.itype /\ s'.pdisp = s.pdisp
            /\ s'.iclean <=> s.iclean \/ a.itype
        BY <4>1, <2>5, <2>7
      <4> QED
        BY <2>4, <3>1, <2>9, <4>2 DEF PlayerTypeOK, Shown, Outside, Opening, Looping, Closing
    <3>2. CASE pc' = "disc"
      BY <2>4, <3>2, <2>9, <2>2, <2>3 DEF PlayerTypeOK, Shown, Fields, Outside, Opening, Looping, Closing
    <3> QED
      BY <2>3, <3>1, <3>2
  <2>13. Account'
    <3>1. CASE pc' = "show"
      <4>1. PICK a \in Answers : s' = answered(a)
        BY <2>3, <3>1
      <4> QED
        BY <2>4, <3>1, <4>1, <2>2, <2>5, <2>7 DEF PlayerTypeOK, Account, Fields, Outside, Opening, Looping, Closing
    <3>2. CASE pc' = "disc"
      BY <2>4, <3>2, <2>2, <2>3 DEF PlayerTypeOK, Account, Fields, Outside, Opening, Looping, Closing
    <3> QED
      BY <2>3, <3>1, <3>2
  <2>14. Placed'
    BY <1>4, <2>9, PlacedKept DEF WaitBusy
  <2> QED
    BY <2>10, <2>11, <2>12, <2>13, <2>14
<1> QED
  BY <1>1, <1>2, <1>3, <1>4

\* The decode loop, from the answer to the next round.
LEMMA ShowInv ==
  ASSUME PlayerInv, ShowPending \/ Arm \/ OverlayOnOff \/ Pend \/ FeedWait \/ Check
  PROVE  PlayerInv'
<1> USE StreamConstants DEF PlayerInv, signals, window, timing, At, Goto, Hb
<1>1. CASE ShowPending
  <2>1. age' \in 0..Stall + 1 /\ age' <= age + 1 /\ hb_on' = hb_on /\ hung' = hung
    BY <1>1, TookAges DEF ShowPending, PlayerTypeOK, Guarded, Stall
  <2>2. s \in Fields
    BY DEF PlayerTypeOK
  <2> DEFINE back == [s EXCEPT !.flags = @ \ {s.pending}, !.pending = Idle, !.pdisp = FALSE]
  <2>3. \/ s' = back
        \/ \E r \in Render(s.pp_ok, cfg.codec # "avc", TRUE) :
             s' = [back EXCEPT !.rendered = r.ok, !.pp_ok = r.pp_ok]
    BY <1>1 DEF ShowPending
  <2>4. /\ pc = "show" /\ ~hung /\ UNCHANGED <<cfg, signals, window>>
        /\ pc' = IF s.disp = Idle THEN "feedwait" ELSE "arm"
    BY <1>1 DEF ShowPending
  <2>5. s.pp_ok \in BOOLEAN
    BY <2>2 DEF Fields
  <2>6. \A r \in Render(s.pp_ok, cfg.codec # "avc", TRUE) : r.ok \in BOOLEAN /\ r.pp_ok \in BOOLEAN
    <3>1. (cfg.codec # "avc") \in BOOLEAN
      OBVIOUS
    <3> QED
      BY <2>2, <2>5, <3>1, RenderAnswers
  <2>7. back \in Fields
    BY <2>2 DEF Fields
  <2>8. /\ back.flags = s.flags \ {s.pending} /\ back.pending = Idle /\ back.pdisp = FALSE
        /\ back.disp = s.disp /\ back.due = s.due /\ back.target = s.target /\ back.late = s.late
        /\ back.itype = s.itype /\ back.iclean = s.iclean
    BY <2>2 DEF Fields
  <2> HIDE DEF back
  <2>9. s' \in Fields
    BY <2>3, <2>6, <2>7 DEF Fields
  <2>10. /\ s'.flags = s.flags \ {s.pending} /\ s'.pending = Idle /\ s'.pdisp = FALSE
         /\ s'.disp = s.disp /\ s'.due = s.due /\ s'.target = s.target /\ s'.late = s.late
         /\ s'.itype = s.itype /\ s'.iclean = s.iclean
    BY <2>3, <2>7, <2>8 DEF Fields
  <2>11. cfg' = cfg /\ pc' \in Outside \cup Opening \cup Looping \cup Closing
    BY <1>1 DEF ShowPending, PlayerTypeOK, Outside, Opening, Looping, Closing
  <2>12. PlayerTypeOK'
    BY <1>1, <2>1, <2>9, <2>11, Zenon DEF ShowPending, PlayerTypeOK
  <2>13. Clock'
    BY <2>4, <2>1, <2>10 DEF PlayerTypeOK, Clock, Guarded, Stall
  <2>14. Shown'
    BY <2>4, <2>11, <2>10 DEF PlayerTypeOK, Shown, Outside, Opening, Looping, Closing
  <2>15. Account'
    BY <2>4, <2>2, <2>10 DEF PlayerTypeOK, Account, Fields, Outside, Opening, Looping, Closing
  <2>16. Placed'
    BY <1>1, <2>11, PlacedKept DEF ShowPending
  <2> QED
    BY <2>12, <2>13, <2>14, <2>15, <2>16
<1>2. CASE Arm
  <2>1. age' \in 0..Stall + 1
    BY <1>2 DEF Arm, PlayerTypeOK, Stall
  <2>2. s' = s
    BY <1>2 DEF Arm
  <2>3. cfg' = cfg /\ pc' \in Outside \cup Opening \cup Looping \cup Closing
    BY <1>2 DEF Arm, PlayerTypeOK, Outside, Opening, Looping, Closing
  <2>4. PlayerTypeOK'
    BY <1>2, <2>1, <2>2, <2>3, Zenon DEF Arm, PlayerTypeOK
  <2>5. Clock'
    BY <1>2, <2>1, <2>2 DEF Arm, PlayerTypeOK, Clock, Fields, Guarded, Stall
  <2>6. Shown'
    BY <1>2, <2>2, <2>3 DEF Arm, PlayerTypeOK, Shown, Fields, Outside, Opening, Looping, Closing
  <2>7. Account'
    BY <1>2, <2>2, <2>3 DEF Arm, PlayerTypeOK, Account, Fields, Idle, Frames, Outside, Opening, Looping, Closing
  <2>8. Placed'
    BY <1>2, <2>3, PlacedKept DEF Arm
  <2> QED
    BY <2>4, <2>5, <2>6, <2>7, <2>8
<1>3. CASE OverlayOnOff
  <2>1. age' \in 0..Stall + 1
    BY <1>3 DEF OverlayOnOff, GwSet, PlayerTypeOK, Stall
  <2>2. s' = s
    BY <1>3 DEF OverlayOnOff, GwSet
  <2>3. cfg' = cfg /\ pc' \in Outside \cup Opening \cup Looping \cup Closing
    BY <1>3 DEF OverlayOnOff, GwSet, PlayerTypeOK, Outside, Opening, Looping, Closing
  <2>4. PlayerTypeOK'
    BY <1>3, <2>1, <2>2, <2>3, Zenon DEF OverlayOnOff, GwSet, PlayerTypeOK
  <2>5. Clock'
    BY <1>3, <2>1, <2>2 DEF OverlayOnOff, GwSet, PlayerTypeOK, Clock, Fields, Guarded, Stall
  <2>6. Shown'
    BY <1>3, <2>2, <2>3 DEF OverlayOnOff, GwSet, PlayerTypeOK, Shown, Fields, Outside, Opening, Looping, Closing
  <2>7. Account'
    BY <1>3, <2>2, <2>3 DEF OverlayOnOff, GwSet, PlayerTypeOK, Account, Fields, Idle, Frames, Outside, Opening, Looping, Closing
  <2>8. Placed'
    BY <1>3, <2>3, PlacedKept DEF OverlayOnOff, GwSet
  <2> QED
    BY <2>4, <2>5, <2>6, <2>7, <2>8
<1>4. CASE Pend
  <2>1. age' \in 0..Stall + 1
    BY <1>4 DEF Pend, PlayerTypeOK, Stall
  <2>2. s \in Fields
    BY DEF PlayerTypeOK
  <2>3. s' \in Fields
    <3>1. (cfg.out # "decode") \in BOOLEAN
      OBVIOUS
    <3>2. CASE s' = [s EXCEPT !.pending = s.disp, !.pdisp = cfg.out # "decode"]
      BY <2>2, <3>1, <3>2 DEF Fields
    <3>3. CASE s' = [s EXCEPT !.flags = @ \ {s.disp}]
      BY <2>2, <3>3 DEF Fields
    <3> QED
      BY <1>4, <3>2, <3>3 DEF Pend
  <2>4. cfg' = cfg /\ pc' \in Outside \cup Opening \cup Looping \cup Closing
    BY <1>4 DEF Pend, PlayerTypeOK, Outside, Opening, Looping, Closing
  <2>5. PlayerTypeOK'
    BY <1>4, <2>1, <2>3, <2>4, Zenon DEF Pend, PlayerTypeOK
  <2>6. Clock'
    BY <1>4, <2>1, <2>3 DEF Pend, PlayerTypeOK, Clock, Fields, Guarded, Stall
  <2>7. Shown'
    BY <1>4, <2>3, <2>4 DEF Pend, PlayerTypeOK, Shown, Fields, Outside, Opening, Looping, Closing
  <2>8. Account'
    BY <1>4, <2>3, <2>4 DEF Pend, PlayerTypeOK, Account, Fields, Idle, Frames, Outside, Opening, Looping, Closing
  <2>9. Placed'
    BY <1>4, <2>4, PlacedKept DEF Pend
  <2> QED
    BY <2>5, <2>6, <2>7, <2>8, <2>9
<1>5. CASE FeedWait
  <2>1. UNCHANGED timing \/ Took(1)
    BY <1>5 DEF FeedWait
  <2>2. age' \in 0..Stall + 1 /\ age' <= age + 1 /\ hb_on' = hb_on /\ hung' = hung
    <3>1. CASE UNCHANGED timing
      BY <3>1 DEF PlayerTypeOK, Stall
    <3>2. CASE Took(1)
      BY <3>2, TookAges DEF PlayerTypeOK, Took
    <3> QED
      BY <2>1, <3>1, <3>2
  <2>3. s' = s
    BY <1>5 DEF FeedWait, GwSet
  <2>4. cfg' = cfg /\ pc' \in Outside \cup Opening \cup Looping \cup Closing
    BY <1>5 DEF FeedWait, GwSet, PlayerTypeOK, Outside, Opening, Looping, Closing
  <2>5. PlayerTypeOK'
    BY <1>5, <2>2, <2>3, <2>4, Zenon DEF FeedWait, GwSet, PlayerTypeOK
  <2>6. Clock'
    <3>1. pc' \in {"check", "disc"}
      BY <1>5 DEF FeedWait
    <3> QED
      BY <1>5, <3>1, <2>2, <2>3 DEF FeedWait, PlayerTypeOK, Clock, Stall
  <2>7. Shown'
    BY <1>5, <2>3, <2>4 DEF FeedWait, GwSet, PlayerTypeOK, Shown, Fields, Outside, Opening, Looping, Closing
  <2>8. Account'
    BY <1>5, <2>3, <2>4 DEF FeedWait, GwSet, PlayerTypeOK, Account, Fields, Idle, Frames, Outside, Opening, Looping, Closing
  <2>9. Placed'
    BY <1>5, <2>4, PlacedKept DEF FeedWait, GwSet
  <2> QED
    BY <2>5, <2>6, <2>7, <2>8, <2>9
<1>6. CASE Check
  <2>1. age' \in 0..Stall + 1
    BY <1>6 DEF Check, PlayerTypeOK, Stall
  <2>2. s \in Fields
    BY DEF PlayerTypeOK
  <2> DEFINE n == IF s.disp = Idle THEN s.rounds + 1 ELSE 0
  <2>3. n \in Nat
    BY <2>2 DEF Fields
  <2>4. \/ s' = s
        \/ s' = [s EXCEPT !.rounds = n, !.rendered = FALSE, !.dec = Idle, !.disp = Idle,
                          !.itype = FALSE]
    BY <1>6 DEF Check
  <2> HIDE DEF n
  <2>5. s' \in Fields
    BY <2>2, <2>3, <2>4 DEF Fields
  <2>6. cfg' = cfg /\ pc' \in Outside \cup Opening \cup Looping \cup Closing
    BY <1>6 DEF Check, PlayerTypeOK, Outside, Opening, Looping, Closing
  <2>7. PlayerTypeOK'
    BY <1>6, <2>1, <2>5, <2>6, Zenon DEF Check, PlayerTypeOK
  <2>8. Clock'
    BY <1>6, <2>1, <2>5 DEF Check, PlayerTypeOK, Clock, Fields, Guarded, Stall
  <2>9. Shown'
    BY <1>6, <2>5, <2>6 DEF Check, PlayerTypeOK, Shown, Fields, Outside, Opening, Looping, Closing
  <2>10. Account'
    BY <1>6, <2>5, <2>6 DEF Check, PlayerTypeOK, Account, Fields, Idle, Frames, Outside, Opening, Looping, Closing
  <2>11. Placed'
    BY <1>6, <2>6, PlacedKept DEF Check
  <2> QED
    BY <2>7, <2>8, <2>9, <2>10, <2>11
<1> QED
  BY <1>1, <1>2, <1>3, <1>4, <1>5, <1>6

\* The end of a session.
LEMMA ClosingInv ==
  ASSUME PlayerInv, Disc \/ Drop \/ Restart
  PROVE  PlayerInv'
<1> USE StreamConstants DEF PlayerInv, signals, window, timing, At, Goto, Hb
<1>1. CASE Disc
  <2> DEFINE locked == s.pending # Idle /\ s.target # Idle
  <2>1. Took(IF locked THEN 10 ELSE 0)
    BY <1>1 DEF Disc
  <2>2. /\ age' \in 0..Stall + 1 /\ hb_on' = hb_on /\ hung' = hung
        /\ ~locked => age' <= age
    <3>1. CASE locked
      BY <2>1, <3>1, TookAges DEF PlayerTypeOK, Took
    <3>2. CASE ~locked
      <4>1. Took(0)
        BY <2>1, <3>2
      <4> QED
        BY <3>2, <4>1, TookAges DEF PlayerTypeOK, Took, Stall
    <3> QED
      BY <3>1, <3>2
  <2>3. s \in Fields
    BY DEF PlayerTypeOK
  <2>4. s' = [s EXCEPT !.flags = IF locked THEN @ ELSE @ \ {s.pending}, !.pending = Idle,
                        !.pdisp = FALSE, !.late = @ \/ locked]
    BY <1>1 DEF Disc
  <2>5. s' \in Fields
    <3> DEFINE f == IF locked THEN s.flags ELSE s.flags \ {s.pending}
               b == s.late \/ locked
    <3>1. b \in BOOLEAN /\ f \in SUBSET Frames
      BY <2>3 DEF Fields
    <3>2. s' = [s EXCEPT !.flags = f, !.pending = Idle, !.pdisp = FALSE, !.late = b]
      BY <2>4
    <3> HIDE DEF f, b
    <3> QED
      BY <2>3, <3>1, <3>2 DEF Fields
  <2>6. cfg' = cfg /\ pc' \in Outside \cup Opening \cup Looping \cup Closing
    BY <1>1 DEF Disc, GwSet, PlayerTypeOK, Outside, Opening, Looping, Closing
  <2>7. PlayerTypeOK'
    BY <1>1, <2>2, <2>5, <2>6, Zenon DEF Disc, GwSet, PlayerTypeOK
  <2>8. Clock'
    <3>1. s'.late <=> s.late \/ locked
      BY <2>3, <2>4 DEF Fields
    <3> QED
      BY <1>1, <3>1, <2>2 DEF Disc, PlayerTypeOK, Clock, Stall
  <2>9. Shown'
    BY <1>1, <2>6, <2>3, <2>4 DEF Disc, GwSet, PlayerTypeOK, Shown, Fields, Outside, Opening, Looping, Closing
  <2>10. Account'
    BY <1>1, <2>6, <2>3, <2>4 DEF Disc, PlayerTypeOK, Account, Fields, Outside, Opening, Looping, Closing
  <2>11. Placed'
    BY <1>1, <2>6, PlacedKept DEF Disc, GwSet
  <2> QED
    BY <2>7, <2>8, <2>9, <2>10, <2>11
<1>2. CASE Drop
  <2>1. age' \in 0..Stall + 1 /\ age' <= age + Guarded /\ hb_on' = hb_on /\ hung' = hung
    BY <1>2, TookAges DEF Drop, PlayerTypeOK, Guarded, Stall
  <2>2. s' = s
    BY <1>2 DEF Drop
  <2>3. cfg' = cfg /\ pc' \in Outside \cup Opening \cup Looping \cup Closing
    BY <1>2 DEF Drop, PlayerTypeOK, Outside, Opening, Looping, Closing
  <2>4. PlayerTypeOK'
    BY <1>2, <2>1, <2>2, <2>3, Zenon DEF Drop, PlayerTypeOK
  <2>5. Clock'
    BY <1>2, <2>1, <2>2 DEF Drop, PlayerTypeOK, Clock, Fields, Guarded, Stall
  <2>6. Shown'
    BY <1>2, <2>2, <2>3 DEF Drop, PlayerTypeOK, Shown, Fields, Outside, Opening, Looping, Closing
  <2>7. Account'
    BY <1>2, <2>2, <2>3 DEF Drop, PlayerTypeOK, Account, Fields, Idle, Frames, Outside, Opening, Looping, Closing
  <2>8. Placed'
    BY <1>2, <2>3, PlacedKept DEF Drop
  <2> QED
    BY <2>4, <2>5, <2>6, <2>7, <2>8
<1>3. CASE Restart
  <2>1. age' \in 0..Stall + 1 /\ age' <= age + Guarded /\ hb_on' = hb_on /\ hung' = hung
    BY <1>3, TookAges DEF Restart, PlayerTypeOK, Guarded, Stall
  <2>2. s' = s
    BY <1>3 DEF Restart
  <2>3. cfg' = cfg /\ pc' \in Outside \cup Opening \cup Looping \cup Closing
    BY <1>3 DEF Restart, PlayerTypeOK, Outside, Opening, Looping, Closing
  <2>4. PlayerTypeOK'
    BY <1>3, <2>1, <2>2, <2>3, Zenon DEF Restart, PlayerTypeOK
  <2>5. Clock'
    BY <1>3, <2>1, <2>2 DEF Restart, PlayerTypeOK, Clock, Fields, Guarded, Stall
  <2>6. Shown'
    BY <1>3, <2>2, <2>3 DEF Restart, PlayerTypeOK, Shown, Fields, Outside, Opening, Looping, Closing
  <2>7. Account'
    BY <1>3, <2>2, <2>3 DEF Restart, PlayerTypeOK, Account, Fields, Idle, Frames, Outside, Opening, Looping, Closing
  <2>8. Placed'
    BY <1>3, <2>3, PlacedKept DEF Restart
  <2> QED
    BY <2>4, <2>5, <2>6, <2>7, <2>8
<1> QED
  BY <1>1, <1>2, <1>3

\* Signals, hangs and the clock.
LEMMA EventInv ==
  ASSUME PlayerInv, Sigusr1 \/ Sigusr2 \/ Hang \/ TimePasses \/ Alarm
  PROVE  PlayerInv'
<1> USE StreamConstants DEF PlayerInv, signals, window, timing, At, Goto, Hb
<1>1. CASE Sigusr1
  <2>1. age' \in 0..Stall + 1
    BY <1>1 DEF Sigusr1, PlayerTypeOK, Stall
  <2>2. s' = s
    BY <1>1 DEF Sigusr1
  <2>3. cfg' = cfg /\ pc' \in Outside \cup Opening \cup Looping \cup Closing
    BY <1>1 DEF Sigusr1, PlayerTypeOK, Outside, Opening, Looping, Closing
  <2>4. PlayerTypeOK'
    BY <1>1, <2>1, <2>2, <2>3, Zenon DEF Sigusr1, PlayerTypeOK
  <2>5. Clock'
    BY <1>1, <2>1, <2>2 DEF Sigusr1, PlayerTypeOK, Clock, Fields, Guarded, Stall
  <2>6. Shown'
    BY <1>1, <2>2, <2>3 DEF Sigusr1, PlayerTypeOK, Shown, Fields, Outside, Opening, Looping, Closing
  <2>7. Account'
    BY <1>1, <2>2, <2>3 DEF Sigusr1, PlayerTypeOK, Account, Fields, Idle, Frames, Outside, Opening, Looping, Closing
  <2>8. Placed'
    BY <1>1, <2>3, PlacedKept DEF Sigusr1
  <2> QED
    BY <2>4, <2>5, <2>6, <2>7, <2>8
<1>2. CASE Sigusr2
  <2>1. age' \in 0..Stall + 1
    BY <1>2 DEF Sigusr2, PlayerTypeOK, Stall
  <2>2. s' = s
    BY <1>2 DEF Sigusr2
  <2>3. cfg' = cfg /\ pc' \in Outside \cup Opening \cup Looping \cup Closing
    BY <1>2 DEF Sigusr2, PlayerTypeOK, Outside, Opening, Looping, Closing
  <2>4. PlayerTypeOK'
    BY <1>2, <2>1, <2>2, <2>3, Zenon DEF Sigusr2, PlayerTypeOK
  <2>5. Clock'
    BY <1>2, <2>1, <2>2 DEF Sigusr2, PlayerTypeOK, Clock, Fields, Guarded, Stall
  <2>6. Shown'
    BY <1>2, <2>2, <2>3 DEF Sigusr2, PlayerTypeOK, Shown, Fields, Outside, Opening, Looping, Closing
  <2>7. Account'
    BY <1>2, <2>2, <2>3 DEF Sigusr2, PlayerTypeOK, Account, Fields, Idle, Frames, Outside, Opening, Looping, Closing
  <2>8. Placed'
    BY <1>2, <2>3, PlacedKept DEF Sigusr2
  <2> QED
    BY <2>4, <2>5, <2>6, <2>7, <2>8
<1>3. CASE Hang
  <2>1. age' \in 0..Stall + 1
    BY <1>3 DEF Hang, PlayerTypeOK, Stall
  <2>2. s' = s
    BY <1>3 DEF Hang
  <2>3. cfg' = cfg /\ pc' \in Outside \cup Opening \cup Looping \cup Closing
    BY <1>3 DEF Hang, PlayerTypeOK, Outside, Opening, Looping, Closing
  <2>4. PlayerTypeOK'
    BY <1>3, <2>1, <2>2, <2>3, Zenon DEF Hang, PlayerTypeOK
  <2>5. Clock'
    BY <1>3, <2>1, <2>2 DEF Hang, PlayerTypeOK, Clock, Fields, Guarded, Stall
  <2>6. Shown'
    BY <1>3, <2>2, <2>3 DEF Hang, PlayerTypeOK, Shown, Fields, Outside, Opening, Looping, Closing
  <2>7. Account'
    BY <1>3, <2>2, <2>3 DEF Hang, PlayerTypeOK, Account, Fields, Idle, Frames, Outside, Opening, Looping, Closing
  <2>8. Placed'
    BY <1>3, <2>3, PlacedKept DEF Hang
  <2> QED
    BY <2>4, <2>5, <2>6, <2>7, <2>8
<1>4. CASE TimePasses
  <2>1. age' \in 0..Stall + 1
    BY <1>4 DEF TimePasses, PlayerTypeOK, Stall
  <2>2. s' = s
    BY <1>4 DEF TimePasses
  <2>3. cfg' = cfg /\ pc' \in Outside \cup Opening \cup Looping \cup Closing
    BY <1>4 DEF TimePasses, PlayerTypeOK, Outside, Opening, Looping, Closing
  <2>4. PlayerTypeOK'
    BY <1>4, <2>1, <2>2, <2>3, Zenon DEF TimePasses, PlayerTypeOK
  <2>5. Clock'
    BY <1>4, <2>1, <2>2 DEF TimePasses, PlayerTypeOK, Clock, Fields, Guarded, Stall
  <2>6. Shown'
    BY <1>4, <2>2, <2>3 DEF TimePasses, PlayerTypeOK, Shown, Fields, Outside, Opening, Looping, Closing
  <2>7. Account'
    BY <1>4, <2>2, <2>3 DEF TimePasses, PlayerTypeOK, Account, Fields, Idle, Frames, Outside, Opening, Looping, Closing
  <2>8. Placed'
    BY <1>4, <2>3, PlacedKept DEF TimePasses
  <2> QED
    BY <2>4, <2>5, <2>6, <2>7, <2>8
<1>5. CASE Alarm
  <2>1. age' \in 0..Stall + 1
    BY <1>5 DEF Alarm, PlayerTypeOK, Stall
  <2>2. s' = s
    BY <1>5 DEF Alarm
  <2>3. cfg' = cfg /\ pc' \in Outside \cup Opening \cup Looping \cup Closing
    BY <1>5 DEF Alarm, PlayerTypeOK, Outside, Opening, Looping, Closing
  <2>4. PlayerTypeOK'
    BY <1>5, <2>1, <2>2, <2>3, Zenon DEF Alarm, PlayerTypeOK
  <2>5. Clock'
    BY <1>5, <2>1, <2>2 DEF Alarm, PlayerTypeOK, Clock, Fields, Guarded, Stall
  <2>6. Shown'
    BY <1>5, <2>2, <2>3 DEF Alarm, PlayerTypeOK, Shown, Fields, Outside, Opening, Looping, Closing
  <2>7. Account'
    BY <1>5, <2>2, <2>3 DEF Alarm, PlayerTypeOK, Account, Fields, Idle, Frames, Outside, Opening, Looping, Closing
  <2>8. Placed'
    BY <1>5, <2>3, PlacedKept DEF Alarm
  <2> QED
    BY <2>4, <2>5, <2>6, <2>7, <2>8
<1> QED
  BY <1>1, <1>2, <1>3, <1>4, <1>5

\* Every step keeps the invariant.
LEMMA NextInv == PlayerInv /\ [Next]_vars => PlayerInv'
<1> SUFFICES ASSUME PlayerInv, [Next]_vars PROVE PlayerInv'
  OBVIOUS
<1>1. CASE UNCHANGED vars
  BY <1>1 DEF vars, PlayerInv, PlayerTypeOK, Clock, Shown, Account, Placed, OutRect, HasRect
<1>2. CASE Fails \/ Exec \/ EarlySignal \/ Watchdog \/ Respawn
  BY <1>2, ImageInv DEF Fails, Exec, EarlySignal, Watchdog, Respawn
<1> QED
  BY <1>1, <1>2, BootInv, OpeningInv, DecodeInv, ShowInv, ClosingInv, EventInv DEF Next, Main

-----------------------------------------------------------------------------
\* Every display flag is one the decode loop knows of and gives back, and the decoder
\* never writes the frame that the PP may be reading.
THEOREM FramesAccounted == Spec => []BuffersAccounted
<1>1. PlayerInv => BuffersAccounted
  BY DEF PlayerInv, Account, BuffersAccounted
<1> QED
  BY <1>1, InitInv, NextInv, PTL DEF Spec

\* No session shows a picture before its first I picture.
THEOREM ShownSafe == Spec => []ShownAfterI
<1>1. PlayerInv => ShownAfterI
  BY DEF PlayerInv, Shown, ShownAfterI
<1> QED
  BY <1>1, InitInv, NextInv, PTL DEF Spec

\* The watchdog does not end a process whose library calls return, apart from the two
\* waits without a bound.
THEOREM WatchdogSafe == Spec => []HeartbeatFresh
<1>1. PlayerInv => HeartbeatFresh
  BY DEF PlayerInv, PlayerTypeOK, Clock, HeartbeatFresh, Stall, Guarded, Outside, Opening, Looping,
     Closing
<1> QED
  BY <1>1, InitInv, NextInv, PTL DEF Spec

\* For every size of screen and stream and every --rect, negative positions and sizes
\* too: the picture of a session that is set up lies on the screen, where --rect asks for
\* it if that is possible, in the middle without one; and the black fill of a --rect
\* without a negative position covers just that rectangle.
THEOREM OutputOnScreen == Spec => []OnScreen
<1>1. PlayerInv => OnScreen
  <2> SUFFICES ASSUME PlayerInv PROVE OnScreen
    OBVIOUS
  <2>1. cfg \in Configs
    BY DEF PlayerInv, PlayerTypeOK
  <2>2. pc = "register" => OutRect.w >= 2 /\ OutRect.h >= 2
    BY DEF PlayerInv, Placed
  <2>3. /\ OutRect.x \in Nat /\ OutRect.y \in Nat
        /\ OutRect.x + OutRect.w <= FbW /\ OutRect.y + OutRect.h <= FbH
    BY <2>1, RectInts
  <2>4. cfg.geo.rx >= 0 /\ cfg.geo.ry >= 0 => Blackened \in {Nothing, OutRect}
    BY <2>1, FillIsRect
  <2>5. OutRect.x >= 0 /\ OutRect.y >= 0
    BY <2>3
  <2> QED
    BY <2>1, <2>2, <2>3, <2>4, <2>5, RectWhere DEF OnScreen
<1> QED
  BY <1>1, InitInv, NextInv, PTL DEF Spec
=============================================================================
