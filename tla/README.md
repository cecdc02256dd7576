# toon-vpu: a TLA+ verification project

This directory models `toon-vpu`, the stack that brings the i.MX27 Codadx6 VPU
back to life on a Toon thermostat, and checks it with TLC and TLAPS.

## 1. The system and its parts

| Part | Source | State it keeps | Operations |
|------|--------|----------------|------------|
| DMA pool, buffer records, open/close | `kernel/mxc_vpu.c` | `vpu_pool[].bitmap`, list `head`, `bitwork_mem`, `open_count` | `vpu_pool_alloc/free`, `PHYMEM_ALLOC/FREE`, `GET_WORK_ADDR`, `vpu_open/release`, `vpu_init/exit` |
| Codec interrupt | `kernel/mxc_vpu.c` | `codec_done`, BIT processor busy flag | `vpu_irq_handler`, `WAIT4INT`, `SYS_SW_RESET`, last-close reset |
| eMMA PP | `kernel/mxc_vpu.c` | `pp_done`, `pp_status`, `pp_csc`, `pp_lock`, PP registers | `pp_convert`, `pp_irq_handler`, `pp_hw_reset`, `PP_SET/GET_CSC` |
| eMMA PP resize table | `kernel/mxc_vpu.c` | none (pure) | `pp_gcd`, `pp_scale_0d`, `pp_scale_1d`, `pp_build_resize` |
| eMMA PrP and its scaler | `kernel/mxc_vpu.c` | `prp_done`, `prp_lock` | `prp_convert`, `prp_scale*` |
| Library I/O layer | `lib/vpu_io.c` | `vpu_fd`, `vpu_active_num`, work/code/para buffers | `IOSystemInit`, `IOSystemShutdown`, `IOGetPhyMem`, `IOFreePhyMem` |
| Library decoder API | `lib/vpu_lib.c`, `lib/vpu_util.c` | `api_lock`, `codecInstPool`, `pendingInst` in persistent `share_mem` | `vpu_Init`, `vpu_DecOpen` .. `vpu_DecClose`, `vpu_DecGiveCommand`, `vpu_GetVersionInfo` |
| Library encoder API | `lib/vpu_lib.c`, `lib/vpu_util.c` | the same, and the report buffers of a frame | `vpu_EncOpen` .. `vpu_EncClose`, `vpu_EncGiveCommand` |
| Bitstream ring | `lib/vpu_lib.c`, `apps/vpu_stream.c` | `streamWrPtr`, RD/WR pointer registers | `vpu_DecGetBitstreamBuffer`, `vpu_DecUpdateBitstreamBuffer`, `vpu_DecBitBufferFlush`, `feed`, `bs_ring_write`, `rtp_direct_append/flush` |
| Player | `apps/vpu_stream.c` | session, heartbeat, pending frame, `g_show`/`g_armed`, overlay window | `main` session loop, `render_frame`, watchdog thread, alarm, signals, `execv` |
| RTP/RTSP input | `apps/vpu_stream.c` | `struct h264_rtp_state`: sequence number, access unit and NAL unit under assembly | `rtsp_thread_main`, `rtp_feed_direct`, `handle_rtp_*` |

The parts interact as follows. The player opens the library (`vpu_Init`), which
opens the device, maps the registers and the share memory and obtains the three
DMA buffers by ioctl. Every library call takes `api_lock`, which lives in share
memory that the driver keeps over closes. A decode is split over two calls:
`vpu_DecStartOneFrame` returns *with* the lock held, the player polls
`vpu_IsBusy` and sleeps in `WAIT4INT`, and `vpu_DecGetOutputInfo` unlocks. In the
meantime the BIT processor reads the ring that the player fills, and raises an
interrupt at the end of the picture. When the process dies, `vpu_release` of the
last open frees the recorded buffers and resets the VPU.

What is hard about it:

* **two-step ioctls**: `PHYMEM_ALLOC` and `PHYMEM_FREE` leave `vpu_lock` between
  the bitmap and the record list; `GET_WORK_ADDR` takes no lock at all;
* **kills** at any step, with state that outlives the process in the driver and in
  the share memory;
* **unwinding** of a half-done `IOSystemInit`, nested inits, shutdowns;
* **a lock held across API calls**, a wake-up flag that may be stale, waits with
  bounds, and a processor that may never answer;
* **a ring with two independent ends**: the room is a snapshot, the pointers wrap,
  equal pointers must mean empty, and one writer stages uncommitted bytes while
  another, on the same socket, may write in between;
* **a one-shot engine that may hang**: a conversion that times out or is interrupted
  against its own late interrupt, a reset that fails, flags shared with a handler;
* **a process watched by its own thread**: a heartbeat that must be fresh on every
  path, hangs in library calls, signals between any two steps, a screen window and a
  share memory that outlive the process;
* **packets that are lost, repeated or late** around the boundaries of access units,
  with counters that wrap;
* **integer edges** of the resize tables: weights, advances and ratios at their limits.

What makes each part correct: no page is given to two owners and none is lost; the
working buffer the BIT processor uses is never anyone else's memory; the device is
open exactly while someone uses it; one command at a time on the BIT processor,
results read only when it is done, no slot, lock or wake-up lost over aborts and
restarts, and every call returns; the VPU reads exactly the bytes of the stream; a
conversion succeeds only when PP finished it, and PP is programmed only when idle; a
resize table samples the line where a resize should; an access unit is fed whole and
with its references; every frame is given back to the decoder, nothing is shown before
an I picture, and a stuck player, and only a stuck one, is replaced.
`PROJECT.json` lists the hazards line by line with the properties that cover them.

## 2. Modules

| Module | Models | Role |
|--------|--------|------|
| `PagePool` | the promise of the allocator | abstract specification: clients are granted page sets nobody else has, and drop them |
| `VpuPool` | `kernel/mxc_vpu.c` memory | implements `PagePool`; first-fit bitmap, records, working buffer, last close |
| `MCVpuPool` | | instance for TLC |
| `VpuPoolProofs` | | `PoolSafe`, `PoolRefines`, `SerialPool` |
| `VpuIo` | `lib/vpu_io.c` | EXTENDS `VpuPool`: processes whose library calls are made of the driver's ioctls |
| `MCVpuIo` | | instance for TLC |
| `VpuIoProofs` | | EXTENDS `VpuPoolProofs`, whose lemmas it reuses: `IoSafe`, `IoBuffers` |
| `CodecSession` | `lib/vpu_lib.c`, `lib/vpu_util.c`, codec interrupt, decode loop | threads, api_lock, instance pool, decoders and encoders, commands, BIT processor, kill and restart |
| `CodecSessionProofs` | | `LockSafe`, `SlotsSafe`, `FramesSafe`, `CommandsSafe` |
| `BitRing` | ring calls of `lib/vpu_lib.c`, writers of `apps/vpu_stream.c` | the bitstream ring and its three writers |
| `BitRingProofs` | | `RingSafe` |
| `PpEngine` | eMMA PP part of `kernel/mxc_vpu.c` | conversions, the PP block, its interrupt, colour matrix |
| `PpEngineProofs` | | `PpSafe`, `PpProgramming` |
| `Resize` | resize tables of PP and PrP in `kernel/mxc_vpu.c` | pure functions, and what a table has to sample |
| `PpTable` | `pp_build_resize` with `pp_gcd`, `pp_scale_1d`, `pp_scale_0d` | EXTENDS `Resize`: the same loops round by round, for proofs about every size |
| `MCPpTable` | | picture sizes for TLC |
| `PpTableProofs` | | `TableSafe`, `TableProgress` |
| `RtpDepacketizer` | RTP and RTSP receivers of `apps/vpu_stream.c` | three receivers against a sender and a network with faults |
| `RtpProofs` | | `OnlyWholeAus`, `StreamPasses`, `WaitingEnds` |
| `VpuStream` | `main`, `render_frame`, watchdog and handlers of `apps/vpu_stream.c` | EXTENDS `Resize`: sessions, decode loop, overlay, hang and restart |
| `MCVpuStream` | | command lines and geometries for TLC |
| `VpuStreamProofs` | | `FramesAccounted`, `ShownSafe`, `WatchdogSafe`, `OutputOnScreen` |

### VpuPool and PagePool
A page is a pair (block, index); `used` holds the pages whose bit is set in the
bitmaps. `head[a]` is the sequence of sizes of the records of address `a`, newest
first: the list is only ever searched by address, so the order between different
addresses does not matter. `FirstFit` is `vpu_pool_alloc`'s search. A client is an
open of the device with one thread in it; each ioctl is split at the point where
the code drops `vpu_lock` or sleeps in a user copy (`pc`, `mem`). `overlap` says
whether ioctls of different clients may interleave at these points; it is chosen
once, in `Init`. `held` and `lost` are ghosts: what a client was given and did not
free, and the pages a faulting `copy_to_user` leaves marked. `Reload` is module
exit and init with any number of blocks obtained. The bridge to `PagePool` maps
`granted[c]` to the page sets of the buffers `c` holds.

### VpuIo
`io[p]` is the step of `IOSystemInit`/`IOSystemShutdown`; `cur[p]` the buffer it is
about; `OnError` encodes the labels `err`, `err2`, `err3`. Actions are conjunctions
of a driver action of `VpuPool` and its effect on the library, so both sides move
in one step. Any mapping may fail (at most `MapFaults` times per behaviour), any
allocation fails when the pool is full, and `Kill` happens anywhere outside an
ioctl. The ghost `gaveBack` records that a failed init freed the driver's working
buffer. The library's own mutex never fails (a failing lock makes
`IOSystemShutdown` return at once, a stutter).

### CodecSession
`pc[t]`/`op[t]` say where thread `t` is in which call; a call is "validity checks",
`LockVpu`, body, and for commands the busy wait. `Begin` holds what the application
decides, `Continue` what then follows by itself. Decoders and encoders (`enc`) share
the lock, the slots and the BIT processor; `GiveCommand` calls wait in "spin", without
a bound, as the code does. `trouble`, chosen once in `SInit`, names what callers may do
and what may go wrong in a behaviour (several threads, encoders, commands, abandoned
decodes, careless calls, no memory, a wedged processor, lock timeouts, kills), so that
each property states the troubles it needs to exclude and holds under all others.
`CommandDone` is the BIT processor (external): it may finish any time or never. `Kill`
keeps `api_lock` and the share memory; `Respawn` is `vpu_semaphore_open`, with an old
`pendingInst` that may or may not coincide with a slot of the new mapping (`Alien`);
`VpuInit` and `VpuInitDone` start the firmware before the API can be used.

Named premises exclude what the code is known to get wrong: `LockIntact` (finding 3),
`CommandsLocked` (`DEC_SET_PPS_RBSP` runs its command without the lock,
`vpu_lib.c:3520`; with several threads it runs into somebody's decode, so
`OutputAfterDone` excludes it too), `StartsUnlock` (`vpu_EncStartOneFrame` that finds no memory returns
with the lock held, `vpu_lib.c:1172`), and in `CallsReturn` the commands that poll the
busy flag for ever (`vpu_util.c:502`). `vpu_EncClose` refuses with a frame outstanding
where `vpu_DecClose` ends it, so only decoders are abandoned. The last half of
`SlotsOwned`, that no slot leaks, needs `LockIntact`: a thread whose lock was released
by somebody else's close waits for it in vain, gives up its close and keeps its slot.

### BitRing
A byte is its position in the stream, so that "the right byte in the right place" is
`ring[i] = position`. `next` counts arrivals, `eaten` is the ghost of what the VPU
must read next. `FeedGet`/`FeedRecv`/`Update` is `feed`, at whatever level of the ring
(`feed_until_watermark` calls it below a level, the decode loop at any), `SkipResync`,
`SkipNoKeyFrame` and `bs_ring_write` the drain of a late player (when it is late is left
open), `RtpAppend`, `RtpCommit`, `RtpDrop` the direct RTP writer with its staged access
unit. `VpuRead` moves the read pointer between any two steps. `cut` is TRUE once a
drained chunk was truncated. The flush of `feed_skip_to_latest` is taken to succeed.

`feed` is not TCP's alone: the decode loop calls `feed(h, 1)` after a round without a
picture (`vpu_stream.c:3285`) in RTP mode too. It then receives a raw datagram at the
write pointer, over the unit under assembly, and commits it; the unit's bytes are from
then on in the wrong place (`Staged`: they come later in the stream than the datagram,
but lie where they were), and its room was sized against the old pointer. Mostly the
receiver misses the datagram as a sequence gap and drops the unit (`RtpGap`); when the
datagram was a duplicate, or no packet of the stream, it commits it (finding 4). The
ghosts `hit` (feed has received over the unit under assembly) and `torn` (such a unit
was committed since `vpu_DecOpen`) say when: the properties hold with `feed` in between,
as long as no such unit is committed.

### PpEngine
A task is a caller of the PP ioctls, and a conversion is named by its task (`job`:
whose buffers the registers name). `pc` splits `pp_convert` at every point where the
handler, the block or another task may come in: mutex, reset, the registers up to
`PP_CSC_COEF_123`, the rest up to `PP_INTRCNTL`, clearing the flags, `PP_EN`, the
wait, the recovery. A colour matrix is one version number held in two words (`hi`,
`lo`), for the two registers it is written to, so a torn matrix shows. `ResetOk` and
`ResetFails` are the outcomes of `pp_hw_reset`; after a failed one the block, its
status and its mask may or may not have been cleared. `WaitFails` is the 200 ms
timeout or a signal. `FrameDone` and `FrameError` are the block (external). Ghosts:
`finished` (PP completed the task's last conversion), `succeeded` (the task's last
ioctl returned 0 from `pp_convert`), `stuck` (the last reset failed). A call refused
by its parameter checks changes nothing and is not an action.

### Resize
A table is a sequence of entries (weight, advance, output?). `Pp1d` and `PrpBuild` are
the loops of the driver, `PpBuildResize` and `PrpScale` the calls around them with their
limits, and `PpAccepts`, `PrpAccepts` the checks of the ioctls. `Sample` is the
reference: where output `i` lies on the input line and how its two neighbours are
weighted, computed from `i` alone. `PpSamples` and `PrpSamples` compare the positions
and, for PP, the rounded weights, and say that one round of the table consumes the
reduced input exactly, so that the hardware may repeat it. The loops are recursive
functions, so that modules that use the checks can be proved about.

### PpTable
What a recursive function computes for every input needs induction over data, which is
out of the prover's reach; what a loop computes is an invariant. So here a round of
`pp_gcd`, of the three loops of `pp_scale_1d`, of their inner loops and of the skipping
loop of `pp_scale_0d` is a step each, on the code's own variables (`v`, `out_pos`,
`carry`, `coeff`, `nxt`), and the two tables stand one after the other in `tbl` as in
the array of `pp_convert`. `Build` takes any call that passes the size checks, `Leave`
ends it. `at` and `cur` are ghosts: how far the pattern is in input and output before
each entry and now. `Sampled`, a part of `TableCorrect`, compares each entry with
`PpSample` of `Resize`, the same reference that the functions of `Resize` are checked
against: the pixel at or before the output, and for 4:1 the first two of four. `Rank`
measures what a call has still to do, so that `Progress` says it ends. Integers are exact; the code's do not overflow for sizes below 2^24, since at most
`PpTblMax` rounds are made.

### RtpDepacketizer
`variant` chooses the receiver: `handle_rtp_h264` behind RTSP over TCP, or the two that
write into the ring behind UDP. `Packets` is a well-formed sender: access units of up to
`MaxPkts` packets, whole NAL units, STAP-A or fragments, classes 1 (depends on the
picture before), 5 (does not) and 7 (parameter sets). The network loses, delays and
repeats packets; `DeliverShort` is a packet there is no room for, any of whose appends
may fail. `Header` and `Payload` are the handlers up to `maybe_flush`. The items of an
access unit carry the index of their packet, so a hole is a missing number; `chain`
is the last unit that reached the decoder with its references. `rtsp_thread_main` is
`Connect` .. `Play`, with packets thrown away ahead of the answer to PLAY. The receiver
is taken to be the only reader of its socket: a datagram that the decode loop's
`feed(h, 1)` takes is to it a lost one (`Lose`), and what that does to the bytes
appended so far is `BitRing`'s matter.

### VpuStream
`pc` is the label the main thread is at: start ("boot0" .. "init"), waiting ("idle"),
priming ("prime", "feed", "info"), set-up ("setup", "register"), the decode loop ("top"
.. "check"), the ends of a session ("disc", "drop", "restart", "exec"), "gone" (the
thread ended, the process did not), "dead". Time is the age of the heartbeat in full
seconds: every action adds the most its code can take when the library answers.
`Hang` makes a library call never return; `TimePasses` then lets the heartbeat go
stale, `Watchdog` kills the process, `Respawn` starts it again. `Alarm` is
`on_sigalrm`: in the static libc its `_exit` ends only the main thread, as the code's
own comment says, and the watchdog has to finish the work. The decoder (external) is the
set of frames with a display flag (`flags`), those kept back (`due`) and the one being
written (`target`). `Render` follows `render_frame` through PP, the 16bpp copy and the
PrP, with the geometry checks of `Resize`. `OutRect` is where the picture goes and
`Blackened` what is filled with black when `--rect` had to be clipped; the fill keeps the
position asked for, so for a negative one it starts before the screen (section 5). The
decoder is taken not to report an I picture when it decoded none (`Answers`): the loop
tests `picType` whatever `indexFrameDecoded` is (3250). Ghosts: `wish` (what the user asked for
last), `iclean` (this session decoded an I picture), `late` (the main thread was in one
of the two waits without a bound). The library calls are those of `CodecSession`, seen
from the caller: they succeed, fail, or hang.

## 3. Runs

| Run | Instance | Shows |
|-----|----------|-------|
| `Pool` | 2 clients, 2 blocks of 2 pages, requests of 0 to 3 pages | `LiveMarked`, `LiveDisjoint`, `PoolPromise` for every interleaving; `SerialWorkBuffer`, `SerialRecords`, `SerialAccounted` without overlap |
| `PoolFreeRace` | 2 clients, overlap | **violation** of `RecordsTrack` (finding 1) |
| `Io` | 2 processes, 5 pages, nesting 2, one mapping failure | `CountMatchesOpen`, `WorkBufferKept`, `InitGivesBuffers` |
| `IoFailedInit` | 1 process | **violation** of `WorkBufferSafe` (finding 2) |
| `Decoder` | 2 threads, 2 slots, 2 polls, 10 sets of troubles | six safety properties and `CallsReturn` |
| `DecStalePending` | 1 thread, kills | **violation** of `PendingHoldsLock` (finding 3) |
| `Ring` | ring of 5, chunks of 3, 11 bytes | `NoHole`, `Lossless`, `InOrder`, `CommitAccepted`, `feed` in RTP mode included |
| `RingRawFeed` | ring of 5, chunks of 2 | **violation** of `UnitWhole` (finding 4) |
| `Pp` | 2 tasks, 2 matrices | `OwnFrame`, `QuietAfterReturn`, `CscWhole`, `NoLostInterrupt`, `NoReprogramming`, `IoctlsReturn` |
| `PpTable` | widths of 32 to 64 onto 8 to 130, six pairs of heights | `TableCorrect`, `RefusalJust`, `Progress` |
| `Rtp` | 3 receivers, 4 sequence numbers, 4 timestamps, units of 3 packets, 2 faults | `NoHoles`, `ReferencesPresent`, `Transparent`, `Resyncs` |
| `Player` | 10 command lines on an 800x480 screen, 3 frames, ratios up to 20 | `BuffersAccounted`, `ShownAfterI`, `HeartbeatFresh`, `ResizeFaithful`, `Recovers` |

Bounds. *Pool*: two blocks make the search cross a block boundary, two pages per
block allow a split and a full block, and two clients are enough for every pairwise
race; the theorems remove these bounds for the properties that hold under overlap.
*Io*: three buffers of one page per process in five pages let the second process
fail at each buffer, or an application allocation starve it. *Decoder*: at most two
wake-ups can be left over (the flag and the line), so two polls are the fewest that
do not end a loop early; with 30 in the code the case is the same. The sets of
troubles in `Decoder.cfg` are, for each property, maximal or near-maximal sets that
it admits; a smaller set has fewer behaviours. *Ring*: the ratios of the code are kept
(chunk and drain smaller than the ring), and 11 bytes wrap the ring of 5 twice;
`RingSafe` removes all of these bounds. *Pp*: two tasks meet in every pair of steps
and two matrices tell halves apart; the theorems remove both bounds. *PpTable*: the
widths make ratios of all five kinds and patterns from 1 to more than 40 entries, the
heights a second pattern of each kind, and together they fill the table at each point of
an output; the theorems remove the bound. *Rtp*: four
sequence numbers and timestamps wrap within two units; a fault number of 2 lets a second
fault meet the recovery from the first, and the numbers exceed what the faults can
skip (`RtpConstants`), as 2^16 does; three packets make a first, a middle and a last
fragment. *Player*: the command lines cover both codecs, the three inputs, overlay and
screen of both depths, the four outputs, and geometries that take PP, PrP, both, or
neither; three frames are the pending one, the displayed one and the one being decoded;
`MaxRounds` only says that a session without pictures ends. `ResizeFaithful` looks at
every reduced ratio up to 20:20 as well as at the sessions' own. Clients and processes are symmetric in
`Pool` and `Io`; `Decoder` checks liveness and uses no symmetry.

Fairness (`FairSpec`): weak fairness of the interrupt handler and of each thread's
`Continue` step. Threads are scheduled by Linux, each wait in the code has a
wall-clock bound (`semaphore_wait` 10 s, `WaitBitBusyClear` 1 s, `WAIT4INT` its
timeout, the poll loop 30 rounds), and interrupts are served. Nothing is assumed of
the BIT processor and nothing of the callers. `PpFair` is the same for the PP ioctls,
with strong fairness of `Lock`: a kernel mutex queues its waiters, so a task that
finds it free again and again gets it in its turn. Nothing is assumed of the PP
block. `Fairness` of `VpuStream` is weak fairness of the main thread, the clock, the
watchdog and the parent's respawn, and strong fairness of `InstallHandlers` and
`OpenOutputs`: not every start of the process is met by a signal or a missing resource.
Nothing is assumed of clients, signals, decoder and conversions. The Pool, Io, Decoder,
Pp, PpTable and Player runs have no terminal state, and Ring ends in no deadlock either: `Reopen`
and the reader go on. `Rtp` does not check deadlock, since an RTSP thread ends.

Every property has a mutant: the operator named `X_...` next to the definition it
changes, a slip that the property catches. The type invariants of `VpuIo`,
`CodecSession`, `PpEngine` and `PpTable` are no run's business: the theorems below
prove them for every instance.

## 4. Theorems

* `PoolSafe`: `Spec => [](TypeOK /\ LiveMarked /\ LiveDisjoint)`, for any finite
  set of clients, any pool geometry and request sizes, overlapping ioctls included.
  The inductive invariant `PInv` adds that `open_count` is the number of opens
  (otherwise the last close could come early: this is where the assumption that a
  u8 can count the clients, `OpenCountFits`, is needed), that a client without an
  open is in no ioctl and holds nothing (so the clean-up of the last close takes
  nobody's buffer), and that a buffer about to be recorded is not already held.
  Allocation takes only unmarked pages, and by `LiveMarked` none of these is live.
  A free unmarks only the caller's pages, and by `LiveDisjoint` no one else's.
* `PoolRefines`: `Spec => PoolPromise`. From `PInv` each step either leaves the
  granted page sets alone, grants a set disjoint from all others, or drops some.
* `SerialPool`: `Spec => [](SerialWorkBuffer /\ SerialRecords /\ SerialAccounted)`:
  what holds if ioctls do not overlap, as on a Toon with one player, over any
  sequence of calls, faulting copies, closes and module reloads. On top of `PInv`,
  `Serial` says that one client at a time is inside an ioctl (`Turns`), that an
  address has at most one record, that the areas of the records are apart from each
  other, from the working buffer and from an allocation in progress, and marked but
  for the one about to be unlisted (`Listed`, `Working`), and whose each marked page
  is (`Marked`). It is `Turns` that finding 1 breaks.
* `IoSafe`: `IoSpec => [](IoTypeOK /\ CountMatchesOpen)`, for any number of processes,
  nested inits and faults, overlapping ioctls included. `IoBase` ties
  `vpu_active_num` and the ioctl a process can be in to the stage of `IOSystemInit`
  (`Counted`, `Staged`), and says that the buffers it would free in an unwinding are
  real ones. The pool's `PInv` cannot be used here: after finding 2 it is false. What
  survives is its part `Base` (types, exact `open_count`, closed clients idle), which
  is why `VpuPoolProofs` proves that part separately, for a free of *any* descriptor.
* `IoBuffers`: `IoSpec /\ ~overlap => [](WorkBufferKept /\ InitGivesBuffers)`. Until
  `gaveBack`, every free is of a buffer held, so `PInv` and `Serial` hold, and
  `Equipped` follows each buffer from the call that got it to the unwinding. The
  parameter buffer differs from the code buffer because a buffer about to be recorded
  is not held yet; `bitwork_mem` does not change under anyone who has it because
  `GET_WORK_ADDR` allocates only when there is none.
* `LockSafe`: `SSpec => [](STypeOK /\ InsideHoldsLock /\ NoOrphanLock)`, `SlotsSafe`
  (`SlotsOwned`), `FramesSafe` (`OutputAfterDone`, `NoLostWakeup`) and `CommandsSafe`
  (the action property `NoCommandWhileBusy`), for any number of threads, instances and
  polls and *every* set of troubles, where the run takes ten. `SInv` says where a
  thread can be in which call with which handle (`Handles`, `Control`, `Single`), who
  holds the lock and for whom `pendingInst` is set (`Locked`), that the holder is on
  its way to releasing it (`Released`), that a slot in use is somebody's (`Owned`),
  that a command that runs is waited for (`Attended`), and that the poll loop outlasts
  the wake-ups left over from earlier pictures (`Waiting`): two at most, the line and
  the flag, hence `MaxPolls >= 2` in `SessionConstants`; the code polls 30 times.
* `RingSafe`: `RSpec => [](RTypeOK /\ NoHole /\ Lossless /\ InOrder /\
  CommitAccepted)`, for every ring size above 1, every chunk and drain size (the drain
  buffer smaller than the ring), with `feed` at any time in the decode loop, in RTP mode
  too. `RInv` has two parts. Types and what a writer's snapshot is worth when it is used
  (`Writer`: the room it saw is at most the room there is, since the VPU only reads) hold
  always (`RTypeNext`). `Sound` holds until a unit that feed has received over is
  committed (`SoundNext`): committed plus staged bytes leave one byte free (`Fits`), and
  what the committed and the staged area contain (`Contents`, `Order`). A unit is counted
  as staged only until feed receives over it; that its later appends still do no harm to
  committed bytes is `CopyKeeps`, since each is sized against the pointer of its moment.
* `PpSafe`: `PpSpec => [](PpTypeOK /\ OwnFrame /\ QuietAfterReturn /\ CscWhole /\
  NoLostInterrupt)`, and `PpProgramming`: `PpSpec => NoReprogramming`, for any sets of
  tasks and matrices. `PpInv` says that whoever is between lock and unlock holds the
  mutex (`Holder`), that from the reset to the start the block is idle, without a
  pending status, and `pp_done` is clear at the start (`Prepared`), that any answer a
  waiting task has or will get is about its own conversion (`Answered`), and how far
  each copy of the matrix has come (`Matrix`). The checked reset is what makes
  `Prepared` hold, and `Prepared` what makes a late interrupt harmless.
* `FramesAccounted` (`BuffersAccounted`), `ShownSafe` (`ShownAfterI`), `WatchdogSafe`
  (`HeartbeatFresh`) and `OutputOnScreen` of the player, for every screen, command
  line, stream geometry, number of frame buffers and length of session. `PlayerInv`
  bounds the age of the heartbeat label by label (`Clock`: the sum along the longest
  path from one beat to the next is what must stay below the watchdog's limit), says
  that nothing is on screen outside the decode loop and that who wants to see waits
  for an I picture of this session (`Shown`), and where each frame buffer is at each
  label (`Account`). `OutputOnScreen` states `OnScreen`, the placement part of
  `ResizeFaithful`, for every geometry: the picture lies on the screen for any `--rect`,
  negative and missing sizes included; it is exactly where `--rect` asks for it if that is
  on the screen, and without one centred to within a pixel; and the black fill covers that
  rectangle and no more, for positions that are not negative.
* `OnlyWholeAus`: `RtpSpec => [](NoHoles /\ ReferencesPresent)`, `StreamPasses`
  (`Transparent`) and `WaitingEnds` (`Resyncs`) of the three RTP receivers, for access
  units of any number of packets, streams of any length, and any `SeqMod`, `MaxFaults`
  and `MaxLate` that `RtpConstants` allows. `HeaderIs` and `PayloadIs` first bring the
  handlers to one form: what a header does, and seven outcomes of a payload (skipped,
  appended, doubted, lacking a start, overrunning, gathered, ended). `SeqInv` then says
  how far `last_seq` is behind the sender, modulo `SeqMod`: at most the faults so far
  and `MaxLate` packets, hence never all the way round, so that a sequence number that
  looks like the next one is the next one, also of a late packet (`Pos`, `LateAt`). For
  that case it says what is staged, fragments in `fu` included, at that point of the
  access unit: an interval of packets up to the last one (`Sound`), a fragment that goes
  on where it started (`Follow`), and for a receiver that waits for nothing the whole
  unit so far, with the unit before it decoded (`Linked`). `Untouched` is the same
  without faults, where `last_seq` is always in step; the RTSP receiver, which may join
  in the middle of a unit, may hold a part of it until its first flush. `CalmInv` says
  what each access unit without a fault restores: first the sequence number and the
  timestamp, then `au_bad` and the staging area, then `need_idr`.
* `TableSafe`: `Spec => [](TableTypeOK /\ TableCorrect /\ RefusalJust)` of the resize
  table, for every size of picture. `TableInv` follows `pp_gcd` by combinations: its two numbers
  are integer combinations of the two sizes and the sizes of its numbers (`GcdOk`), so
  that the result divides both and is itself a combination, and the reduced ratio
  satisfies Bezout's identity (`RatioOk`). In the loops it says where the registers are:
  for more output than input, `v = i * n - p * d` at output `i` and input `p` (`UpAt`);
  for less than 2:1, `p` is the one pixel whose successor is at or behind output `i`
  (`DownAt`, `DownRegs`), which is what `Sample` chooses (`DownSample`). Both loops end
  when a value is back where it began; that this is after exactly `d` outputs, and not
  earlier, is `RoundTrip`, where Bezout's identity is needed. `Counted` says that there
  are as many entries as outputs (four for 4:1), so that a table that overflows is one
  that was too long.
* `TableProgress`: `Spec => Progress`. Every step of a call lowers `Rank` in the
  lexicographic order of four naturals; that `y` goes down in `pp_gcd`, and `v` in the
  inner loops, needs the positive sizes of `TableInv`. Since the order has no infinite
  descent, a call has finitely many steps; TLC's deadlock check adds that it does not get
  stuck before its end.

Assumptions on constants: `PoolConstants`, `OpenCountFits`, `NoMemIsNoDesc`,
`IoConstants`, `SessionConstants`, `RingConstants`, `PpConstants`, `RtpConstants`,
`StreamConstants`, `CallsAssumption`;
each states types and the sizes that the code fixes. TLC checked every inductive
invariant on a small instance before it was proved.

Only model-checked: liveness under fairness (`CallsReturn`, `IoctlsReturn`,
`Recovers`), which is beyond this prover; and the sampling part of `ResizeFaithful`,
since what the
recursive functions of `Resize` compute for every input needs induction over data. For the PP the theorems about `PpTable` say for every size
what `ResizeFaithful` says for ratios up to 20; for the PrP it stays with TLC.

## 5. Findings

1. `mxc_vpu.c:1262`: `PHYMEM_FREE` returns the pages before it removes the record, by
   address only. An allocation in between gets the same address and its record is
   removed in place of the stale one. Needs two processes with overlapping ioctls.
2. `vpu_io.c:321`: a failed `IOSystemInit` frees the driver's working buffer, which
   the driver still holds and hands out to the next init.
3. `vpu_util.c:1010`: a restart after a kill keeps `pendingInst`. With one thread
   every other property of `Decoder` still holds (kills are in its sets of
   troubles); with several threads a close can release another thread's lock.
4. `vpu_stream.c:3285`: the decode loop's `feed(h, 1)` lacks the `rtp_listen_port` test
   of the other calls of `feed`. In RTP mode it writes a raw datagram over the unit under
   assembly and advances the write pointer, which `HANDOFF.md:676-679` says only a
   complete access unit does; if the receiver sees no sequence gap, it then commits a
   unit that is not the one it assembled.

Met while modelling, excluded by name where a property would otherwise say so, and
without a run of their own:

* the commands of section 2, *CodecSession*: the PPS command without the lock, the
  encoder's start that keeps it, the busy loops without a bound;
* the truncation in `bs_ring_write` that by its comment "cannot fire" (2024-2027) can:
  `feed_skip_to_latest` commits another drained window of 256K in every round that finds
  no I-VOP in it. `InOrder` says what still holds then;
* the black fill after clipping (2830-2840) uses the position of `--rect` as it was given:
  with a negative one it starts before the frame buffer's memory, while the picture starts
  at 0;
* `pp_status` may be overwritten by a later interrupt before the waiter reads it
  (`mxc_vpu.c:380`): if the block goes on after an error, that error is reported as
  success, and `OwnFrame` still holds, since PP did finish the frame;
* starting a frame with one outstanding waits for the caller's own lock until it times
  out (`vpu_lib.c:2705`), where the comment at 2633 promises
  `RETCODE_FRAME_NOT_COMPLETE`;
* an RTP player that waits for its first packet is in the prime loop with the watchdog
  armed, and is killed after 10 s (`vpu_stream.c:2742`), although the comments at 2608
  and 2691 want it to be allowed to wait. A disconnect with a decode outstanding waits
  10 s for its own lock (3324), which is the watchdog's limit;
* an access unit dropped for lack of room does not start the wait for an IDR (1293), and
  a NAL unit over 128 KiB is skipped without a mark (1468);
* a SIGUSR1 between the installation of the handlers and the parsing of `--warm` is
  undone (2408 against 2329), and the `execv` after H.264 forgets the last signal;
* showing is armed by the type of the picture decoded, not of the one displayed (3250),
  so with reordering the first picture shown may be an earlier one;
* a PrP retry makes the output a few pixels larger than asked for, and a geometry that
  no block supports is tried again at every reconnection.

## 6. Not modelled

`QUERY`/`SET_BITWORK_MEM` (no caller), `SYS_SW_RESET` and `vpu_SWReset` (the applications
say not to call them), the encoder's bitstream buffer calls (the ring of a component no
application uses), register and clock I/O, `prp_convert`'s registers and interrupt (off
by default), digest authentication, base64 and SDP text (conversions of strings), the
SIGHUP reload of the colour matrix (`PP_SET_CSC`, in `PpEngine`), deblocking and
prebuffering options, the file player `vpu_dec_fb3` (the same decode loop without
sessions, watchdog or signals), the overlay test, the doorbell scripts, and the files
under `reference/`, vendored from the original driver. The share-memory ioctl allocates
and copies under a spin lock and `vpu_release` takes `vpu_lock` twice: both concern the
kernel's own rules on a uniprocessor, not this state.

## 7. Plan

Done: the memory of the driver, the library's I/O layer, the decoder and encoder API,
the ring, the post-processor, the resize tables, the RTP input, the player; theorems
for every safety property of all of them but the sampling part of `ResizeFaithful`. Next:

1. The loops of the PrP's scaler in the manner of `PpTable`, whose arithmetic lemmas
   about a scale-down by less than 2 apply to them as they are.
2. `prp_convert` beside `pp_convert`, with the same conversions-and-interrupt questions.
