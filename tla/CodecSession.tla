---------------------------- MODULE CodecSession ----------------------------
(***************************************************************************)
(* The library's decoder and encoder API (lib/vpu_lib.c, lib/vpu_util.c),  *)
(* the decoder driven by the decode loop of the applications, on top of    *)
(* the BIT processor and the driver's codec interrupt (kernel/mxc_vpu.c).  *)
(*                                                                         *)
(* vpu_semap lives in the driver's share_mem and survives the process: it  *)
(* holds api_lock, the instance pool and pendingInst.  A frame keeps       *)
(* api_lock from its StartOneFrame to its GetOutputInfo.  The threads      *)
(* are those of the single process that uses the VPU; the process may be   *)
(* killed at any step, and a new one started.                              *)
(***************************************************************************)
EXTENDS Integers, FiniteSets

CONSTANTS
  Threads,      \* callers of the API
  NumInst,      \* MAX_NUM_INSTANCE
  MaxPolls,     \* the decode loop gives up after this many waits (30)
  Troubles      \* the sets of troubles to look at

\* What callers may do, and what may go wrong around the library:
\*   threads   several threads use the API at a time
\*   encode    callers may open encoders
\*   command   callers give commands and ask for the version
\*   pps       callers set a picture parameter set (DEC_SET_PPS_RBSP)
\*   nomem     there is no memory for the reports of a frame
\*   abandon   a caller closes with a decode outstanding
\*   careless  a caller makes other calls with a decode outstanding
\*   wedge     the BIT processor fails to finish a command in time
\*   timeout   a thread waits 10 s for another thread's api_lock
\*   kill      the process is killed
Trouble == {"threads", "encode", "command", "pps", "nomem",
            "abandon", "careless", "wedge", "timeout", "kill"}

ASSUME SessionConstants ==
  /\ Threads # {}
  /\ "free" \notin Threads
  /\ NumInst \in Nat \ {0}
  /\ MaxPolls \in Nat /\ MaxPolls >= 2
  /\ Troubles \subseteq SUBSET Trouble

Slots == 1..NumInst
None == 0               \* no slot, a NULL handle, a NULL pendingInst
Alien == NumInst + 1    \* a pointer of a dead process that is no instance here
Free == "free"          \* api_lock is not taken

VARIABLES
  trouble,      \* the troubles that may happen in this behaviour
  proc,         \* the process: "dead", in vpu_Init ("opened", "boot"), or "up"
  api_lock,     \* the thread that took it, or Free
  inUse,        \* slots of codecInstPool whose inUse is set
  enc,          \* those in use whose codecMode is an encoder's
  info,         \* slots with initialInfoObtained
  fbs,          \* slots with frameBufPool set
  pendingInst,  \* the slot of the frame started, None or Alien
  pc, op,       \* where a thread is, in which call
  h,            \* the handle a thread works with
  polls,        \* waits of the decode loop so far
  cmd,          \* the BIT processor's command, or "idle" (BIT_BUSY_FLAG = 0)
  irq,          \* the interrupt line
  codec_done    \* the driver's flag that WAIT4INT waits for

shm == <<inUse, enc, info, fbs, pendingInst>>
hw == <<cmd, irq, codec_done>>
svars == <<trouble, proc, api_lock, shm, pc, op, h, polls, hw>>

\* CODE_RUN is the start of the firmware; ENC_PARA_SET also stands for ENCODE_HEADER
\* and RC_CHANGE_PARAMETER.
Commands == {"CODE_RUN", "SEQ_INIT", "SET_FRAME_BUF", "PIC_RUN", "DEC_BUF_FLUSH", "SEQ_END",
             "FIRMWARE_GET", "DEC_PARA_SET", "ENC_PARA_SET"}
Calls == {"Open", "EncOpen", "Open2", "SeqInit", "SetBufs", "Start", "Flush", "ClrDisp",
          "Escape", "Version", "Command", "Pps", "Close"}
PC == {"user", "lock", "body", "busywait", "spin", "poll", "sleep", "read"}
alive == proc = "up"
decoders == inUse \ enc
busy == cmd # "idle"

-----------------------------------------------------------------------------
\* Every call: validity checks, LockVpu (which may time out), the body.

Goto(t, at) == pc' = [pc EXCEPT ![t] = at]
Call(t, c) == Goto(t, "lock") /\ op' = [op EXCEPT ![t] = c]
Return(t) == Goto(t, "user") /\ op' = [op EXCEPT ![t] = "none"]
UnlockVpu == api_lock' = Free

\* A caller that goes on although the lock could not be had.
LockVpu_ignored(t) ==
  /\ pc[t] = "lock"
  /\ api_lock' = t
  /\ Goto(t, "body")
  /\ UNCHANGED <<trouble, proc, shm, op, h, polls, hw>>

\* LockVpu succeeds.
LockVpu(t) ==
  /\ pc[t] = "lock"
  /\ api_lock = Free
  /\ api_lock' = t
  /\ Goto(t, "body")
  /\ UNCHANGED <<trouble, proc, shm, op, h, polls, hw>>

\* LockVpu gives up: RETCODE_FAILURE_TIMEOUT.  After a failed open or close the
\* caller drops its handle.
LockTimeout(t) ==
  /\ pc[t] = "lock"
  /\ api_lock # Free
  /\ "timeout" \in trouble \/ api_lock = t
  /\ Return(t)
  /\ h' = IF op[t] \in {"Open2", "Close"} THEN [h EXCEPT ![t] = None] ELSE h
  /\ UNCHANGED <<trouble, proc, api_lock, shm, polls, hw>>

\* BitIssueCommand, whatever the BIT processor is doing.
BitIssueCommand(c) == cmd' = c /\ UNCHANGED <<irq, codec_done>>

-----------------------------------------------------------------------------
\* vpu_DecOpen, vpu_EncOpen: take a slot under one lock, write registers under a
\* second.

Alone(t) == \A u \in Threads \ {t} : pc[u] = "user" /\ h[u] = None

MayOpen(t) ==
  /\ alive /\ pc[t] = "user" /\ h[t] = None
  /\ "threads" \in trouble \/ Alone(t)

DecOpen(t) ==
  /\ MayOpen(t)
  /\ Call(t, "Open")
  /\ UNCHANGED <<trouble, proc, api_lock, shm, h, polls, hw>>

EncOpen(t) ==
  /\ "encode" \in trouble /\ MayOpen(t)
  /\ Call(t, "EncOpen")
  /\ UNCHANGED <<trouble, proc, api_lock, shm, h, polls, hw>>

GetCodecInstance(t) ==
  /\ pc[t] = "body" /\ op[t] \in {"Open", "EncOpen"}
  /\ UnlockVpu
  /\ IF Slots \subseteq inUse
       THEN Return(t) /\ UNCHANGED <<shm, h>>
       ELSE LET s == CHOOSE s \in Slots \ inUse : \A r \in Slots \ inUse : s <= r
            IN /\ inUse' = inUse \cup {s}
               /\ enc' = IF op[t] = "EncOpen" THEN enc \cup {s} ELSE enc
               /\ info' = info \ {s}
               /\ fbs' = fbs \ {s}
               /\ h' = [h EXCEPT ![t] = s]
               /\ Call(t, "Open2")
               /\ UNCHANGED pendingInst
  /\ UNCHANGED <<trouble, proc, polls, hw>>

OpenRegs(t) ==
  /\ pc[t] = "body" /\ op[t] = "Open2"
  /\ UnlockVpu
  /\ Return(t)
  /\ UNCHANGED <<trouble, proc, shm, h, polls, hw>>

-----------------------------------------------------------------------------
\* Calls that run a command and wait for it with the lock held.

DecGetInitialInfo(t) ==
  /\ pc[t] = "user" /\ h[t] \in decoders \ info
  /\ Call(t, "SeqInit")
  /\ UNCHANGED <<trouble, proc, api_lock, shm, h, polls, hw>>

EncGetInitialInfo(t) ==
  /\ pc[t] = "user" /\ h[t] \in enc \ info
  /\ Call(t, "SeqInit")
  /\ UNCHANGED <<trouble, proc, api_lock, shm, h, polls, hw>>

\* frameBufPool is set before the lock is asked for.
DecRegisterFrameBuffer(t) ==
  /\ pc[t] = "user" /\ h[t] \in (decoders \cap info) \ fbs
  /\ fbs' = fbs \cup {h[t]}
  /\ Call(t, "SetBufs")
  /\ UNCHANGED <<trouble, proc, api_lock, inUse, enc, info, pendingInst, h, polls, hw>>

EncRegisterFrameBuffer(t) ==
  /\ pc[t] = "user" /\ h[t] \in (enc \cap info) \ fbs
  /\ fbs' = fbs \cup {h[t]}
  /\ Call(t, "SetBufs")
  /\ UNCHANGED <<trouble, proc, api_lock, inUse, enc, info, pendingInst, h, polls, hw>>

DecBitBufferFlush(t) ==
  /\ pc[t] = "user" /\ h[t] \in decoders \cap fbs
  /\ Call(t, "Flush")
  /\ UNCHANGED <<trouble, proc, api_lock, shm, h, polls, hw>>

\* Also without an instance.
GetVersionInfo(t) ==
  /\ "command" \in trouble /\ alive /\ pc[t] = "user"
  /\ "threads" \in trouble \/ Alone(t)
  /\ Call(t, "Version")
  /\ UNCHANGED <<trouble, proc, api_lock, shm, h, polls, hw>>

CommandOf == [SeqInit |-> "SEQ_INIT", SetBufs |-> "SET_FRAME_BUF",
              Flush |-> "DEC_BUF_FLUSH", Version |-> "FIRMWARE_GET", Close |-> "SEQ_END"]

IssueAndWait(t) ==
  /\ pc[t] = "body" /\ op[t] \in DOMAIN CommandOf
  /\ op[t] = "Close" => h[t] \in info
  /\ BitIssueCommand(CommandOf[op[t]])
  /\ Goto(t, "busywait")
  /\ UNCHANGED <<trouble, proc, api_lock, shm, op, h, polls>>

\* vpu_DecGetInitialInfo on an empty bitstream buffer; no command runs.
NothingToIssue(t) ==
  /\ pc[t] = "body" /\ op[t] = "SeqInit" /\ h[t] \notin enc
  /\ UnlockVpu
  /\ Return(t)
  /\ UNCHANGED <<trouble, proc, shm, h, polls, hw>>

FreeInstance(t) ==
  /\ inUse' = inUse \ {h[t]}
  /\ enc' = enc \ {h[t]}
  /\ h' = [h EXCEPT ![t] = None]
  /\ UNCHANGED <<info, fbs, pendingInst>>

\* SEQ_INIT may report failure, or a picture that the library refuses.
SeqInitDone(t) ==
  /\ info' \in {info, info \cup {h[t]}}
  /\ UNCHANGED <<inUse, enc, fbs, pendingInst, h>>

\* A busy-wait without its wall-clock bound.
WaitBitBusyClear_forever(t) ==
  /\ pc[t] = "busywait"
  /\ ~busy
  /\ UnlockVpu
  /\ Return(t)
  /\ \/ op[t] = "SeqInit" /\ SeqInitDone(t)
     \/ op[t] \notin {"SeqInit", "Close"} /\ UNCHANGED <<shm, h>>
     \/ op[t] = "Close" /\ FreeInstance(t)
  /\ UNCHANGED <<trouble, proc, polls, hw>>

\* WaitBitBusyClear returns when the flag clears or after a second, and the
\* call goes on alike.
WaitBitBusyClear(t) ==
  /\ pc[t] = "busywait"
  /\ ~busy \/ "wedge" \in trouble
  /\ UnlockVpu
  /\ Return(t)
  /\ \/ op[t] = "SeqInit" /\ SeqInitDone(t)
     \/ op[t] \notin {"SeqInit", "Close"} /\ UNCHANGED <<shm, h>>
     \/ op[t] = "Close" /\ FreeInstance(t)
  /\ UNCHANGED <<trouble, proc, polls, hw>>

\* vpu_DecClrDispFlag, vpu_DecSetEscSeqInit: register updates under the lock.
DecClrDispFlag(t) ==
  /\ pc[t] = "user" \/ ("careless" \in trouble /\ pc[t] = "poll")
  /\ h[t] \in decoders \cap fbs
  /\ Call(t, "ClrDisp")
  /\ UNCHANGED <<trouble, proc, api_lock, shm, h, polls, hw>>

DecSetEscSeqInit(t) ==
  /\ "command" \in trouble /\ pc[t] = "user" /\ h[t] \in decoders
  /\ Call(t, "Escape")
  /\ UNCHANGED <<trouble, proc, api_lock, shm, h, polls, hw>>

UpdateRegister(t) ==
  /\ pc[t] = "body" /\ op[t] \in {"ClrDisp", "Escape"}
  /\ UnlockVpu
  /\ Return(t)
  /\ UNCHANGED <<trouble, proc, shm, h, polls, hw>>

\* vpu_DecGiveCommand, vpu_EncGiveCommand, of the commands that run on the BIT
\* processor: the wait for them has no bound.

DecGiveCommand(t) ==
  /\ "command" \in trouble /\ pc[t] = "user" /\ h[t] \in decoders
  /\ Call(t, "Command")
  /\ UNCHANGED <<trouble, proc, api_lock, shm, h, polls, hw>>

EncGiveCommand(t) ==
  /\ "command" \in trouble /\ pc[t] = "user" /\ h[t] \in enc
  /\ Call(t, "Command")
  /\ UNCHANGED <<trouble, proc, api_lock, shm, h, polls, hw>>

SetParaSet(t) ==
  /\ pc[t] = "body" /\ op[t] = "Command" /\ h[t] \notin enc
  /\ BitIssueCommand("DEC_PARA_SET")
  /\ Goto(t, "spin")
  /\ UNCHANGED <<trouble, proc, api_lock, shm, op, h, polls>>

\* GetParaSet, EncodeHeader, SetGopNumber and its likes.
EncCommand(t) ==
  /\ pc[t] = "body" /\ op[t] = "Command" /\ h[t] \in enc
  /\ BitIssueCommand("ENC_PARA_SET")
  /\ Goto(t, "spin")
  /\ UNCHANGED <<trouble, proc, api_lock, shm, op, h, polls>>

\* DEC_SET_PPS_RBSP alone runs its command without the lock.
SetPps(t) ==
  /\ "pps" \in trouble /\ pc[t] = "user" /\ h[t] \in decoders
  /\ BitIssueCommand("DEC_PARA_SET")
  /\ Goto(t, "spin") /\ op' = [op EXCEPT ![t] = "Pps"]
  /\ UNCHANGED <<trouble, proc, api_lock, shm, h, polls>>

\* while (VpuReadReg(BIT_BUSY_FLAG)) ;
Spin(t) ==
  /\ pc[t] = "spin"
  /\ ~busy
  /\ IF op[t] = "Pps" THEN UNCHANGED api_lock ELSE UnlockVpu
  /\ Return(t)
  /\ UNCHANGED <<trouble, proc, shm, h, polls, hw>>

-----------------------------------------------------------------------------
\* One frame: start, the application's wait loop, read the result.

DecStartOneFrame(t) ==
  /\ pc[t] = "user" \/ ("careless" \in trouble /\ pc[t] \in {"poll", "read"})
  /\ h[t] \in decoders \cap fbs
  /\ Call(t, "Start")
  /\ UNCHANGED <<trouble, proc, api_lock, shm, h, polls, hw>>

EncStartOneFrame(t) ==
  /\ pc[t] = "user" /\ h[t] \in enc \cap fbs
  /\ Call(t, "Start")
  /\ UNCHANGED <<trouble, proc, api_lock, shm, h, polls, hw>>

\* No memory for the reports: RETCODE_FAILURE, and the decoder's start unlocks ...
DecStartFails(t) ==
  /\ "nomem" \in trouble
  /\ pc[t] = "body" /\ op[t] = "Start" /\ h[t] \notin enc
  /\ UnlockVpu
  /\ Return(t)
  /\ UNCHANGED <<trouble, proc, shm, h, polls, hw>>

\* ... but the encoder's does not.
EncStartFails(t) ==
  /\ "nomem" \in trouble
  /\ pc[t] = "body" /\ op[t] = "Start" /\ h[t] \in enc
  /\ Return(t)
  /\ UNCHANGED <<trouble, proc, api_lock, shm, h, polls, hw>>

\* A start that unlocks on return like every other call.
StartPicRun_unlocks(t) ==
  /\ pc[t] = "body" /\ op[t] = "Start"
  /\ BitIssueCommand("PIC_RUN")
  /\ pendingInst' = h[t]
  /\ polls' = [polls EXCEPT ![t] = 0]
  /\ Goto(t, "poll")
  /\ UnlockVpu
  /\ UNCHANGED <<trouble, proc, inUse, enc, info, fbs, op, h>>

\* The lock stays with the caller, who goes on to wait.
StartPicRun(t) ==
  /\ pc[t] = "body" /\ op[t] = "Start"
  /\ BitIssueCommand("PIC_RUN")
  /\ pendingInst' = h[t]
  /\ polls' = [polls EXCEPT ![t] = 0]
  /\ Goto(t, "poll")
  /\ UNCHANGED <<trouble, proc, api_lock, inUse, enc, info, fbs, op, h>>

\* while (vpu_IsBusy()) ...
IsBusy(t) ==
  /\ pc[t] = "poll"
  /\ Goto(t, IF busy THEN "sleep" ELSE "read")
  /\ UNCHANGED <<trouble, proc, api_lock, shm, op, h, polls, hw>>

\* After a wait: if (++i > 30) break.
CountPoll(t) ==
  /\ polls' = [polls EXCEPT ![t] = @ + 1]
  /\ Goto(t, IF polls[t] + 1 > MaxPolls THEN "read" ELSE "poll")

\* A loop that takes the wake-up for the end of the frame.
Wait4Int_trusted(t) ==
  /\ pc[t] = "sleep"
  /\ codec_done
  /\ codec_done' = FALSE
  /\ polls' = [polls EXCEPT ![t] = @ + 1]
  /\ Goto(t, "read")
  /\ UNCHANGED <<trouble, proc, api_lock, shm, op, h, cmd, irq>>

\* VPU_IOC_WAIT4INT sees codec_done and consumes it.
Wait4Int(t) ==
  /\ pc[t] = "sleep"
  /\ codec_done
  /\ codec_done' = FALSE
  /\ CountPoll(t)
  /\ UNCHANGED <<trouble, proc, api_lock, shm, op, h, cmd, irq>>

\* VPU_IOC_WAIT4INT runs into its timeout.  An interrupt is served long before
\* that, and a BIT processor that does not wedge is done before the last wait.
Wait4IntTimeout(t) ==
  /\ pc[t] = "sleep"
  /\ ~codec_done /\ ~irq
  /\ "wedge" \in trouble \/ polls[t] < MaxPolls
  /\ CountPoll(t)
  /\ UNCHANGED <<trouble, proc, api_lock, shm, op, h, hw>>

\* The results are read without looking at the busy flag.
GetOutput(t) ==
  /\ IF pendingInst = h[t]
       THEN pendingInst' = None /\ UnlockVpu
       ELSE UNCHANGED <<pendingInst, api_lock>>
  /\ Return(t)
  /\ polls' = [polls EXCEPT ![t] = 0]
  /\ UNCHANGED <<trouble, proc, inUse, enc, info, fbs, h, hw>>

DecGetOutputInfo(t) == pc[t] = "read" /\ h[t] \notin enc /\ GetOutput(t)

EncGetOutputInfo(t) == pc[t] = "read" /\ h[t] \in enc /\ GetOutput(t)

-----------------------------------------------------------------------------
\* vpu_DecClose, vpu_EncClose

\* The close as it used to be: an outstanding decode is not dropped, and the
\* caller goes on without its handle.
DecClose_keepslock(t) ==
  /\ pc[t] = "user" \/ ("abandon" \in trouble /\ pc[t] \in {"poll", "read"})
  /\ h[t] \in decoders
  /\ IF pendingInst = h[t]
       THEN Return(t) /\ h' = [h EXCEPT ![t] = None]
       ELSE Call(t, "Close") /\ UNCHANGED h
  /\ UNCHANGED <<trouble, proc, api_lock, shm, polls, hw>>

\* An outstanding decode of this instance is dropped with its lock.
DecClose(t) ==
  /\ pc[t] = "user" \/ ("abandon" \in trouble /\ pc[t] \in {"poll", "read"})
  /\ h[t] \in decoders
  /\ IF pendingInst = h[t]
       THEN pendingInst' = None /\ UnlockVpu
       ELSE UNCHANGED <<pendingInst, api_lock>>
  /\ Call(t, "Close")
  /\ polls' = [polls EXCEPT ![t] = 0]
  /\ UNCHANGED <<trouble, proc, inUse, enc, info, fbs, h, hw>>

\* An encoder with a frame outstanding is not closed: RETCODE_FRAME_NOT_COMPLETE.
EncClose(t) ==
  /\ pc[t] = "user"
  /\ h[t] \in enc /\ pendingInst # h[t]
  /\ Call(t, "Close")
  /\ UNCHANGED <<trouble, proc, api_lock, shm, h, polls, hw>>

\* Without a sequence to end, the instance is freed at once.
CloseUnused(t) ==
  /\ pc[t] = "body" /\ op[t] = "Close"
  /\ h[t] \notin info
  /\ UnlockVpu
  /\ Return(t)
  /\ FreeInstance(t)
  /\ UNCHANGED <<trouble, proc, polls, hw>>

-----------------------------------------------------------------------------
\* The BIT processor and the driver's interrupt handler.

\* A command completes; only PIC_RUN has its interrupt enabled.
CommandDone ==
  /\ busy
  /\ cmd' = "idle"
  /\ irq' = (irq \/ cmd = "PIC_RUN")
  /\ UNCHANGED <<trouble, proc, api_lock, shm, pc, op, h, polls, codec_done>>

\* A handler that acknowledges the interrupt but records nothing.
vpu_irq_handler_mute ==
  /\ irq
  /\ irq' = FALSE
  /\ UNCHANGED <<trouble, proc, api_lock, shm, pc, op, h, polls, cmd, codec_done>>

vpu_irq_handler ==
  /\ irq
  /\ irq' = FALSE
  /\ codec_done' = TRUE
  /\ UNCHANGED <<trouble, proc, api_lock, shm, pc, op, h, polls, cmd>>

-----------------------------------------------------------------------------
\* The process dies and the driver's last close resets the VPU; the share
\* memory stays as it is.  Callers of the dead process are gone.
Kill ==
  /\ "kill" \in trouble /\ proc # "dead"
  /\ proc' = "dead"
  /\ cmd' = "idle" /\ irq' = FALSE /\ codec_done' = FALSE
  /\ pc' = [t \in Threads |-> "user"]
  /\ op' = [t \in Threads |-> "none"]
  /\ h' = [t \in Threads |-> None]
  /\ polls' = [t \in Threads |-> 0]
  /\ UNCHANGED <<trouble, api_lock, shm>>

\* A start that trusts the predecessor's instance pool.
Respawn_keepspool ==
  /\ proc = "dead"
  /\ proc' = "opened"
  /\ api_lock' = Free
  /\ pendingInst' \in IF pendingInst = None THEN {None} ELSE {pendingInst, Alien}
  /\ UNCHANGED <<trouble, inUse, enc, info, fbs, pc, op, h, polls, hw>>

\* vpu_Init of a new process: vpu_semaphore_open initialises the locks and
\* frees all instances, but not pendingInst, whose old pointer may or may not
\* be that of an instance in the new mapping.
Respawn ==
  /\ proc = "dead"
  /\ proc' = "opened"
  /\ api_lock' = Free
  /\ inUse' = {} /\ enc' = {}
  /\ pendingInst' \in IF pendingInst = None THEN {None} ELSE {pendingInst, Alien}
  /\ UNCHANGED <<trouble, info, fbs, pc, op, h, polls, hw>>

\* LoadBitCodeTable, DownloadBitCodeTable: no firmware, and the program gives up.
NoFirmware ==
  /\ proc = "opened"
  /\ proc' = "dead"
  /\ UNCHANGED <<trouble, api_lock, shm, pc, op, h, polls, hw>>

\* The firmware is downloaded and started.  No other thread is there yet to want
\* the lock that vpu_Init holds meanwhile.
VpuInit ==
  /\ proc = "opened"
  /\ proc' = "boot"
  /\ BitIssueCommand("CODE_RUN")
  /\ UNCHANGED <<trouble, api_lock, shm, pc, op, h, polls>>

VpuInitDone ==
  /\ proc = "boot"
  /\ ~busy \/ "wedge" \in trouble
  /\ proc' = "up"
  /\ UNCHANGED <<trouble, api_lock, shm, pc, op, h, polls, hw>>

SInit ==
  /\ trouble \in Troubles
  /\ proc = "dead"
  /\ api_lock = Free
  /\ inUse = {} /\ enc = {} /\ info = {} /\ fbs = {}
  /\ pendingInst = None
  /\ pc = [t \in Threads |-> "user"]
  /\ op = [t \in Threads |-> "none"]
  /\ h = [t \in Threads |-> None]
  /\ polls = [t \in Threads |-> 0]
  /\ cmd = "idle" /\ irq = FALSE /\ codec_done = FALSE

\* Calls the application decides to make.
Begin(t) ==
  \/ DecOpen(t) \/ DecGetInitialInfo(t) \/ DecRegisterFrameBuffer(t) \/ DecGiveCommand(t)
  \/ DecStartOneFrame(t) \/ DecBitBufferFlush(t) \/ DecClrDispFlag(t) \/ DecClose(t)
  \/ DecSetEscSeqInit(t) \/ SetPps(t) \/ GetVersionInfo(t)
  \/ EncOpen(t) \/ EncGetInitialInfo(t) \/ EncRegisterFrameBuffer(t) \/ EncGiveCommand(t)
  \/ EncStartOneFrame(t) \/ EncClose(t)

\* Steps a call or the decode loop takes by itself.
Continue(t) ==
  \/ LockVpu(t) \/ LockTimeout(t) \/ GetCodecInstance(t) \/ OpenRegs(t)
  \/ IssueAndWait(t) \/ NothingToIssue(t) \/ WaitBitBusyClear(t) \/ UpdateRegister(t)
  \/ SetParaSet(t) \/ EncCommand(t) \/ Spin(t)
  \/ StartPicRun(t) \/ DecStartFails(t) \/ EncStartFails(t)
  \/ IsBusy(t) \/ Wait4Int(t) \/ Wait4IntTimeout(t)
  \/ DecGetOutputInfo(t) \/ EncGetOutputInfo(t) \/ CloseUnused(t)

SNext ==
  \/ \E t \in Threads : Begin(t) \/ Continue(t)
  \/ CommandDone \/ vpu_irq_handler \/ Kill \/ Respawn \/ NoFirmware \/ VpuInit \/ VpuInitDone

SSpec == SInit /\ [][SNext]_svars

\* A runnable thread is scheduled, the bounded waits run out, and interrupts
\* are served.  Nothing is assumed of the BIT processor or of the callers.
FairSpec ==
  /\ SSpec
  /\ WF_svars(vpu_irq_handler)
  /\ \A t \in Threads : WF_svars(Continue(t))

-----------------------------------------------------------------------------
\* Properties.

\* What the variables of the library, the codec and its interrupt range over.
STypeOK ==
  /\ trouble \subseteq Trouble
  /\ proc \in {"dead", "opened", "boot", "up"}
  /\ api_lock \in Threads \cup {Free}
  /\ inUse \subseteq Slots /\ enc \subseteq inUse /\ info \subseteq Slots /\ fbs \subseteq Slots
  /\ pendingInst \in Slots \cup {None, Alien}
  /\ pc \in [Threads -> PC]
  /\ op \in [Threads -> Calls \cup {"none"}]
  /\ h \in [Threads -> Slots \cup {None}]
  /\ polls \in [Threads -> 0..MaxPolls + 1]
  /\ cmd \in Commands \cup {"idle"}
  /\ irq \in BOOLEAN /\ codec_done \in BOOLEAN

\* None of the troubles T can happen.
Without(T) == trouble \cap T = {}

\* pendingInst left by a killed process makes vpu_DecClose release a lock that
\* another thread holds: below, no process is killed or one thread makes all calls.
LockIntact == Without({"kill"}) \/ Without({"threads"})

\* DEC_SET_PPS_RBSP runs its command without the lock: below, it is not used, or one
\* thread makes all calls.
CommandsLocked == Without({"pps"}) \/ Without({"threads"})

\* An encoder's start that fails keeps the lock: below, none fails, or nobody encodes.
StartsUnlock == Without({"nomem"}) \/ Without({"encode"})

\* A thread between LockVpu and UnlockVpu has the lock to itself, whatever the
\* callers and the BIT processor do.
InsideHoldsLock ==
  LockIntact => \A t \in Threads :
    pc[t] \in {"body", "busywait", "spin"} /\ op[t] # "Pps" => api_lock = t

\* No step starts a command on a BIT processor that is still running one, whichever
\* threads call and however commands, interrupts, polls and lock timeouts
\* interleave (BitIssueCommand writes BIT_RUN_COMMAND without looking at
\* BIT_BUSY_FLAG), if callers see their frames through and the processor answers.
NoCommandWhileBusy ==
  [][LockIntact /\ CommandsLocked /\ Without({"abandon", "careless", "wedge"}) =>
     (cmd' # "idle" /\ cmd' # cmd => cmd = "idle")]_svars

\* The decode loop reads the results of a picture only after the BIT processor
\* finished it, although codec_done may be left over from an earlier picture.
OutputAfterDone ==
  LockIntact /\ CommandsLocked /\ Without({"wedge"}) =>
    \A t \in Threads : pc[t] = "read" => ~busy

\* While the process lives, a handle a thread has is a slot in use, and nobody
\* else's; and if every call got the lock, no other slot is in use: closing,
\* failing and dying leak none (vpu_util.c: "a new one owns the whole pool").
SlotsOwned ==
  LET owned == {h[t] : t \in Threads} \ {None} IN
  alive => /\ owned \subseteq inUse
           /\ LockIntact /\ StartsUnlock /\ Without({"timeout"}) => inUse = owned
           /\ \A t, u \in Threads : t # u /\ h[t] # None => h[t] # h[u]

\* Nobody is left holding api_lock: its owner is inside a call or has a frame
\* outstanding that GetOutputInfo or vpu_DecClose will end.
NoOrphanLock ==
  LockIntact /\ StartsUnlock /\ alive => \A t \in Threads : api_lock = t =>
             pc[t] \in {"body", "busywait", "spin"} \/ (h[t] # None /\ pendingInst = h[t])

\* A thread asleep in WAIT4INT after the picture finished has its wake-up coming.
NoLostWakeup ==
  LockIntact /\ CommandsLocked => \A t \in Threads : pc[t] = "sleep" /\ ~busy => irq \/ codec_done

\* Every call and every frame ends, except the commands that wait without a bound,
\* even when the BIT processor never answers and another thread keeps the lock
\* (vpu_lib.c: "bail after a timeout so the caller always returns").
CallsReturn ==
  {"wedge", "timeout"} \subseteq trouble /\ Without({"command", "pps"}) =>
  \A t \in Threads : pc[t] # "user" ~> pc[t] = "user"

\* A frame that is marked as started still holds the lock (vpu_lib.c: "That start
\* path still holds vpu_semap and leaves *ppendingInst set").
PendingHoldsLock == alive /\ pendingInst # None => api_lock # Free
=============================================================================
