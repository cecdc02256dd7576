-------------------------------- MODULE VpuIo --------------------------------
(***************************************************************************)
(* The library's I/O layer (lib/vpu_io.c) on top of the driver's memory:   *)
(* IOSystemInit acquires the device, the register mapping, the driver-held *)
(* working buffer and the code and parameter buffers, unwinding on error;  *)
(* IOSystemShutdown is reference counted by vpu_active_num.  A client of   *)
(* VpuPool is here a process that uses the library; it may be killed at    *)
(* any time outside an ioctl.                                              *)
(***************************************************************************)
EXTENDS VpuPool

CONSTANTS
  CodePages,    \* CODE_BUF_SIZE
  ParaPages,    \* PARA_BUF_SIZE + PARA_BUF2_SIZE
  AppSizes,     \* sizes an application asks IOGetPhyMem for
  MaxActive,    \* bound on nested IOSystemInit calls of a process
  MapFaults     \* bound on the mmap calls that fail

VARIABLES
  io,              \* io[p]: where process p is in IOSystemInit/Shutdown
  cur,             \* cur[p]: the buffer that step is about
  buf,             \* buf[p]: bit_work_addr, code_buf and para_buf
  vpu_active_num,
  faults,          \* mmap failures so far
  gaveBack         \* ghost: has an IOSystemInit failed after it had the
                   \* working buffer, and freed it on the way out?

libvars == <<io, cur, buf, vpu_active_num, faults, gaveBack>>
iovars == <<vars, libvars>>

ASSUME IoConstants ==
  /\ {CodePages, ParaPages} \subseteq 1..BlockPages
  /\ AppSizes \subseteq Nat
  /\ MaxActive \in Nat \ {0}
  /\ MapFaults \in Nat

Buffers == {"work", "code", "para"}
Step == {"down", "regs", "call", "map", "up", "unwind"}
NoBuf == [b \in Buffers |-> NoMem]

\* IOSystemInit gets the buffers in this order...
After == [work |-> "code", code |-> "para"]
\* ...and a failure over a buffer frees the ones before it: labels err, err2, err3.
OnError == [work |-> "none", code |-> "work", para |-> "code"]
PagesOf == [code |-> CodePages, para |-> ParaPages]

-----------------------------------------------------------------------------
\* IOSystemInit

\* "Exit directly if already initialized."
InitAgain(p) ==
  /\ io[p] = "up"
  /\ vpu_active_num[p] < MaxActive
  /\ vpu_active_num' = [vpu_active_num EXCEPT ![p] = @ + 1]
  /\ UNCHANGED <<vars, io, cur, buf, faults, gaveBack>>

InitOpen(p) ==
  /\ io[p] = "down"
  /\ vpu_open(p)
  /\ io' = [io EXCEPT ![p] = "regs"]
  /\ UNCHANGED <<cur, buf, vpu_active_num, faults, gaveBack>>

\* The share memory and the registers are mapped; vpu_active_num++.
InitRegs(p) ==
  /\ io[p] = "regs"
  /\ vpu_active_num' = [vpu_active_num EXCEPT ![p] = @ + 1]
  /\ io' = [io EXCEPT ![p] = "call"]
  /\ cur' = [cur EXCEPT ![p] = "work"]
  /\ UNCHANGED <<vars, buf, faults, gaveBack>>

\* A mapping failed: the device is closed at once.
InitRegsFail(p) ==
  /\ io[p] = "regs"
  /\ faults < MapFaults
  /\ faults' = faults + 1
  /\ vpu_release(p)
  /\ io' = [io EXCEPT ![p] = "down"]
  /\ UNCHANGED <<cur, buf, vpu_active_num, gaveBack>>

\* A call for the buffer cur[p] returned d.
Got(p, d) ==
  /\ buf' = [buf EXCEPT ![p][cur[p]] = d]
  /\ io' = [io EXCEPT ![p] = "map"]
  /\ UNCHANGED <<cur, vpu_active_num, faults, gaveBack>>

\* The call or the mapping failed: goto err, err2 or err3.
Failed(p, b) ==
  /\ buf' = b
  /\ io' = [io EXCEPT ![p] = "unwind"]
  /\ cur' = [cur EXCEPT ![p] = OnError[cur[p]]]
  /\ UNCHANGED <<vpu_active_num, gaveBack>>

\* _IOGetPhyMem(VPU_IOC_GET_WORK_ADDR): the driver's buffer, allocated by the
\* first caller.
CallWork(p) ==
  /\ io[p] = "call" /\ cur[p] = "work"
  /\ \/ /\ Enters(p)
        /\ bitwork_mem # NoMem
        /\ Got(p, bitwork_mem)
        /\ UNCHANGED vars
     \/ (GetWorkAddr(p) \/ WorkCopyIn(p)) /\ UNCHANGED libvars
     \/ WorkAlloc(p) /\ Got(p, bitwork_mem')
     \/ WorkFail(p) /\ Failed(p, [buf EXCEPT ![p].work = NoMem]) /\ UNCHANGED faults

\* _IOGetPhyMem(VPU_IOC_PHYMEM_ALLOC) for the code or the parameter buffer.
CallAlloc(p) ==
  /\ io[p] = "call" /\ cur[p] # "work"
  /\ \/ PhymemAlloc(p, PagesOf[cur[p]]) /\ UNCHANGED libvars
     \/ PhymemRecord(p) /\ Got(p, mem[p])
     \/ /\ Enters(p)
        /\ ~ \E a \in Page : FirstFit(PagesOf[cur[p]], a)
        /\ Failed(p, [buf EXCEPT ![p][cur[p]] = NoMem])
        /\ UNCHANGED <<vars, faults>>

\* IOGetVirtMem of the buffer just obtained.
Map(p) ==
  /\ io[p] = "map"
  /\ IF cur[p] = "para"
       THEN io' = [io EXCEPT ![p] = "up"] /\ UNCHANGED cur
       ELSE io' = [io EXCEPT ![p] = "call"] /\ cur' = [cur EXCEPT ![p] = After[@]]
  /\ UNCHANGED <<vars, buf, vpu_active_num, faults, gaveBack>>

MapFail(p) ==
  /\ io[p] = "map"
  /\ faults < MapFaults
  /\ faults' = faults + 1
  /\ Failed(p, buf)
  /\ UNCHANGED vars

\* err3 and err2: IOFreePhyMem of code_buf, then of bit_work_addr, the
\* driver's own buffer.
Unwind(p) ==
  /\ io[p] = "unwind" /\ cur[p] # "none"
  /\ \/ /\ PhymemFree(p, buf[p][cur[p]])
        /\ gaveBack' = (gaveBack \/ cur[p] = "work")
        /\ UNCHANGED <<io, cur, buf, vpu_active_num, faults>>
     \/ /\ PhymemUnlist(p)
        /\ buf' = [buf EXCEPT ![p][cur[p]] = NoMem]
        /\ cur' = [cur EXCEPT ![p] = OnError[@]]
        /\ UNCHANGED <<io, vpu_active_num, faults, gaveBack>>

-----------------------------------------------------------------------------
\* IOSystemShutdown

\* A shutdown that closes the device whatever the count.
Shutdown_uncounted(p) ==
  /\ io[p] = "up" \/ (io[p] = "unwind" /\ cur[p] = "none")
  /\ vpu_release(p)
  /\ io' = [io EXCEPT ![p] = "down"]
  /\ vpu_active_num' = [vpu_active_num EXCEPT ![p] = @ - 1]
  /\ UNCHANGED <<cur, buf, faults, gaveBack>>

\* A shutdown that closes the device before it looks at the count.
Shutdown_closefirst(p) ==
  /\ io[p] = "up" \/ (io[p] = "unwind" /\ cur[p] = "none")
  /\ vpu_release(p)
  /\ io' = IF vpu_active_num[p] > 1 THEN io ELSE [io EXCEPT ![p] = "down"]
  /\ vpu_active_num' = [vpu_active_num EXCEPT ![p] = @ - 1]
  /\ UNCHANGED <<cur, buf, faults, gaveBack>>

\* Label err ends in IOSystemShutdown too.  The physical memory is left to the
\* driver's last close.
Shutdown(p) ==
  /\ io[p] = "up" \/ (io[p] = "unwind" /\ cur[p] = "none")
  /\ IF vpu_active_num[p] > 1
       THEN UNCHANGED <<vars, io>>
       ELSE vpu_release(p) /\ io' = [io EXCEPT ![p] = "down"]
  /\ vpu_active_num' = [vpu_active_num EXCEPT ![p] = @ - 1]
  /\ UNCHANGED <<cur, buf, faults, gaveBack>>

\* IOGetPhyMem and IOFreePhyMem on behalf of the application.
AppAlloc(p) ==
  /\ io[p] = "up"
  /\ (\E n \in AppSizes : PhymemAlloc(p, n)) \/ PhymemRecord(p)
  /\ UNCHANGED libvars

AppFree(p) ==
  /\ io[p] = "up"
  /\ (\E d \in held[p] \ {buf[p].code, buf[p].para} : PhymemFree(p, d)) \/ PhymemUnlist(p)
  /\ UNCHANGED libvars

\* The process dies: its memory is gone and the kernel closes the device.
Kill(p) ==
  /\ vpu_release(p)
  /\ io' = [io EXCEPT ![p] = "down"]
  /\ cur' = [cur EXCEPT ![p] = "none"]
  /\ buf' = [buf EXCEPT ![p] = NoBuf]
  /\ vpu_active_num' = [vpu_active_num EXCEPT ![p] = 0]
  /\ UNCHANGED <<faults, gaveBack>>

IoInit ==
  /\ Init
  /\ io = [p \in Clients |-> "down"]
  /\ cur = [p \in Clients |-> "none"]
  /\ buf = [p \in Clients |-> NoBuf]
  /\ vpu_active_num = [p \in Clients |-> 0]
  /\ faults = 0
  /\ gaveBack = FALSE

IoNext ==
  /\ \E p \in Clients :
       \/ InitAgain(p) \/ InitOpen(p) \/ InitRegs(p) \/ InitRegsFail(p)
       \/ CallWork(p) \/ CallAlloc(p) \/ Map(p) \/ MapFail(p) \/ Unwind(p)
       \/ Shutdown(p) \/ AppAlloc(p) \/ AppFree(p) \/ Kill(p)
  /\ UNCHANGED overlap

IoSpec == IoInit /\ [][IoNext]_iovars

-----------------------------------------------------------------------------
\* Properties.

\* What the variables of the library and the driver range over.
IoTypeOK ==
  /\ TypeOK
  /\ io \in [Clients -> Step]
  /\ cur \in [Clients -> Buffers \cup {"none"}]
  /\ buf \in [Clients -> [Buffers -> Desc \cup {NoMem}]]
  /\ vpu_active_num \in [Clients -> 0..MaxActive]
  /\ faults \in 0..MapFaults
  /\ gaveBack \in BOOLEAN

\* However often a process initialises, fails, shuts down or is killed, it has
\* the device open exactly while it counts active users (or is on its way into
\* or out of IOSystemInit): a failed IOSystemInit leaves nothing open, and an
\* inner shutdown closes nothing.
CountMatchesOpen ==
  \A p \in Clients :
     /\ vpu_active_num[p] > 0 => p \in open
     /\ io[p] = "down" <=> p \notin open
     /\ io[p] = "down" => vpu_active_num[p] = 0

\* Unless an earlier IOSystemInit gave the working buffer back, it stays
\* allocated and apart from every process's buffers, over any sequence of
\* inits, failed inits, shutdowns and kills (vpu_io.c: the work buffer is
\* "pre-allocated by driver").
WorkBufferKept == ~gaveBack => WorkBufferSafe

\* Unless one gave it back, every initialised process uses the working buffer
\* the driver holds, and its code and parameter buffers are its own.
InitGivesBuffers ==
  ~gaveBack => \A p \in Clients : io[p] = "up" =>
     /\ buf[p].work = bitwork_mem
     /\ {buf[p].code, buf[p].para} \subseteq held[p]
     /\ buf[p].code # buf[p].para
=============================================================================
