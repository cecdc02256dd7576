------------------------------- MODULE VpuPool -------------------------------
(***************************************************************************)
(* The driver's DMA memory (kernel/mxc_vpu.c): the boot-time page pool     *)
(* with its first-fit bitmap allocator, the list `head' of allocation      *)
(* records, the driver-held working buffer `bitwork_mem', and the          *)
(* open_count that triggers the clean-up of the last close.                *)
(*                                                                         *)
(* A client is one open of /dev/mxc_vpu with one thread in it.  An ioctl   *)
(* is split where the code leaves vpu_lock or may sleep in a user copy.    *)
(* Sizes are in pages: PAGE_ALIGN(size) >> PAGE_SHIFT.                     *)
(***************************************************************************)
EXTENDS Integers, Sequences, FiniteSets

CONSTANTS
  Clients,      \* opens of the device
  MaxBlocks,    \* VPU_POOL_MAX_BLOCKS
  BlockPages,   \* VPU_POOL_BLOCK_PAGES
  Sizes,        \* the request sizes, 0 and too large ones included
  WorkPages,    \* the working buffer's size, WORK_BUF_SIZE of the library
  OpenMod,      \* 256: open_count is a u8
  NoMem,        \* a descriptor with cpu_addr = 0
  Overlaps      \* the values of overlap to look at

VARIABLES
  nblocks,      \* vpu_pool_nblocks
  used,         \* the pages whose bit is set in a block's bitmap
  head,         \* head[a]: sizes of the records of address a, newest first
  bitwork_mem,  \* the driver's working buffer, or NoMem
  open,         \* clients that have the device open
  open_count,
  pc,           \* where client c is: in user space or inside an ioctl
  mem,          \* the descriptor of client c's ioctl in progress
  overlap,      \* FALSE: "the Toon runs a single vpu_stream", so ioctls do
                \* not overlap.  TRUE: tasks preempt each other anywhere
  held,         \* ghost: the buffers PHYMEM_ALLOC gave c and c did not free
  lost          \* ghost: pages left behind by a faulting copy_to_user

vars == <<nblocks, used, head, bitwork_mem, open, open_count, pc, mem, overlap,
          held, lost>>

ASSUME PoolConstants ==
  /\ MaxBlocks \in Nat \ {0}
  /\ BlockPages \in Nat \ {0}
  /\ Sizes \subseteq Nat
  /\ WorkPages \in Nat
  /\ Overlaps \subseteq BOOLEAN

\* The device is never open as often as a u8 can count.
ASSUME OpenCountFits ==
  /\ IsFiniteSet(Clients)
  /\ OpenMod \in Nat
  /\ Cardinality(Clients) < OpenMod

Page == (0..MaxBlocks-1) \X (0..BlockPages-1)
Desc == [addr : Page, size : 1..BlockPages]

ASSUME NoMemIsNoDesc == NoMem \notin Desc

PC == {"user", "record", "unlist", "work", "workalloc"}

\* The pages of the area of n pages that starts at a.
Area(a, n) == {p \in Page : p[1] = a[1] /\ a[2] <= p[2] /\ p[2] < a[2] + n}
Pages(d) == Area(d.addr, d.size)
WorkArea == IF bitwork_mem = NoMem THEN {} ELSE Pages(bitwork_mem)

\* The pages that some record on the list stands for.
Recorded ==
  {p \in Page : \E a \in Page : \E i \in 1..Len(head[a]) : p \in Area(a, head[a][i])}

-----------------------------------------------------------------------------
\* Mutants: plausible slips in the definitions that follow them.

\* The zero-area search looks at one page too few.
Fit_short(n) ==
  {a \in Page : /\ a[1] < nblocks
                /\ a[2] + n <= BlockPages
                /\ Area(a, n - 1) \cap used = {}}

-----------------------------------------------------------------------------
\* vpu_pool_alloc

\* Areas of n free pages inside one reserved block.
Fit(n) ==
  {a \in Page : /\ a[1] < nblocks
                /\ a[2] + n <= BlockPages
                /\ Area(a, n) \cap used = {}}

\* The search without its size check.
FirstFit_unchecked(n, a) ==
  /\ a \in Fit(n)
  /\ \A b \in Fit(n) : a[1] < b[1] \/ (a[1] = b[1] /\ a[2] <= b[2])

\* The search takes the first block that fits, and in it the lowest area;
\* it refuses npages = 0 and npages > VPU_POOL_BLOCK_PAGES.
FirstFit(n, a) ==
  /\ n \in 1..BlockPages
  /\ a \in Fit(n)
  /\ \A b \in Fit(n) : a[1] < b[1] \/ (a[1] = b[1] /\ a[2] <= b[2])

\* A client enters the driver, or runs on inside it.
Runs(c) ==
  /\ c \in open
  /\ overlap \/ \A o \in Clients \ {c} : pc[o] = "user"

Enters(c) == Runs(c) /\ pc[c] = "user"

-----------------------------------------------------------------------------
\* vpu_open, vpu_release

vpu_open(c) ==
  /\ c \notin open
  /\ open' = open \cup {c}
  /\ open_count' = (open_count + 1) % OpenMod
  /\ UNCHANGED <<nblocks, used, head, bitwork_mem, pc, mem, held, lost>>

\* A last close that forgets the pages of the records.
vpu_free_buffers_leaks ==
  /\ head' = [a \in Page |-> <<>>]
  /\ UNCHANGED used

\* A last close that empties the whole bitmap, the working buffer included.
vpu_free_buffers_all ==
  /\ head' = [a \in Page |-> <<>>]
  /\ used' = {}

\* vpu_free_buffers: unmark the pages of every record, drop the records.
vpu_free_buffers ==
  /\ head' = [a \in Page |-> <<>>]
  /\ used' = used \ Recorded

\* A release that cleans up although other clients stay open.
vpu_release_eager(c) ==
  /\ c \in open
  /\ pc[c] = "user"
  /\ open' = open \ {c}
  /\ held' = [held EXCEPT ![c] = {}]
  /\ open_count' = IF open_count > 0 THEN open_count - 1 ELSE 0
  /\ vpu_free_buffers
  /\ UNCHANGED <<nblocks, bitwork_mem, pc, mem, lost>>

\* The buffers of c stay allocated and recorded until the last close; the
\* working buffer and the share memory survive even that.
vpu_release(c) ==
  /\ c \in open
  /\ pc[c] = "user"
  /\ open' = open \ {c}
  /\ held' = [held EXCEPT ![c] = {}]
  /\ open_count' = IF open_count > 0 THEN open_count - 1 ELSE 0
  /\ IF open_count = 1 THEN vpu_free_buffers ELSE UNCHANGED <<used, head>>
  /\ UNCHANGED <<nblocks, bitwork_mem, pc, mem, lost>>

-----------------------------------------------------------------------------
\* VPU_IOC_PHYMEM_ALLOC: mark the pages (under vpu_lock), copy the descriptor
\* to the user, then add the record (under vpu_lock).  A request that does not
\* fit returns an error and changes nothing.

PhymemAlloc(c, n) ==
  /\ Enters(c)
  /\ \E a \in Page :
        /\ FirstFit(n, a)
        /\ used' = used \cup Area(a, n)
        /\ mem' = [mem EXCEPT ![c] = [addr |-> a, size |-> n]]
  /\ pc' = [pc EXCEPT ![c] = "record"]
  /\ UNCHANGED <<nblocks, head, bitwork_mem, open, open_count, held, lost>>

\* The descriptor reaches the user but list_add is forgotten.
PhymemRecord_unlisted(c) ==
  /\ Runs(c)
  /\ pc[c] = "record"
  /\ held' = [held EXCEPT ![c] = @ \cup {mem[c]}]
  /\ pc' = [pc EXCEPT ![c] = "user"]
  /\ mem' = [mem EXCEPT ![c] = NoMem]
  /\ UNCHANGED <<nblocks, used, head, bitwork_mem, open, open_count, lost>>

PhymemRecord(c) ==
  /\ Runs(c)
  /\ pc[c] = "record"
  /\ head' = [head EXCEPT ![mem[c].addr] = <<mem[c].size>> \o @]
  /\ held' = [held EXCEPT ![c] = @ \cup {mem[c]}]
  /\ pc' = [pc EXCEPT ![c] = "user"]
  /\ mem' = [mem EXCEPT ![c] = NoMem]
  /\ UNCHANGED <<nblocks, used, bitwork_mem, open, open_count, lost>>

\* copy_to_user faults: the record is freed, the pages stay marked for good.
PhymemFault(c) ==
  /\ Runs(c)
  /\ pc[c] = "record"
  /\ lost' = lost \cup Pages(mem[c])
  /\ pc' = [pc EXCEPT ![c] = "user"]
  /\ mem' = [mem EXCEPT ![c] = NoMem]
  /\ UNCHANGED <<nblocks, used, head, bitwork_mem, open, open_count, held>>

-----------------------------------------------------------------------------
\* VPU_IOC_PHYMEM_FREE: unmark the pages the user's descriptor names (under
\* vpu_lock), then remove the first record of that address (under vpu_lock).

\* The clear runs one page past the buffer.
PhymemFree_over(c, d) ==
  /\ Enters(c)
  /\ used' = used \ Area(d.addr, d.size + 1)
  /\ mem' = [mem EXCEPT ![c] = d]
  /\ held' = [held EXCEPT ![c] = @ \ {d}]
  /\ pc' = [pc EXCEPT ![c] = "unlist"]
  /\ UNCHANGED <<nblocks, head, bitwork_mem, open, open_count, lost>>

PhymemFree(c, d) ==
  /\ Enters(c)
  /\ used' = used \ Pages(d)
  /\ mem' = [mem EXCEPT ![c] = d]
  /\ held' = [held EXCEPT ![c] = @ \ {d}]
  /\ pc' = [pc EXCEPT ![c] = "unlist"]
  /\ UNCHANGED <<nblocks, head, bitwork_mem, open, open_count, lost>>

\* The record is left on the list.
PhymemUnlist_kept(c) ==
  /\ Runs(c)
  /\ pc[c] = "unlist"
  /\ pc' = [pc EXCEPT ![c] = "user"]
  /\ mem' = [mem EXCEPT ![c] = NoMem]
  /\ UNCHANGED <<nblocks, used, head, bitwork_mem, open, open_count, held, lost>>

PhymemUnlist(c) ==
  /\ Runs(c)
  /\ pc[c] = "unlist"
  /\ head' = [head EXCEPT ![mem[c].addr] = IF @ = <<>> THEN @ ELSE Tail(@)]
  /\ pc' = [pc EXCEPT ![c] = "user"]
  /\ mem' = [mem EXCEPT ![c] = NoMem]
  /\ UNCHANGED <<nblocks, used, bitwork_mem, open, open_count, held, lost>>

-----------------------------------------------------------------------------
\* VPU_IOC_GET_WORK_ADDR, without any lock: when bitwork_mem is set the ioctl
\* only copies it out; otherwise it copies the user's descriptor (an address
\* of 0 and a size) over bitwork_mem and then allocates.

GetWorkAddr(c) ==
  /\ Enters(c)
  /\ bitwork_mem = NoMem
  /\ pc' = [pc EXCEPT ![c] = "work"]
  /\ UNCHANGED <<nblocks, used, head, bitwork_mem, open, open_count, mem, held, lost>>

WorkCopyIn(c) ==
  /\ Runs(c)
  /\ pc[c] = "work"
  /\ bitwork_mem' = NoMem
  /\ pc' = [pc EXCEPT ![c] = "workalloc"]
  /\ UNCHANGED <<nblocks, used, head, open, open_count, mem, held, lost>>

WorkAlloc(c) ==
  /\ Runs(c)
  /\ pc[c] = "workalloc"
  /\ \E a \in Page :
        /\ FirstFit(WorkPages, a)
        /\ used' = used \cup Area(a, WorkPages)
        /\ bitwork_mem' = [addr |-> a, size |-> WorkPages]
  /\ pc' = [pc EXCEPT ![c] = "user"]
  /\ UNCHANGED <<nblocks, head, open, open_count, mem, held, lost>>

WorkFail(c) ==
  /\ Runs(c)
  /\ pc[c] = "workalloc"
  /\ ~ \E a \in Page : FirstFit(WorkPages, a)
  /\ pc' = [pc EXCEPT ![c] = "user"]
  /\ UNCHANGED <<nblocks, used, head, bitwork_mem, open, open_count, mem, held, lost>>

-----------------------------------------------------------------------------
\* vpu_exit and vpu_init: the module is replaced while nobody has it open.
\* alloc_pages may run dry, so the new pool has any number of blocks.
Reload ==
  /\ open = {}
  /\ nblocks' \in 0..MaxBlocks
  /\ used' = {}
  /\ head' = [a \in Page |-> <<>>]
  /\ bitwork_mem' = NoMem
  /\ open_count' = 0
  /\ lost' = {}
  /\ UNCHANGED <<open, pc, mem, held>>

Init ==
  /\ nblocks \in 0..MaxBlocks
  /\ used = {}
  /\ head = [a \in Page |-> <<>>]
  /\ bitwork_mem = NoMem
  /\ open = {}
  /\ open_count = 0
  /\ pc = [c \in Clients |-> "user"]
  /\ mem = [c \in Clients |-> NoMem]
  /\ overlap \in Overlaps
  /\ held = [c \in Clients |-> {}]
  /\ lost = {}

\* What client c may do; it frees only buffers PHYMEM_ALLOC gave it.
ClientStep(c) ==
  \/ vpu_open(c)
  \/ vpu_release(c)
  \/ \E n \in Sizes : PhymemAlloc(c, n)
  \/ PhymemRecord(c)
  \/ PhymemFault(c)
  \/ \E d \in held[c] : PhymemFree(c, d)
  \/ PhymemUnlist(c)
  \/ GetWorkAddr(c)
  \/ WorkCopyIn(c)
  \/ WorkAlloc(c)
  \/ WorkFail(c)

Next ==
  /\ Reload \/ \E c \in Clients : ClientStep(c)
  /\ UNCHANGED overlap

Spec == Init /\ [][Next]_vars

-----------------------------------------------------------------------------
\* Properties.

\* Types of the driver's state; the descriptor of an ioctl that is past its
\* allocation is a real one.
TypeOK ==
  /\ nblocks \in 0..MaxBlocks
  /\ used \subseteq Page
  /\ head \in [Page -> Seq(1..BlockPages)]
  /\ bitwork_mem \in Desc \cup {NoMem}
  /\ open \subseteq Clients
  /\ open_count \in 0..OpenMod-1
  /\ pc \in [Clients -> PC]
  /\ mem \in [Clients -> Desc \cup {NoMem}]
  /\ overlap \in BOOLEAN
  /\ held \in [Clients -> SUBSET Desc]
  /\ lost \subseteq Page
  /\ \A c \in Clients : pc[c] \in {"record", "unlist"} => mem[c] \in Desc

\* The buffers a client may write to, or is about to be told of.
Live(c) == held[c] \cup (IF pc[c] = "record" THEN {mem[c]} ELSE {})

\* However the ioctls of several processes interleave, a client's buffer keeps
\* all its pages marked in the bitmap until that client frees it
\* (vpu_pool_alloc, vpu_pool_free and vpu_release's clean-up).
LiveMarked ==
  \A c \in Clients : \A d \in Live(c) : Pages(d) \subseteq used

\* Two buffers in use never share a page, whoever owns them, however the
\* ioctls interleave (vpu_pool_alloc under vpu_lock).
LiveDisjoint ==
  \A c1, c2 \in Clients : \A d1 \in Live(c1), d2 \in Live(c2) :
     (c1 # c2 \/ d1 # d2) => Pages(d1) \cap Pages(d2) = {}

\* The working buffer the BIT processor uses stays allocated over closes and
\* shares no page with a client's buffer (GET_WORK_ADDR, vpu_release).
WorkBufferSafe ==
  /\ WorkArea \subseteq used
  /\ \A c \in Clients : \A d \in Live(c) : Pages(d) \cap WorkArea = {}

\* Whenever no free is in progress, every buffer a client holds is tracked by
\* exactly one record, of its size, so that the last close returns precisely
\* its pages (mxc_vpu.c: "To track the allocated memory buffer").
RecordsTrack ==
  (\A c \in Clients : pc[c] # "unlist") =>
  \A c \in Clients : \A d \in held[c] : head[d.addr] = <<d.size>>

\* No page leaks: a marked page belongs to a record, to an allocation or free
\* in progress, to the working buffer, or to a copy_to_user fault; and once
\* the device is closed only the latter two remain (vpu_release).
Accounted ==
  /\ used \subseteq Recorded \cup WorkArea \cup lost
                    \cup UNION {Pages(mem[c]) : c \in {x \in Clients : pc[x] = "record"}}
  /\ open = {} => used \subseteq WorkArea \cup lost

\* As long as ioctls do not overlap, no sequence of allocations, faults, frees,
\* closes and GET_WORK_ADDR calls breaks WorkBufferSafe.
SerialWorkBuffer == ~overlap => WorkBufferSafe

\* As long as ioctls do not overlap, PHYMEM_ALLOC and PHYMEM_FREE keep the records
\* in step with the buffers.
SerialRecords == ~overlap => RecordsTrack

\* As long as ioctls do not overlap, no page leaks, and the last close returns
\* every client's pages.
SerialAccounted == ~overlap => Accounted

\* The driver implements the promise of module PagePool.
Promise == INSTANCE PagePool WITH granted <- [c \in Clients |-> {Pages(d) : d \in held[c]}]
PoolPromise == Promise!Spec
=============================================================================
